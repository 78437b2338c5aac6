--------------------------- MODULE Matching_proofs --------------------------
(* What the pipeline records and answers while rows are written and purged *)
(* around it, and that it keeps the promise of Introductions, for any      *)
(* number of requests, rows, events and people.                            *)
EXTENDS Matching, MeetupDB_proofs

-----------------------------------------------------------------------------
(* The invariant *)

(* From the count of the others to the rows of the hits.                   *)
OpenStages == {"count", "total", "requester", "vector", "search", "rows"}

(* The tables are arguments: att, emb and conn for attendees, embeddings   *)
(* and connections, and ids for uuids.                                     *)
Recorded(r, some, att, conn) ==
    \A b \in some \ r.lost :
      \/ [event |-> r.event, from |-> r.self, to |-> b] \in conn
      \/ ~ {r.self, b} \subseteq DOMAIN att

CheckedIn(r) == r.via = "checkin" /\ r.answer \in {"success", "silence"}

(* A row id that a request holds was generated and is never generated      *)
(* again: so a row that is gone stays gone, and one that is there is the   *)
(* row the request has read or written.                                    *)
Good(r, att, emb, conn, ids) ==
    /\ r.stage # "done" => r.answer = "none"
    /\ r.answer = "success" => r.via = "checkin"
    /\ r.stage \in OpenStages \cup {"store"} =>
         /\ r.via \in {"chat", "match"} /\ r.event \in Events
         /\ r.self \in AttendeeIds /\ r.self \in ids
         /\ r.self \in DOMAIN att => att[r.self].event = r.event
    /\ r.stage \in OpenStages => {b \in DOMAIN emb : emb[b] = r.event} \subseteq r.met
    /\ r.stage = "rows" => r.found \subseteq r.met
    /\ r.stage \in {"rows", "store"} =>
         /\ r.found \subseteq ids /\ r.self \notin r.found
         /\ \A b \in r.found : b \in DOMAIN att => att[b].event = r.event
    /\ r.stage = "store" => r.left \subseteq r.found /\ Recorded(r, r.found \ r.left, att, conn)
    /\ r.answer = "matches" =>
         r.self \in ids /\ r.found \subseteq ids /\ Recorded(r, r.found, att, conn)
    /\ r.stage = "resolve" => r.via = "match"
    /\ r.stage \in Checkin => r.via = "checkin"
    /\ r.stage \in Checkin \cup {"resolve"} => r.event \in Events /\ r.member \in Members
    /\ r.stage \in {"write_vector", "count_all"} \/ CheckedIn(r) =>
         /\ r.self \in ids
         /\ r.self \in DOMAIN att => att[r.self] = [event |-> r.event, member |-> r.member]
    /\ r.stage = "count_all" \/ CheckedIn(r) => (r.self \in DOMAIN att => r.self \in DOMAIN emb)

MInv ==
    /\ TypeOK /\ DBInv
    /\ \A q \in Requests : Good(requests[q], attendees, embeddings, connections, uuids)

-----------------------------------------------------------------------------
(* What happens to a request that does not move *)

(* No id is generated twice, and what is in a table stays unless a row it  *)
(* needs goes.                                                             *)
Lasts(att, emb, conn, ids, att2, emb2, conn2, ids2) ==
    /\ ids \subseteq ids2
    /\ \A b \in ids : b \in DOMAIN att2 => b \in DOMAIN att /\ att2[b] = att[b]
    /\ \A b \in DOMAIN emb : b \in DOMAIN att2 => b \in DOMAIN emb2
    /\ \A c \in conn : c \in conn2 \/ ~ {c.from, c.to} \subseteq DOMAIN att2

(* Its facts last, if it has met whoever the search can find now.          *)
LEMMA GoodLasts ==
  ASSUME NEW r, NEW s, NEW att, NEW emb, NEW conn, NEW ids,
         NEW att2, NEW emb2, NEW conn2, NEW ids2,
         Good(r, att, emb, conn, ids), Lasts(att, emb, conn, ids, att2, emb2, conn2, ids2),
         s.stage = r.stage, s.via = r.via, s.event = r.event, s.member = r.member,
         s.self = r.self, s.found = r.found, s.left = r.left, s.lost = r.lost,
         s.answer = r.answer, r.met \subseteq s.met,
         s.stage \in OpenStages => {b \in DOMAIN emb2 : emb2[b] = s.event} \subseteq s.met
  PROVE  Good(s, att2, emb2, conn2, ids2)
<1>1. ASSUME NEW some, some \subseteq ids, r.self \in ids, Recorded(r, some, att, conn)
      PROVE  Recorded(s, some, att2, conn2)
  <2> SUFFICES ASSUME NEW b \in some \ r.lost, {r.self, b} \subseteq DOMAIN att2
               PROVE  [event |-> r.event, from |-> r.self, to |-> b] \in conn2
    BY DEF Recorded
  <2> DEFINE c == [event |-> r.event, from |-> r.self, to |-> b]
  <2>1. {r.self, b} \subseteq DOMAIN att
    BY <1>1 DEF Lasts
  <2>2. c \in conn
    BY <1>1, <2>1 DEF Recorded
  <2>3. c.from = r.self /\ c.to = b
    OBVIOUS
  <2> HIDE DEF c
  <2>4. c \in conn2
    BY <2>2, <2>3 DEF Lasts
  <2> QED BY <2>4 DEF c
<1>2. ids \subseteq ids2
  BY DEF Lasts
<1>3. /\ s.stage # "done" => s.answer = "none"
      /\ s.answer = "success" => s.via = "checkin"
      /\ s.stage = "resolve" => s.via = "match"
      /\ s.stage \in Checkin => s.via = "checkin"
      /\ s.stage \in Checkin \cup {"resolve"} => s.event \in Events /\ s.member \in Members
  BY DEF Good
<1>4. s.stage \in OpenStages \cup {"store"} =>
        /\ s.via \in {"chat", "match"} /\ s.event \in Events
        /\ s.self \in AttendeeIds /\ s.self \in ids2
        /\ s.self \in DOMAIN att2 => att2[s.self].event = s.event
  BY DEF Good, Lasts
<1>5. s.stage = "rows" => s.found \subseteq s.met
  BY DEF Good
<1>6. s.stage \in {"rows", "store"} =>
        /\ s.found \subseteq ids2 /\ s.self \notin s.found
        /\ \A b \in s.found : b \in DOMAIN att2 => att2[b].event = s.event
  BY DEF Good, Lasts
<1>7. s.stage = "store" =>
        s.left \subseteq s.found /\ Recorded(s, s.found \ s.left, att2, conn2)
  BY <1>1 DEF Good
<1>8. s.answer = "matches" =>
        s.self \in ids2 /\ s.found \subseteq ids2 /\ Recorded(s, s.found, att2, conn2)
  BY <1>1, <1>2 DEF Good
<1>9. s.stage \in {"write_vector", "count_all"} \/ CheckedIn(s) =>
        /\ s.self \in ids2
        /\ s.self \in DOMAIN att2 => att2[s.self] = [event |-> s.event, member |-> s.member]
  BY DEF Good, Lasts, CheckedIn
<1>10. s.stage = "count_all" \/ CheckedIn(s) => (s.self \in DOMAIN att2 => s.self \in DOMAIN emb2)
  BY DEF Good, Lasts, CheckedIn
<1> QED BY <1>3, <1>4, <1>5, <1>6, <1>7, <1>8, <1>9, <1>10 DEF Good

(* Tables that nobody touches last.                                        *)
LEMMA SameLasts ==
  ASSUME NEW att, NEW emb, NEW conn, NEW ids
  PROVE  Lasts(att, emb, conn, ids, att, emb, conn, ids)
BY DEF Lasts

(* A request that ends is idle again, or keeps what a property looks back  *)
(* at.                                                                     *)
LEMMA EndedGood ==
  ASSUME NEW r \in Request, NEW answer,
         answer \in {"matches", "success", "silence"} => answer \in Answers,
         NEW att, NEW emb, NEW conn, NEW ids,
         answer = "matches" =>
           r.self \in ids /\ r.found \subseteq ids /\ Recorded(r, r.found, att, conn),
         answer \in {"matches", "success"} => (answer = "success" <=> r.via = "checkin"),
         answer \in {"success", "silence"} /\ r.via = "checkin" =>
           /\ r.self \in ids
           /\ r.self \in DOMAIN att =>
                att[r.self] = [event |-> r.event, member |-> r.member] /\ r.self \in DOMAIN emb
  PROVE  /\ Ended(r, answer) \in Request /\ Ended(r, answer).stage \in {"idle", "done"}
         /\ Good(Ended(r, answer), att, emb, conn, ids)
<1> DEFINE s == Ended(r, answer)
<1>1. CASE answer \notin Remembered \/ (answer = "silence" /\ r.via # "checkin")
  <2>1. s = Idle
    BY <1>1 DEF Ended
  <2>2. /\ Idle \in Request /\ Idle.stage = "idle" /\ Idle.answer = "none" /\ Idle.via = "none"
    BY DEF Idle, Request, Stages, Answers
  <2>3. Good(Idle, att, emb, conn, ids)
    BY <2>2 DEF Good, OpenStages, Checkin, CheckedIn
  <2> QED BY <2>1, <2>2, <2>3
<1>2. CASE answer \in Remembered /\ (answer = "silence" => r.via = "checkin")
  <2> DEFINE member == IF r.via = "checkin" THEN r.member ELSE NoMember
  <2>1. s = [r EXCEPT !.stage = "done", !.answer = answer, !.met = {}, !.member = member]
    BY <1>2 DEF Ended
  <2>2. member \in Members \cup {NoMember} /\ (r.via = "checkin" => member = r.member)
    BY DEF Request
  <2>3. answer \in {"matches", "success", "silence"} /\ "done" \in Stages /\ answer \in Answers
    BY <1>2 DEF Remembered, Stages, Answers
  <2> HIDE DEF member, s
  <2>4. /\ s \in Request /\ s.stage = "done" /\ s.answer = answer /\ s.via = r.via
        /\ s.event = r.event /\ s.self = r.self /\ s.found = r.found /\ s.lost = r.lost
        /\ s.member = member
    BY <2>1, <2>2, <2>3 DEF Request
  <2>5. Recorded(r, r.found, att, conn) => Recorded(s, s.found, att, conn)
    BY <2>4 DEF Recorded
  <2>6. Good(s, att, emb, conn, ids)
    BY <1>2, <2>2, <2>3, <2>4, <2>5 DEF Good, OpenStages, Checkin, CheckedIn
  <2> QED BY <2>4, <2>6 DEF s
<1> QED BY <1>1, <1>2

-----------------------------------------------------------------------------
(* One request moves *)

Counters ==
    failures' \in 0..MaxFailures /\ begun' \in 0..MaxBegun /\ unreadable' \in SUBSET Members

(* One request moves and the search finds no more than before.             *)
LEMMA MoveMInv ==
  ASSUME MInv, NEW q \in Requests, NEW r \in Request, Set(q, r), Counters, DBInv',
         Lasts(attendees, embeddings, connections, uuids,
               attendees', embeddings', connections', uuids'),
         \A b \in DOMAIN embeddings' : b \in DOMAIN embeddings /\ embeddings'[b] = embeddings[b],
         Good(r, attendees', embeddings', connections', uuids')
  PROVE  MInv'
<1>1. /\ requests \in [Requests -> Request] /\ requests' = [requests EXCEPT ![q] = r]
      /\ \A p \in Requests : requests'[p] = IF p = q THEN r ELSE requests[p]
  BY DEF MInv, TypeOK, Set
<1>2. TypeOK'
  BY <1>1 DEF TypeOK, Counters
<1>3. ASSUME NEW p \in Requests, p # q
      PROVE  Good(requests[p], attendees', embeddings', connections', uuids')
  <2>1. Good(requests[p], attendees, embeddings, connections, uuids)
    BY DEF MInv
  <2>2. requests[p].stage \in OpenStages =>
          {b \in DOMAIN embeddings' : embeddings'[b] = requests[p].event} \subseteq requests[p].met
    BY <2>1 DEF Good
  <2> QED BY <2>1, <2>2, GoodLasts
<1> QED BY <1>1, <1>2, <1>3 DEF MInv

(* One request moves and no table changes.                                 *)
LEMMA ReadMInv ==
  ASSUME MInv, NEW q \in Requests, NEW r \in Request, Set(q, r), Counters, UNCHANGED dbVars,
         Good(r, attendees, embeddings, connections, uuids)
  PROVE  MInv'
<1>1. /\ attendees' = attendees /\ embeddings' = embeddings /\ connections' = connections
      /\ uuids' = uuids /\ events' = events
  BY DEF dbVars
<1>2. DBInv'
  BY <1>1 DEF MInv, DBInv, DBTypeOK, RowsConsistent, IdsGenerated
<1>3. Lasts(attendees, embeddings, connections, uuids,
            attendees', embeddings', connections', uuids')
  BY <1>1, SameLasts
<1> QED BY <1>1, <1>2, <1>3, MoveMInv

(* A request ends without a table changing, and not with one of the        *)
(* answers that say what is in them.                                       *)
LEMMA EndsMInv ==
  ASSUME MInv, NEW q \in Requests, NEW answer,
         answer \notin {"matches", "success", "silence"},
         Answered(q, answer), Counters, UNCHANGED dbVars
  PROVE  MInv'
<1>1. requests[q] \in Request
  BY DEF MInv, TypeOK
<1>2. /\ Ended(requests[q], answer) \in Request
      /\ Good(Ended(requests[q], answer), attendees, embeddings, connections, uuids)
  BY <1>1, EndedGood
<1>3. Set(q, Ended(requests[q], answer))
  BY DEF Answered
<1> QED BY <1>2, <1>3, ReadMInv

(* A request only reads, and counts nothing or one more failure.           *)
LEMMA CountersKept ==
  ASSUME MInv,
         \/ OnlyRead
         \/ failures < MaxFailures /\ failures' = failures + 1
            /\ UNCHANGED <<dbVars, begun, unreadable>>
  PROVE  Counters /\ UNCHANGED dbVars
BY MatchingAssumption DEF MInv, TypeOK, Counters, OnlyRead

(* A request goes on to a later stage of the same pipeline.                *)
LEMMA GoesMInv ==
  ASSUME MInv, NEW q \in Requests, NEW stage, Goes(q, stage), Counters, UNCHANGED dbVars,
         \/ /\ requests[q].stage \in OpenStages
            /\ stage \in {"requester", "vector", "search"}
         \/ /\ requests[q].stage = "profiles"
            /\ stage = "row"
  PROVE  MInv'
<1> DEFINE h == requests[q]
           r == [h EXCEPT !.stage = stage]
<1>1. h \in Request /\ Good(h, attendees, embeddings, connections, uuids)
  BY DEF MInv, TypeOK
<1>2. stage \in {"requester", "vector", "search", "row"}
  OBVIOUS
<1>3. Set(q, r)
  BY DEF Goes
<1>4. (h.stage \in OpenStages /\ stage \in OpenStages) \/ (h.stage = "profiles" /\ stage = "row")
  BY DEF OpenStages
<1> HIDE DEF h
<1>5. /\ r \in Request /\ r.stage = stage /\ r.via = h.via /\ r.event = h.event
      /\ r.member = h.member /\ r.self = h.self /\ r.met = h.met /\ r.answer = h.answer
  <2>1. stage \in Stages
    BY <1>2 DEF Stages, Pipeline, Checkin
  <2> QED BY <1>1, <2>1 DEF Request
<1> HIDE DEF r
<1>6. Good(r, attendees, embeddings, connections, uuids)
  BY <1>1, <1>2, <1>4, <1>5 DEF Good, OpenStages, Checkin, CheckedIn
<1> QED BY <1>3, <1>5, <1>6, ReadMInv

(* A statement on the tables: nothing is generated twice, and what goes    *)
(* goes with the row it needs.                                             *)
LEMMA UpsertAttendeeLasts ==
  ASSUME DBInv, NEW e \in Events, NEW m \in Members, NEW a \in AttendeeIds,
         UpsertAttendee(e, m, a)
  PROVE  /\ Lasts(attendees, embeddings, connections, uuids,
                  attendees', embeddings', connections', uuids')
         /\ embeddings' = embeddings
         /\ a \in DOMAIN attendees' /\ attendees'[a] = [event |-> e, member |-> m]
         /\ a \in uuids'
<1>0. DOMAIN attendees \subseteq uuids /\ attendees \in [DOMAIN attendees -> Attendee]
      /\ DOMAIN embeddings \subseteq DOMAIN attendees
      /\ \A c \in connections : {c.from, c.to} \subseteq DOMAIN attendees
  BY DEF DBInv, IdsGenerated, DBTypeOK, RowsConsistent
<1>1. UNCHANGED <<embeddings, connections>>
  BY DEF UpsertAttendee
<1>2. CASE a \in RowsOf(e, m) /\ UNCHANGED <<attendees, uuids>>
  <2>1. a \in DOMAIN attendees /\ attendees[a].event = e /\ attendees[a].member = m
    BY <1>2 DEF RowsOf
  <2>2. attendees[a] = [event |-> e, member |-> m]
    BY <1>0, <2>1 DEF Attendee
  <2> QED BY <1>0, <1>1, <1>2, <2>1, <2>2, SameLasts
<1>3. CASE /\ RowsOf(e, m) = {} /\ a \notin uuids /\ uuids' = uuids \cup {a}
           /\ attendees' = [b \in DOMAIN attendees \cup {a} |->
                              IF b = a THEN [event |-> e, member |-> m] ELSE attendees[b]]
  <2>1. /\ DOMAIN attendees' = DOMAIN attendees \cup {a}
        /\ attendees'[a] = [event |-> e, member |-> m]
        /\ \A b \in DOMAIN attendees : b # a => attendees'[b] = attendees[b]
    BY <1>3
  <2> QED BY <1>0, <1>1, <1>3, <2>1 DEF Lasts
<1> QED BY <1>2, <1>3 DEF UpsertAttendee

(* A vector is added to those of the rows that are there.                  *)
LEMMA UpsertEmbeddingLasts ==
  ASSUME DBInv, NEW a \in DOMAIN attendees, NEW e, UpsertEmbedding(a, e)
  PROVE  /\ Lasts(attendees, embeddings, connections, uuids,
                  attendees', embeddings', connections', uuids')
         /\ DOMAIN embeddings' = DOMAIN embeddings \cup {a}
         /\ \A b \in DOMAIN embeddings : embeddings'[b] = embeddings[b]
         /\ UNCHANGED <<events, attendees, connections, uuids>>
BY DEF UpsertEmbedding, Lasts

(* A connection is added.                                                  *)
LEMMA InsertConnectionLasts ==
  ASSUME NEW e, NEW a, NEW b, InsertConnection(e, a, b)
  PROVE  /\ Lasts(attendees, embeddings, connections, uuids,
                  attendees', embeddings', connections', uuids')
         /\ [event |-> e, from |-> a, to |-> b] \in connections'
         /\ UNCHANGED <<events, attendees, embeddings, uuids>>
BY DEF InsertConnection, Lasts

(* A purge takes whatever needs the rows it takes.                         *)
LEMMA PurgeLasts ==
  ASSUME NEW gone, NEW es, Purge(gone, es)
  PROVE  /\ Lasts(attendees, embeddings, connections, uuids,
                  attendees', embeddings', connections', uuids')
         /\ DOMAIN attendees' \subseteq DOMAIN attendees
         /\ \A b \in DOMAIN attendees' : attendees'[b] = attendees[b]
         /\ \A b \in DOMAIN embeddings' : b \in DOMAIN embeddings /\ embeddings'[b] = embeddings[b]
<1> DEFINE dead == Cascade(gone, es)
<1>1. /\ attendees' = [a \in DOMAIN attendees \ dead |-> attendees[a]]
      /\ embeddings' = [a \in DOMAIN embeddings \ dead |-> embeddings[a]]
      /\ connections' = {c \in connections : c.from \notin dead /\ c.to \notin dead}
      /\ uuids' = uuids
  BY DEF Purge
<1> HIDE DEF dead
<1>2. /\ DOMAIN attendees' = DOMAIN attendees \ dead
      /\ \A a \in DOMAIN attendees' : attendees'[a] = attendees[a]
      /\ DOMAIN embeddings' = DOMAIN embeddings \ dead
      /\ \A a \in DOMAIN embeddings' : embeddings'[a] = embeddings[a]
  BY <1>1
<1> QED BY <1>1, <1>2 DEF Lasts

-----------------------------------------------------------------------------
(* get_matches *)

(* The requester's row is read, or was purged.                             *)
LEMMA FetchRequesterMInv ==
  ASSUME MInv, NEW q \in Requests, FetchRequester(q)
  PROVE  MInv'
<1> DEFINE h == requests[q]
           valid == h.member \notin unreadable
           r == [h EXCEPT !.stage = "vector", !.valid = valid]
<1>1. /\ h \in Request /\ Good(h, attendees, embeddings, connections, uuids)
      /\ h.stage = "requester"
  BY DEF MInv, TypeOK, FetchRequester, At
<1>2. Counters /\ UNCHANGED dbVars
  BY CountersKept DEF FetchRequester
<1>3. CASE Raised(q)
  BY <1>2, <1>3, EndsMInv DEF Raised
<1>4. CASE Set(q, r)
  <2>1. valid \in BOOLEAN /\ "vector" \in Stages
    BY DEF Stages, Pipeline
  <2> HIDE DEF h, valid
  <2>2. /\ r \in Request /\ r.stage = "vector" /\ r.via = h.via /\ r.event = h.event
        /\ r.member = h.member /\ r.self = h.self /\ r.met = h.met /\ r.answer = h.answer
    BY <1>1, <2>1 DEF Request
  <2> HIDE DEF r
  <2>3. Good(r, attendees, embeddings, connections, uuids)
    BY <1>1, <2>2 DEF Good, OpenStages, Checkin, CheckedIn
  <2> QED BY <1>2, <1>4, <2>2, <2>3, ReadMInv
<1> QED BY <1>3, <1>4 DEF FetchRequester

(* The steps that go on to the next query or give up.                      *)
LEMMA ReadingMInv ==
  ASSUME MInv, NEW q \in Requests,
         \/ FetchQueryVector(q) \/ PipelineFails(q)
         \/ CountPeers(q) \/ CountPeersFails(q) \/ CountTotal(q)
         \/ FetchProfiles(q) \/ CheckinRefused(q)
  PROVE  MInv'
<1>1. CASE FetchQueryVector(q)
  BY <1>1, CountersKept, GoesMInv, EndsMInv DEF FetchQueryVector, At, Empty, OpenStages
<1>2. CASE PipelineFails(q)
  BY <1>2, CountersKept, EndsMInv DEF PipelineFails, Raised
<1>3. CASE CountPeers(q)
  BY <1>3, CountersKept, GoesMInv, EndsMInv DEF CountPeers, At, OpenStages
<1>4. CASE CountPeersFails(q)
  BY <1>4, CountersKept, GoesMInv DEF CountPeersFails, At, OpenStages
<1>5. CASE CountTotal(q)
  BY <1>5, CountersKept, GoesMInv, EndsMInv DEF CountTotal, At, OpenStages
<1>6. CASE FetchProfiles(q)
  BY <1>6, CountersKept, GoesMInv DEF FetchProfiles, At
<1>7. CASE CheckinRefused(q)
  <2>1. UNCHANGED <<dbVars, begun, unreadable>>
        /\ (failures' = failures \/ (failures < MaxFailures /\ failures' = failures + 1))
    BY <1>7, MatchingAssumption DEF CheckinRefused, MInv, TypeOK
  <2>2. Counters /\ UNCHANGED dbVars
    BY <2>1, CountersKept DEF OnlyRead
  <2> QED BY <1>7, <2>2, EndsMInv DEF CheckinRefused
<1> QED BY <1>1, <1>2, <1>3, <1>4, <1>5, <1>6, <1>7

(* The hits are rows of the event, and none of them the requester's own.   *)
LEMMA SearchMInv ==
  ASSUME MInv, NEW q \in Requests, SimilaritySearch(q)
  PROVE  MInv'
<1>0. CASE Empty(q)
  BY <1>0, CountersKept, EndsMInv DEF SimilaritySearch, Empty
<1> SUFFICES ASSUME NEW hits \in Hits(requests[q]),
                    Set(q, [requests[q] EXCEPT !.stage = "rows", !.found = hits])
             PROVE  MInv'
  BY <1>0 DEF SimilaritySearch
<1> DEFINE h == requests[q]
           r == [h EXCEPT !.stage = "rows", !.found = hits]
<1>1. h \in Request /\ Good(h, attendees, embeddings, connections, uuids) /\ h.stage = "search"
  BY DEF MInv, TypeOK, SimilaritySearch, At
<1>2. Set(q, r) /\ OnlyRead
  BY DEF SimilaritySearch
<1>3. hits \subseteq {b \in DOMAIN embeddings : embeddings[b] = h.event} \ {h.self}
  BY DEF Hits, Findable
<1>4. \A b \in DOMAIN embeddings :
        b \in DOMAIN attendees /\ embeddings[b] = attendees[b].event /\ b \in uuids
        /\ b \in AttendeeIds
  BY DEF MInv, DBInv, RowsConsistent, IdsGenerated, DBTypeOK
<1> HIDE DEF h
<1>5. /\ r \in Request /\ r.stage = "rows" /\ r.via = h.via /\ r.event = h.event
      /\ r.self = h.self /\ r.met = h.met /\ r.answer = h.answer /\ r.found = hits
  <2>1. "rows" \in Stages /\ hits \in SUBSET AttendeeIds
    BY <1>3, <1>4 DEF Stages, Pipeline
  <2> QED BY <1>1, <2>1 DEF Request
<1> HIDE DEF r
<1>6. Good(r, attendees, embeddings, connections, uuids)
  BY <1>1, <1>3, <1>4, <1>5 DEF Good, OpenStages, Checkin, CheckedIn
<1> QED BY <1>2, <1>5, <1>6, CountersKept, ReadMInv

(* The list is answered: what is recorded of it is recorded.               *)
LEMMA ResultsGood ==
  ASSUME NEW r \in Request, r.via \in {"chat", "match"},
         NEW att, NEW emb, NEW conn, NEW ids,
         r.self \in ids, r.found \subseteq ids, Recorded(r, r.found, att, conn)
  PROVE  /\ Results(r) \in Request /\ Results(r).stage \in {"idle", "done"}
         /\ Good(Results(r), att, emb, conn, ids)
<1> DEFINE answer == IF r.found # {} THEN "matches"
                     ELSE IF r.via = "chat" THEN "nobody" ELSE "no_matches"
<1>1. Results(r) = Ended(r, answer)
  BY DEF Results
<1>2. answer \in {"matches", "nobody", "no_matches"} /\ "matches" \in Answers
  BY DEF Answers
<1> HIDE DEF answer
<1>3. r.via # "checkin"
  OBVIOUS
<1> QED BY <1>1, <1>2, <1>3, EndedGood

(* What an order, a filter and a cut leave of the candidates.              *)
LEMMA BuildMInv ==
  ASSUME MInv, NEW q \in Requests, BuildCandidates(q)
  PROVE  MInv'
<1> DEFINE h == requests[q]
           cands == Candidates(h.found)
<1>1. h \in Request /\ Good(h, attendees, embeddings, connections, uuids) /\ h.stage = "rows"
  BY DEF MInv, TypeOK, BuildCandidates, At
<1>2. OnlyRead
  BY DEF BuildCandidates
<1>3. CASE Empty(q) \/ Raised(q)
  BY <1>2, <1>3, CountersKept, EndsMInv DEF Empty, Raised
<1>4. ASSUME NEW S \in Shown(cands),
             Set(q, IF S = {} THEN Results([h EXCEPT !.found = {}])
                    ELSE [h EXCEPT !.stage = "store", !.valid = FALSE, !.found = S,
                                   !.left = S, !.met = {}])
      PROVE  MInv'
  <2>1. S \subseteq h.found /\ S \in SUBSET AttendeeIds
    BY <1>1 DEF Shown, Candidates, Request
  <2> HIDE DEF h
  <2>2. CASE S = {}
    <3> DEFINE r == [h EXCEPT !.found = {}]
    <3>1. r \in Request /\ r.found = {} /\ r.via = h.via /\ r.self = h.self
      BY <1>1 DEF Request
    <3>2. Set(q, Results(r))
      BY <1>4, <2>2
    <3> HIDE DEF r
    <3>3. r.via \in {"chat", "match"} /\ r.self \in uuids
      BY <1>1, <3>1 DEF Good, OpenStages
    <3>4. Recorded(r, r.found, attendees, connections)
      BY <3>1 DEF Recorded
    <3>5. Results(r) \in Request /\ Good(Results(r), attendees, embeddings, connections, uuids)
      BY <3>1, <3>3, <3>4, ResultsGood
    <3> QED BY <1>2, <3>2, <3>5, CountersKept, ReadMInv
  <2>3. CASE S # {}
    <3> DEFINE r == [h EXCEPT !.stage = "store", !.valid = FALSE, !.found = S,
                              !.left = S, !.met = {}]
    <3>1. /\ r \in Request /\ r.stage = "store" /\ r.via = h.via /\ r.event = h.event
          /\ r.self = h.self /\ r.answer = h.answer /\ r.found = S /\ r.left = S
      <4>1. "store" \in Stages
        BY DEF Stages, Pipeline
      <4> QED BY <1>1, <2>1, <4>1 DEF Request
    <3>2. Set(q, r)
      BY <1>4, <2>3
    <3> HIDE DEF r
    <3>3. Recorded(r, r.found \ r.left, attendees, connections)
      BY <3>1 DEF Recorded
    <3>4. Good(r, attendees, embeddings, connections, uuids)
      BY <1>1, <2>1, <3>1, <3>3 DEF Good, OpenStages, Checkin, CheckedIn
    <3> QED BY <1>2, <3>1, <3>2, <3>4, CountersKept, ReadMInv
  <2> QED BY <2>2, <2>3
<1> QED BY <1>3, <1>4 DEF BuildCandidates

(* One match less to store, and it is recorded, or lost, or gone.          *)
LEMMA StoredGood ==
  ASSUME NEW h \in Request, NEW b \in h.left, NEW lost \in SUBSET AttendeeIds,
         h.lost \subseteq lost, h.stage = "store",
         NEW att, NEW emb, NEW conn, NEW ids, Good(h, att, emb, conn, ids),
         \/ b \in lost
         \/ [event |-> h.event, from |-> h.self, to |-> b] \in conn
         \/ ~ {h.self, b} \subseteq DOMAIN att
  PROVE  /\ Stored([h EXCEPT !.lost = lost], b) \in Request
         /\ Good(Stored([h EXCEPT !.lost = lost], b), att, emb, conn, ids)
<1> DEFINE g == [h EXCEPT !.lost = lost]
           left == h.left \ {b}
           rest == [g EXCEPT !.left = left]
<1>1. /\ g \in Request /\ g.left = h.left
      /\ rest \in Request /\ rest.stage = "store" /\ rest.via = h.via /\ rest.event = h.event
      /\ rest.self = h.self /\ rest.found = h.found /\ rest.left = left /\ rest.lost = lost
      /\ rest.answer = h.answer
  <2>1. left \in SUBSET AttendeeIds
    BY DEF Request
  <2> HIDE DEF left
  <2>2. /\ g \in Request /\ g.left = h.left /\ g.stage = "store" /\ g.via = h.via
        /\ g.event = h.event /\ g.self = h.self /\ g.found = h.found /\ g.lost = lost
        /\ g.answer = h.answer
    BY DEF Request
  <2> HIDE DEF g
  <2> QED BY <2>1, <2>2 DEF Request
<1>2. Stored(g, b) = IF left = {} THEN Results(rest) ELSE rest
  BY <1>1 DEF Stored
<1>3. /\ h.via \in {"chat", "match"} /\ h.self \in ids /\ h.found \subseteq ids
      /\ h.left \subseteq h.found /\ Recorded(h, h.found \ h.left, att, conn)
  BY DEF Good
<1> HIDE DEF g, rest
<1>4. Recorded(rest, rest.found \ left, att, conn)
  BY <1>1, <1>3 DEF Recorded
<1> HIDE DEF left
<1>5. CASE left = {}
  <2>1. Recorded(rest, rest.found, att, conn)
    BY <1>4, <1>5 DEF Recorded
  <2> QED BY <1>1, <1>2, <1>3, <1>5, <2>1, ResultsGood DEF g
<1>6. CASE left # {}
  <2>1. left \subseteq rest.found
    BY <1>1, <1>3 DEF left
  <2>2. Good(rest, att, emb, conn, ids)
    BY <1>1, <1>4, <2>1 DEF Good, OpenStages, Checkin, CheckedIn
  <2> QED BY <1>1, <1>2, <1>6, <2>2 DEF g
<1> QED BY <1>5, <1>6

(* store_shown_matches.                                                    *)
LEMMA StoreMInv ==
  ASSUME MInv, NEW q \in Requests, StoreShown(q) \/ StoreFails(q)
  PROVE  MInv'
<1> DEFINE h == requests[q]
<1>1. h \in Request /\ Good(h, attendees, embeddings, connections, uuids) /\ h.stage = "store"
      /\ DBInv
  BY DEF MInv, TypeOK, StoreShown, StoreFails, At
<1>2. Counters
  BY MatchingAssumption DEF MInv, TypeOK, Counters, StoreShown, StoreFails
<1>3. h.left \subseteq h.found /\ h.found \subseteq AttendeeIds /\ h.lost \subseteq AttendeeIds
      /\ h.self \notin h.found
      /\ (h.self \in DOMAIN attendees => attendees[h.self].event = h.event)
      /\ \A b \in h.found : b \in DOMAIN attendees => attendees[b].event = h.event
  BY <1>1 DEF Good, Request
<1>4. CASE StoreFails(q)
  <2>1. PICK b \in h.left : Set(q, Stored([h EXCEPT !.lost = @ \cup {b}], b))
    BY <1>4 DEF StoreFails
  <2> DEFINE lost == h.lost \cup {b}
             r == Stored([h EXCEPT !.lost = lost], b)
  <2>2. Set(q, r)
    BY <2>1
  <2>3. lost \in SUBSET AttendeeIds /\ b \in lost /\ h.lost \subseteq lost
    BY <1>3
  <2> HIDE DEF lost, h
  <2>4. r \in Request /\ Good(r, attendees, embeddings, connections, uuids)
    BY <1>1, <2>3, StoredGood
  <2>5. UNCHANGED dbVars
    BY <1>4 DEF StoreFails
  <2> HIDE DEF r
  <2> QED BY <1>2, <2>2, <2>4, <2>5, ReadMInv
<1>5. CASE StoreShown(q)
  <2>1. PICK b \in h.left :
          /\ Set(q, Stored(h, b))
          /\ \/ InsertConnection(h.event, h.self, b)
             \/ ~ {h.self, b} \subseteq DOMAIN attendees /\ UNCHANGED dbVars
    BY <1>5 DEF StoreShown
  <2> DEFINE lost == h.lost
             g == [h EXCEPT !.lost = lost]
             r == Stored(g, b)
  <2>2. h = g
    BY <1>1 DEF Request
  <2>3. lost \in SUBSET AttendeeIds /\ h.lost \subseteq lost
    BY <1>3
  <2>4. Set(q, r)
    BY <2>1, <2>2
  <2> HIDE DEF lost, h
  <2>5. CASE ~ {h.self, b} \subseteq DOMAIN attendees /\ UNCHANGED dbVars
    <3>1. r \in Request /\ Good(r, attendees, embeddings, connections, uuids)
      BY <1>1, <2>3, <2>5, StoredGood
    <3> HIDE DEF r
    <3> QED BY <1>2, <2>4, <2>5, <3>1, ReadMInv
  <2>6. CASE InsertConnection(h.event, h.self, b)
    <3> DEFINE c == [event |-> h.event, from |-> h.self, to |-> b]
    <3>1. /\ Lasts(attendees, embeddings, connections, uuids,
                   attendees', embeddings', connections', uuids')
          /\ c \in connections' /\ UNCHANGED <<events, attendees, embeddings, uuids>>
      BY <2>6, InsertConnectionLasts
    <3>2. h.self \in DOMAIN attendees /\ b \in DOMAIN attendees /\ h.self # b
          /\ attendees[h.self].event = h.event /\ attendees[b].event = h.event
      BY <1>3, <2>6 DEF InsertConnection
    <3>3. DBInv'
      BY <1>1, <2>6, <3>2, InsertConnectionInv
    <3> HIDE DEF c
    <3>4. Good(h, attendees', embeddings', connections', uuids')
      <4>1. h.stage \notin OpenStages
        BY <1>1 DEF OpenStages
      <4> QED BY <1>1, <3>1, <4>1, GoodLasts
    <3>5. r \in Request /\ Good(r, attendees', embeddings', connections', uuids')
      BY <1>1, <2>3, <3>1, <3>4, StoredGood DEF c
    <3> HIDE DEF r
    <3> QED BY <1>2, <2>4, <3>1, <3>3, <3>5, MoveMInv DEF MInv
  <2> QED BY <2>1, <2>5, <2>6
<1> QED BY <1>4, <1>5

-----------------------------------------------------------------------------
(* How a request begins *)

(* A slot that is free takes a request.                                    *)
LEMMA BeginsMInv ==
  ASSUME MInv, NEW q \in Requests, NEW r \in Request, Begins(q, r),
         Good(r, attendees, embeddings, connections, uuids)
  PROVE  MInv'
<1>1. Counters
  BY MatchingAssumption DEF MInv, TypeOK, Counters, Begins
<1>2. Set(q, r) /\ UNCHANGED dbVars
  BY DEF Begins, Set
<1> QED BY <1>1, <1>2, ReadMInv

(* A row that a query has just returned, or the person a message names.    *)
LEMMA BeginMInv ==
  ASSUME MInv, NEW q \in Requests, Begin(q)
  PROVE  MInv'
<1>0. /\ Idle \in Request /\ Idle.answer = "none" /\ Idle.stage = "idle" /\ Idle.via = "none"
  BY DEF Idle, Request, Stages, Answers
<1>1. ASSUME NEW a \in DOMAIN attendees, ChatTurn(q, a) PROVE MInv'
  <2> DEFINE e == attendees[a].event
             m == attendees[a].member
             met == Findable(e)
             r == [Idle EXCEPT !.stage = "count", !.via = "chat", !.event = e, !.self = a,
                               !.member = m, !.met = met]
  <2>1. Begins(q, r)
    BY <1>1 DEF ChatTurn
  <2>2. e \in Events /\ m \in Members /\ a \in AttendeeIds /\ a \in uuids
        /\ DOMAIN embeddings \subseteq AttendeeIds
    BY DEF MInv, DBInv, DBTypeOK, IdsGenerated, Attendee
  <2>3. met = {b \in DOMAIN embeddings : embeddings[b] = e} /\ met \in SUBSET AttendeeIds
    BY <2>2 DEF Findable
  <2>4. "count" \in Stages
    BY DEF Stages, Chat
  <2>5. e = attendees[a].event
    OBVIOUS
  <2> HIDE DEF e, m, met
  <2>6. /\ r \in Request /\ r.stage = "count" /\ r.via = "chat" /\ r.event = e /\ r.self = a
        /\ r.met = met /\ r.answer = "none"
    BY <1>0, <2>2, <2>3, <2>4 DEF Request
  <2> HIDE DEF r
  <2>7. Good(r, attendees, embeddings, connections, uuids)
    BY <2>2, <2>3, <2>5, <2>6 DEF Good, OpenStages, Checkin, CheckedIn
  <2> QED BY <2>1, <2>6, <2>7, BeginsMInv
<1>2. ASSUME NEW via \in {"match", "checkin"}, MalformedRequest(q, via) PROVE MInv'
  <2> DEFINE r == [Idle EXCEPT !.via = via]
  <2>1. r \in Request
    BY <1>0 DEF Request
  <2>2. Begins(q, Ended(r, "invalid"))
    BY <1>2 DEF MalformedRequest
  <2> HIDE DEF r
  <2>3. /\ Ended(r, "invalid") \in Request
        /\ Good(Ended(r, "invalid"), attendees, embeddings, connections, uuids)
    BY <2>1, EndedGood
  <2> QED BY <2>2, <2>3, BeginsMInv
<1>3. ASSUME NEW e \in Events, NEW m \in Members, NEW stage \in {"resolve", "profiles"}, NEW via,
             via = IF stage = "resolve" THEN "match" ELSE "checkin",
             Begins(q, [Idle EXCEPT !.stage = stage, !.via = via, !.event = e, !.member = m])
      PROVE  MInv'
  <2> DEFINE r == [Idle EXCEPT !.stage = stage, !.via = via, !.event = e, !.member = m]
  <2>1. stage \in Stages /\ via \in {"match", "checkin"}
    BY <1>3 DEF Stages, Typed, Checkin
  <2>2. /\ r \in Request /\ r.stage = stage /\ r.via = via /\ r.event = e /\ r.member = m
        /\ r.answer = "none"
    BY <1>0, <2>1 DEF Request
  <2>3. Begins(q, r)
    BY <1>3
  <2> HIDE DEF r
  <2>4. Good(r, attendees, embeddings, connections, uuids)
    BY <1>3, <2>2 DEF Good, OpenStages, Checkin, CheckedIn
  <2> QED BY <2>2, <2>3, <2>4, BeginsMInv
<1>4. ASSUME NEW e \in Events, NEW m \in Members, MatchRequest(q, e, m) PROVE MInv'
  BY <1>3, <1>4 DEF MatchRequest
<1>5. ASSUME NEW e \in Events, NEW m \in Members, CheckInRequest(q, e, m) PROVE MInv'
  BY <1>3, <1>5 DEF CheckInRequest
<1> QED BY <1>1, <1>2, <1>4, <1>5 DEF Begin

(* fetch_attendee_by_linkedin finds a row of the event, or none.           *)
LEMMA ResolveMInv ==
  ASSUME MInv, NEW q \in Requests, ResolveRequester(q)
  PROVE  MInv'
<1> DEFINE h == requests[q]
           rows == RowsOf(h.event, h.member)
<1>1. h \in Request /\ Good(h, attendees, embeddings, connections, uuids) /\ h.stage = "resolve"
  BY DEF MInv, TypeOK, ResolveRequester, At
<1>2. OnlyRead
  BY DEF ResolveRequester
<1>3. CASE rows = {}
  BY <1>2, <1>3, CountersKept, EndsMInv DEF ResolveRequester
<1>4. CASE rows # {}
  <2>1. PICK a \in rows :
          Set(q, [h EXCEPT !.stage = "total", !.self = a, !.met = Findable(h.event)])
    BY <1>4 DEF ResolveRequester
  <2> DEFINE met == Findable(h.event)
             r == [h EXCEPT !.stage = "total", !.self = a, !.met = met]
  <2>2. Set(q, r)
    BY <2>1
  <2>3. a \in DOMAIN attendees /\ attendees[a].event = h.event
    BY DEF RowsOf
  <2>4. a \in AttendeeIds /\ a \in uuids /\ DOMAIN embeddings \subseteq AttendeeIds
    BY <2>3 DEF MInv, DBInv, DBTypeOK, IdsGenerated
  <2>5. met = {b \in DOMAIN embeddings : embeddings[b] = h.event} /\ met \in SUBSET AttendeeIds
    BY <2>4 DEF Findable
  <2>6. "total" \in Stages
    BY DEF Stages, Typed
  <2> HIDE DEF h, met
  <2>7. /\ r \in Request /\ r.stage = "total" /\ r.via = h.via /\ r.event = h.event
        /\ r.self = a /\ r.met = met /\ r.answer = h.answer
    BY <1>1, <2>4, <2>5, <2>6 DEF Request
  <2> HIDE DEF r
  <2>8. Good(r, attendees, embeddings, connections, uuids)
    BY <1>1, <2>3, <2>4, <2>5, <2>7 DEF Good, OpenStages, Checkin, CheckedIn
  <2> QED BY <1>2, <2>2, <2>7, <2>8, CountersKept, ReadMInv
<1> QED BY <1>3, <1>4

-----------------------------------------------------------------------------
(* The typed check-in *)

(* The row it is told is its person's row in its event.                    *)
LEMMA WriteRowMInv ==
  ASSUME MInv, NEW q \in Requests, WriteRow(q)
  PROVE  MInv'
<1> DEFINE h == requests[q]
<1>1. h \in Request /\ Good(h, attendees, embeddings, connections, uuids) /\ h.stage = "row"
      /\ DBInv
  BY DEF MInv, TypeOK, WriteRow, At
<1>2. Counters
  BY DEF MInv, TypeOK, Counters, WriteRow
<1>3. h.event \in Events /\ h.member \in Members /\ h.via = "checkin" /\ h.answer = "none"
  BY <1>1 DEF Good, Checkin
<1>4. PICK a \in AttendeeIds :
        /\ UpsertAttendee(h.event, h.member, a)
        /\ Set(q, [h EXCEPT !.stage = "write_vector", !.self = a])
  BY DEF WriteRow
<1> DEFINE r == [h EXCEPT !.stage = "write_vector", !.self = a]
<1>5. Set(q, r)
  BY <1>4
<1>6. "write_vector" \in Stages
  BY DEF Stages, Checkin
<1> HIDE DEF h
<1>7. /\ r \in Request /\ r.stage = "write_vector" /\ r.via = h.via /\ r.event = h.event
      /\ r.member = h.member /\ r.self = a /\ r.answer = h.answer
  BY <1>1, <1>6 DEF Request
<1> HIDE DEF r
<1>8. /\ Lasts(attendees, embeddings, connections, uuids,
               attendees', embeddings', connections', uuids')
      /\ embeddings' = embeddings
      /\ attendees'[a] = [event |-> h.event, member |-> h.member]
      /\ a \in uuids'
  BY <1>1, <1>3, <1>4, UpsertAttendeeLasts
<1>9. DBInv'
  BY <1>1, <1>3, <1>4, UpsertAttendeeInv
<1>10. Good(r, attendees', embeddings', connections', uuids')
  BY <1>3, <1>7, <1>8 DEF Good, OpenStages, Checkin, CheckedIn
<1> QED BY <1>2, <1>5, <1>7, <1>8, <1>9, <1>10, MoveMInv

(* The searches that run meet the new vector.                              *)
LEMMA WriteVectorMInv ==
  ASSUME MInv, NEW q \in Requests, WriteVector(q)
  PROVE  MInv'
<1> DEFINE h == requests[q]
           a == h.self
           e == h.event
           r == [h EXCEPT !.stage = "count_all"]
<1>1. h \in Request /\ Good(h, attendees, embeddings, connections, uuids)
      /\ h.stage = "write_vector" /\ DBInv /\ requests \in [Requests -> Request]
  BY DEF MInv, TypeOK, WriteVector, At
<1>2. Counters
  BY DEF MInv, TypeOK, Counters, WriteVector
<1>3. /\ UpsertEmbedding(a, e) /\ a \in DOMAIN attendees
      /\ requests' = [p \in Requests |->
           IF p = q THEN r
           ELSE IF Searching(requests[p]) /\ requests[p].event = e
           THEN [requests[p] EXCEPT !.met = @ \cup {a}]
           ELSE requests[p]]
  BY DEF WriteVector, UpsertEmbedding
<1>4. /\ attendees[a] = [event |-> h.event, member |-> h.member] /\ attendees[a].event = e
      /\ a \in AttendeeIds /\ a \in uuids
  BY <1>1, <1>3 DEF Good, DBInv, DBTypeOK, IdsGenerated
<1>5. DBInv'
  BY <1>1, <1>3, <1>4, UpsertEmbeddingInv
<1>6. /\ Lasts(attendees, embeddings, connections, uuids,
               attendees', embeddings', connections', uuids')
      /\ DOMAIN embeddings' = DOMAIN embeddings \cup {a}
      /\ \A b \in DOMAIN embeddings : embeddings'[b] = embeddings[b]
      /\ UNCHANGED <<events, attendees, connections, uuids>>
  BY <1>1, <1>3, UpsertEmbeddingLasts
<1>7. embeddings'[a] = e
  BY <1>4, <1>5, <1>6 DEF DBInv, RowsConsistent
<1>8. "count_all" \in Stages
  BY DEF Stages, Checkin
<1>9. /\ r \in Request /\ r.stage = "count_all" /\ r.via = h.via /\ r.event = h.event
      /\ r.member = h.member /\ r.self = a /\ r.answer = h.answer
  BY <1>1, <1>8 DEF Request
<1>10. Good(r, attendees', embeddings', connections', uuids')
  <2> HIDE DEF h, r
  <2> QED BY <1>1, <1>4, <1>6, <1>9 DEF Good, OpenStages, Checkin, CheckedIn
<1>11. ASSUME NEW p \in Requests, p # q
       PROVE  /\ requests'[p] \in Request
              /\ Good(requests'[p], attendees', embeddings', connections', uuids')
  <2> DEFINE x == requests[p]
             y == requests'[p]
             met == x.met \cup {a}
             z == [x EXCEPT !.met = met]
  <2>1. x \in Request /\ Good(x, attendees, embeddings, connections, uuids)
    BY DEF MInv, TypeOK
  <2>2. met \in SUBSET AttendeeIds
    BY <1>4, <2>1 DEF Request
  <2>3. y = IF Searching(x) /\ x.event = e THEN z ELSE x
    BY <1>3, <1>11
  <2> HIDE DEF met, x, y
  <2>4. /\ z \in Request /\ z.stage = x.stage /\ z.via = x.via /\ z.event = x.event
        /\ z.member = x.member /\ z.self = x.self /\ z.found = x.found /\ z.left = x.left
        /\ z.lost = x.lost /\ z.answer = x.answer /\ z.met = met
    BY <2>1, <2>2 DEF Request
  <2> HIDE DEF z
  <2>5. x.stage \in OpenStages =>
          /\ {b \in DOMAIN embeddings : embeddings[b] = x.event} \subseteq x.met
          /\ Searching(x)
    BY <2>1 DEF Good, Searching, OpenStages
  <2>6. x.stage \in OpenStages =>
          {b \in DOMAIN embeddings' : embeddings'[b] = x.event} \subseteq y.met
    BY <1>6, <1>7, <2>3, <2>4, <2>5 DEF met
  <2>7. y \in Request
    BY <2>1, <2>3, <2>4
  <2>8. Good(y, attendees', embeddings', connections', uuids')
    <3>1. /\ y.stage = x.stage /\ y.via = x.via /\ y.event = x.event
          /\ y.member = x.member /\ y.self = x.self /\ y.found = x.found /\ y.left = x.left
          /\ y.lost = x.lost /\ y.answer = x.answer /\ x.met \subseteq y.met
      BY <2>3, <2>4 DEF met
    <3> QED BY <1>6, <2>1, <2>6, <3>1, GoodLasts
  <2> QED BY <2>7, <2>8 DEF y
<1>12. requests'[q] = r /\ requests' \in [Requests -> Request]
  <2> HIDE DEF r
  <2>1. requests'[q] = r
    BY <1>3
  <2> QED BY <1>3, <1>9, <1>11, <2>1
<1> HIDE DEF r
<1>13. TypeOK'
  BY <1>2, <1>12 DEF TypeOK, Counters
<1> QED BY <1>5, <1>10, <1>11, <1>12, <1>13 DEF MInv

(* The sender is told, or hears nothing, after both writes.                *)
LEMMA CheckedInMInv ==
  ASSUME MInv, NEW q \in Requests, CountAll(q) \/ NoAnswer(q)
  PROVE  MInv'
<1> DEFINE h == requests[q]
<1>1. h \in Request /\ Good(h, attendees, embeddings, connections, uuids)
  BY DEF MInv, TypeOK
<1>2. Counters /\ UNCHANGED dbVars
  BY CountersKept DEF CountAll, NoAnswer
<1>3. PICK answer \in {"success", "silence"} :
        /\ Set(q, Ended(h, answer))
        /\ h.stage \in Typed \cup {"count_all"}
        /\ answer = "success" => h.stage = "count_all"
  BY DEF CountAll, NoAnswer, At, Answered
<1> HIDE DEF h
<1>4. /\ Ended(h, answer) \in Request
      /\ Good(Ended(h, answer), attendees, embeddings, connections, uuids)
  <2>1. answer \in Answers
    BY DEF Answers
  <2>2. h.stage = "count_all" <=> h.via = "checkin"
    BY <1>1, <1>3 DEF Good, Typed, OpenStages, Checkin
  <2>3. h.via = "checkin" =>
          /\ h.self \in uuids
          /\ h.self \in DOMAIN attendees =>
               /\ attendees[h.self] = [event |-> h.event, member |-> h.member]
               /\ h.self \in DOMAIN embeddings
    BY <1>1, <2>2 DEF Good
  <2> QED BY <1>1, <1>3, <2>1, <2>2, <2>3, EndedGood
<1> QED BY <1>2, <1>3, <1>4, ReadMInv

(* The daily job, while requests run.                                      *)
LEMMA PurgeMInv ==
  ASSUME MInv, PurgeExpired
  PROVE  MInv'
<1>1. UNCHANGED matchVars /\ DBInv
  BY DEF PurgeExpired, MInv
<1>2. PICK gone \in SUBSET DOMAIN attendees, es \in SUBSET events : Purge(gone, es)
  <2>1. CASE \E a \in DOMAIN attendees : Purge({a}, {})
    BY <2>1
  <2>2. CASE \E e \in events : Purge({}, {e})
    BY <2>2
  <2> QED BY <2>1, <2>2 DEF PurgeExpired
<1>3. DBInv'
  BY <1>1, <1>2, PurgeInv
<1>4. /\ Lasts(attendees, embeddings, connections, uuids,
               attendees', embeddings', connections', uuids')
      /\ \A b \in DOMAIN embeddings' : b \in DOMAIN embeddings /\ embeddings'[b] = embeddings[b]
  BY <1>2, PurgeLasts
<1>5. ASSUME NEW p \in Requests
      PROVE  Good(requests[p], attendees', embeddings', connections', uuids')
  <2>1. Good(requests[p], attendees, embeddings, connections, uuids)
    BY DEF MInv
  <2>2. requests[p].stage \in OpenStages =>
          {b \in DOMAIN embeddings' : embeddings'[b] = requests[p].event} \subseteq requests[p].met
    BY <1>4, <2>1 DEF Good
  <2> QED BY <1>4, <2>1, <2>2, GoodLasts
<1> QED BY <1>1, <1>3, <1>5 DEF MInv, TypeOK, matchVars

-----------------------------------------------------------------------------
(* The theorems *)

(* Before the first request.                                               *)
LEMMA InitMInv == Init => MInv
<1> SUFFICES ASSUME Init PROVE MInv
  OBVIOUS
<1>1. /\ Idle \in Request /\ Idle.stage = "idle" /\ Idle.answer = "none" /\ Idle.via = "none"
  BY DEF Idle, Request, Stages, Answers
<1>2. \A q \in Requests : requests[q] = Idle
  BY DEF Init
<1>3. Good(Idle, attendees, embeddings, connections, uuids)
  BY <1>1 DEF Good, OpenStages, Checkin, CheckedIn
<1>4. TypeOK
  BY <1>1, MatchingAssumption DEF Init, TypeOK
<1> QED BY <1>2, <1>3, <1>4, DBInitInv DEF Init, MInv

(* Every step keeps the invariant.                                         *)
LEMMA NextMInv == MInv /\ [Next]_vars => MInv'
<1> SUFFICES ASSUME MInv, [Next]_vars PROVE MInv'
  OBVIOUS
<1>1. ASSUME NEW q \in Requests, Begin(q) PROVE MInv'
  BY <1>1, BeginMInv
<1>2. ASSUME NEW q \in Requests, GetMatches(q) PROVE MInv'
  BY <1>2, FetchRequesterMInv, ReadingMInv, SearchMInv, BuildMInv, StoreMInv DEF GetMatches
<1>3. ASSUME NEW q \in Requests, HandleCheckin(q) PROVE MInv'
  BY <1>3, ReadingMInv, WriteRowMInv, WriteVectorMInv, CheckedInMInv DEF HandleCheckin
<1>4. ASSUME NEW q \in Requests,
             \/ CountPeers(q) \/ CountPeersFails(q)
             \/ ResolveRequester(q) \/ CountTotal(q) \/ NoAnswer(q)
      PROVE  MInv'
  BY <1>4, ReadingMInv, ResolveMInv, CheckedInMInv
<1>5. ASSUME PurgeExpired PROVE MInv'
  BY <1>5, PurgeMInv
<1>6. ASSUME UNCHANGED vars PROVE MInv'
  BY <1>6 DEF vars, dbVars, matchVars, MInv, TypeOK, DBInv, DBTypeOK, RowsConsistent, IdsGenerated
<1> QED BY <1>1, <1>2, <1>3, <1>4, <1>5, <1>6 DEF Next

(* The invariant of requests and tables together.                          *)
THEOREM MatchingInvariant == Spec => []MInv
BY InitMInv, NextMInv, PTL DEF Spec

(* Every request stays in a stage, and what it keeps are rows and people.  *)
THEOREM MatchingTypeCorrect == Spec => []TypeOK
<1>1. MInv => TypeOK
  BY DEF MInv
<1> QED BY <1>1, MatchingInvariant, PTL

(* The tables keep their shape under both handlers and the purge.          *)
THEOREM MatchingTablesTyped == Spec => []DBTypeOK
<1>1. MInv => DBTypeOK
  BY DEF MInv, DBInv
<1> QED BY <1>1, MatchingInvariant, PTL

(* Both handlers and the purge keep the tables consistent, although each   *)
(* statement is a transaction of its own.                                  *)
THEOREM MatchingRowsCorrect == Spec => []RowsConsistent
<1>1. MInv => RowsConsistent
  BY DEF MInv, DBInv
<1> QED BY <1>1, MatchingInvariant, PTL

(* What was shown is recorded, whatever failed for the others.             *)
THEOREM ShownIsRecorded == Spec => []RecordedUnlessGone
<1>1. MInv => RecordedUnlessGone
  BY DEF MInv, Good, Recorded, RecordedUnlessGone
<1> QED BY <1>1, MatchingInvariant, PTL

(* A check-in that was answered has stored its row and its vector.         *)
THEOREM CheckinIsStored == Spec => []StoredUnlessRefused
<1>1. MInv => StoredUnlessRefused
  BY DEF MInv, Good, CheckedIn, StoredUnlessRefused
<1> QED BY <1>1, MatchingInvariant, PTL

(* Check-ins of one person and event are told one attendee id.             *)
THEOREM AttendeeIdIsStable == Spec => []SameAttendeeId
<1>1. ASSUME MInv PROVE SameAttendeeId
  <2> SUFFICES ASSUME NEW p \in Requests, NEW q \in Requests,
                      requests[p].answer = "success", requests[q].answer = "success",
                      requests[p].event = requests[q].event,
                      requests[p].member = requests[q].member,
                      {requests[p].self, requests[q].self} \subseteq DOMAIN attendees
               PROVE  requests[p].self = requests[q].self
    BY DEF SameAttendeeId
  <2>1. \A x \in Requests : requests[x].answer = "success" /\ requests[x].self \in DOMAIN attendees =>
          attendees[requests[x].self] = [event |-> requests[x].event, member |-> requests[x].member]
    BY <1>1 DEF MInv, Good, CheckedIn
  <2>2. attendees[requests[p].self] = attendees[requests[q].self]
    BY <2>1
  <2> QED BY <1>1, <2>2 DEF MInv, DBInv, RowsConsistent
<1> QED BY <1>1, MatchingInvariant, PTL

-----------------------------------------------------------------------------
(* The promise *)

Asks == [p \in Requests |-> Asked(requests[p])]

NoQuestion == [state |-> "none"]

(* A request has a question open from the count to the rows, and has       *)
(* picked while it stores.                                                 *)
LEMMA AskedForms ==
  ASSUME NEW r \in Request, NEW att, NEW emb, NEW conn, NEW ids, Good(r, att, emb, conn, ids)
  PROVE  /\ r.stage \in OpenStages =>
              Asked(r) = [state |-> "open", event |-> r.event, by |-> r.self, seen |-> r.met]
         /\ r.stage = "store" =>
              Asked(r) = [state |-> "picked", event |-> r.event, by |-> r.self, to |-> r.found]
         /\ r.stage \notin OpenStages \cup {"store"} => Asked(r) = NoQuestion
         /\ r.stage \in {"idle", "done", "resolve"} => Asked(r) = NoQuestion
<1>1. CASE r.stage \in OpenStages \cup {"store"}
  BY <1>1 DEF Good, Asked, OpenStages
<1>2. CASE r.stage \notin OpenStages \cup {"store"}
  <2>1. CASE r.via \notin {"chat", "match"} \/ r.stage \in {"idle", "done", "resolve"}
    BY <1>2, <2>1 DEF Asked, NoQuestion, OpenStages
  <2>2. CASE r.via \in {"chat", "match"} /\ r.stage \notin {"idle", "done", "resolve"}
    <3>1. r.stage \in Stages /\ r.stage \notin Checkin
      BY <2>2 DEF Request, Good
    <3> QED BY <1>2, <2>2, <3>1 DEF Stages, Chat, Typed, Pipeline, Checkin, OpenStages
  <2> QED BY <1>2, <2>1, <2>2
<1> QED BY <1>1, <1>2

(* Only one request moves.                                                 *)
LEMMA OneAsks ==
  ASSUME MInv, NEW q \in Requests, NEW r, Set(q, r)
  PROVE  Asks' = [Asks EXCEPT ![q] = Asked(r)]
<1>1. \A p \in Requests : requests'[p] = IF p = q THEN r ELSE requests[p]
  BY DEF MInv, TypeOK, Set
<1>2. \A p \in Requests : Asked(requests'[p]) = IF p = q THEN Asked(r) ELSE Asked(requests[p])
  BY <1>1
<1> QED BY <1>2 DEF Asks

(* A question that stays open, is answered or comes to nothing.            *)
LEMMA AnswerStep ==
  ASSUME MInv, NEW q \in Requests, NEW r, Set(q, r),
         UNCHANGED <<attendees, embeddings>>,
         Asked(r) = Asked(requests[q]) \/ Asked(r) = NoQuestion
  PROVE  [Promise!Next]_(Promise!vars)
<1>1. Asks' = [Asks EXCEPT ![q] = Asked(r)] /\ Asks[q] = Asked(requests[q])
  BY OneAsks DEF Asks
<1>2. CASE Asked(r) = Asked(requests[q])
  <2>1. Asks' = Asks
    BY <1>1, <1>2 DEF Asks
  <2> QED BY <2>1 DEF Promise!vars, Asks
<1>3. CASE Asked(r) = NoQuestion
  <2>1. Promise!Conclude(q)
    BY <1>1, <1>3 DEF Promise!Conclude, Promise!NotAsking, Asks, NoQuestion
  <2> QED BY <2>1 DEF Promise!Next
<1> QED BY <1>2, <1>3

(* A question that is open.                                                *)
LEMMA OpenQuestion ==
  ASSUME NEW e, NEW p, NEW seen
  PROVE  /\ Promise!Open(e, p, seen).state = "open"
         /\ Promise!Open(e, p, seen).event = e /\ Promise!Open(e, p, seen).seen = seen
BY DEF Promise!Open

(* The room changes under those who ask.                                   *)
LEMMA MingleStep ==
  ASSUME MInv, MInv',
         Lasts(attendees, embeddings, connections, uuids,
               attendees', embeddings', connections', uuids'),
         \A p \in Requests :
           LET x == requests[p]
               y == requests'[p]
           IN  /\ x.stage \in OpenStages =>
                    /\ y.stage \in OpenStages /\ y.event = x.event /\ y.self = x.self
                    /\ x.met \subseteq y.met
                    /\ y.met \subseteq
                         x.met \cup {b \in DOMAIN embeddings' : embeddings'[b] = x.event}
               /\ x.stage = "store" =>
                    /\ y.stage = "store" /\ y.event = x.event /\ y.self = x.self
                    /\ y.found = x.found
               /\ x.stage \notin OpenStages \cup {"store"} =>
                    y.stage \notin OpenStages \cup {"store"}
  PROVE  Promise!Mingle
<1> DEFINE room == [a \in DOMAIN attendees |-> attendees[a].event]
           later == [a \in DOMAIN attendees' |-> attendees'[a].event]
           near(e) == {b \in DOMAIN embeddings' : later[b] = e}
<1>1. /\ DOMAIN attendees' \subseteq AttendeeIds /\ attendees' \in [DOMAIN attendees' -> Attendee]
      /\ DOMAIN embeddings' \subseteq DOMAIN attendees'
      /\ \A b \in DOMAIN embeddings' : embeddings'[b] = attendees'[b].event
      /\ DOMAIN attendees \subseteq uuids
  BY DEF MInv, DBInv, DBTypeOK, RowsConsistent, IdsGenerated
<1>2. DOMAIN later \subseteq AttendeeIds /\ later \in [DOMAIN later -> Events]
  BY <1>1 DEF Attendee
<1>3. \A p \in DOMAIN room \cap DOMAIN later : later[p] = room[p]
  BY <1>1 DEF Lasts
<1>4. DOMAIN embeddings' \subseteq DOMAIN later
  BY <1>1
<1>5. \A e : near(e) = {b \in DOMAIN embeddings' : embeddings'[b] = e}
  BY <1>1
<1>6. ASSUME NEW p \in Requests
      PROVE  Asked(requests'[p]) =
               IF Asked(requests[p]).state # "open" THEN Asked(requests[p])
               ELSE [Asked(requests[p]) EXCEPT !.seen = @ \cup near(Asked(requests[p]).event)]
  <2> DEFINE x == requests[p]
             y == requests'[p]
  <2>1. /\ x \in Request /\ Good(x, attendees, embeddings, connections, uuids)
        /\ y \in Request /\ Good(y, attendees', embeddings', connections', uuids')
    BY DEF MInv, TypeOK
  <2> HIDE DEF x, y, near
  <2>2. CASE x.stage \in OpenStages
    <3>1. y.stage \in OpenStages /\ y.event = x.event /\ y.self = x.self
          /\ x.met \subseteq y.met /\ y.met \subseteq x.met \cup near(x.event)
      BY <1>5, <2>2 DEF x, y
    <3>2. near(x.event) \subseteq y.met
      BY <1>5, <2>1, <3>1 DEF Good
    <3>3. y.met = x.met \cup near(x.event)
      BY <3>1, <3>2
    <3> DEFINE grown == x.met \cup near(x.event)
               before == Promise!Open(x.event, x.self, x.met)
    <3>4. Asked(x) = before /\ Asked(y) = Promise!Open(x.event, x.self, grown)
      BY <2>1, <2>2, <3>1, <3>3, AskedForms DEF Promise!Open
    <3>5. before.state = "open" /\ before.event = x.event /\ before.seen = x.met
      BY OpenQuestion
    <3>6. before.seen \cup near(before.event) = grown
      BY <3>5
    <3> HIDE DEF grown
    <3>7. [before EXCEPT !.seen = grown] = Promise!Open(x.event, x.self, grown)
      <4> DEFINE e == x.event
                 by == x.self
                 met == x.met
      <4> HIDE DEF e, by, met
      <4>1. [Promise!Open(e, by, met) EXCEPT !.seen = grown] = Promise!Open(e, by, grown)
        BY DEF Promise!Open
      <4> QED BY <4>1 DEF e, by, met
    <3> HIDE DEF before
    <3>8. Asked(y) = IF Asked(x).state # "open" THEN Asked(x)
                     ELSE [Asked(x) EXCEPT !.seen = Asked(x).seen \cup near(Asked(x).event)]
      BY <3>4, <3>5, <3>6, <3>7
    <3> QED BY <3>8 DEF x, y
  <2>3. CASE x.stage = "store"
    <3>1. Asked(x) = [state |-> "picked", event |-> x.event, by |-> x.self, to |-> x.found]
      BY <2>1, <2>3, AskedForms
    <3>2. y.stage = "store" /\ y.event = x.event /\ y.self = x.self /\ y.found = x.found
      BY <2>3 DEF x, y
    <3>3. Asked(y) = [state |-> "picked", event |-> x.event, by |-> x.self, to |-> x.found]
      BY <2>1, <3>2, AskedForms
    <3> QED BY <3>1, <3>3 DEF x, y
  <2>4. CASE x.stage \notin OpenStages \cup {"store"}
    <3>1. y.stage \notin OpenStages \cup {"store"}
      BY <2>4 DEF x, y
    <3>2. Asked(x) = NoQuestion /\ Asked(y) = NoQuestion
      BY <2>1, <2>4, <3>1, AskedForms
    <3> QED BY <3>2 DEF x, y, NoQuestion
  <2> QED BY <2>2, <2>3, <2>4
<1>7. Asks' = [q \in Requests |->
                 IF Asks[q].state # "open" THEN Asks[q]
                 ELSE [Asks[q] EXCEPT !.seen = @ \cup near(Asks[q].event)]]
  BY <1>6 DEF Asks
<1> QED BY <1>2, <1>3, <1>4, <1>7 DEF Promise!Mingle, Asks

(* The requests that do not look at the room when it changes.              *)
LEMMA MoveMingles ==
  ASSUME MInv, MInv', NEW q \in Requests, NEW r \in Request, Set(q, r),
         requests[q].stage \in Checkin, r.stage \in Checkin,
         Lasts(attendees, embeddings, connections, uuids,
               attendees', embeddings', connections', uuids')
  PROVE  Promise!Mingle
<1>1. \A p \in Requests : requests'[p] = IF p = q THEN r ELSE requests[p]
  BY DEF MInv, TypeOK, Set
<1>2. Checkin \cap (OpenStages \cup {"store"}) = {}
  BY DEF Checkin, OpenStages
<1> QED BY <1>1, <1>2, MingleStep

(* A question begins with whoever the search can find.                     *)
LEMMA AskStep ==
  ASSUME MInv, NEW q \in Requests, NEW r, Set(q, r), UNCHANGED <<attendees, embeddings>>,
         Asked(requests[q]) = NoQuestion, NEW e \in Events, NEW a \in AttendeeIds,
         Asked(r) = [state |-> "open", event |-> e, by |-> a, seen |-> Findable(e)]
  PROVE  [Promise!Next]_(Promise!vars)
<1>1. Asks' = [Asks EXCEPT ![q] = Asked(r)] /\ Asks[q] = NoQuestion
  BY OneAsks DEF Asks
<1> DEFINE found == {b \in DOMAIN embeddings : [x \in DOMAIN attendees |-> attendees[x].event][b] = e}
<1>2. found = Findable(e)
  BY DEF MInv, DBInv, RowsConsistent, Findable
<1>3. found = Promise!InEvent(e)
  BY DEF Promise!InEvent
<1>4. Asked(r) = Promise!Open(e, a, Promise!InEvent(e))
  BY <1>2, <1>3 DEF Promise!Open
<1>5. Promise!Ask(q)
  BY <1>1, <1>4 DEF Promise!Ask, Promise!NotAsking, Asks, NoQuestion
<1> QED BY <1>5 DEF Promise!Next

(* Some of those that were seen and are still in the room are picked.      *)
LEMMA PickStep ==
  ASSUME MInv, NEW q \in Requests, NEW r, Set(q, r), UNCHANGED <<attendees, embeddings>>,
         NEW e, NEW a, NEW seen, NEW some,
         Asked(requests[q]) = [state |-> "open", event |-> e, by |-> a, seen |-> seen],
         some \subseteq seen, some \subseteq DOMAIN attendees, a \notin some,
         Cardinality(some) <= FinalK,
         Asked(r) = [state |-> "picked", event |-> e, by |-> a, to |-> some]
  PROVE  [Promise!Next]_(Promise!vars)
<1>1. Asks' = [Asks EXCEPT ![q] = Asked(r)] /\ Asks[q] = Asked(requests[q])
  BY OneAsks DEF Asks
<1>2. Asks[q].state = "open" /\ Asks[q].event = e /\ Asks[q].by = a /\ Asks[q].seen = seen
  <2>1. Asks[q] = Promise!Open(e, a, seen)
    BY <1>1 DEF Promise!Open
  <2> QED BY <2>1 DEF Promise!Open
<1>3. Asks' = [Asks EXCEPT ![q] = Promise!Picked(Asks[q].event, Asks[q].by, some)]
  <2>1. Asked(r) = Promise!Picked(e, a, some)
    BY DEF Promise!Picked
  <2> QED BY <1>1, <1>2, <2>1
<1>4. some \in SUBSET (Asks[q].seen \cap DOMAIN [x \in DOMAIN attendees |-> attendees[x].event])
  BY <1>2
<1>5. Promise!Pick(q)
  <2>1. \E t \in SUBSET (Asks[q].seen \cap DOMAIN [x \in DOMAIN attendees |-> attendees[x].event]) :
          /\ Asks[q].by \notin t
          /\ Cardinality(t) <= FinalK
          /\ Asks' = [Asks EXCEPT ![q] = Promise!Picked(Asks[q].event, Asks[q].by, t)]
    BY <1>2, <1>3, <1>4
  <2>2. UNCHANGED <<[x \in DOMAIN attendees |-> attendees[x].event], DOMAIN embeddings>>
    OBVIOUS
  <2>3. Asks[q].state = "open"
    BY <1>2
  <2>4. \A S : Promise!Cardinality(S) = Cardinality(S)
    BY DEF Cardinality, Promise!Cardinality
  <2> QED BY <2>1, <2>2, <2>3, <2>4 DEF Promise!Pick, Asks
<1> QED BY <1>5 DEF Promise!Next

(* An answer leaves no question.                                           *)
LEMMA EndStep ==
  ASSUME MInv, NEW q \in Requests, NEW r \in Request, NEW answer, Set(q, Ended(r, answer)),
         UNCHANGED <<attendees, embeddings>>
  PROVE  [Promise!Next]_(Promise!vars)
<1>1. Ended(r, answer).stage \in {"idle", "done"}
  BY DEF Ended, Idle, Request
<1>2. Asked(Ended(r, answer)) = NoQuestion
  BY <1>1 DEF Asked, NoQuestion
<1> QED BY <1>2, AnswerStep

(* Nor does a request go on with a question that is another one.           *)
LEMMA GoesStep ==
  ASSUME MInv, NEW q \in Requests, NEW r \in Request, Set(q, r),
         UNCHANGED <<attendees, embeddings>>,
         LET h == requests[q] IN
         /\ r.event = h.event /\ r.self = h.self /\ r.via = h.via
         /\ \/ h.stage \in OpenStages /\ r.stage \in OpenStages /\ r.met = h.met
            \/ h.stage = "store" /\ r.stage = "store" /\ r.found = h.found
            \/ h.stage \in Checkin /\ r.stage \in Checkin
  PROVE  [Promise!Next]_(Promise!vars)
<1> DEFINE h == requests[q]
<1>1. h \in Request /\ Good(h, attendees, embeddings, connections, uuids)
  BY DEF MInv, TypeOK
<1>2. Asked(r) = Asked(h) \/ Asked(r) = NoQuestion
  <2>1. CASE h.stage \in OpenStages /\ r.stage \in OpenStages /\ r.met = h.met
    <3>1. h.via \in {"chat", "match"} /\ r.via = h.via /\ r.event = h.event /\ r.self = h.self
      BY <1>1, <2>1 DEF Good
    <3> HIDE DEF h
    <3> QED BY <2>1, <3>1 DEF Asked, OpenStages
  <2>2. CASE h.stage = "store" /\ r.stage = "store" /\ r.found = h.found
    <3>1. h.via \in {"chat", "match"} /\ r.via = h.via /\ r.event = h.event /\ r.self = h.self
      BY <1>1, <2>2 DEF Good
    <3> HIDE DEF h
    <3> QED BY <2>2, <3>1 DEF Asked
  <2>3. CASE h.stage \in Checkin /\ r.stage \in Checkin
    <3>1. h.via = "checkin" /\ r.via = "checkin"
      BY <1>1, <2>3 DEF Good
    <3> QED BY <3>1 DEF Asked, NoQuestion
  <2> QED BY <2>1, <2>2, <2>3
<1> QED BY <1>2, AnswerStep

(* The pipeline from the count to the rows, step by step.                  *)
LEMMA PipelineStep ==
  ASSUME MInv, NEW q \in Requests,
         \/ GetMatches(q) \/ CountPeers(q) \/ CountPeersFails(q) \/ CountTotal(q)
  PROVE  [Promise!Next]_(Promise!vars)
<1> DEFINE h == requests[q]
<1>1. h \in Request /\ Good(h, attendees, embeddings, connections, uuids)
  BY DEF MInv, TypeOK
<1>2. UNCHANGED <<attendees, embeddings>>
  BY DEF GetMatches, FetchRequester, FetchQueryVector, SimilaritySearch, BuildCandidates,
         StoreShown, StoreFails, PipelineFails, CountPeers, CountPeersFails, CountTotal,
         OnlyRead, dbVars, InsertConnection
<1>3. ASSUME NEW answer, Answered(q, answer) PROVE [Promise!Next]_(Promise!vars)
  BY <1>1, <1>2, <1>3, EndStep DEF Answered
<1>4. ASSUME NEW stage \in {"requester", "vector", "search"}, Goes(q, stage), h.stage \in OpenStages
      PROVE  [Promise!Next]_(Promise!vars)
  <2> DEFINE r == [h EXCEPT !.stage = stage]
  <2>1. Set(q, r)
    BY <1>4 DEF Goes
  <2>2. stage \in Stages /\ stage \in OpenStages
    BY DEF Stages, Pipeline, OpenStages
  <2>3. /\ r \in Request /\ r.stage = stage /\ r.via = h.via /\ r.event = h.event
        /\ r.self = h.self /\ r.met = h.met
    <3> HIDE DEF h
    <3> QED BY <1>1, <2>2 DEF Request
  <2> HIDE DEF r
  <2> QED BY <1>2, <1>4, <2>1, <2>2, <2>3, GoesStep
<1>5. CASE FetchQueryVector(q) \/ PipelineFails(q)
           \/ CountPeers(q) \/ CountPeersFails(q) \/ CountTotal(q)
  BY <1>3, <1>4, <1>5 DEF FetchQueryVector, PipelineFails, CountPeers,
                          CountPeersFails, CountTotal, Raised, Empty, At, OpenStages
<1>6. CASE FetchRequester(q)
  <2> DEFINE valid == h.member \notin unreadable
             r == [h EXCEPT !.stage = "vector", !.valid = valid]
  <2>1. CASE Raised(q)
    BY <1>3, <2>1 DEF Raised
  <2>2. CASE Set(q, r)
    <3>1. valid \in BOOLEAN /\ h.stage \in OpenStages
          /\ "vector" \in Stages /\ "vector" \in OpenStages
      BY <1>6 DEF FetchRequester, At, Stages, Pipeline, OpenStages
    <3>2. /\ r \in Request /\ r.stage = "vector" /\ r.via = h.via /\ r.event = h.event
          /\ r.self = h.self /\ r.met = h.met
      <4> HIDE DEF h, valid
      <4> QED BY <1>1, <3>1 DEF Request
    <3> HIDE DEF r
    <3> QED BY <1>2, <2>2, <3>1, <3>2, GoesStep
  <2> QED BY <1>6, <2>1, <2>2 DEF FetchRequester
<1>7. CASE SimilaritySearch(q)
  <2>1. CASE Empty(q)
    BY <1>3, <2>1 DEF Empty
  <2>2. ASSUME NEW hits \in Hits(h), Set(q, [h EXCEPT !.stage = "rows", !.found = hits])
        PROVE  [Promise!Next]_(Promise!vars)
    <3> DEFINE r == [h EXCEPT !.stage = "rows", !.found = hits]
    <3>1. Set(q, r) /\ h.stage = "search"
      BY <1>7, <2>2 DEF SimilaritySearch, At
    <3>2. hits \in SUBSET AttendeeIds /\ "rows" \in Stages
      BY DEF Hits, Findable, MInv, DBInv, DBTypeOK, Stages, Pipeline
    <3>3. /\ r \in Request /\ r.stage = "rows" /\ r.via = h.via /\ r.event = h.event
          /\ r.self = h.self /\ r.met = h.met
      <4> HIDE DEF h
      <4> QED BY <1>1, <3>2 DEF Request
    <3> HIDE DEF r
    <3> QED BY <1>2, <3>1, <3>3, GoesStep DEF OpenStages
  <2> QED BY <1>7, <2>1, <2>2 DEF SimilaritySearch
<1>8. CASE BuildCandidates(q)
  <2>0. h.stage = "rows"
    BY <1>8 DEF BuildCandidates, At
  <2>1. CASE Empty(q) \/ Raised(q)
    BY <1>3, <2>1 DEF Empty, Raised
  <2>2. ASSUME NEW S \in Shown(Candidates(h.found)),
               Set(q, IF S = {} THEN Results([h EXCEPT !.found = {}])
                      ELSE [h EXCEPT !.stage = "store", !.valid = FALSE, !.found = S,
                                     !.left = S, !.met = {}])
        PROVE  [Promise!Next]_(Promise!vars)
    <3>1. S \subseteq h.found /\ S \subseteq DOMAIN attendees /\ Cardinality(S) <= FinalK
          /\ S \in SUBSET AttendeeIds
      BY <1>1 DEF Shown, Candidates, Request
    <3>2. CASE S = {}
      <4> DEFINE r == [h EXCEPT !.found = {}]
                 answer == IF r.found # {} THEN "matches"
                           ELSE IF r.via = "chat" THEN "nobody" ELSE "no_matches"
      <4>1. Set(q, Ended(r, answer))
        BY <2>2, <3>2 DEF Results
      <4>2. r \in Request
        BY <1>1 DEF Request
      <4> HIDE DEF r, answer
      <4> QED BY <1>2, <4>1, <4>2, EndStep
    <3>3. CASE S # {}
      <4> DEFINE r == [h EXCEPT !.stage = "store", !.valid = FALSE, !.found = S,
                                !.left = S, !.met = {}]
      <4>1. Set(q, r)
        BY <2>2, <3>3
      <4>2. h.via \in {"chat", "match"} /\ h.self \notin h.found /\ h.found \subseteq h.met
        BY <1>1, <2>0 DEF Good, OpenStages
      <4>3. Asked(h) = [state |-> "open", event |-> h.event, by |-> h.self, seen |-> h.met]
        BY <1>1, <2>0, AskedForms DEF OpenStages
      <4>4. /\ r.stage = "store" /\ r.via = h.via /\ r.event = h.event
            /\ r.self = h.self /\ r.found = S
        <5> HIDE DEF h
        <5> QED BY <1>1 DEF Request
      <4> HIDE DEF r
      <4>5. Asked(r) = [state |-> "picked", event |-> h.event, by |-> h.self, to |-> S]
        BY <4>2, <4>4 DEF Asked
      <4>6. S \subseteq h.met /\ h.self \notin S
        BY <3>1, <4>2
      <4> QED BY <1>2, <3>1, <4>1, <4>3, <4>5, <4>6, PickStep
    <3> QED BY <3>2, <3>3
  <2> QED BY <1>8, <2>1, <2>2 DEF BuildCandidates
<1>9. CASE StoreShown(q) \/ StoreFails(q)
  <2>1. PICK b \in h.left, lost \in SUBSET AttendeeIds :
          Set(q, Stored([h EXCEPT !.lost = lost], b)) /\ h.stage = "store"
    <3>1. h.lost \in SUBSET AttendeeIds /\ h.left \in SUBSET AttendeeIds
      BY <1>1 DEF Request
    <3>2. CASE StoreShown(q)
      <4>1. h = [h EXCEPT !.lost = h.lost]
        BY <1>1 DEF Request
      <4> QED BY <3>1, <3>2, <4>1 DEF StoreShown, At
    <3>3. CASE StoreFails(q)
      <4>1. PICK b \in h.left : Set(q, Stored([h EXCEPT !.lost = h.lost \cup {b}], b))
        BY <3>3 DEF StoreFails
      <4>2. h.lost \cup {b} \in SUBSET AttendeeIds /\ h.stage = "store"
        BY <3>1, <3>3 DEF StoreFails, At
      <4> QED BY <4>1, <4>2
    <3> QED BY <1>9, <3>2, <3>3
  <2> DEFINE g == [h EXCEPT !.lost = lost]
             left == h.left \ {b}
             rest == [g EXCEPT !.left = left]
  <2>2. /\ g.left = h.left
        /\ rest \in Request /\ rest.stage = "store" /\ rest.via = h.via /\ rest.event = h.event
        /\ rest.self = h.self /\ rest.found = h.found /\ rest.left = left
    <3>1. left \in SUBSET AttendeeIds
      BY <1>1 DEF Request
    <3> HIDE DEF left, h
    <3>2. /\ g \in Request /\ g.left = h.left /\ g.stage = "store" /\ g.via = h.via
          /\ g.event = h.event /\ g.self = h.self /\ g.found = h.found
      BY <1>1, <2>1 DEF Request
    <3> HIDE DEF g
    <3> QED BY <3>1, <3>2 DEF Request
  <2>3. Stored(g, b) = IF rest.left = {} THEN Results(rest) ELSE rest
    BY <2>2 DEF Stored
  <2>4. Set(q, Stored(g, b))
    BY <2>1
  <2> HIDE DEF g, rest
  <2>5. CASE rest.left = {}
    <3> DEFINE answer == IF rest.found # {} THEN "matches"
                         ELSE IF rest.via = "chat" THEN "nobody" ELSE "no_matches"
    <3>1. Set(q, Ended(rest, answer))
      BY <2>3, <2>4, <2>5 DEF Results
    <3> HIDE DEF answer
    <3> QED BY <1>2, <2>2, <3>1, EndStep
  <2>6. CASE rest.left # {}
    <3>1. Set(q, rest)
      BY <2>3, <2>4, <2>6
    <3> QED BY <1>2, <2>1, <2>2, <3>1, GoesStep
  <2> QED BY <2>5, <2>6
<1> QED BY <1>5, <1>6, <1>7, <1>8, <1>9 DEF GetMatches

(* A chat turn asks when it begins, a typed request when its sender is     *)
(* found; a check-in asks nothing.                                         *)
LEMMA BeginStep ==
  ASSUME MInv, NEW q \in Requests, Begin(q) \/ ResolveRequester(q)
  PROVE  [Promise!Next]_(Promise!vars)
<1> DEFINE h == requests[q]
<1>1. h \in Request /\ Good(h, attendees, embeddings, connections, uuids)
      /\ Idle \in Request /\ Idle.stage = "idle" /\ Idle.via = "none"
  BY DEF MInv, TypeOK, Idle, Request, Stages, Answers
<1>2. UNCHANGED <<attendees, embeddings>>
  BY DEF Begin, ChatTurn, MalformedRequest, MatchRequest, CheckInRequest, Begins, dbVars,
         ResolveRequester, OnlyRead
<1>3. /\ DOMAIN attendees \subseteq AttendeeIds /\ DOMAIN embeddings \subseteq AttendeeIds
      /\ \A a \in DOMAIN attendees :
           attendees[a].event \in Events /\ attendees[a].member \in Members
  BY DEF MInv, DBInv, DBTypeOK, Attendee
<1>4. ASSUME NEW r, Begins(q, r)
      PROVE  Set(q, r) /\ Asked(h) = NoQuestion
  <2>1. Set(q, r) /\ h.stage \in {"idle", "done"}
    BY <1>4 DEF Begins, Set
  <2>2. Asked(h) = NoQuestion
    BY <1>1, <2>1, AskedForms
  <2> QED BY <2>1, <2>2
<1>5. ASSUME NEW a \in DOMAIN attendees, ChatTurn(q, a) PROVE [Promise!Next]_(Promise!vars)
  <2> DEFINE e == attendees[a].event
             m == attendees[a].member
             met == Findable(e)
             r == [Idle EXCEPT !.stage = "count", !.via = "chat", !.event = e, !.self = a,
                               !.member = m, !.met = met]
  <2>1. Begins(q, r)
    BY <1>5 DEF ChatTurn
  <2>2. e \in Events /\ a \in AttendeeIds
    BY <1>3
  <2> HIDE DEF e, m, met
  <2>3. r.stage = "count" /\ r.via = "chat" /\ r.event = e /\ r.self = a /\ r.met = met
    BY <1>1 DEF Request
  <2> HIDE DEF r
  <2>4. Asked(r) = [state |-> "open", event |-> e, by |-> a, seen |-> Findable(e)]
    BY <2>3 DEF Asked, met
  <2> QED BY <1>2, <1>4, <2>1, <2>2, <2>4, AskStep
<1>6. ASSUME NEW via, MalformedRequest(q, via) PROVE [Promise!Next]_(Promise!vars)
  <2> DEFINE r == Ended([Idle EXCEPT !.via = via], "invalid")
  <2>1. Begins(q, r)
    BY <1>6 DEF MalformedRequest
  <2>2. r = Idle
    BY DEF Ended, Remembered
  <2> HIDE DEF r
  <2>3. Asked(r) = NoQuestion
    BY <1>1, <2>2 DEF Asked, NoQuestion
  <2> QED BY <1>2, <1>4, <2>1, <2>3, AnswerStep
<1>7. ASSUME NEW stage \in {"resolve", "profiles"}, NEW via, NEW e, NEW m,
             via = IF stage = "resolve" THEN "match" ELSE "checkin",
             Begins(q, [Idle EXCEPT !.stage = stage, !.via = via, !.event = e, !.member = m])
      PROVE  [Promise!Next]_(Promise!vars)
  <2> DEFINE r == [Idle EXCEPT !.stage = stage, !.via = via, !.event = e, !.member = m]
  <2>1. r.stage = stage /\ r.via = via
    BY <1>1 DEF Request
  <2>2. Begins(q, r)
    BY <1>7
  <2> HIDE DEF r
  <2>3. Asked(r) = NoQuestion
    BY <1>7, <2>1 DEF Asked, NoQuestion
  <2> QED BY <1>2, <1>4, <2>2, <2>3, AnswerStep
<1>8. CASE Begin(q)
  <2>1. ASSUME NEW e, NEW m, MatchRequest(q, e, m) PROVE [Promise!Next]_(Promise!vars)
    BY <1>7, <2>1 DEF MatchRequest
  <2>2. ASSUME NEW e, NEW m, CheckInRequest(q, e, m) PROVE [Promise!Next]_(Promise!vars)
    BY <1>7, <2>2 DEF CheckInRequest
  <2> QED BY <1>5, <1>6, <1>8, <2>1, <2>2 DEF Begin
<1>9. CASE ResolveRequester(q)
  <2> DEFINE rows == RowsOf(h.event, h.member)
  <2>0. h.stage = "resolve" /\ h.via = "match" /\ h.event \in Events
    BY <1>1, <1>9 DEF ResolveRequester, At, Good
  <2>1. CASE rows = {}
    <3>1. Set(q, Ended(h, "not_checked_in"))
      BY <1>9, <2>1 DEF ResolveRequester, Answered
    <3> HIDE DEF h
    <3> QED BY <1>1, <1>2, <3>1, EndStep
  <2>2. CASE rows # {}
    <3>1. PICK a \in rows :
            Set(q, [h EXCEPT !.stage = "total", !.self = a, !.met = Findable(h.event)])
      BY <1>9, <2>2 DEF ResolveRequester
    <3> DEFINE met == Findable(h.event)
               r == [h EXCEPT !.stage = "total", !.self = a, !.met = met]
    <3>2. Set(q, r)
      BY <3>1
    <3>3. a \in AttendeeIds
      BY <1>3 DEF RowsOf
    <3>4. Asked(h) = NoQuestion
      BY <1>1, <2>0, AskedForms
    <3> HIDE DEF met
    <3>5. r.stage = "total" /\ r.via = "match" /\ r.event = h.event /\ r.self = a /\ r.met = met
      <4> HIDE DEF h
      <4> QED BY <1>1, <2>0 DEF Request
    <3> HIDE DEF r
    <3>6. Asked(r) = [state |-> "open", event |-> h.event, by |-> a, seen |-> Findable(h.event)]
      BY <3>5 DEF Asked, met
    <3> QED BY <1>2, <2>0, <3>2, <3>3, <3>4, <3>6, AskStep
  <2> QED BY <2>1, <2>2
<1> QED BY <1>8, <1>9

(* Rows and vectors are written by check-ins.                              *)
LEMMA CheckinStep ==
  ASSUME MInv, MInv', NEW q \in Requests, HandleCheckin(q) \/ NoAnswer(q)
  PROVE  [Promise!Next]_(Promise!vars)
<1> DEFINE h == requests[q]
<1>1. h \in Request /\ Good(h, attendees, embeddings, connections, uuids) /\ DBInv
  BY DEF MInv, TypeOK
<1>2. CASE FetchProfiles(q)
  <2> DEFINE r == [h EXCEPT !.stage = "row"]
  <2>1. Set(q, r) /\ h.stage = "profiles" /\ UNCHANGED <<attendees, embeddings>>
    BY <1>2 DEF FetchProfiles, Goes, At, OnlyRead, dbVars
  <2>2. "row" \in Stages /\ "row" \in Checkin /\ "profiles" \in Checkin
    BY DEF Stages, Checkin
  <2>3. r \in Request /\ r.stage = "row" /\ r.via = h.via /\ r.event = h.event /\ r.self = h.self
    <3> HIDE DEF h
    <3> QED BY <1>1, <2>2 DEF Request
  <2> HIDE DEF r
  <2> QED BY <2>1, <2>2, <2>3, GoesStep
<1>3. CASE WriteRow(q)
  <2>1. PICK a \in AttendeeIds :
          /\ UpsertAttendee(h.event, h.member, a)
          /\ Set(q, [h EXCEPT !.stage = "write_vector", !.self = a])
    BY <1>3 DEF WriteRow
  <2> DEFINE r == [h EXCEPT !.stage = "write_vector", !.self = a]
  <2>2. Set(q, r) /\ h.stage = "row"
    BY <1>3, <2>1 DEF WriteRow, At
  <2>3. "write_vector" \in Stages /\ "write_vector" \in Checkin /\ "row" \in Checkin
    BY DEF Stages, Checkin
  <2>4. h.event \in Events /\ h.member \in Members
    BY <1>1, <2>2, <2>3 DEF Good
  <2>5. Lasts(attendees, embeddings, connections, uuids,
              attendees', embeddings', connections', uuids')
    BY <1>1, <2>1, <2>4, UpsertAttendeeLasts
  <2>6. r \in Request /\ r.stage = "write_vector"
    <3> HIDE DEF h
    <3> QED BY <1>1, <2>3 DEF Request
  <2> HIDE DEF r
  <2>7. Promise!Mingle
    BY <2>2, <2>3, <2>5, <2>6, MoveMingles
  <2> QED BY <2>7 DEF Promise!Next
<1>4. CASE WriteVector(q)
  <2> DEFINE a == h.self
             e == h.event
             r == [h EXCEPT !.stage = "count_all"]
  <2>1. /\ UpsertEmbedding(a, e) /\ a \in DOMAIN attendees /\ h.stage = "write_vector"
        /\ requests' = [p \in Requests |->
             IF p = q THEN r
             ELSE IF Searching(requests[p]) /\ requests[p].event = e
             THEN [requests[p] EXCEPT !.met = @ \cup {a}]
             ELSE requests[p]]
    BY <1>4 DEF WriteVector, UpsertEmbedding, At
  <2>2. /\ Lasts(attendees, embeddings, connections, uuids,
                 attendees', embeddings', connections', uuids')
        /\ a \in DOMAIN embeddings' /\ UNCHANGED attendees
    BY <1>1, <2>1, UpsertEmbeddingLasts
  <2>3. attendees[a].event = e
    BY <1>1, <2>1 DEF Good
  <2>4. embeddings'[a] = e
    BY <2>2, <2>3 DEF MInv, DBInv, RowsConsistent
  <2>5. "count_all" \notin OpenStages \cup {"store"} /\ "write_vector" \notin OpenStages \cup {"store"}
    BY DEF OpenStages
  <2>6. r.stage = "count_all"
    <3> HIDE DEF h
    <3> QED BY <1>1 DEF Request
  <2> HIDE DEF r
  <2>7. ASSUME NEW p \in Requests
        PROVE  LET x == requests[p]
                   y == requests'[p]
               IN  /\ x.stage \in OpenStages =>
                        /\ y.stage \in OpenStages /\ y.event = x.event /\ y.self = x.self
                        /\ x.met \subseteq y.met
                        /\ y.met \subseteq
                             x.met \cup {b \in DOMAIN embeddings' : embeddings'[b] = x.event}
                   /\ x.stage = "store" =>
                        /\ y.stage = "store" /\ y.event = x.event /\ y.self = x.self
                        /\ y.found = x.found
                   /\ x.stage \notin OpenStages \cup {"store"} =>
                        y.stage \notin OpenStages \cup {"store"}
    <3> DEFINE x == requests[p]
               y == requests'[p]
               met == x.met \cup {a}
               z == [x EXCEPT !.met = met]
    <3>1. x \in Request
      BY DEF MInv, TypeOK
    <3>2. CASE p = q
      <4>1. x.stage = "write_vector" /\ y.stage = "count_all"
        BY <2>1, <2>6, <3>2
      <4> QED BY <2>5, <4>1 DEF OpenStages
    <3>3. CASE p # q
      <4>1. y = IF Searching(x) /\ x.event = e THEN z ELSE x
        BY <2>1, <3>3
      <4> HIDE DEF met, x, y
      <4>2. /\ z.stage = x.stage /\ z.event = x.event /\ z.self = x.self /\ z.found = x.found
            /\ z.met = met
        BY <3>1 DEF Request
      <4> HIDE DEF z
      <4>3. /\ y.stage = x.stage /\ y.event = x.event /\ y.self = x.self /\ y.found = x.found
            /\ x.met \subseteq y.met
            /\ y.met \subseteq
                 x.met \cup {b \in DOMAIN embeddings' : embeddings'[b] = x.event}
        BY <2>2, <2>4, <4>1, <4>2 DEF met
      <4> QED BY <4>3 DEF x, y, OpenStages
    <3> QED BY <3>2, <3>3
  <2>8. Promise!Mingle
    BY <2>2, <2>7, MingleStep
  <2> QED BY <2>8 DEF Promise!Next
<1>5. ASSUME NEW answer, Answered(q, answer), UNCHANGED dbVars
      PROVE  [Promise!Next]_(Promise!vars)
  <2>1. Set(q, Ended(h, answer)) /\ UNCHANGED <<attendees, embeddings>>
    BY <1>5 DEF Answered, dbVars
  <2> HIDE DEF h
  <2> QED BY <1>1, <2>1, EndStep
<1>6. CASE CheckinRefused(q) \/ CountAll(q) \/ NoAnswer(q)
  BY <1>5, <1>6 DEF CheckinRefused, CountAll, NoAnswer, OnlyRead
<1> QED BY <1>2, <1>3, <1>4, <1>6 DEF HandleCheckin

(* A purge is people who leave.                                            *)
LEMMA PurgeStep ==
  ASSUME MInv, MInv', PurgeExpired
  PROVE  Promise!Mingle
<1>1. UNCHANGED requests
  BY DEF PurgeExpired, matchVars
<1>2. Lasts(attendees, embeddings, connections, uuids,
            attendees', embeddings', connections', uuids')
  BY PurgeLasts DEF PurgeExpired
<1> QED BY <1>1, <1>2, MingleStep

(* Whatever runs meanwhile, whoever is picked is another row of the same   *)
(* event, was found there since the question, and was still in the room    *)
(* when the rows were read; and there are FinalK of them at most.          *)
THEOREM PromiseKept == Spec => KeepsThePromise
<1>1. Init => Promise!Init
  <2> SUFFICES ASSUME Init PROVE Promise!Init
    OBVIOUS
  <2>1. \A q \in Requests : Asked(requests[q]) = NoQuestion
    BY DEF Init, Idle, Asked, NoQuestion
  <2>2. DOMAIN attendees = {} /\ DOMAIN embeddings = {}
    BY DEF Init, DBInit
  <2>3. [a \in DOMAIN attendees |-> attendees[a].event] = [p \in {} |-> {}]
    BY <2>2
  <2> QED BY <2>1, <2>2, <2>3 DEF Promise!Init, Promise!NotAsking, NoQuestion
<1>2. MInv /\ MInv' /\ [Next]_vars => [Promise!Next]_(Promise!vars)
  <2> SUFFICES ASSUME MInv, MInv', [Next]_vars PROVE [Promise!Next]_(Promise!vars)
    OBVIOUS
  <2>1. CASE UNCHANGED vars
    BY <2>1 DEF vars, dbVars, matchVars, Promise!vars
  <2>2. CASE PurgeExpired
    BY <2>2, PurgeStep DEF Promise!Next
  <2>3. ASSUME NEW q \in Requests, Begin(q) \/ ResolveRequester(q)
        PROVE  [Promise!Next]_(Promise!vars)
    BY <2>3, BeginStep
  <2>4. ASSUME NEW q \in Requests,
               \/ GetMatches(q) \/ CountPeers(q) \/ CountPeersFails(q) \/ CountTotal(q)
        PROVE  [Promise!Next]_(Promise!vars)
    BY <2>4, PipelineStep
  <2>5. ASSUME NEW q \in Requests, HandleCheckin(q) \/ NoAnswer(q)
        PROVE  [Promise!Next]_(Promise!vars)
    BY <2>5, CheckinStep
  <2> QED BY <2>1, <2>2, <2>3, <2>4, <2>5 DEF Next
<1> QED BY <1>1, <1>2, MatchingInvariant, PTL DEF Spec, KeepsThePromise, Promise!Spec

(* Both handlers and the purge issue only statements that a client of the  *)
(* tables may: a connection or a vector carries the event of its row.      *)
THEOREM MatchingUsesTables == Spec => DBSpec
<1>1. Init => DBInit
  BY DEF Init
<1>2. MInv /\ [Next]_vars => [DBNext]_dbVars
  <2> SUFFICES ASSUME MInv, [Next]_vars PROVE [DBNext]_dbVars
    OBVIOUS
  <2>1. CASE UNCHANGED vars
    BY <2>1 DEF vars
  <2>2. CASE PurgeExpired
    <3>1. CASE \E a \in DOMAIN attendees : Purge({a}, {})
      BY <3>1 DEF DBNext
    <3>2. CASE \E e \in events : Purge({}, {e})
      BY <3>2 DEF DBNext
    <3> QED BY <2>2, <3>1, <3>2 DEF PurgeExpired
  <2>3. ASSUME NEW q \in Requests, WriteRow(q) PROVE DBNext
    <3>1. Good(requests[q], attendees, embeddings, connections, uuids)
          /\ requests[q].stage \in Checkin
      BY <2>3 DEF MInv, WriteRow, At, Checkin
    <3>2. requests[q].event \in Events /\ requests[q].member \in Members
      BY <3>1 DEF Good
    <3> QED BY <2>3, <3>2 DEF WriteRow, DBNext
  <2>4. ASSUME NEW q \in Requests, WriteVector(q) PROVE DBNext
    <3> DEFINE a == requests[q].self
    <3>1. a \in DOMAIN attendees /\ UpsertEmbedding(a, requests[q].event)
      BY <2>4 DEF WriteVector, UpsertEmbedding
    <3>2. Good(requests[q], attendees, embeddings, connections, uuids)
          /\ requests[q].stage = "write_vector"
      BY <2>4 DEF MInv, WriteVector, At
    <3>3. attendees[a].event = requests[q].event
      BY <3>1, <3>2 DEF Good
    <3> QED BY <3>1, <3>3 DEF DBNext
  <2>5. ASSUME NEW q \in Requests, StoreShown(q) PROVE [DBNext]_dbVars
    <3> DEFINE h == requests[q]
    <3>1. h.stage = "store" /\ Good(h, attendees, embeddings, connections, uuids)
      BY <2>5 DEF MInv, StoreShown, At
    <3>2. PICK b \in h.left : InsertConnection(h.event, h.self, b) \/ UNCHANGED dbVars
      BY <2>5 DEF StoreShown
    <3>3. ASSUME InsertConnection(h.event, h.self, b) PROVE DBNext
      <4>1. h.self \in DOMAIN attendees /\ b \in DOMAIN attendees
        BY <3>3 DEF InsertConnection
      <4>2. h.self # b /\ attendees[h.self].event = h.event /\ attendees[b].event = h.event
        BY <3>1, <4>1 DEF Good
      <4> QED BY <3>3, <4>1, <4>2 DEF DBNext
    <3> QED BY <3>2, <3>3
  <2>6. ASSUME NEW q \in Requests,
               \/ Begin(q) \/ ResolveRequester(q) \/ CountPeers(q) \/ CountPeersFails(q)
               \/ CountTotal(q) \/ NoAnswer(q) \/ FetchProfiles(q) \/ CheckinRefused(q)
               \/ CountAll(q) \/ FetchRequester(q) \/ FetchQueryVector(q) \/ SimilaritySearch(q)
               \/ BuildCandidates(q) \/ StoreFails(q) \/ PipelineFails(q)
        PROVE  UNCHANGED dbVars
    BY <2>6 DEF Begin, ChatTurn, MalformedRequest, MatchRequest, CheckInRequest, Begins,
                ResolveRequester, CountPeers, CountPeersFails, CountTotal, NoAnswer, FetchProfiles,
                CheckinRefused, CountAll, FetchRequester, FetchQueryVector, SimilaritySearch,
                BuildCandidates, StoreFails, PipelineFails, OnlyRead
  <2> QED BY <2>1, <2>2, <2>3, <2>4, <2>5, <2>6 DEF Next, GetMatches, HandleCheckin
<1> QED BY <1>1, <1>2, MatchingInvariant, PTL DEF Spec, DBSpec
=============================================================================
