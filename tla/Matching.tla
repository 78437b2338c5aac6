------------------------------ MODULE Matching ------------------------------
(***************************************************************************)
(* The matching pipeline of handlers/matching.py and its two callers: the  *)
(* chat turn (_handle_matching of agent.py) and the typed protocol of      *)
(* protocols/matchmaking.py, whose check-in request fills the same tables. *)
(* An action is what runs between two awaits.  A request is a slot that is *)
(* used again once it is answered; meanwhile other requests run and rows   *)
(* are purged.  How two profiles compare is Ranking's; here a re-ranking   *)
(* may put the candidates in any order.                                    *)
(***************************************************************************)
EXTENDS MeetupDB, Naturals

CONSTANTS
    Requests,      \* slots for the requests that run at one time
    TopK,          \* top_k of get_matches
    FinalK,        \* final_k of get_matches
    MaxUnreadable, \* bound on the people whose stored profile does not validate
    MaxFailures,   \* bound on calls that fail
    MaxBegun,      \* bound on requests
    NoEvent, NoMember, NoRow

ASSUME MatchingAssumption ==
    /\ TopK \in Nat /\ FinalK \in Nat /\ MaxUnreadable \in Nat
    /\ MaxFailures \in Nat /\ MaxBegun \in Nat
    /\ NoEvent \notin Events /\ NoMember \notin Members /\ NoRow \notin AttendeeIds

VARIABLES
    requests,   \* what each slot is doing
    failures,   \* calls that have failed
    begun,      \* requests that have begun
    unreadable  \* people whose profile_json does not validate any more

matchVars == <<requests, failures, begun, unreadable>>
vars == <<dbVars, matchVars>>

Chat     == {"count"}
Typed    == {"resolve", "total"}
Pipeline == {"requester", "vector", "search", "rows", "store"}
Checkin  == {"profiles", "row", "write_vector", "count_all"}
Stages   == {"idle", "done"} \cup Chat \cup Typed \cup Pipeline \cup Checkin

Answers == {"none", "matches", "success", "silence"}

(* via: which handler; self: the requester's row; valid: the profile in    *)
(* it, as it was read, validates; found: hits, then the matches shown;     *)
(* left: those still to be stored; lost: history, matches whose insert     *)
(* failed as a call; met: history, whom the search could have found since  *)
(* the request began.                                                      *)
Request ==
    [stage : Stages, via : {"none", "chat", "match", "checkin"},
     event : Events \cup {NoEvent}, member : Members \cup {NoMember},
     self : AttendeeIds \cup {NoRow}, valid : BOOLEAN, found : SUBSET AttendeeIds,
     left : SUBSET AttendeeIds, lost : SUBSET AttendeeIds, met : SUBSET AttendeeIds,
     answer : Answers]

Idle ==
    [stage |-> "idle", via |-> "none", event |-> NoEvent, member |-> NoMember,
     self |-> NoRow, valid |-> FALSE, found |-> {}, left |-> {}, lost |-> {},
     met |-> {}, answer |-> "none"]

Init ==
    /\ DBInit
    /\ requests = [q \in Requests |-> Idle]
    /\ failures = 0 /\ begun = 0
    /\ unreadable \in {S \in SUBSET Members : Cardinality(S) <= MaxUnreadable}

At(q, stage) == requests[q].stage = stage

Begins(q, r) ==
    /\ requests[q].stage \in {"idle", "done"}
    /\ begun < MaxBegun
    /\ requests' = [requests EXCEPT ![q] = r]
    /\ begun' = begun + 1
    /\ UNCHANGED <<dbVars, failures, unreadable>>

Set(q, r) == requests' = [requests EXCEPT ![q] = r]

Goes(q, stage) == Set(q, [requests[q] EXCEPT !.stage = stage])

(* The answers a property looks back at; after any other the slot is free. *)
Remembered == {"matches", "success", "silence"}

Ended(r, answer) ==
    IF answer \notin Remembered \/ (answer = "silence" /\ r.via # "checkin") THEN Idle
    ELSE [r EXCEPT !.stage = "done", !.answer = answer, !.met = {},
                   !.member = IF r.via = "checkin" THEN @ ELSE NoMember]

Answered(q, answer) == Set(q, Ended(requests[q], answer))

OnlyRead == UNCHANGED <<dbVars, failures, begun, unreadable>>

Others(e, a) == {b \in DOMAIN attendees \ {a} : attendees[b].event = e}

Findable(e) == {b \in DOMAIN embeddings : embeddings[b] = e}

Searching(r) == r.via \in {"chat", "match"} /\ r.stage \notin {"done", "store"}

-----------------------------------------------------------------------------
(* get_matches *)

(* An exception of get_matches: both callers answer that it failed.        *)
Raised(q) == Answered(q, "snag")

(* It returns []: a chat user reads "You're early", a typed request gets   *)
(* "Found 0 matches".                                                      *)
Empty(q) ==
    Answered(q, IF requests[q].via = "chat" THEN "nobody" ELSE "no_matches")

(* The row is kept; its profile is validated later, in BuildCandidates.    *)
FetchRequester(q) ==
    /\ At(q, "requester")
    /\ IF requests[q].self \in DOMAIN attendees
       THEN Set(q, [requests[q] EXCEPT !.stage = "vector",
                                       !.valid = requests[q].member \notin unreadable])
       ELSE Raised(q)
    /\ OnlyRead

FetchQueryVector(q) ==
    /\ At(q, "vector")
    /\ IF requests[q].self \in DOMAIN embeddings THEN Goes(q, "search") ELSE Empty(q)
    /\ OnlyRead

(* At most top_k vectors of the event but one's own, and maybe fewer than  *)
(* there are: the ivfflat index looks into a part of its lists only.       *)
Hits(r) == {near \in SUBSET (Findable(r.event) \ {r.self}) : Cardinality(near) <= TopK}

SimilaritySearch(q) ==
    /\ At(q, "search")
    /\ \E near \in Hits(requests[q]) :
         IF near = {} THEN Empty(q)
         ELSE Set(q, [requests[q] EXCEPT !.stage = "rows", !.found = near])
    /\ OnlyRead

(* Hits whose row is still there and whose profile still validates.  The   *)
(* mutant takes the hits for rows.                                         *)
Candidates_FromHits(hits) == hits
Candidates(hits) ==
    {b \in hits \cap DOMAIN attendees : attendees[b].member \notin unreadable}

(* What an order by score, an optional filter and the cut may leave.       *)
Shown(cands) == {S \in SUBSET cands : Cardinality(S) <= FinalK}

(* The list get_matches returns: a chat user is shown it if it has a       *)
(* match, a typed request gets it as it is.                                *)
Results(r) ==
    Ended(r, IF r.found # {} THEN "matches"
             ELSE IF r.via = "chat" THEN "nobody" ELSE "no_matches")

(* _build_candidates, ranking, and explain_match of each: that waits for a *)
(* model, has a sentence of its own for when the model fails, and touches  *)
(* nothing shared; an answer of an unexpected shape makes it raise, which  *)
(* PipelineFails counts.  The requester's profile is the one that          *)
(* FetchRequester read, whatever a check-in has stored since.              *)
BuildCandidates(q) ==
    /\ At(q, "rows")
    /\ LET r == requests[q]
           cands == Candidates(r.found)
       IN  IF cands = {} THEN Empty(q)
           ELSE IF ~r.valid THEN Raised(q)
           ELSE \E S \in Shown(cands) :
                  Set(q, IF S = {} THEN Results([r EXCEPT !.found = {}])
                         ELSE [r EXCEPT !.stage = "store", !.valid = FALSE, !.found = S,
                                        !.left = S, !.met = {}])
    /\ OnlyRead

(* store_shown_matches has one match less to store; after the last one the *)
(* list is returned and answered.                                          *)
Stored(r, b) ==
    LET rest == [r EXCEPT !.left = @ \ {b}] IN IF rest.left = {} THEN Results(rest) ELSE rest

(* One insert, its exception swallowed: the row of either person may have  *)
(* gone since.                                                             *)
StoreShown(q) ==
    /\ At(q, "store")
    /\ \E b \in requests[q].left :
         /\ Set(q, Stored(requests[q], b))
         /\ \/ InsertConnection(requests[q].event, requests[q].self, b)
            \/ ~ {requests[q].self, b} \subseteq DOMAIN attendees /\ UNCHANGED dbVars
    /\ UNCHANGED <<failures, begun, unreadable>>

(* The statement itself fails.  The mutant has the try around the loop.    *)
StoreFails_StopsTheLoop(q) ==
    /\ At(q, "store") /\ failures < MaxFailures
    /\ \E b \in requests[q].left :
         Set(q, Results([requests[q] EXCEPT !.left = {}, !.lost = @ \cup {b}]))
    /\ failures' = failures + 1
    /\ UNCHANGED <<dbVars, begun, unreadable>>
StoreFails(q) ==
    /\ At(q, "store") /\ failures < MaxFailures
    /\ \E b \in requests[q].left :
         Set(q, Stored([requests[q] EXCEPT !.lost = @ \cup {b}], b))
    /\ failures' = failures + 1
    /\ UNCHANGED <<dbVars, begun, unreadable>>

(* One of the queries before fails and get_matches raises.                 *)
PipelineFails(q) ==
    /\ requests[q].stage \in Pipeline \ {"store"} /\ failures < MaxFailures
    /\ Raised(q)
    /\ failures' = failures + 1
    /\ UNCHANGED <<dbVars, begun, unreadable>>

-----------------------------------------------------------------------------
(* The chat turn *)

(* _handle_matching is entered with the row a query or an upsert has just  *)
(* returned.  Parsing the message waits for a model but reads and writes   *)
(* nothing shared.                                                         *)
ChatTurn(q, a) ==
    /\ a \in DOMAIN attendees
    /\ LET e == attendees[a].event IN
       Begins(q, [Idle EXCEPT !.stage = "count", !.via = "chat", !.event = e, !.self = a,
                              !.member = attendees[a].member, !.met = Findable(e)])

CountPeers(q) ==
    /\ At(q, "count")
    /\ IF Others(requests[q].event, requests[q].self) = {} THEN Answered(q, "alone")
       ELSE Goes(q, "requester")
    /\ OnlyRead

(* Matching goes on without the count.                                     *)
CountPeersFails(q) ==
    /\ At(q, "count") /\ failures < MaxFailures
    /\ Goes(q, "requester")
    /\ failures' = failures + 1
    /\ UNCHANGED <<dbVars, begun, unreadable>>

-----------------------------------------------------------------------------
(* The typed protocol *)

(* handle_match and handle_checkin refuse an event id that is no UUID.     *)
MalformedRequest(q, via) ==
    Begins(q, Ended([Idle EXCEPT !.via = via], "invalid"))

MatchRequest(q, e, m) ==
    Begins(q, [Idle EXCEPT !.stage = "resolve", !.via = "match", !.event = e, !.member = m])

(* fetch_attendee_by_linkedin.  The mutant passes the row for its id.      *)
ResolveRequester_PassesRow(q) ==
    /\ At(q, "resolve")
    /\ LET rows == RowsOf(requests[q].event, requests[q].member) IN
       IF rows = {} THEN Answered(q, "not_checked_in")
       ELSE \E a \in rows :
              Set(q, [requests[q] EXCEPT !.stage = "total", !.self = attendees[a],
                                         !.met = Findable(requests[q].event)])
    /\ OnlyRead
ResolveRequester(q) ==
    /\ At(q, "resolve")
    /\ LET rows == RowsOf(requests[q].event, requests[q].member) IN
       IF rows = {} THEN Answered(q, "not_checked_in")
       ELSE \E a \in rows :
              Set(q, [requests[q] EXCEPT !.stage = "total", !.self = a,
                                         !.met = Findable(requests[q].event)])
    /\ OnlyRead

(* _count_event_attendees counts the requester too.                        *)
CountTotal(q) ==
    /\ At(q, "total")
    /\ IF Cardinality(Others(requests[q].event, NoRow)) < 2 THEN Answered(q, "first")
       ELSE Goes(q, "requester")
    /\ OnlyRead

CheckInRequest(q, e, m) ==
    Begins(q, [Idle EXCEPT !.stage = "profiles", !.via = "checkin", !.event = e, !.member = m])

(* Profiles fetched and merged, then embedded: calls that write nothing    *)
(* here.                                                                   *)
FetchProfiles(q) ==
    /\ At(q, "profiles")
    /\ Goes(q, "row")
    /\ OnlyRead

WriteRow(q) ==
    /\ At(q, "row")
    /\ \E a \in AttendeeIds :
         /\ UpsertAttendee(requests[q].event, requests[q].member, a)
         /\ Set(q, [requests[q] EXCEPT !.stage = "write_vector", !.self = a])
    /\ unreadable' = unreadable \ {requests[q].member}
    /\ UNCHANGED <<failures, begun>>

(* Searches that run see the new vector.                                   *)
WriteVector(q) ==
    /\ At(q, "write_vector")
    /\ LET a == requests[q].self
           e == requests[q].event
       IN  /\ UpsertEmbedding(a, e)
           /\ requests' = [p \in Requests |->
                IF p = q THEN [requests[q] EXCEPT !.stage = "count_all"]
                ELSE IF Searching(requests[p]) /\ requests[p].event = e
                THEN [requests[p] EXCEPT !.met = @ \cup {a}]
                ELSE requests[p]]
    /\ UNCHANGED <<failures, begun, unreadable>>

(* The foreign key of either statement, or any call, fails: handle_checkin *)
(* answers with the exception.  The mutant lets the second statement fail  *)
(* in silence.                                                             *)
CheckinRefused_VectorSwallowed(q) ==
    LET gone == \/ At(q, "row") /\ requests[q].event \notin events
                \/ At(q, "write_vector") /\ requests[q].self \notin DOMAIN attendees
    IN
    /\ requests[q].stage \in Checkin \ {"count_all"}
    /\ gone \/ failures < MaxFailures
    /\ IF At(q, "write_vector") THEN Goes(q, "count_all") ELSE Answered(q, "refused")
    /\ failures' = IF gone THEN failures ELSE failures + 1
    /\ UNCHANGED <<dbVars, begun, unreadable>>
CheckinRefused(q) ==
    LET gone == \/ At(q, "row") /\ requests[q].event \notin events
                \/ At(q, "write_vector") /\ requests[q].self \notin DOMAIN attendees
    IN
    /\ requests[q].stage \in Checkin \ {"count_all"}
    /\ gone \/ failures < MaxFailures
    /\ Answered(q, "refused")
    /\ failures' = IF gone THEN failures ELSE failures + 1
    /\ UNCHANGED <<dbVars, begun, unreadable>>

CountAll(q) ==
    /\ At(q, "count_all")
    /\ Answered(q, "success")
    /\ OnlyRead

(* These three queries are outside any try: the sender hears nothing.      *)
NoAnswer(q) ==
    /\ requests[q].stage \in Typed \cup {"count_all"} /\ failures < MaxFailures
    /\ Answered(q, "silence")
    /\ failures' = failures + 1
    /\ UNCHANGED <<dbVars, begun, unreadable>>

-----------------------------------------------------------------------------
(* The daily job, and the whole *)

(* Several rows that go at once are rows that go one after the other with  *)
(* nothing in between.                                                     *)
PurgeExpired ==
    /\ \/ \E a \in DOMAIN attendees : Purge({a}, {})
       \/ \E e \in events : Purge({}, {e})
    /\ UNCHANGED matchVars

Begin(q) ==
    \/ \E a \in DOMAIN attendees : ChatTurn(q, a)
    \/ \E via \in {"match", "checkin"} : MalformedRequest(q, via)
    \/ \E e \in Events, m \in Members : MatchRequest(q, e, m)
    \/ \E e \in Events, m \in Members : CheckInRequest(q, e, m)

GetMatches(q) ==
    \/ FetchRequester(q) \/ FetchQueryVector(q) \/ SimilaritySearch(q) \/ BuildCandidates(q)
    \/ StoreShown(q) \/ StoreFails(q) \/ PipelineFails(q)

HandleCheckin(q) ==
    \/ FetchProfiles(q) \/ WriteRow(q) \/ WriteVector(q)
    \/ CheckinRefused(q) \/ CountAll(q)

Next ==
    \/ \E q \in Requests :
         \/ Begin(q) \/ GetMatches(q) \/ HandleCheckin(q)
         \/ CountPeers(q) \/ CountPeersFails(q)
         \/ ResolveRequester(q) \/ CountTotal(q) \/ NoAnswer(q)
    \/ PurgeExpired

Spec == Init /\ [][Next]_vars

-----------------------------------------------------------------------------
(* Properties *)

(* Every request has a stage, and what it keeps are rows and people.       *)
TypeOK ==
    /\ requests \in [Requests -> Request]
    /\ failures \in 0..MaxFailures /\ begun \in 0..MaxBegun
    /\ unreadable \in SUBSET Members

(* store_shown_matches swallows what fails: still, a match somebody was    *)
(* shown is recorded, whatever failed for the others, unless its own       *)
(* insert failed or one of the two rows has been purged.                   *)
RecordedUnlessGone ==
    \A q \in Requests : LET r == requests[q] IN
      r.answer = "matches" =>
        \A b \in r.found \ r.lost :
          \/ [event |-> r.event, from |-> r.self, to |-> b] \in connections
          \/ ~ {r.self, b} \subseteq DOMAIN attendees

(* A typed check-in that was answered with success, and one whose answer   *)
(* was lost with the count that follows, has stored its row and its vector *)
(* for the event and person it named, until a purge removes both.          *)
StoredUnlessRefused ==
    \A q \in Requests : LET r == requests[q] IN
      r.via = "checkin" /\ r.answer \in {"success", "silence"} /\ r.self \in DOMAIN attendees =>
        /\ attendees[r.self] = [event |-> r.event, member |-> r.member]
        /\ r.self \in DOMAIN embeddings

(* A sender that repeats a check-in, or two that check the same person in  *)
(* at once, is told the same attendee id, unless the first row was purged. *)
SameAttendeeId ==
    \A p, q \in Requests :
      /\ {requests[p].answer, requests[q].answer} = {"success"}
      /\ requests[p].event = requests[q].event /\ requests[p].member = requests[q].member
      /\ {requests[p].self, requests[q].self} \subseteq DOMAIN attendees
      => requests[p].self = requests[q].self

(* Whatever runs meanwhile, the pipeline keeps the promise of              *)
(* Introductions: up to FinalK others of one's own event, none of whom had *)
(* left when the rows were read.                                           *)
Asked(r) ==
    IF r.via \notin {"chat", "match"} \/ r.stage \in {"idle", "done", "resolve"}
    THEN [state |-> "none"]
    ELSE IF r.stage = "store"
    THEN [state |-> "picked", event |-> r.event, by |-> r.self, to |-> r.found]
    ELSE [state |-> "open", event |-> r.event, by |-> r.self, seen |-> r.met]

Promise ==
    INSTANCE Introductions WITH
      People <- AttendeeIds, Askers <- Requests, K <- FinalK,
      room <- [a \in DOMAIN attendees |-> attendees[a].event],
      findable <- DOMAIN embeddings,
      asked <- [q \in Requests |-> Asked(requests[q])]

KeepsThePromise == Promise!Spec
=============================================================================
