------------------------------- MODULE CheckIn ------------------------------
(***************************************************************************)
(* Onboarding over chat: agent.py's message handler and its sub-flows, the *)
(* OAuth callback that completes them, and the two-statement check-in of   *)
(* handlers/embedding.py, over the tables of MeetupDB.                     *)
(*                                                                         *)
(* A chat turn is a task that runs without interruption from one await to  *)
(* the next; its frame says which call it waits for.  Callbacks, other     *)
(* turns, the purge and a restart happen between those points.  An await   *)
(* that can fail has an action for each way it ends.  Time is left to      *)
(* SessionStore: a session that no turn holds may be found expired at any  *)
(* later message.                                                          *)
(***************************************************************************)
EXTENDS MeetupDB, Integers

CONSTANTS
    Senders,      \* chat addresses
    SessionIds,   \* message ids that can open a session, one for each life of one
    MaxTurns,     \* chat turns the dispatcher runs at a time
    DevMembers,   \* what dev_linkedin_id may be outside production, and NoMember
    NoEvent, NoMember, NoAttendee   \* Python's None

ASSUME NonesAssumption ==
    /\ NoEvent \notin Events
    /\ NoMember \notin Members
    /\ NoAttendee \notin AttendeeIds
    /\ DevMembers \subseteq Members \cup {NoMember}
ASSUME MaxTurnsAssumption == MaxTurns \in Nat \ {0}

Platforms == {"linkedin", "github"}

(* Session: its tokens (LinkedIn's by the account it speaks for), the      *)
(* attendee it acts as, and _cached_linkedin_dict.                         *)
Session ==
    [sid : SessionIds, event : Events \cup {NoEvent},
     linkedin : Members \cup {NoMember}, github : BOOLEAN,
     attendee : AttendeeIds \cup {NoAttendee}, cached : Members \cup {NoMember}]

(* What a handler can tell of a message: a StartSession marker, an         *)
(* event_id in its text, and other text.  That the other text says "skip"  *)
(* makes no difference to any branch.                                      *)
Message == [start : BOOLEAN, event : Events \cup {NoEvent}, text : {"", "words", "skip"}]

(* A suspended turn: the call it awaits and the locals it will use.  The   *)
(* mode tells a StartSession message, one that also carries words (its     *)
(* turn goes on to matching), and any other.                               *)
Frame ==
    [awaits : {"ensure_event", "greet", "greet_dev", "load_by_id", "load_dev", "userinfo",
               "load_by_linkedin", "profile", "github", "embed", "row", "vector", "match"},
     mode : {"start", "follow", "plain"},
     event : Events \cup {NoEvent}, member : Members \cup {NoMember},
     attendee : AttendeeIds \cup {NoAttendee}]

Link == [platform : Platforms, sid : SessionIds, event : Events]

Replies == {"none", "rescan", "resend", "linkedin", "github", "welcome_back", "reauthorise",
            "trouble", "sorry", "checked_in", "alone", "nobody", "matches", "snag"}

VARIABLES
    dev,        \* the LinkedIn id the development shortcut acts as, or NoMember
    sessions,   \* SessionStore._sessions
    turns,      \* chat turns in progress: sender -> frame
    links,      \* authorisation URLs sent
    callbacks,  \* callbacks whose state verified, waiting for their tokens
    minted,     \* session ids given out
    replies,    \* the last thing each sender's current or last turn said
    consent     \* history: accounts that authorised LinkedIn, by session id

chatVars == <<sessions, turns, links, callbacks, minted, replies, consent>>
vars == <<dbVars, chatVars, dev>>

Init ==
    /\ DBInit
    /\ dev \in DevMembers
    /\ sessions = [s \in {} |-> {}]
    /\ turns = [s \in {} |-> {}]
    /\ links = {}
    /\ callbacks = {}
    /\ minted = {}
    /\ replies = [s \in Senders |-> "none"]
    /\ consent = {}

-----------------------------------------------------------------------------
(* Sessions as values.  The "cached" dict survives new tokens. *)

NewSession(i) ==
    [sid |-> i, event |-> NoEvent, linkedin |-> NoMember, github |-> FALSE,
     attendee |-> NoAttendee, cached |-> NoMember]

WithEvent(x, e) ==
    [sid |-> x.sid, event |-> e, linkedin |-> x.linkedin, github |-> x.github,
     attendee |-> x.attendee, cached |-> x.cached]

WithAttendee(x, a) ==
    [sid |-> x.sid, event |-> x.event, linkedin |-> x.linkedin, github |-> x.github,
     attendee |-> a, cached |-> x.cached]

WithCached(x, m) ==
    [sid |-> x.sid, event |-> x.event, linkedin |-> x.linkedin, github |-> x.github,
     attendee |-> x.attendee, cached |-> m]

(* _oauth_callback keeps an event the session already has.  The mutant     *)
(* forgets GitHub when LinkedIn is authorised again.                       *)
WithTokens_Exclusive(x, l, m) ==
    [sid |-> x.sid, event |-> IF x.event = NoEvent THEN l.event ELSE x.event,
     linkedin |-> IF l.platform = "linkedin" THEN m ELSE x.linkedin,
     github |-> l.platform = "github",
     attendee |-> x.attendee, cached |-> x.cached]
WithTokens(x, l, m) ==
    [sid |-> x.sid, event |-> IF x.event = NoEvent THEN l.event ELSE x.event,
     linkedin |-> IF l.platform = "linkedin" THEN m ELSE x.linkedin,
     github |-> x.github \/ l.platform = "github",
     attendee |-> x.attendee, cached |-> x.cached]

At(call, mode, e, m, a) ==
    [awaits |-> call, mode |-> mode, event |-> e, member |-> m, attendee |-> a]

-----------------------------------------------------------------------------
(* How an uninterrupted stretch of a turn ends.  keep is the set of        *)
(* senders whose sessions stay in the store, x the turn's own session.     *)

Store(keep, s, x) ==
    sessions' = [r \in keep \cup {s} |-> IF r = s THEN x ELSE sessions[r]]

Finish(s) == turns' = [r \in DOMAIN turns \ {s} |-> turns[r]]

Say(s, what) == replies' = [replies EXCEPT ![s] = what]

Await(keep, s, x, frame) ==
    /\ Store(keep, s, x)
    /\ turns' = [r \in DOMAIN turns \cup {s} |-> IF r = s THEN frame ELSE turns[r]]
    /\ replies' = IF s \in DOMAIN turns THEN replies ELSE [replies EXCEPT ![s] = "none"]
    /\ UNCHANGED links

Reply(keep, s, x, what) ==
    /\ Store(keep, s, x)
    /\ Finish(s)
    /\ Say(s, what)
    /\ UNCHANGED links

Leave(keep, s, x) ==
    /\ Store(keep, s, x)
    /\ Finish(s)
    /\ UNCHANGED <<links, replies>>

ReplyLink(keep, s, x, p) ==
    /\ Store(keep, s, x)
    /\ Finish(s)
    /\ Say(s, p)
    /\ links' = links \cup {[platform |-> p, sid |-> x.sid, event |-> x.event]}

(* _greet: the event of the text, else of the session, is taken before it  *)
(* is looked up.                                                           *)
Greet(keep, s, x, e, mode) ==
    LET candidate == IF e # NoEvent THEN e ELSE x.event IN
    \/ /\ candidate = NoEvent
       /\ Reply(keep, s, x, "rescan")
    \/ /\ candidate # NoEvent
       /\ Await(keep, s, WithEvent(x, candidate),
                At("greet", mode, candidate, NoMember, NoAttendee))

(* _complete_checkin, up to its first await: a cached LinkedIn profile is  *)
(* used whatever the tokens are now.  The mutant relies on the cache.      *)
CompleteCheckin_CacheOnly(keep, s, x) ==
    Await(keep, s, x, At("github", "plain", NoEvent, x.cached, NoAttendee))
CompleteCheckin(keep, s, x) ==
    \/ /\ x.cached # NoMember
       /\ Await(keep, s, x, At("github", "plain", NoEvent, x.cached, NoAttendee))
    \/ /\ x.cached = NoMember
       /\ Await(keep, s, x, At("profile", "plain", NoEvent, x.linkedin, NoAttendee))

(* _continue_onboarding: one missing token is asked for at a time.         *)
ContinueOnboarding(keep, s, x) ==
    \/ /\ x.event = NoEvent
       /\ Reply(keep, s, x, "rescan")
    \/ /\ x.event # NoEvent /\ x.linkedin = NoMember
       /\ ReplyLink(keep, s, x, "linkedin")
    \/ /\ x.event # NoEvent /\ x.linkedin # NoMember /\ ~x.github
       /\ ReplyLink(keep, s, x, "github")
    \/ /\ x.event # NoEvent /\ x.linkedin # NoMember /\ x.github
       /\ CompleteCheckin(keep, s, x)

(* _try_load_attendee, up to its first await.  The mutant asks LinkedIn    *)
(* even when the session already has an attendee.                          *)
LoadAttendee_Always(keep, s, x, mode) ==
    \/ /\ x.linkedin = NoMember \/ x.event = NoEvent
       /\ ContinueOnboarding(keep, s, x)
    \/ /\ x.linkedin # NoMember /\ x.event # NoEvent
       /\ Await(keep, s, x, At("userinfo", mode, NoEvent, x.linkedin, NoAttendee))
LoadAttendee(keep, s, x, mode) ==
    \/ /\ x.attendee # NoAttendee
       /\ Await(keep, s, x, At("load_by_id", mode, NoEvent, NoMember, x.attendee))
    \/ /\ x.attendee = NoAttendee /\ dev # NoMember /\ x.event # NoEvent
       /\ Await(keep, s, x, At("load_dev", mode, x.event, dev, NoAttendee))
    \/ /\ x.attendee = NoAttendee /\ (dev = NoMember \/ x.event = NoEvent)
       /\ x.linkedin = NoMember \/ x.event = NoEvent
       /\ ContinueOnboarding(keep, s, x)
    \/ /\ x.attendee = NoAttendee /\ dev = NoMember
       /\ x.linkedin # NoMember /\ x.event # NoEvent
       /\ Await(keep, s, x, At("userinfo", mode, NoEvent, x.linkedin, NoAttendee))

(* on_chat_message, from the session to the first await.                   *)
Route(keep, s, x, msg) ==
    \/ /\ msg.start
       /\ Greet(keep, s, x, msg.event, IF msg.text = "" THEN "start" ELSE "follow")
    \/ /\ ~msg.start /\ msg.event = NoEvent /\ msg.text = ""
       /\ Reply(keep, s, x, "resend")
    \/ /\ ~msg.start /\ (msg.event # NoEvent \/ msg.text # "")
       /\ \/ /\ x.event # NoEvent
             /\ LoadAttendee(keep, s, x, "plain")
          \/ /\ x.event = NoEvent /\ msg.event = NoEvent
             /\ Greet(keep, s, x, NoEvent, "plain")
          \/ /\ x.event = NoEvent /\ msg.event # NoEvent
             /\ Await(keep, s, x, At("ensure_event", "plain", msg.event, NoMember, NoAttendee))

-----------------------------------------------------------------------------
(* Steps of a chat turn *)

(* SessionIds bounds how often sessions are lost: only while every sender  *)
(* without one can still open one.                                         *)
IdsLeftFor(senders) == Cardinality(senders) <= Cardinality(SessionIds \ minted)

(* A message arrives; get_or_create drops the sessions it finds expired    *)
(* (gone) and opens one if the sender has none.                            *)
ChatMessage(s, msg) ==
    /\ s \notin DOMAIN turns
    /\ Cardinality(DOMAIN turns) < MaxTurns
    /\ \E gone \in SUBSET (DOMAIN sessions \ DOMAIN turns) :
         LET keep == DOMAIN sessions \ gone IN
         /\ IdsLeftFor(Senders \ keep)
         /\ \/ /\ s \in keep
               /\ Route(keep, s, sessions[s], msg)
               /\ UNCHANGED minted
            \/ /\ s \notin keep
               /\ \E i \in SessionIds \ minted :
                    /\ Route(keep, s, NewSession(i), msg)
                    /\ minted' = minted \cup {i}
    /\ UNCHANGED <<dbVars, dev, callbacks, consent>>

Awaiting(s, call) == s \in DOMAIN turns /\ turns[s].awaits = call

Kept == DOMAIN sessions

StepUnchanged == UNCHANGED <<dbVars, dev, callbacks, minted, consent>>

(* _ensure_event_known after fetch_event.                                  *)
EventKnown(s) ==
    /\ Awaiting(s, "ensure_event")
    /\ turns[s].event \in events
    /\ LoadAttendee(Kept, s, WithEvent(sessions[s], turns[s].event), "plain")
    /\ StepUnchanged

(* No such event, or the query failed: on_chat_message greets instead.     *)
EventUnknown(s) ==
    /\ Awaiting(s, "ensure_event")
    /\ Greet(Kept, s, sessions[s], turns[s].event, "plain")
    /\ StepUnchanged

(* A greeting is out.  A StartSession message with words goes on to        *)
(* matching if the session already has an attendee.                        *)
AfterGreeting(s, x, frame, what) ==
    /\ Say(s, what)
    /\ links' = IF what = "linkedin"
                THEN links \cup {[platform |-> "linkedin", sid |-> x.sid, event |-> frame.event]}
                ELSE links
    /\ Store(Kept, s, x)
    /\ \/ /\ frame.mode = "follow" /\ x.attendee # NoAttendee
          /\ turns' = [turns EXCEPT ![s] =
                         At("load_by_id", "follow", NoEvent, NoMember, x.attendee)]
       \/ /\ frame.mode # "follow" \/ x.attendee = NoAttendee
          /\ Finish(s)

(* fetch_event in _greet decides only how the event is called.             *)
Greeted(s) ==
    /\ Awaiting(s, "greet")
    /\ \/ /\ dev = NoMember
          /\ AfterGreeting(s, sessions[s], turns[s], "linkedin")
       \/ /\ dev # NoMember
          /\ Await(Kept, s, sessions[s],
                   At("greet_dev", turns[s].mode, turns[s].event, NoMember, NoAttendee))
    /\ StepUnchanged

(* The development shortcut of _greet.                                     *)
GreetedDev(s) ==
    /\ Awaiting(s, "greet_dev")
    /\ LET rows == RowsOf(turns[s].event, dev) IN
       \/ \E a \in rows :
            AfterGreeting(s, WithAttendee(sessions[s], a), turns[s], "welcome_back")
       \/ /\ rows = {}
          /\ AfterGreeting(s, sessions[s], turns[s], "linkedin")
    /\ StepUnchanged

(* Its query is outside the try of a StartSession turn.                    *)
GreetedDevFails(s) ==
    /\ Awaiting(s, "greet_dev")
    /\ \/ turns[s].mode = "plain" /\ Reply(Kept, s, sessions[s], "sorry")
       \/ turns[s].mode # "plain" /\ Leave(Kept, s, sessions[s])
    /\ StepUnchanged

(* _try_load_attendee returned a row: the turn goes on to _handle_matching.*)
Match(s, a) ==
    Await(Kept, s, WithAttendee(sessions[s], a),
          At("match", turns[s].mode, attendees[a].event, NoMember, a))

(* It returned None.  The mutant looks again until there is a row.         *)
NoAttendeeRow_LooksAgain(s) ==
    LoadAttendee(Kept, s, sessions[s], turns[s].mode)
NoAttendeeRow(s) ==
    \/ turns[s].mode = "plain" /\ ContinueOnboarding(Kept, s, sessions[s])
    \/ turns[s].mode # "plain" /\ Leave(Kept, s, sessions[s])

LoadedById(s) ==
    /\ Awaiting(s, "load_by_id")
    /\ \/ turns[s].attendee \in DOMAIN attendees /\ Match(s, turns[s].attendee)
       \/ turns[s].attendee \notin DOMAIN attendees /\ NoAttendeeRow(s)
    /\ StepUnchanged

(* By the event the session has when the query is made.  The mutant drops  *)
(* the condition on linkedin_id.                                           *)
LoadedByLinkedin_AnyMember(s) ==
    /\ Awaiting(s, "load_by_linkedin") \/ Awaiting(s, "load_dev")
    /\ LET rows == {a \in DOMAIN attendees : attendees[a].event = turns[s].event} IN
       \/ \E a \in rows : Match(s, a)
       \/ rows = {} /\ NoAttendeeRow(s)
    /\ StepUnchanged
LoadedByLinkedin(s) ==
    /\ Awaiting(s, "load_by_linkedin") \/ Awaiting(s, "load_dev")
    /\ LET rows == RowsOf(turns[s].event, turns[s].member) IN
       \/ \E a \in rows : Match(s, a)
       \/ rows = {} /\ NoAttendeeRow(s)
    /\ StepUnchanged

LoadFails(s) ==
    /\ \E call \in {"load_by_id", "load_dev", "load_by_linkedin"} : Awaiting(s, call)
    /\ \/ turns[s].mode = "plain" /\ Reply(Kept, s, sessions[s], "sorry")
       \/ turns[s].mode # "plain" /\ Leave(Kept, s, sessions[s])
    /\ StepUnchanged

(* _extract_linkedin_id caches the profile, then the row is looked up.     *)
UserinfoFetched(s) ==
    /\ Awaiting(s, "userinfo")
    /\ Await(Kept, s, WithCached(sessions[s], turns[s].member),
             At("load_by_linkedin", turns[s].mode, sessions[s].event, turns[s].member, NoAttendee))
    /\ StepUnchanged

UserinfoFails(s) ==
    /\ Awaiting(s, "userinfo")
    /\ NoAttendeeRow(s)
    /\ StepUnchanged

ProfileFetched(s) ==
    /\ Awaiting(s, "profile")
    /\ Await(Kept, s, sessions[s], At("github", "plain", NoEvent, turns[s].member, NoAttendee))
    /\ StepUnchanged

(* fetch_github_profile is done; the event is read for the upsert.         *)
GithubFetched(s) ==
    /\ Awaiting(s, "github")
    /\ Await(Kept, s, sessions[s],
             At("embed", "plain", sessions[s].event, turns[s].member, NoAttendee))
    /\ StepUnchanged

ProfileFails(s) ==
    /\ Awaiting(s, "profile") \/ Awaiting(s, "github")
    /\ Reply(Kept, s, sessions[s], "reauthorise")
    /\ StepUnchanged

Embedded(s) ==
    /\ Awaiting(s, "embed")
    /\ Await(Kept, s, sessions[s],
             At("row", "plain", turns[s].event, turns[s].member, NoAttendee))
    /\ StepUnchanged

(* upsert_attendee commits on its own.                                     *)
RowWritten(s) ==
    /\ Awaiting(s, "row")
    /\ \E a \in AttendeeIds :
         /\ UpsertAttendee(turns[s].event, turns[s].member, a)
         /\ Await(Kept, s, sessions[s],
                  At("vector", "plain", turns[s].event, turns[s].member, a))
    /\ UNCHANGED <<dev, callbacks, minted, consent>>

(* Then upsert_embedding commits, and the session learns its attendee.     *)
VectorWritten(s) ==
    /\ Awaiting(s, "vector")
    /\ UpsertEmbedding(turns[s].attendee, turns[s].event)
    /\ Reply(Kept, s, WithAttendee(sessions[s], turns[s].attendee), "checked_in")
    /\ UNCHANGED <<dev, callbacks, minted, consent>>

(* upsert_attendee_with_embedding raised: in the embedding call, or in     *)
(* either statement, which may have committed before its answer was lost.  *)
(* The mutant swallows the error.                                          *)
SaveFails_Swallowed(s) ==
    /\ Awaiting(s, "vector")
    /\ Reply(Kept, s, WithAttendee(sessions[s], turns[s].attendee), "checked_in")
    /\ UNCHANGED <<dbVars, dev, callbacks, minted, consent>>
SaveFails(s) ==
    /\ \/ Awaiting(s, "embed") /\ UNCHANGED dbVars
       \/ /\ Awaiting(s, "row")
          /\ \/ UNCHANGED dbVars
             \/ \E a \in AttendeeIds : UpsertAttendee(turns[s].event, turns[s].member, a)
       \/ /\ Awaiting(s, "vector")
          /\ \/ UNCHANGED dbVars
             \/ UpsertEmbedding(turns[s].attendee, turns[s].event)
    /\ Reply(Kept, s, sessions[s], "trouble")
    /\ UNCHANGED <<dev, callbacks, minted, consent>>

(* What _handle_matching can answer for attendee a of event e: it counts   *)
(* the others, then get_matches needs the requester's row and vector and   *)
(* somebody else's vector; a filter may still leave nobody.                *)
MatchReplies(a, e) ==
    LET inRoom == {b \in DOMAIN attendees \ {a} : attendees[b].event = e}
        found  == {b \in DOMAIN embeddings \ {a} : embeddings[b] = e}
    IN  {"snag"}
        \cup (IF inRoom = {} THEN {"alone"} ELSE {})
        \cup (IF a \in DOMAIN attendees THEN {"nobody"} ELSE {})
        \cup (IF a \in DOMAIN embeddings /\ found # {} THEN {"matches"} ELSE {})

(* Matching writes only connections, which Matching models.                *)
Matched(s) ==
    /\ Awaiting(s, "match")
    /\ \E r \in MatchReplies(turns[s].attendee, turns[s].event) :
         Reply(Kept, s, sessions[s], r)
    /\ StepUnchanged

-----------------------------------------------------------------------------
(* The OAuth callback and the environment *)

(* The user follows a link; the signed state verifies.                     *)
Authorise(l) ==
    /\ l \notin callbacks
    /\ callbacks' = callbacks \cup {l}
    /\ UNCHANGED <<dbVars, dev, sessions, turns, links, minted, replies, consent>>

(* get_by_session_id; the mutant takes whatever session there is.          *)
Holder_Any(i) == DOMAIN sessions
Holder(i) == {s \in DOMAIN sessions : sessions[s].sid = i}

(* The exchange returned tokens for account m; without a session they are  *)
(* dropped.                                                                *)
TokensStored(l, m) ==
    /\ callbacks' = callbacks \ {l}
    /\ sessions' = [s \in DOMAIN sessions |->
                      IF s \in Holder(l.sid) THEN WithTokens(sessions[s], l, m)
                                             ELSE sessions[s]]
    /\ consent' = IF l.platform = "linkedin" /\ Holder(l.sid) # {}
                  THEN consent \cup {<<l.sid, m>>} ELSE consent
    /\ UNCHANGED <<dbVars, dev, turns, links, minted, replies>>

ExchangeFails(l) ==
    /\ callbacks' = callbacks \ {l}
    /\ UNCHANGED <<dbVars, dev, sessions, turns, links, minted, replies, consent>>

(* The daily purge, of whatever has become old.                            *)
PurgeExpired ==
    /\ \E gone \in SUBSET DOMAIN attendees, es \in SUBSET events : Purge(gone, es)
    /\ UNCHANGED <<chatVars, dev>>

(* The process restarts: sessions, turns and callbacks are gone.           *)
Restart ==
    /\ IdsLeftFor(Senders)
    /\ sessions' = [s \in {} |-> {}]
    /\ turns' = [s \in {} |-> {}]
    /\ callbacks' = {}
    /\ UNCHANGED <<dbVars, dev, links, minted, replies, consent>>

TurnStep(s) ==
    \/ EventKnown(s) \/ EventUnknown(s)
    \/ Greeted(s) \/ GreetedDev(s) \/ GreetedDevFails(s)
    \/ LoadedById(s) \/ LoadedByLinkedin(s) \/ LoadFails(s)
    \/ UserinfoFetched(s) \/ UserinfoFails(s)
    \/ ProfileFetched(s) \/ GithubFetched(s) \/ ProfileFails(s)
    \/ Embedded(s) \/ RowWritten(s) \/ VectorWritten(s) \/ SaveFails(s)
    \/ Matched(s)

Next ==
    \/ \E s \in Senders, msg \in Message : ChatMessage(s, msg)
    \/ \E s \in Senders : TurnStep(s)
    \/ \E l \in links : Authorise(l)
    \/ \E l \in callbacks, m \in Members : TokensStored(l, m)
    \/ \E l \in callbacks : ExchangeFails(l)
    \/ PurgeExpired
    \/ Restart

Spec == Init /\ [][Next]_vars

-----------------------------------------------------------------------------
(* Fairness *)

(* A call fails although it could have succeeded.                          *)
Outage ==
    \E s \in Senders :
        \/ EventUnknown(s) /\ turns[s].event \in events
        \/ GreetedDevFails(s)
        \/ LoadFails(s)
        \/ UserinfoFails(s)
        \/ ProfileFails(s)
        \/ /\ SaveFails(s)
           /\ turns[s].awaits # "vector" => turns[s].event \in events
           /\ turns[s].awaits = "vector" => turns[s].attendee \in DOMAIN attendees

(* The event loop resumes a turn whose call has ended, and every call ends *)
(* (all have timeouts); services are down for finite time only.            *)
Fairness ==
    /\ \A s \in Senders : WF_vars(TurnStep(s))
    /\ <>[][~Outage]_vars

FairSpec == Spec /\ Fairness

(* The environment's part: a user who keeps writing words that carry no    *)
(* event link, or "skip", between whatever else they send.                 *)
Text(w) == [start |-> FALSE, event |-> NoEvent, text |-> w]

WritingSpec  == FairSpec /\ \A s \in Senders : SF_vars(ChatMessage(s, Text("words")))
SkippingSpec == FairSpec /\ \A s \in Senders : SF_vars(ChatMessage(s, Text("skip")))

-----------------------------------------------------------------------------
(* Properties *)

(* A suspended call has the arguments it was made with.                    *)
FrameComplete(f) ==
    /\ f.awaits \in {"ensure_event", "greet", "greet_dev", "load_by_linkedin", "load_dev",
                     "embed", "row", "vector", "match"} => f.event # NoEvent
    /\ f.awaits \in {"load_by_linkedin", "load_dev", "userinfo", "profile", "github",
                     "embed", "row", "vector"} => f.member # NoMember
    /\ f.awaits \in {"load_by_id", "vector", "match"} => f.attendee # NoAttendee

(* Every variable keeps to the shape of what it stands for, a running turn *)
(* has its session in the store and its call has its arguments.            *)
TypeOK ==
    /\ DBTypeOK
    /\ dev \in Members \cup {NoMember}
    /\ DOMAIN sessions \subseteq Senders
    /\ sessions \in [DOMAIN sessions -> Session]
    /\ DOMAIN turns \subseteq DOMAIN sessions
    /\ turns \in [DOMAIN turns -> Frame]
    /\ \A s \in DOMAIN turns : FrameComplete(turns[s])
    /\ links \subseteq Link
    /\ callbacks \subseteq links
    /\ minted \subseteq SessionIds
    /\ replies \in [Senders -> Replies]
    /\ consent \subseteq SessionIds \X Members

(* A session never acts as an attendee whose LinkedIn account its own user *)
(* did not authorise in that session, whatever was cached, purged,         *)
(* authorised again or written by another sender meanwhile; the            *)
(* development shortcut lends it the configured account and no other.      *)
AttendeeIsOwn ==
    \A s \in DOMAIN sessions :
        sessions[s].attendee \in DOMAIN attendees =>
            LET m == attendees[sessions[s].attendee].member IN
            <<sessions[s].sid, m>> \in consent \/ m = dev

(* A row appears only for a person who authorised LinkedIn in a live       *)
(* session that scanned that event, although event and profile are read    *)
(* some awaits before the row is written.                                  *)
NewRowsAuthorised ==
    [][\A a \in DOMAIN attendees' \ DOMAIN attendees :
         \E s \in DOMAIN sessions :
             /\ <<sessions[s].sid, attendees'[a].member>> \in consent
             /\ sessions[s].event = attendees'[a].event]_vars

(* Without the development shortcut a session changes the attendee it acts *)
(* as only when the row of the one before is gone.                         *)
AttendeeBindingStable ==
    [][dev = NoMember =>
         \A s \in DOMAIN sessions \cap DOMAIN sessions' :
            /\ sessions[s].sid = sessions'[s].sid
            /\ sessions[s].attendee # NoAttendee
            /\ sessions'[s].attendee # sessions[s].attendee
            => sessions[s].attendee \notin DOMAIN attendees]_vars

(* "You're checked in" is said only when row and vector are both stored,   *)
(* for the event and under an account of the session that hears it.        *)
ToldCheckedInIsStored ==
    [][\A s \in Senders :
         replies'[s] = "checked_in" /\ replies[s] # "checked_in" =>
            LET x == sessions'[s] IN
            /\ x.attendee \in DOMAIN attendees' \cap DOMAIN embeddings'
            /\ attendees'[x.attendee].event = x.event
            /\ <<x.sid, attendees'[x.attendee].member>> \in consent]_vars

(* Whatever its calls do, a turn ends and the sender can be heard again.   *)
EveryTurnEnds ==
    \A s \in Senders : s \in DOMAIN turns ~> s \notin DOMAIN turns

(* A session with an account and an event that is not over; one that loses *)
(* either, or is lost itself, is owed no check-in.                         *)
Ready(s) ==
    /\ s \in DOMAIN sessions
    /\ sessions[s].event \in events /\ sessions[s].linkedin # NoMember

HasAttendee(s) == s \in DOMAIN sessions /\ sessions[s].attendee \in DOMAIN attendees

CheckedIn(s) == HasAttendee(s) /\ attendees[sessions[s].attendee].event = sessions[s].event

(* A user who connected LinkedIn and GitHub, is not checked in and keeps   *)
(* writing is checked in to the event that the session is at, after any    *)
(* number of failed calls and scans.  Who is checked in already is         *)
(* promised no row for the next event or account: the session keeps its.   *)
AuthorisedUserChecksIn ==
    \A s \in Senders :
        (Ready(s) /\ sessions[s].github /\ ~HasAttendee(s)) ~> (Ready(s) => CheckedIn(s))

(* README.md:53 calls GitHub optional and agent.py:436 offers to say       *)
(* "skip": a user who connected LinkedIn and keeps saying it is checked in.*)
SkippingUserChecksIn ==
    \A s \in Senders :
        (Ready(s) /\ ~HasAttendee(s)) ~> (Ready(s) => CheckedIn(s))

(* agent.py:479 and README.md:270-271: a check-in whose save failed half   *)
(* way is completed when the user writes again, so no row stays without    *)
(* its vector.                                                             *)
HalfSavedIsCompleted ==
    \A a \in AttendeeIds :
        a \in DOMAIN attendees \ DOMAIN embeddings
            ~> (a \notin DOMAIN attendees \/ a \in DOMAIN embeddings)
=============================================================================
