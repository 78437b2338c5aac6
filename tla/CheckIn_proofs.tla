---------------------------- MODULE CheckIn_proofs --------------------------
(* That chat turns, callbacks and the purge keep every session to the      *)
(* attendee its own user may act as, and are a client of the tables as     *)
(* MeetupDB wants one, for any number of senders, accounts, events and     *)
(* concurrent turns.                                                       *)
EXTENDS CheckIn, MeetupDB_proofs

(* A session knows only accounts authorised in it, and its attendee, while *)
(* the row exists, is one of them (or the development account).            *)
OwnSession(x, rows, ids, oks) ==
    /\ x.linkedin # NoMember => <<x.sid, x.linkedin>> \in oks
    /\ x.cached # NoMember => <<x.sid, x.cached>> \in oks
    /\ x.attendee # NoAttendee => x.attendee \in ids
    /\ x.attendee \in DOMAIN rows =>
         <<x.sid, rows[x.attendee].member>> \in oks \/ rows[x.attendee].member = dev

(* The calls of _complete_checkin.                                         *)
Completing == {"profile", "github", "embed", "row", "vector"}

(* What a suspended turn remembers is still right: the account is one of   *)
(* its session's, a check-in runs only while the session has no row, for   *)
(* the event the session has, and the row it waits to complete is the one  *)
(* it wrote or is gone for good.                                           *)
OwnFrame(x, f, rows, ids, oks) ==
    /\ f.awaits = "load_dev" => f.member = dev
    /\ f.member # NoMember /\ f.awaits # "load_dev" => <<x.sid, f.member>> \in oks
    /\ f.attendee # NoAttendee => f.attendee \in ids
    /\ f.awaits = "load_by_id" => f.attendee = x.attendee
    /\ f.awaits \in {"userinfo", "load_by_linkedin", "load_dev"} => x.attendee = NoAttendee
    /\ f.awaits \in Completing => x.attendee \notin DOMAIN rows
    /\ f.awaits \in Completing \cup {"userinfo"} => x.event # NoEvent
    /\ f.awaits \in {"embed", "row", "vector"} => f.event = x.event
    /\ f.awaits = "vector" /\ f.attendee \in DOMAIN rows =>
         rows[f.attendee] = [event |-> f.event, member |-> f.member]

IInv ==
    /\ TypeOK
    /\ DBInv
    /\ \A s \in DOMAIN sessions : OwnSession(sessions[s], attendees, uuids, consent)
    /\ \A s \in DOMAIN turns : OwnFrame(sessions[s], turns[s], attendees, uuids, consent)

-----------------------------------------------------------------------------
(* What the tables may do meanwhile: rows go, or come under new ids. *)

Grown ==
    /\ uuids \subseteq uuids'
    /\ DOMAIN attendees' \subseteq AttendeeIds
    /\ \A a \in DOMAIN attendees' :
         \/ a \in DOMAIN attendees /\ attendees'[a] = attendees[a]
         \/ a \notin uuids

(* No statement changes a row or gives an id out twice.                    *)
LEMMA StatementsGrow ==
  ASSUME DBInv, [DBNext]_dbVars
  PROVE  Grown
<1> USE DEF Grown
<1>1. CASE UNCHANGED dbVars
  BY <1>1 DEF dbVars, DBInv, DBTypeOK
<1>2. ASSUME NEW e \in Events, UpsertEvent(e)
      PROVE  Grown
  BY <1>2 DEF UpsertEvent, DBInv, DBTypeOK
<1>3. ASSUME NEW e \in Events, NEW m \in Members, NEW a \in AttendeeIds,
             UpsertAttendee(e, m, a)
      PROVE  Grown
  <2>1. CASE UNCHANGED <<attendees, uuids>>
    BY <2>1 DEF DBInv, DBTypeOK
  <2>2. CASE /\ a \notin uuids
             /\ attendees' = [b \in DOMAIN attendees \cup {a} |->
                                IF b = a THEN [event |-> e, member |-> m] ELSE attendees[b]]
             /\ uuids' = uuids \cup {a}
    BY <2>2 DEF DBInv, DBTypeOK
  <2> QED BY <1>3, <2>1, <2>2 DEF UpsertAttendee
<1>4. ASSUME NEW a \in DOMAIN attendees, UpsertEmbedding(a, attendees[a].event)
      PROVE  Grown
  BY <1>4 DEF UpsertEmbedding, DBInv, DBTypeOK
<1>5. ASSUME NEW a \in DOMAIN attendees, NEW b \in DOMAIN attendees,
             InsertConnection(attendees[a].event, a, b)
      PROVE  Grown
  BY <1>5 DEF InsertConnection, DBInv, DBTypeOK
<1>6. ASSUME NEW gone \in SUBSET DOMAIN attendees, NEW es \in SUBSET events,
             Purge(gone, es)
      PROVE  Grown
  BY <1>6 DEF Purge, DBInv, DBTypeOK
<1> QED BY <1>1, <1>2, <1>3, <1>4, <1>5, <1>6 DEF DBNext

(* A session nobody touches stays right.                                   *)
LEMMA SessionStaysOwn ==
  ASSUME Grown, consent \subseteq consent',
         NEW x \in Session, OwnSession(x, attendees, uuids, consent)
  PROVE  OwnSession(x, attendees', uuids', consent')
BY NonesAssumption DEF Grown, OwnSession, Session

(* So does the frame of a turn nobody resumes.                             *)
LEMMA FrameStaysOwn ==
  ASSUME Grown, consent \subseteq consent',
         NEW x \in Session, OwnSession(x, attendees, uuids, consent),
         NEW f \in Frame, OwnFrame(x, f, attendees, uuids, consent)
  PROVE  OwnFrame(x, f, attendees', uuids', consent')
<1>1. f.awaits \in Completing => x.attendee \notin DOMAIN attendees'
  BY NonesAssumption DEF Grown, OwnSession, OwnFrame, Session
<1>2. f.awaits = "vector" /\ f.attendee \in DOMAIN attendees' =>
        attendees'[f.attendee] = [event |-> f.event, member |-> f.member]
  BY NonesAssumption DEF Grown, OwnFrame, Frame
<1>3. f.attendee # NoAttendee => f.attendee \in uuids'
  BY DEF Grown, OwnFrame
<1>4. f.member # NoMember /\ f.awaits # "load_dev" => <<x.sid, f.member>> \in consent'
  BY DEF OwnFrame
<1> QED BY <1>1, <1>2, <1>3, <1>4 DEF OwnFrame

-----------------------------------------------------------------------------
(* One stretch of a turn *)

(* How any stretch of sender s's turn leaves the store and the turn.       *)
Move(keep, s) ==
    /\ \E y \in Session :
         /\ OwnSession(y, attendees', uuids', consent')
         /\ Store(keep, s, y)
         /\ \/ Finish(s)
            \/ \E f \in Frame :
                 /\ FrameComplete(f)
                 /\ OwnFrame(y, f, attendees', uuids', consent')
                 /\ turns' = [r \in DOMAIN turns \cup {s} |-> IF r = s THEN f ELSE turns[r]]
    /\ links \subseteq links' /\ links' \subseteq Link
    /\ replies' \in [Senders -> Replies]

(* Such a stretch keeps the invariant, for its own turn and all others.    *)
LEMMA MoveInv ==
  ASSUME IInv, DBInv', Grown, NEW s \in Senders, NEW keep \in SUBSET DOMAIN sessions,
         DOMAIN turns \subseteq keep \cup {s}, Move(keep, s),
         UNCHANGED <<dev, consent, callbacks>>, minted' \subseteq SessionIds
  PROVE  IInv'
<1>1. PICK y \in Session :
        /\ OwnSession(y, attendees', uuids', consent')
        /\ Store(keep, s, y)
        /\ \/ Finish(s)
           \/ \E f \in Frame :
                /\ FrameComplete(f)
                /\ OwnFrame(y, f, attendees', uuids', consent')
                /\ turns' = [r \in DOMAIN turns \cup {s} |-> IF r = s THEN f ELSE turns[r]]
  BY DEF Move
<1>2. /\ DOMAIN sessions' = keep \cup {s}
      /\ sessions'[s] = y
      /\ \A r \in keep \ {s} : sessions'[r] = sessions[r]
  BY <1>1 DEF Store
<1>3. /\ DOMAIN turns' \subseteq keep \cup {s}
      /\ \A r \in DOMAIN turns' \ {s} : r \in DOMAIN turns /\ turns'[r] = turns[r]
      /\ s \in DOMAIN turns' =>
           /\ turns'[s] \in Frame
           /\ FrameComplete(turns'[s])
           /\ OwnFrame(y, turns'[s], attendees', uuids', consent')
  BY <1>1 DEF Finish
<1>4. turns' = [r \in DOMAIN turns' |-> turns'[r]]
  BY <1>1 DEF Finish
<1>5. \A r \in DOMAIN sessions : sessions[r] \in Session
  BY DEF IInv, TypeOK
<1>6. \A r \in DOMAIN turns : turns[r] \in Frame /\ FrameComplete(turns[r])
  BY DEF IInv, TypeOK
<1>7. \A r \in DOMAIN sessions' : OwnSession(sessions'[r], attendees', uuids', consent')
  BY <1>1, <1>2, <1>5, SessionStaysOwn DEF IInv
<1>8. \A r \in DOMAIN turns' :
        OwnFrame(sessions'[r], turns'[r], attendees', uuids', consent')
  <2>1. TAKE r \in DOMAIN turns'
  <2>2. CASE r = s
    BY <1>2, <1>3, <2>2
  <2>3. CASE r # s
    <3>1. /\ r \in DOMAIN turns /\ turns'[r] = turns[r] /\ turns[r] \in Frame
          /\ r \in DOMAIN sessions /\ sessions'[r] = sessions[r] /\ sessions[r] \in Session
      BY <1>2, <1>3, <1>5, <1>6, <2>3
    <3>2. /\ OwnSession(sessions[r], attendees, uuids, consent)
          /\ OwnFrame(sessions[r], turns[r], attendees, uuids, consent)
      BY <3>1 DEF IInv
    <3>3. OwnFrame(sessions[r], turns[r], attendees', uuids', consent')
      BY <3>1, <3>2, FrameStaysOwn
    <3> QED BY <3>1, <3>3
  <2> QED BY <2>2, <2>3
<1>9. TypeOK'
  <2>1. /\ DOMAIN sessions' \subseteq Senders
        /\ sessions' \in [DOMAIN sessions' -> Session]
    BY <1>1, <1>2, <1>5 DEF Store, IInv, TypeOK
  <2>2. /\ DOMAIN turns' \subseteq DOMAIN sessions'
        /\ \A r \in DOMAIN turns' : turns'[r] \in Frame /\ FrameComplete(turns'[r])
    BY <1>2, <1>3, <1>6
  <2>3. turns' \in [DOMAIN turns' -> Frame]
    BY <1>4, <2>2
  <2> QED BY <2>1, <2>2, <2>3 DEF IInv, DBInv, TypeOK, Move, FrameComplete
<1>10. /\ \A r \in DOMAIN sessions' :
             OwnSession(sessions[r], attendees, uuids, consent)'
       /\ \A r \in DOMAIN turns' :
             OwnFrame(sessions[r], turns[r], attendees, uuids, consent)'
  BY <1>7, <1>8 DEF OwnSession, OwnFrame
<1> QED BY <1>9, <1>10 DEF IInv

-----------------------------------------------------------------------------
(* The ways a stretch ends *)

(* At an await whose frame is right.                                       *)
LEMMA AwaitMove ==
  ASSUME IInv, NEW s \in Senders, NEW keep,
         NEW x \in Session, OwnSession(x, attendees', uuids', consent'),
         NEW f \in Frame, FrameComplete(f), OwnFrame(x, f, attendees', uuids', consent'),
         Await(keep, s, x, f)
  PROVE  Move(keep, s)
<1>1. replies' \in [Senders -> Replies]
  BY DEF Await, IInv, TypeOK, Replies
<1> QED BY <1>1 DEF Await, Move, IInv, TypeOK

(* With a reply, or with none.                                             *)
LEMMA ReplyMove ==
  ASSUME IInv, NEW s \in Senders, NEW keep,
         NEW x \in Session, OwnSession(x, attendees', uuids', consent'),
         NEW what \in Replies, Reply(keep, s, x, what)
  PROVE  Move(keep, s)
BY DEF Reply, Say, Move, IInv, TypeOK

(* Or without a word.                                                      *)
LEMMA LeaveMove ==
  ASSUME IInv, NEW s \in Senders, NEW keep,
         NEW x \in Session, OwnSession(x, attendees', uuids', consent'),
         Leave(keep, s, x)
  PROVE  Move(keep, s)
BY DEF Leave, Move, IInv, TypeOK

(* With an authorisation link for the session's event.                     *)
LEMMA ReplyLinkMove ==
  ASSUME IInv, NEW s \in Senders, NEW keep,
         NEW x \in Session, OwnSession(x, attendees', uuids', consent'),
         x.event # NoEvent, NEW p \in Platforms, ReplyLink(keep, s, x, p)
  PROVE  Move(keep, s)
<1>1. p \in Replies
  BY DEF Platforms, Replies
<1>2. [platform |-> p, sid |-> x.sid, event |-> x.event] \in Link
  BY DEF Session, Link
<1> QED BY <1>1, <1>2 DEF ReplyLink, Say, Move, IInv, TypeOK

-----------------------------------------------------------------------------
(* The functions of agent.py up to their first await.  They read and write *)
(* only their session.                                                     *)

Quiet == UNCHANGED <<dbVars, consent>>

Modes == {"start", "follow", "plain"}

(* _greet remembers the event it was asked about.                          *)
LEMMA GreetMove ==
  ASSUME IInv, Quiet, NEW s \in Senders, NEW keep,
         NEW x \in Session, OwnSession(x, attendees, uuids, consent),
         NEW e \in Events \cup {NoEvent}, NEW mode \in Modes, Greet(keep, s, x, e, mode)
  PROVE  Move(keep, s)
<1> DEFINE c == IF e # NoEvent THEN e ELSE x.event
           f == At("greet", mode, c, NoMember, NoAttendee)
<1>1. c \in Events \cup {NoEvent}
  BY DEF Session
<1>2. CASE Reply(keep, s, x, "rescan")
  BY <1>2, ReplyMove DEF Quiet, dbVars, Replies
<1>3. CASE c # NoEvent /\ Await(keep, s, WithEvent(x, c), f)
  <2>1. WithEvent(x, c) \in Session /\ OwnSession(WithEvent(x, c), attendees', uuids', consent')
    BY <1>1 DEF WithEvent, Session, OwnSession, Quiet, dbVars
  <2>2. /\ f \in Frame /\ FrameComplete(f)
        /\ OwnFrame(WithEvent(x, c), f, attendees', uuids', consent')
    BY <1>1, <1>3 DEF At, Frame, FrameComplete, OwnFrame, Completing, Modes
  <2> HIDE DEF c, f
  <2> QED BY <1>3, <2>1, <2>2, AwaitMove
<1> QED BY <1>2, <1>3 DEF Greet

(* _complete_checkin starts with an account of its session.                *)
LEMMA CompleteCheckinMove ==
  ASSUME IInv, Quiet, NEW s \in Senders, NEW keep,
         NEW x \in Session, OwnSession(x, attendees, uuids, consent),
         x.event # NoEvent, x.linkedin # NoMember, x.attendee \notin DOMAIN attendees,
         CompleteCheckin(keep, s, x)
  PROVE  Move(keep, s)
<1> DEFINE f == At("github", "plain", NoEvent, x.cached, NoAttendee)
           g == At("profile", "plain", NoEvent, x.linkedin, NoAttendee)
<1>1. OwnSession(x, attendees', uuids', consent')
  BY DEF Quiet, dbVars
<1>2. CASE x.cached # NoMember /\ Await(keep, s, x, f)
  <2>1. f \in Frame /\ FrameComplete(f) /\ OwnFrame(x, f, attendees', uuids', consent')
    BY <1>2 DEF At, Frame, FrameComplete, OwnFrame, OwnSession, Completing, Session, Quiet, dbVars
  <2> QED BY <1>1, <1>2, <2>1, AwaitMove
<1>3. CASE Await(keep, s, x, g)
  <2>1. g \in Frame /\ FrameComplete(g) /\ OwnFrame(x, g, attendees', uuids', consent')
    BY <1>3 DEF At, Frame, FrameComplete, OwnFrame, OwnSession, Completing, Session, Quiet, dbVars
  <2> QED BY <1>1, <1>3, <2>1, AwaitMove
<1> QED BY <1>2, <1>3 DEF CompleteCheckin

(* _continue_onboarding checks in only a session without a row.            *)
LEMMA ContinueOnboardingMove ==
  ASSUME IInv, Quiet, NEW s \in Senders, NEW keep,
         NEW x \in Session, OwnSession(x, attendees, uuids, consent),
         x.attendee \notin DOMAIN attendees, ContinueOnboarding(keep, s, x)
  PROVE  Move(keep, s)
<1>1. OwnSession(x, attendees', uuids', consent')
  BY DEF Quiet, dbVars
<1>2. CASE Reply(keep, s, x, "rescan")
  BY <1>1, <1>2, ReplyMove DEF Replies
<1>3. CASE x.event # NoEvent /\ ReplyLink(keep, s, x, "linkedin")
  BY <1>1, <1>3, ReplyLinkMove DEF Platforms
<1>4. CASE x.event # NoEvent /\ ReplyLink(keep, s, x, "github")
  BY <1>1, <1>4, ReplyLinkMove DEF Platforms
<1>5. CASE x.event # NoEvent /\ x.linkedin # NoMember /\ CompleteCheckin(keep, s, x)
  BY <1>5, CompleteCheckinMove
<1> QED BY <1>2, <1>3, <1>4, <1>5 DEF ContinueOnboarding

(* _try_load_attendee looks for the session's own row.                     *)
LEMMA LoadAttendeeMove ==
  ASSUME IInv, Quiet, NEW s \in Senders, NEW keep,
         NEW x \in Session, OwnSession(x, attendees, uuids, consent),
         NEW mode \in Modes, LoadAttendee(keep, s, x, mode)
  PROVE  Move(keep, s)
<1> DEFINE f == At("load_by_id", mode, NoEvent, NoMember, x.attendee)
           g == At("load_dev", mode, x.event, dev, NoAttendee)
           h == At("userinfo", mode, NoEvent, x.linkedin, NoAttendee)
<1>1. OwnSession(x, attendees', uuids', consent') /\ dev \in Members \cup {NoMember}
  BY DEF Quiet, dbVars, IInv, TypeOK
<1>2. CASE x.attendee # NoAttendee /\ Await(keep, s, x, f)
  <2>1. f \in Frame /\ FrameComplete(f) /\ OwnFrame(x, f, attendees', uuids', consent')
    BY <1>1, <1>2 DEF At, Frame, FrameComplete, OwnFrame, OwnSession, Completing, Session, Modes
  <2> QED BY <1>1, <1>2, <2>1, AwaitMove
<1>3. CASE /\ x.attendee = NoAttendee /\ dev # NoMember /\ x.event # NoEvent
           /\ Await(keep, s, x, g)
  <2>1. g \in Frame /\ FrameComplete(g) /\ OwnFrame(x, g, attendees', uuids', consent')
    BY <1>1, <1>3 DEF At, Frame, FrameComplete, OwnFrame, Completing, Session, Modes
  <2> QED BY <1>1, <1>3, <2>1, AwaitMove
<1>4. CASE x.attendee = NoAttendee /\ ContinueOnboarding(keep, s, x)
  <2>1. x.attendee \notin DOMAIN attendees
    BY <1>4, NonesAssumption DEF IInv, DBInv, DBTypeOK
  <2> QED BY <1>4, <2>1, ContinueOnboardingMove
<1>5. CASE /\ x.attendee = NoAttendee /\ x.linkedin # NoMember /\ x.event # NoEvent
           /\ Await(keep, s, x, h)
  <2>1. h \in Frame /\ FrameComplete(h) /\ OwnFrame(x, h, attendees', uuids', consent')
    BY <1>1, <1>5 DEF At, Frame, FrameComplete, OwnFrame, OwnSession, Completing, Session, Modes
  <2> QED BY <1>1, <1>5, <2>1, AwaitMove
<1> QED BY <1>2, <1>3, <1>4, <1>5 DEF LoadAttendee

(* on_chat_message keeps to its session from the first line on.            *)
LEMMA RouteMove ==
  ASSUME IInv, Quiet, NEW s \in Senders, NEW keep,
         NEW x \in Session, OwnSession(x, attendees, uuids, consent),
         NEW msg \in Message, Route(keep, s, x, msg)
  PROVE  Move(keep, s)
<1> DEFINE mode == IF msg.text = "" THEN "start" ELSE "follow"
           f == At("ensure_event", "plain", msg.event, NoMember, NoAttendee)
<1>1. OwnSession(x, attendees', uuids', consent') /\ msg.event \in Events \cup {NoEvent}
  BY DEF Quiet, dbVars, Message
<1>2. mode \in Modes /\ "plain" \in Modes
  BY DEF Modes
<1>3. CASE Greet(keep, s, x, msg.event, mode)
  <2> HIDE DEF mode
  <2> QED BY <1>1, <1>2, <1>3, GreetMove
<1>4. CASE Reply(keep, s, x, "resend")
  BY <1>1, <1>4, ReplyMove DEF Replies
<1>5. CASE LoadAttendee(keep, s, x, "plain")
  BY <1>2, <1>5, LoadAttendeeMove
<1>6. CASE Greet(keep, s, x, NoEvent, "plain")
  BY <1>2, <1>6, GreetMove
<1>7. CASE msg.event # NoEvent /\ Await(keep, s, x, f)
  <2>1. f \in Frame /\ FrameComplete(f) /\ OwnFrame(x, f, attendees', uuids', consent')
    BY <1>1, <1>7 DEF At, Frame, FrameComplete, OwnFrame, Completing
  <2> QED BY <1>1, <1>7, <2>1, AwaitMove
<1> QED BY <1>3, <1>4, <1>5, <1>6, <1>7 DEF Route

-----------------------------------------------------------------------------
(* The steps of a suspended turn *)

(* What a resumed turn may rely on.                                        *)
LEMMA Resumed ==
  ASSUME IInv, NEW s \in DOMAIN turns
  PROVE  /\ s \in Senders /\ s \in DOMAIN sessions /\ s \in Kept
         /\ DOMAIN turns \subseteq Kept \cup {s} /\ Kept \in SUBSET DOMAIN sessions
         /\ sessions[s] \in Session
         /\ OwnSession(sessions[s], attendees, uuids, consent)
         /\ turns[s] \in Frame /\ FrameComplete(turns[s])
         /\ OwnFrame(sessions[s], turns[s], attendees, uuids, consent)
BY DEF IInv, TypeOK, Kept

(* A greeting is out: the turn ends, or goes on with the session's row.    *)
LEMMA AfterGreetingMove ==
  ASSUME IInv, Quiet, NEW s \in DOMAIN turns,
         NEW x \in Session, OwnSession(x, attendees, uuids, consent),
         turns[s].event # NoEvent, NEW what \in {"linkedin", "welcome_back"},
         AfterGreeting(s, x, turns[s], what)
  PROVE  Move(Kept, s)
<1> DEFINE f == At("load_by_id", "follow", NoEvent, NoMember, x.attendee)
           l == [platform |-> "linkedin", sid |-> x.sid, event |-> turns[s].event]
<1>1. OwnSession(x, attendees', uuids', consent')
  BY DEF Quiet, dbVars
<1>2. l \in Link
  BY Resumed DEF Link, Platforms, Session, Frame
<1>3. links \subseteq links' /\ links' \subseteq Link
  BY <1>2 DEF AfterGreeting, IInv, TypeOK
<1>4. replies' \in [Senders -> Replies]
  BY Resumed DEF AfterGreeting, Say, IInv, TypeOK, Replies
<1>5. CASE Finish(s)
  BY <1>1, <1>3, <1>4, <1>5 DEF AfterGreeting, Move
<1>6. CASE x.attendee # NoAttendee /\ turns' = [turns EXCEPT ![s] = f]
  <2>1. f \in Frame /\ FrameComplete(f) /\ OwnFrame(x, f, attendees', uuids', consent')
    BY <1>1, <1>6 DEF At, Frame, FrameComplete, OwnFrame, OwnSession, Completing, Session
  <2>2. turns' = [r \in DOMAIN turns \cup {s} |-> IF r = s THEN f ELSE turns[r]]
    <3> HIDE DEF f
    <3> QED BY <1>6 DEF IInv, TypeOK
  <2> HIDE DEF f
  <2> QED BY <1>1, <1>3, <1>4, <2>1, <2>2 DEF AfterGreeting, Move
<1> QED BY <1>5, <1>6 DEF AfterGreeting

(* The turn found a row its session may act as.                            *)
LEMMA MatchMove ==
  ASSUME IInv, Quiet, NEW s \in DOMAIN turns, NEW a \in DOMAIN attendees,
         \/ <<sessions[s].sid, attendees[a].member>> \in consent
         \/ attendees[a].member = dev,
         Match(s, a)
  PROVE  Move(Kept, s)
<1> DEFINE x == WithAttendee(sessions[s], a)
           f == At("match", turns[s].mode, attendees[a].event, NoMember, a)
<1>1. /\ a \in AttendeeIds /\ a \in uuids /\ attendees[a].event \in Events
      /\ sessions[s] \in Session /\ OwnSession(sessions[s], attendees, uuids, consent)
      /\ turns[s] \in Frame
  BY Resumed DEF IInv, DBInv, DBTypeOK, IdsGenerated, Attendee
<1>2. x \in Session /\ OwnSession(x, attendees', uuids', consent')
  BY <1>1 DEF WithAttendee, Session, OwnSession, Quiet, dbVars
<1>3. f \in Frame /\ FrameComplete(f) /\ OwnFrame(x, f, attendees', uuids', consent')
  BY <1>1, NonesAssumption
     DEF At, Frame, FrameComplete, OwnFrame, Completing, Quiet, dbVars
<1>4. Await(Kept, s, x, f)
  BY DEF Match
<1> HIDE DEF x, f
<1> QED BY <1>2, <1>3, <1>4, AwaitMove, Resumed

(* The turn found no row, and its session has none.                        *)
LEMMA NoAttendeeRowMove ==
  ASSUME IInv, Quiet, NEW s \in DOMAIN turns, sessions[s].attendee \notin DOMAIN attendees,
         NoAttendeeRow(s)
  PROVE  Move(Kept, s)
<1>1. OwnSession(sessions[s], attendees', uuids', consent')
  BY Resumed DEF Quiet, dbVars
<1>2. CASE ContinueOnboarding(Kept, s, sessions[s])
  BY <1>2, ContinueOnboardingMove, Resumed
<1>3. CASE Leave(Kept, s, sessions[s])
  BY <1>1, <1>3, LeaveMove, Resumed
<1> QED BY <1>2, <1>3 DEF NoAttendeeRow

(* Each step of a turn that leaves the tables alone.                       *)
QuietStep(s) ==
    \/ EventKnown(s) \/ EventUnknown(s)
    \/ Greeted(s) \/ GreetedDev(s) \/ GreetedDevFails(s)
    \/ LoadedById(s) \/ LoadedByLinkedin(s) \/ LoadFails(s)
    \/ UserinfoFetched(s) \/ UserinfoFails(s)
    \/ ProfileFetched(s) \/ GithubFetched(s) \/ ProfileFails(s)
    \/ Embedded(s) \/ Matched(s)

(* They are all such stretches, and leave everything else alone.           *)
LEMMA QuietStepMove ==
  ASSUME IInv, NEW s \in Senders, QuietStep(s)
  PROVE  /\ s \in DOMAIN turns /\ Move(Kept, s)
         /\ UNCHANGED <<dbVars, dev, callbacks, minted, consent>>
<1> DEFINE x == sessions[s]
           f == turns[s]
<1>1. s \in DOMAIN turns /\ UNCHANGED <<dbVars, dev, callbacks, minted, consent>>
  BY DEF QuietStep, Awaiting, StepUnchanged, EventKnown, EventUnknown, Greeted, GreetedDev,
     GreetedDevFails, LoadedById, LoadedByLinkedin, LoadFails, UserinfoFetched, UserinfoFails,
     ProfileFetched, GithubFetched, ProfileFails, Embedded, Matched
<1> SUFFICES Move(Kept, s)
  BY <1>1
<1>2. /\ Quiet /\ Kept \in SUBSET DOMAIN sessions
      /\ x \in Session /\ OwnSession(x, attendees, uuids, consent)
      /\ f \in Frame /\ FrameComplete(f) /\ OwnFrame(x, f, attendees, uuids, consent)
      /\ OwnSession(x, attendees', uuids', consent')
  BY <1>1, Resumed DEF Quiet, dbVars
<1>3. /\ "plain" \in Modes /\ f.mode \in Modes
      /\ {"sorry", "reauthorise", "snag", "alone", "nobody", "matches"} \subseteq Replies
  BY <1>2 DEF Modes, Frame, Replies
<1>4. CASE EventKnown(s)
  <2>1. f.event # NoEvent
    BY <1>2, <1>4 DEF EventKnown, Awaiting, FrameComplete
  <2>2. WithEvent(x, f.event) \in Session /\ OwnSession(WithEvent(x, f.event), attendees, uuids, consent)
    BY <1>2 DEF WithEvent, Session, OwnSession, Frame
  <2>3. LoadAttendee(Kept, s, WithEvent(x, f.event), "plain")
    BY <1>4 DEF EventKnown
  <2> QED BY <1>2, <1>3, <2>2, <2>3, LoadAttendeeMove
<1>5. CASE EventUnknown(s)
  <2>1. f.event \in Events \cup {NoEvent} /\ Greet(Kept, s, x, f.event, "plain")
    BY <1>2, <1>5 DEF EventUnknown, Frame
  <2> QED BY <1>2, <1>3, <2>1, GreetMove
<1>6. CASE Greeted(s)
  <2> DEFINE g == At("greet_dev", f.mode, f.event, NoMember, NoAttendee)
  <2>1. f.event # NoEvent
    BY <1>2, <1>6 DEF Greeted, Awaiting, FrameComplete
  <2>2. CASE AfterGreeting(s, x, f, "linkedin")
    BY <1>1, <1>2, <2>1, <2>2, AfterGreetingMove
  <2>3. CASE Await(Kept, s, x, g)
    <3>1. g \in Frame /\ FrameComplete(g) /\ OwnFrame(x, g, attendees', uuids', consent')
      BY <1>2, <2>1 DEF At, Frame, FrameComplete, OwnFrame, Completing
    <3> QED BY <1>2, <2>3, <3>1, AwaitMove
  <2> QED BY <1>6, <2>2, <2>3 DEF Greeted
<1>7. CASE GreetedDev(s)
  <2>1. f.event # NoEvent
    BY <1>2, <1>7 DEF GreetedDev, Awaiting, FrameComplete
  <2>2. CASE AfterGreeting(s, x, f, "linkedin")
    BY <1>1, <1>2, <2>1, <2>2, AfterGreetingMove
  <2>3. ASSUME NEW a \in RowsOf(f.event, dev), AfterGreeting(s, WithAttendee(x, a), f, "welcome_back")
        PROVE  Move(Kept, s)
    <3>1. a \in DOMAIN attendees /\ a \in AttendeeIds /\ a \in uuids /\ attendees[a].member = dev
      BY DEF RowsOf, IInv, DBInv, DBTypeOK, IdsGenerated
    <3>2. WithAttendee(x, a) \in Session /\ OwnSession(WithAttendee(x, a), attendees, uuids, consent)
      BY <1>2, <3>1 DEF WithAttendee, Session, OwnSession
    <3> QED BY <1>1, <1>2, <2>1, <2>3, <3>2, AfterGreetingMove
  <2> QED BY <1>7, <2>2, <2>3 DEF GreetedDev
<1>8. CASE GreetedDevFails(s) \/ LoadFails(s)
  <2>1. Reply(Kept, s, x, "sorry") \/ Leave(Kept, s, x)
    BY <1>8 DEF GreetedDevFails, LoadFails
  <2> QED BY <1>2, <1>3, <2>1, ReplyMove, LeaveMove
<1>9. CASE LoadedById(s)
  <2>1. f.attendee = x.attendee
    BY <1>2, <1>9 DEF LoadedById, Awaiting, OwnFrame
  <2>2. CASE f.attendee \in DOMAIN attendees /\ Match(s, f.attendee)
    BY <1>1, <1>2, <2>1, <2>2, MatchMove DEF OwnSession
  <2>3. CASE f.attendee \notin DOMAIN attendees /\ NoAttendeeRow(s)
    BY <1>1, <1>2, <2>1, <2>3, NoAttendeeRowMove
  <2> QED BY <1>9, <2>2, <2>3 DEF LoadedById
<1>10. CASE LoadedByLinkedin(s)
  <2>1. /\ x.attendee = NoAttendee
        /\ f.member = dev \/ <<x.sid, f.member>> \in consent
    BY <1>2, <1>10 DEF LoadedByLinkedin, Awaiting, OwnFrame, FrameComplete
  <2>2. ASSUME NEW a \in RowsOf(f.event, f.member), Match(s, a)
        PROVE  Move(Kept, s)
    <3>1. a \in DOMAIN attendees /\ attendees[a].member = f.member
      BY DEF RowsOf
    <3> QED BY <1>1, <1>2, <2>1, <2>2, <3>1, MatchMove
  <2>3. CASE NoAttendeeRow(s)
    <3>1. x.attendee \notin DOMAIN attendees
      BY <2>1, NonesAssumption DEF IInv, DBInv, DBTypeOK
    <3> QED BY <1>1, <1>2, <2>3, <3>1, NoAttendeeRowMove
  <2> QED BY <1>10, <2>2, <2>3 DEF LoadedByLinkedin
<1>11. CASE UserinfoFetched(s)
  <2> DEFINE y == WithCached(x, f.member)
             g == At("load_by_linkedin", f.mode, x.event, f.member, NoAttendee)
  <2>1. /\ f.member # NoMember /\ <<x.sid, f.member>> \in consent
        /\ x.attendee = NoAttendee /\ x.event # NoEvent
    BY <1>2, <1>11 DEF UserinfoFetched, Awaiting, OwnFrame, FrameComplete, Completing
  <2>2. y \in Session /\ OwnSession(y, attendees', uuids', consent')
    BY <1>1, <1>2, <2>1 DEF WithCached, Session, OwnSession, Frame, dbVars
  <2>3. g \in Frame /\ FrameComplete(g) /\ OwnFrame(y, g, attendees', uuids', consent')
    BY <1>1, <1>2, <2>1 DEF At, WithCached, Session, Frame, FrameComplete, OwnFrame, Completing
  <2>4. Await(Kept, s, y, g)
    BY <1>11 DEF UserinfoFetched
  <2> HIDE DEF y, g
  <2> QED BY <2>2, <2>3, <2>4, AwaitMove
<1>12. CASE UserinfoFails(s)
  <2>1. x.attendee \notin DOMAIN attendees
    BY <1>2, <1>12, NonesAssumption DEF UserinfoFails, Awaiting, OwnFrame, IInv, DBInv, DBTypeOK
  <2>2. NoAttendeeRow(s)
    BY <1>12 DEF UserinfoFails
  <2> QED BY <1>1, <1>2, <2>1, <2>2, NoAttendeeRowMove
<1>13. CASE ProfileFetched(s)
  <2> DEFINE g == At("github", "plain", NoEvent, f.member, NoAttendee)
  <2>1. g \in Frame /\ FrameComplete(g) /\ OwnFrame(x, g, attendees', uuids', consent')
    BY <1>1, <1>2, <1>13
       DEF ProfileFetched, Awaiting, At, Frame, FrameComplete, OwnFrame, Completing, dbVars
  <2>2. Await(Kept, s, x, g)
    BY <1>13 DEF ProfileFetched
  <2> QED BY <1>2, <2>1, <2>2, AwaitMove
<1>14. CASE GithubFetched(s)
  <2> DEFINE g == At("embed", "plain", x.event, f.member, NoAttendee)
  <2>1. g \in Frame /\ FrameComplete(g) /\ OwnFrame(x, g, attendees', uuids', consent')
    BY <1>1, <1>2, <1>14
       DEF GithubFetched, Awaiting, At, Frame, FrameComplete, OwnFrame, Completing, Session, dbVars
  <2>2. Await(Kept, s, x, g)
    BY <1>14 DEF GithubFetched
  <2> QED BY <1>2, <2>1, <2>2, AwaitMove
<1>15. CASE Embedded(s)
  <2> DEFINE g == At("row", "plain", f.event, f.member, NoAttendee)
  <2>1. g \in Frame /\ FrameComplete(g) /\ OwnFrame(x, g, attendees', uuids', consent')
    BY <1>1, <1>2, <1>15
       DEF Embedded, Awaiting, At, Frame, FrameComplete, OwnFrame, Completing, dbVars
  <2>2. Await(Kept, s, x, g)
    BY <1>15 DEF Embedded
  <2> QED BY <1>2, <2>1, <2>2, AwaitMove
<1>16. CASE ProfileFails(s)
  <2>1. Reply(Kept, s, x, "reauthorise")
    BY <1>16 DEF ProfileFails
  <2> QED BY <1>2, <1>3, <2>1, ReplyMove
<1>17. CASE Matched(s)
  <2>1. \E r \in Replies : Reply(Kept, s, x, r)
    BY <1>3, <1>17 DEF Matched, MatchReplies
  <2> QED BY <1>2, <2>1, ReplyMove
<1> QED BY <1>4, <1>5, <1>6, <1>7, <1>8, <1>9, <1>10, <1>11, <1>12, <1>13, <1>14, <1>15,
        <1>16, <1>17 DEF QuietStep

-----------------------------------------------------------------------------
(* The two statements of the check-in *)

(* A turn at one of them has an event and an account for its row.          *)
LEMMA AtStatement ==
  ASSUME IInv, NEW s \in DOMAIN turns, turns[s].awaits \in {"embed", "row", "vector"}
  PROVE  /\ turns[s].event \in Events /\ turns[s].member \in Members
         /\ turns[s].event = sessions[s].event
         /\ <<sessions[s].sid, turns[s].member>> \in consent
         /\ sessions[s].attendee \notin DOMAIN attendees
BY Resumed DEF FrameComplete, Frame, OwnFrame, Completing

(* upsert_attendee for them is a statement of MeetupDB.                    *)
LEMMA RowStatement ==
  ASSUME IInv, NEW s \in DOMAIN turns, turns[s].awaits = "row",
         NEW a \in AttendeeIds, UpsertAttendee(turns[s].event, turns[s].member, a)
  PROVE  DBNext
BY AtStatement DEF DBNext

(* So is upsert_embedding, because a row that is still there has the event *)
(* the turn wrote it for.                                                  *)
LEMMA VectorStatement ==
  ASSUME IInv, NEW s \in DOMAIN turns, turns[s].awaits = "vector",
         UpsertEmbedding(turns[s].attendee, turns[s].event)
  PROVE  DBNext /\ turns[s].attendee \in DOMAIN attendees
<1>1. turns[s].attendee \in DOMAIN attendees
  BY DEF UpsertEmbedding
<1>2. attendees[turns[s].attendee] = [event |-> turns[s].event, member |-> turns[s].member]
  BY <1>1, Resumed DEF OwnFrame
<1>3. attendees[turns[s].attendee].event = turns[s].event
  BY <1>2
<1> QED BY <1>1, <1>3 DEF DBNext

(* After the first statement the turn waits for the second with its row.   *)
LEMMA RowWrittenMove ==
  ASSUME IInv, NEW s \in Senders, RowWritten(s)
  PROVE  /\ s \in DOMAIN turns /\ DBNext /\ Move(Kept, s)
         /\ UNCHANGED <<dev, callbacks, minted, consent>>
<1> DEFINE x == sessions[s]
           f == turns[s]
<1>1. s \in DOMAIN turns /\ f.awaits = "row" /\ UNCHANGED <<dev, callbacks, minted, consent>>
  BY DEF RowWritten, Awaiting
<1>2. /\ f.event \in Events /\ f.member \in Members /\ f.event = x.event
      /\ <<x.sid, f.member>> \in consent /\ x.attendee \notin DOMAIN attendees
      /\ x \in Session /\ OwnSession(x, attendees, uuids, consent)
  BY <1>1, AtStatement, Resumed
<1>3. PICK a \in AttendeeIds :
        /\ UpsertAttendee(f.event, f.member, a)
        /\ Await(Kept, s, x, At("vector", "plain", f.event, f.member, a))
  BY DEF RowWritten
<1> DEFINE g == At("vector", "plain", f.event, f.member, a)
<1>4. DBNext /\ Grown
  BY <1>1, <1>3, RowStatement, StatementsGrow DEF IInv
<1>5. OwnSession(x, attendees', uuids', consent')
  BY <1>1, <1>2, <1>4, SessionStaysOwn
<1>6. a \in uuids' /\ attendees'[a] = [event |-> f.event, member |-> f.member]
  <2>1. CASE a \in RowsOf(f.event, f.member) /\ UNCHANGED <<attendees, uuids>>
    BY <2>1 DEF RowsOf, IInv, DBInv, DBTypeOK, IdsGenerated, Attendee
  <2>2. CASE /\ uuids' = uuids \cup {a}
             /\ attendees' = [b \in DOMAIN attendees \cup {a} |->
                  IF b = a THEN [event |-> f.event, member |-> f.member] ELSE attendees[b]]
    BY <2>2
  <2> QED BY <1>3, <2>1, <2>2 DEF UpsertAttendee
<1>7. x.attendee \notin DOMAIN attendees'
  BY <1>2, <1>4, NonesAssumption DEF Grown, OwnSession, Session
<1>8. g \in Frame /\ FrameComplete(g) /\ OwnFrame(x, g, attendees', uuids', consent')
  BY <1>1, <1>2, <1>6, <1>7, NonesAssumption
     DEF At, Frame, FrameComplete, OwnFrame, Completing
<1>9. Move(Kept, s)
  <2> HIDE DEF g
  <2> QED BY <1>2, <1>3, <1>5, <1>8, AwaitMove DEF g
<1> QED BY <1>1, <1>4, <1>9

(* After the second the session acts as that row.                          *)
LEMMA VectorWrittenMove ==
  ASSUME IInv, NEW s \in Senders, VectorWritten(s)
  PROVE  /\ s \in DOMAIN turns /\ DBNext /\ Move(Kept, s)
         /\ UNCHANGED <<dev, callbacks, minted, consent>>
<1> DEFINE a == turns[s].attendee
           x == WithAttendee(sessions[s], a)
<1>1. /\ s \in DOMAIN turns /\ turns[s].awaits = "vector"
      /\ UpsertEmbedding(a, turns[s].event)
      /\ Reply(Kept, s, x, "checked_in")
      /\ UNCHANGED <<dev, callbacks, minted, consent>>
  BY DEF VectorWritten, Awaiting
<1>2. DBNext /\ a \in DOMAIN attendees
  BY <1>1, VectorStatement
<1>3. /\ sessions[s] \in Session /\ OwnSession(sessions[s], attendees, uuids, consent)
      /\ <<sessions[s].sid, turns[s].member>> \in consent
      /\ attendees[a].member = turns[s].member
      /\ a \in AttendeeIds /\ a \in uuids
  <2>1. attendees[a] = [event |-> turns[s].event, member |-> turns[s].member]
    BY <1>1, <1>2, Resumed DEF OwnFrame
  <2> QED BY <1>1, <1>2, <2>1, Resumed, AtStatement DEF IInv, DBInv, DBTypeOK, IdsGenerated
<1>4. x \in Session /\ OwnSession(x, attendees', uuids', consent')
  BY <1>1, <1>3 DEF WithAttendee, Session, OwnSession, UpsertEmbedding
<1>5. "checked_in" \in Replies
  BY DEF Replies
<1> HIDE DEF x
<1> QED BY <1>1, <1>2, <1>4, <1>5, ReplyMove

(* A failed check-in leaves the session as it was, and the tables as they  *)
(* were or as one more statement leaves them.                              *)
LEMMA SaveFailsMove ==
  ASSUME IInv, NEW s \in Senders, SaveFails(s)
  PROVE  /\ s \in DOMAIN turns /\ [DBNext]_dbVars /\ Move(Kept, s)
         /\ UNCHANGED <<dev, callbacks, minted, consent>>
<1> DEFINE x == sessions[s]
<1>1. /\ s \in DOMAIN turns /\ Reply(Kept, s, x, "trouble")
      /\ UNCHANGED <<dev, callbacks, minted, consent>>
  BY DEF SaveFails, Awaiting
<1>2. [DBNext]_dbVars
  BY <1>1, RowStatement, VectorStatement DEF SaveFails, Awaiting
<1>3. x \in Session /\ OwnSession(x, attendees', uuids', consent') /\ "trouble" \in Replies
  BY <1>1, <1>2, Resumed, StatementsGrow, SessionStaysOwn DEF IInv, Replies
<1> QED BY <1>1, <1>2, <1>3, ReplyMove

-----------------------------------------------------------------------------
(* Every step keeps the invariant and is a step of the tables or none.     *)

(* Whatever the turn awaited and however that ended.                       *)
LEMMA TurnStepInv ==
  ASSUME IInv, NEW s \in Senders, TurnStep(s)
  PROVE  IInv' /\ [DBNext]_dbVars
<1>1. /\ s \in DOMAIN turns /\ [DBNext]_dbVars /\ Move(Kept, s)
      /\ UNCHANGED <<dev, callbacks, minted, consent>>
  <2>1. CASE QuietStep(s)
    BY <2>1, QuietStepMove
  <2>2. CASE RowWritten(s)
    BY <2>2, RowWrittenMove
  <2>3. CASE VectorWritten(s)
    BY <2>3, VectorWrittenMove
  <2>4. CASE SaveFails(s)
    BY <2>4, SaveFailsMove
  <2> QED BY <2>1, <2>2, <2>3, <2>4 DEF TurnStep, QuietStep
<1>2. DBInv' /\ Grown /\ minted' \subseteq SessionIds
  BY <1>1, DBNextInv, StatementsGrow DEF IInv, TypeOK
<1> QED BY <1>1, <1>2, Resumed, MoveInv

(* A message finds a right session, or opens an empty one.                 *)
LEMMA ChatMessageInv ==
  ASSUME IInv, NEW s \in Senders, NEW msg \in Message, ChatMessage(s, msg)
  PROVE  IInv' /\ UNCHANGED dbVars
<1>1. UNCHANGED <<dbVars, dev, callbacks, consent>>
  BY DEF ChatMessage
<1>2. PICK gone \in SUBSET (DOMAIN sessions \ DOMAIN turns) :
        \/ /\ s \in DOMAIN sessions \ gone
           /\ Route(DOMAIN sessions \ gone, s, sessions[s], msg)
           /\ UNCHANGED minted
        \/ \E i \in SessionIds \ minted :
             /\ Route(DOMAIN sessions \ gone, s, NewSession(i), msg)
             /\ minted' = minted \cup {i}
  BY DEF ChatMessage
<1> DEFINE keep == DOMAIN sessions \ gone
<1>3. /\ keep \in SUBSET DOMAIN sessions /\ DOMAIN turns \subseteq keep \cup {s}
      /\ minted' \subseteq SessionIds
  BY <1>2 DEF IInv, TypeOK
<1>4. Quiet /\ Grown /\ DBInv'
  BY <1>1, StatementsGrow, DBNextInv DEF Quiet, IInv
<1>5. Move(keep, s)
  <2>1. CASE s \in keep /\ Route(keep, s, sessions[s], msg)
    <3>1. sessions[s] \in Session /\ OwnSession(sessions[s], attendees, uuids, consent)
      BY <2>1 DEF IInv, TypeOK
    <3> QED BY <1>4, <2>1, <3>1, RouteMove
  <2>2. ASSUME NEW i \in SessionIds, Route(keep, s, NewSession(i), msg)
        PROVE  Move(keep, s)
    <3>1. NewSession(i) \in Session /\ OwnSession(NewSession(i), attendees, uuids, consent)
      BY NonesAssumption DEF NewSession, Session, OwnSession, IInv, DBInv, DBTypeOK
    <3> QED BY <1>4, <2>2, <3>1, RouteMove
  <2> QED BY <1>2, <2>1, <2>2
<1> HIDE DEF keep
<1> QED BY <1>1, <1>3, <1>4, <1>5, MoveInv

(* Tokens reach the one session of their link, whose user has authorised   *)
(* the account; an event it already has stays.                             *)
LEMMA TokensStoredInv ==
  ASSUME IInv, NEW l \in callbacks, NEW m \in Members, TokensStored(l, m)
  PROVE  IInv' /\ UNCHANGED dbVars
<1> DEFINE y(s) == IF s \in Holder(l.sid) THEN WithTokens(sessions[s], l, m) ELSE sessions[s]
<1>1. /\ UNCHANGED <<dbVars, dev, turns, links, minted, replies>>
      /\ callbacks' = callbacks \ {l}
      /\ sessions' = [s \in DOMAIN sessions |-> y(s)]
      /\ consent' = IF l.platform = "linkedin" /\ Holder(l.sid) # {}
                    THEN consent \cup {<<l.sid, m>>} ELSE consent
  BY DEF TokensStored
<1>2. l \in Link
  BY DEF IInv, TypeOK
<1>3. /\ consent \subseteq consent' /\ consent' \subseteq SessionIds \X Members
      /\ Grown /\ DBInv'
  BY <1>1, <1>2, StatementsGrow, DBNextInv DEF IInv, TypeOK, Link
<1>4. ASSUME NEW s \in DOMAIN sessions
      PROVE  /\ y(s) \in Session /\ y(s).sid = sessions[s].sid
             /\ y(s).attendee = sessions[s].attendee
             /\ sessions[s].event # NoEvent => y(s).event = sessions[s].event
             /\ OwnSession(y(s), attendees', uuids', consent')
  <2>1. sessions[s] \in Session /\ OwnSession(sessions[s], attendees', uuids', consent')
    BY <1>3, SessionStaysOwn DEF IInv, TypeOK
  <2>2. CASE s \notin Holder(l.sid)
    BY <2>1, <2>2
  <2>3. CASE s \in Holder(l.sid)
    <3>1. sessions[s].sid = l.sid /\ (l.platform = "linkedin" => <<l.sid, m>> \in consent')
      BY <1>1, <2>3 DEF Holder
    <3>2. y(s) = WithTokens(sessions[s], l, m)
      BY <2>3
    <3>3. WithTokens(sessions[s], l, m) \in Session
      BY <1>2, <2>1 DEF WithTokens, Session, Link
    <3> QED BY <2>1, <3>1, <3>2, <3>3 DEF WithTokens, OwnSession
  <2> QED BY <2>2, <2>3
<1> HIDE DEF y
<1>5. ASSUME NEW s \in DOMAIN turns
      PROVE  OwnFrame(y(s), turns[s], attendees', uuids', consent')
  <2>1. /\ sessions[s] \in Session /\ turns[s] \in Frame /\ s \in DOMAIN sessions
        /\ OwnSession(sessions[s], attendees, uuids, consent)
        /\ OwnFrame(sessions[s], turns[s], attendees, uuids, consent)
    BY Resumed
  <2>2. OwnFrame(sessions[s], turns[s], attendees', uuids', consent')
    BY <1>3, <2>1, FrameStaysOwn
  <2> QED BY <1>4, <2>1, <2>2 DEF OwnFrame, Completing
<1>6. TypeOK'
  BY <1>1, <1>3, <1>4 DEF IInv, DBInv, TypeOK, FrameComplete
<1>7. /\ \A s \in DOMAIN sessions' : OwnSession(sessions[s], attendees, uuids, consent)'
      /\ \A s \in DOMAIN turns' : OwnFrame(sessions[s], turns[s], attendees, uuids, consent)'
  <2>1. DOMAIN sessions' = DOMAIN sessions /\ \A s \in DOMAIN sessions : sessions'[s] = y(s)
    BY <1>1
  <2>2. /\ \A s \in DOMAIN sessions' : OwnSession(sessions'[s], attendees', uuids', consent')
        /\ \A s \in DOMAIN turns' : OwnFrame(sessions'[s], turns'[s], attendees', uuids', consent')
    BY <1>1, <1>4, <1>5, <2>1, Resumed
  <2> QED BY <1>1, <2>2 DEF OwnSession, OwnFrame
<1> QED BY <1>1, <1>3, <1>6, <1>7 DEF IInv

(* A purge takes rows away under sessions and turns, and puts none there.  *)
LEMMA PurgeExpiredInv ==
  ASSUME IInv, PurgeExpired
  PROVE  IInv' /\ DBNext
<1>1. DBNext /\ UNCHANGED <<chatVars, dev>>
  BY DEF PurgeExpired, DBNext
<1>2. Grown /\ DBInv' /\ consent \subseteq consent'
  BY <1>1, StatementsGrow, DBNextInv DEF IInv, chatVars
<1>3. TypeOK'
  BY <1>1, <1>2 DEF IInv, DBInv, TypeOK, FrameComplete, chatVars
<1>4. \A s \in DOMAIN sessions : OwnSession(sessions[s], attendees', uuids', consent')
  BY <1>2, SessionStaysOwn DEF IInv, TypeOK
<1>5. \A s \in DOMAIN turns : OwnFrame(sessions[s], turns[s], attendees', uuids', consent')
  BY <1>2, FrameStaysOwn, Resumed
<1>6. /\ \A s \in DOMAIN sessions' : OwnSession(sessions[s], attendees, uuids, consent)'
      /\ \A s \in DOMAIN turns' : OwnFrame(sessions[s], turns[s], attendees, uuids, consent)'
  BY <1>1, <1>4, <1>5 DEF OwnSession, OwnFrame, chatVars
<1> QED BY <1>1, <1>2, <1>3, <1>6 DEF IInv

(* Every step of the system keeps the invariant and is a statement of      *)
(* MeetupDB or leaves the tables alone.                                    *)
LEMMA NextInv ==
  ASSUME IInv, [Next]_vars
  PROVE  IInv' /\ [DBNext]_dbVars
<1> USE DEF IInv, DBInv, TypeOK, FrameComplete, OwnSession, OwnFrame
<1>1. ASSUME NEW l \in links, Authorise(l) PROVE IInv' /\ UNCHANGED dbVars
  BY <1>1 DEF Authorise, dbVars, DBTypeOK, RowsConsistent, IdsGenerated
<1>2. ASSUME NEW l \in callbacks, ExchangeFails(l) PROVE IInv' /\ UNCHANGED dbVars
  BY <1>2 DEF ExchangeFails, dbVars, DBTypeOK, RowsConsistent, IdsGenerated
<1>3. ASSUME Restart PROVE IInv' /\ UNCHANGED dbVars
  BY <1>3 DEF Restart, dbVars, DBTypeOK, RowsConsistent, IdsGenerated
<1>4. ASSUME UNCHANGED vars PROVE IInv' /\ UNCHANGED dbVars
  BY <1>4 DEF vars, chatVars, dbVars, DBTypeOK, RowsConsistent, IdsGenerated
<1> QED
  BY <1>1, <1>2, <1>3, <1>4, ChatMessageInv, TurnStepInv, TokensStoredInv, PurgeExpiredInv
  DEF Next

(* The invariant holds when the process starts.                            *)
LEMMA InitInv == Init => IInv
<1>1. Init => DBInv
  BY DBInitInv DEF Init
<1> QED BY <1>1, NonesAssumption DEF Init, IInv, DBInv, TypeOK, Replies

-----------------------------------------------------------------------------
(* Theorems *)

(* In every reachable state of agent.py sessions and suspended turns know  *)
(* only what their own user authorised.                                    *)
THEOREM InductiveInvariant == Spec => []IInv
<1>1. IInv /\ [Next]_vars => IInv'
  BY NextInv
<1> QED BY <1>1, InitInv, PTL DEF Spec

(* Each suspended coroutine of agent.py has its session in the store and   *)
(* every argument its call was made with, whatever ran meanwhile.          *)
THEOREM TypeCorrect == Spec => []TypeOK
<1>1. IInv => TypeOK
  BY DEF IInv
<1> QED BY <1>1, InductiveInvariant, PTL

(* agent.py never makes a session act as somebody its user did not         *)
(* authorise, but for the development account.                             *)
THEOREM AttendeesOwn == Spec => []AttendeeIsOwn
<1>1. IInv => AttendeeIsOwn
  BY DEF IInv, OwnSession, AttendeeIsOwn
<1> QED BY <1>1, InductiveInvariant, PTL

(* The two-statement check-in of handlers/embedding.py implements the      *)
(* abstract client of the tables, which may only store a vector under the  *)
(* event of its row.                                                       *)
THEOREM ImplementsDB == Spec => DBSpec
<1>1. IInv /\ [Next]_vars => [DBNext]_dbVars
  BY NextInv
<1>2. Init => DBInit
  BY DEF Init
<1> QED BY <1>1, <1>2, InductiveInvariant, PTL DEF Spec, DBSpec

(* So check-in keeps the tables consistent, although row and vector are    *)
(* two statements and either may fail or be overtaken by a purge.          *)
THEOREM RowsStayConsistent == Spec => []RowsConsistent
BY ImplementsDB, RowsCorrect, PTL

-----------------------------------------------------------------------------
(* What steps do not do: bind a session to another row, or say that it is  *)
(* checked in. *)

(* A stretch of s's turn with session x leaves it the attendee it had.     *)
Still(keep, s, x) ==
    /\ DOMAIN sessions' = keep \cup {s}
    /\ \A r \in keep \ {s} : sessions'[r] = sessions[r]
    /\ sessions'[s].sid = x.sid
    /\ sessions'[s].attendee = x.attendee

Silent == \A r \in Senders : replies'[r] = "checked_in" => replies[r] = "checked_in"

(* None of the four ways a stretch ends changes the attendee by itself.    *)
LEMMA EndsStill ==
  ASSUME replies \in [Senders -> Replies], NEW s \in Senders, NEW keep, NEW x, NEW y,
         y.sid = x.sid, y.attendee = x.attendee,
         \/ \E f : Await(keep, s, y, f)
         \/ \E what : what # "checked_in" /\ Reply(keep, s, y, what)
         \/ Leave(keep, s, y)
         \/ \E p \in Platforms : ReplyLink(keep, s, y, p)
  PROVE  Still(keep, s, x) /\ Silent
<1>1. Store(keep, s, y)
  BY DEF Await, Reply, Leave, ReplyLink
<1>2. Still(keep, s, x)
  BY <1>1 DEF Store, Still
<1>3. Silent
  <2>1. ASSUME NEW f, Await(keep, s, y, f) PROVE Silent
    BY <2>1 DEF Await, Silent
  <2>2. ASSUME NEW what, what # "checked_in", Reply(keep, s, y, what) PROVE Silent
    BY <2>2 DEF Reply, Say, Silent
  <2>3. CASE Leave(keep, s, y)
    BY <2>3 DEF Leave, Silent
  <2>4. ASSUME NEW p \in Platforms, ReplyLink(keep, s, y, p) PROVE Silent
    BY <2>4 DEF ReplyLink, Say, Silent, Platforms
  <2> QED BY <2>1, <2>2, <2>3, <2>4
<1> QED BY <1>2, <1>3

(* A greeting changes the event and nothing else.                          *)
LEMMA GreetStill ==
  ASSUME replies \in [Senders -> Replies], NEW s \in Senders, NEW keep, NEW x, NEW e, NEW mode,
         Greet(keep, s, x, e, mode)
  PROVE  Still(keep, s, x) /\ Silent
<1> DEFINE c == IF e # NoEvent THEN e ELSE x.event
<1>1. WithEvent(x, c).sid = x.sid /\ WithEvent(x, c).attendee = x.attendee
  BY DEF WithEvent
<1>2. \/ Reply(keep, s, x, "rescan")
      \/ Await(keep, s, WithEvent(x, c), At("greet", mode, c, NoMember, NoAttendee))
  BY DEF Greet
<1> HIDE DEF c
<1> QED BY <1>1, <1>2, EndsStill

(* Looking for the row, or asking for what is missing, changes nothing.    *)
LEMMA LoadAttendeeStill ==
  ASSUME replies \in [Senders -> Replies], NEW s \in Senders, NEW keep, NEW x, NEW mode,
         ContinueOnboarding(keep, s, x) \/ LoadAttendee(keep, s, x, mode)
  PROVE  Still(keep, s, x) /\ Silent
<1>1. \/ \E f : Await(keep, s, x, f)
      \/ Reply(keep, s, x, "rescan")
      \/ \E p \in Platforms : ReplyLink(keep, s, x, p)
  BY DEF LoadAttendee, ContinueOnboarding, CompleteCheckin, Platforms
<1> QED BY <1>1, EndsStill

(* So nothing up to the first await of a message does.                     *)
LEMMA RouteStill ==
  ASSUME replies \in [Senders -> Replies], NEW s \in Senders, NEW keep, NEW x, NEW msg,
         Route(keep, s, x, msg)
  PROVE  Still(keep, s, x) /\ Silent
<1>1. \/ \E e, mode : Greet(keep, s, x, e, mode)
      \/ LoadAttendee(keep, s, x, "plain")
      \/ Reply(keep, s, x, "resend")
      \/ \E f : Await(keep, s, x, f)
  BY DEF Route
<1> QED BY <1>1, GreetStill, LoadAttendeeStill, EndsStill

(* The attendee of s's session changes only when its row is gone.          *)
Bound(s) ==
    dev = NoMember /\ sessions[s].attendee # NoAttendee
      /\ sessions'[s].attendee # sessions[s].attendee => sessions[s].attendee \notin DOMAIN attendees

SameStore(s) ==
    /\ DOMAIN sessions' = DOMAIN sessions
    /\ sessions'[s].sid = sessions[s].sid
    /\ \A r \in DOMAIN sessions \ {s} : sessions'[r] = sessions[r]

(* A stretch that changes no attendee binds to no other row.               *)
LEMMA StillIsBound ==
  ASSUME NEW s \in DOMAIN sessions, Still(Kept, s, sessions[s])
  PROVE  Bound(s) /\ SameStore(s)
BY DEF Still, Bound, SameStore, Kept

(* A row that a turn finds is the session's first, or the one it had,      *)
(* unless the development account is used.                                 *)
LEMMA QuietStepBound ==
  ASSUME IInv, NEW s \in Senders, QuietStep(s)
  PROVE  Bound(s) /\ SameStore(s) /\ Silent
<1> DEFINE x == sessions[s]
           f == turns[s]
<1>1. /\ s \in DOMAIN turns /\ s \in DOMAIN sessions /\ s \in Kept
      /\ FrameComplete(f) /\ OwnFrame(x, f, attendees, uuids, consent)
      /\ replies \in [Senders -> Replies]
  BY QuietStepMove, Resumed DEF IInv, TypeOK
<1>2. CASE Still(Kept, s, x) /\ Silent
  BY <1>1, <1>2, StillIsBound
<1>3. ASSUME NEW a, Match(s, a), x.attendee # NoAttendee => a = x.attendee
      PROVE  Bound(s) /\ SameStore(s) /\ Silent
  <2>1. Still(Kept, s, WithAttendee(x, a)) /\ Silent
    BY <1>1, <1>3, EndsStill DEF Match
  <2> QED BY <1>1, <1>3, <2>1 DEF Still, Bound, SameStore, WithAttendee, Kept
<1>4. ASSUME NEW y, NEW what \in {"linkedin", "welcome_back"}, AfterGreeting(s, y, f, what)
      PROVE  Still(Kept, s, y) /\ Silent
  BY <1>1, <1>4 DEF AfterGreeting, Store, Say, Still, Silent
<1>5. ASSUME NoAttendeeRow(s) PROVE Still(Kept, s, x) /\ Silent
  BY <1>1, <1>5, LoadAttendeeStill, EndsStill DEF NoAttendeeRow
<1>6. CASE EventKnown(s)
  <2>1. Still(Kept, s, WithEvent(x, f.event)) /\ Silent
    BY <1>1, <1>6, LoadAttendeeStill DEF EventKnown
  <2> QED BY <1>2, <2>1 DEF Still, WithEvent
<1>7. CASE EventUnknown(s)
  BY <1>1, <1>2, <1>7, GreetStill DEF EventUnknown
<1>8. CASE Greeted(s)
  BY <1>1, <1>2, <1>4, <1>8, EndsStill DEF Greeted
<1>9. CASE GreetedDev(s)
  <2>1. CASE AfterGreeting(s, x, f, "linkedin")
    BY <1>2, <1>4, <2>1
  <2>2. ASSUME NEW a \in RowsOf(f.event, dev), AfterGreeting(s, WithAttendee(x, a), f, "welcome_back")
        PROVE  Bound(s) /\ SameStore(s) /\ Silent
    <3>1. dev # NoMember
      BY NonesAssumption DEF RowsOf, IInv, DBInv, DBTypeOK, Attendee
    <3>2. Still(Kept, s, WithAttendee(x, a)) /\ Silent
      BY <1>4, <2>2
    <3> QED BY <1>1, <3>1, <3>2 DEF Still, Bound, SameStore, Kept, WithAttendee
  <2> QED BY <1>9, <2>1, <2>2 DEF GreetedDev
<1>10. CASE LoadedById(s)
  <2>1. f.attendee = x.attendee
    BY <1>1, <1>10 DEF LoadedById, Awaiting, OwnFrame
  <2> QED BY <1>2, <1>3, <1>5, <1>10, <2>1 DEF LoadedById
<1>11. CASE LoadedByLinkedin(s)
  <2>1. x.attendee = NoAttendee
    BY <1>1, <1>11 DEF LoadedByLinkedin, Awaiting, OwnFrame
  <2> QED BY <1>2, <1>3, <1>5, <1>11, <2>1 DEF LoadedByLinkedin
<1>12. CASE GreetedDevFails(s) \/ LoadFails(s) \/ ProfileFails(s)
  <2>1. Reply(Kept, s, x, "sorry") \/ Reply(Kept, s, x, "reauthorise") \/ Leave(Kept, s, x)
    BY <1>12 DEF GreetedDevFails, LoadFails, ProfileFails
  <2> QED BY <1>1, <1>2, <2>1, EndsStill
<1>13. CASE UserinfoFetched(s)
  <2>1. Still(Kept, s, WithCached(x, f.member)) /\ Silent
    BY <1>1, <1>13, EndsStill DEF UserinfoFetched
  <2> QED BY <1>2, <2>1 DEF Still, WithCached
<1>14. CASE UserinfoFails(s)
  BY <1>2, <1>5, <1>14 DEF UserinfoFails
<1>15. CASE ProfileFetched(s) \/ GithubFetched(s) \/ Embedded(s)
  <2>1. \E g : Await(Kept, s, x, g)
    BY <1>15 DEF ProfileFetched, GithubFetched, Embedded
  <2> QED BY <1>1, <1>2, <2>1, EndsStill
<1>16. CASE Matched(s)
  <2>1. \E what : what # "checked_in" /\ Reply(Kept, s, x, what)
    BY <1>16 DEF Matched, MatchReplies
  <2> QED BY <1>1, <1>2, <2>1, EndsStill
<1> QED BY <1>6, <1>7, <1>8, <1>9, <1>10, <1>11, <1>12, <1>13, <1>14, <1>15, <1>16 DEF QuietStep

(* A check-in binds only a session whose row is gone, and only its last    *)
(* step says so.                                                           *)
LEMMA TurnStepBound ==
  ASSUME IInv, NEW s \in Senders, TurnStep(s)
  PROVE  /\ s \in DOMAIN sessions /\ Bound(s) /\ SameStore(s)
         /\ Silent \/ VectorWritten(s)
<1>1. CASE QuietStep(s)
  BY <1>1, QuietStepMove, QuietStepBound, Resumed
<1>2. CASE RowWritten(s) \/ SaveFails(s)
  <2>1. /\ s \in DOMAIN turns
        /\ \/ \E f : Await(Kept, s, sessions[s], f)
           \/ Reply(Kept, s, sessions[s], "trouble")
    BY <1>2 DEF RowWritten, SaveFails, Awaiting
  <2>2. Still(Kept, s, sessions[s]) /\ Silent
    BY <2>1, EndsStill DEF IInv, TypeOK
  <2> QED BY <2>1, <2>2, Resumed, StillIsBound
<1>3. CASE VectorWritten(s)
  <2>1. /\ s \in DOMAIN turns /\ turns[s].awaits = "vector"
        /\ Store(Kept, s, WithAttendee(sessions[s], turns[s].attendee))
    BY <1>3 DEF VectorWritten, Awaiting, Reply
  <2>2. s \in DOMAIN sessions /\ sessions[s].attendee \notin DOMAIN attendees
    BY <2>1, Resumed, AtStatement
  <2> QED BY <1>3, <2>1, <2>2 DEF Store, WithAttendee, Bound, SameStore, Kept
<1> QED BY <1>1, <1>2, <1>3 DEF TurnStep, QuietStep

(* A message leaves every session as it was, or opens a new one.           *)
LEMMA ChatMessageBound ==
  ASSUME IInv, NEW s \in Senders, NEW msg \in Message, ChatMessage(s, msg)
  PROVE  /\ Silent
         /\ minted \subseteq minted'
         /\ \A r \in DOMAIN sessions' :
              \/ /\ r \in DOMAIN sessions /\ sessions'[r].sid = sessions[r].sid
                 /\ sessions'[r].attendee = sessions[r].attendee
              \/ sessions'[r].sid \in minted' \ minted
<1>1. PICK gone \in SUBSET (DOMAIN sessions \ DOMAIN turns) :
        \/ /\ s \in DOMAIN sessions \ gone
           /\ Route(DOMAIN sessions \ gone, s, sessions[s], msg)
           /\ UNCHANGED minted
        \/ \E i \in SessionIds \ minted :
             /\ Route(DOMAIN sessions \ gone, s, NewSession(i), msg)
             /\ minted' = minted \cup {i}
  BY DEF ChatMessage
<1> DEFINE keep == DOMAIN sessions \ gone
<1>2. replies \in [Senders -> Replies]
  BY DEF IInv, TypeOK
<1>3. CASE s \in keep /\ Route(keep, s, sessions[s], msg) /\ UNCHANGED minted
  <2>1. Still(keep, s, sessions[s]) /\ Silent
    BY <1>2, <1>3, RouteStill
  <2> QED BY <1>3, <2>1 DEF Still
<1>4. ASSUME NEW i \in SessionIds \ minted, Route(keep, s, NewSession(i), msg),
             minted' = minted \cup {i}
      PROVE  /\ Silent /\ DOMAIN sessions' = keep \cup {s} /\ sessions'[s].sid = i
             /\ \A r \in keep \ {s} : sessions'[r] = sessions[r]
  <2>1. Still(keep, s, NewSession(i)) /\ Silent
    BY <1>2, <1>4, RouteStill
  <2>2. NewSession(i).sid = i
    BY DEF NewSession
  <2> HIDE DEF keep
  <2> QED BY <2>1, <2>2 DEF Still
<1> QED BY <1>1, <1>3, <1>4

(* A session's id was given out, so a new session is told from an old one. *)
SidsMinted == \A s \in DOMAIN sessions : sessions[s].sid \in minted

(* Ids of sessions in the store have been given out, step by step.         *)
LEMMA SidsMintedStep ==
  ASSUME IInv, SidsMinted, [Next]_vars
  PROVE  SidsMinted'
<1> USE DEF SidsMinted
<1>1. ASSUME NEW s \in Senders, NEW msg \in Message, ChatMessage(s, msg) PROVE SidsMinted'
  BY <1>1, ChatMessageBound
<1>2. ASSUME NEW s \in Senders, TurnStep(s) PROVE SidsMinted'
  <2>1. UNCHANGED minted
    BY <1>2, QuietStepMove DEF TurnStep, QuietStep, RowWritten, VectorWritten, SaveFails
  <2> QED BY <1>2, <2>1, TurnStepBound DEF SameStore
<1>3. ASSUME NEW l \in callbacks, NEW m \in Members, TokensStored(l, m) PROVE SidsMinted'
  BY <1>3 DEF TokensStored, WithTokens
<1>4. ASSUME Restart PROVE SidsMinted'
  BY <1>4 DEF Restart
<1>5. ASSUME UNCHANGED <<sessions, minted>> PROVE SidsMinted'
  BY <1>5
<1> QED
  BY <1>1, <1>2, <1>3, <1>4, <1>5
  DEF Next, Authorise, ExchangeFails, PurgeExpired, chatVars, vars

(* And always.                                                             *)
LEMMA SidsAreMinted == Spec => [](IInv /\ SidsMinted)
<1>1. Init => SidsMinted
  BY DEF Init, SidsMinted
<1>2. (IInv /\ SidsMinted) /\ [Next]_vars => (IInv /\ SidsMinted)'
  BY NextInv, SidsMintedStep
<1> QED BY <1>1, <1>2, InitInv, PTL DEF Spec

-----------------------------------------------------------------------------
(* The action properties *)

(* A new row is one that a turn at upsert_attendee wrote.                  *)
LEMMA NewRowsStep ==
  ASSUME IInv, [Next]_vars, NEW a \in DOMAIN attendees' \ DOMAIN attendees
  PROVE  \E s \in DOMAIN sessions :
           /\ <<sessions[s].sid, attendees'[a].member>> \in consent
           /\ sessions[s].event = attendees'[a].event
<1>1. PICK s \in DOMAIN turns :
        /\ turns[s].awaits = "row"
        /\ \E b \in AttendeeIds : UpsertAttendee(turns[s].event, turns[s].member, b)
  <2> DEFINE Goal == \E s \in DOMAIN turns :
               /\ turns[s].awaits = "row"
               /\ \E b \in AttendeeIds : UpsertAttendee(turns[s].event, turns[s].member, b)
  <2>1. ASSUME NEW s \in Senders, NEW msg \in Message, ChatMessage(s, msg) PROVE FALSE
    BY <2>1 DEF ChatMessage, dbVars
  <2>2. ASSUME NEW s \in Senders, TurnStep(s) PROVE Goal
    <3>1. ~QuietStep(s)
      BY QuietStepMove DEF dbVars
    <3>2. CASE RowWritten(s)
      BY <3>2 DEF RowWritten, Awaiting
    <3>3. ~VectorWritten(s)
      BY DEF VectorWritten, UpsertEmbedding
    <3>4. CASE SaveFails(s)
      BY <3>4 DEF SaveFails, Awaiting, UpsertEmbedding, dbVars
    <3> QED BY <2>2, <3>1, <3>2, <3>3, <3>4 DEF TurnStep, QuietStep
  <2>3. ASSUME PurgeExpired PROVE FALSE
    BY <2>3 DEF PurgeExpired, Purge
  <2>4. ASSUME UNCHANGED dbVars PROVE FALSE
    BY <2>4 DEF dbVars
  <2> QED BY <2>1, <2>2, <2>3, <2>4
          DEF Next, Authorise, TokensStored, ExchangeFails, Restart, vars
<1>2. attendees'[a] = [event |-> turns[s].event, member |-> turns[s].member]
  BY <1>1 DEF UpsertAttendee
<1> QED BY <1>1, <1>2, AtStatement, Resumed

(* agent.py and handlers/embedding.py write a row only for an account and  *)
(* an event of a session that is live then, although both were read some   *)
(* awaits before.                                                          *)
THEOREM NewRowsCorrect == Spec => NewRowsAuthorised
<1>1. IInv /\ [Next]_vars =>
        [\A a \in DOMAIN attendees' \ DOMAIN attendees :
           \E s \in DOMAIN sessions :
             /\ <<sessions[s].sid, attendees'[a].member>> \in consent
             /\ sessions[s].event = attendees'[a].event]_vars
  BY NewRowsStep
<1> QED BY <1>1, InductiveInvariant, PTL DEF Spec, NewRowsAuthorised

(* A changed attendee is one that a step of the session's own turn         *)
(* changed.                                                                *)
LEMMA BindingStep ==
  ASSUME IInv, SidsMinted, [Next]_vars, dev = NoMember,
         NEW s \in DOMAIN sessions \cap DOMAIN sessions',
         sessions[s].sid = sessions'[s].sid, sessions[s].attendee # NoAttendee,
         sessions'[s].attendee # sessions[s].attendee
  PROVE  sessions[s].attendee \notin DOMAIN attendees
<1>1. ASSUME NEW r \in Senders, NEW msg \in Message, ChatMessage(r, msg) PROVE FALSE
  BY <1>1, ChatMessageBound DEF SidsMinted
<1>2. ASSUME NEW r \in Senders, TurnStep(r)
      PROVE  sessions[s].attendee \notin DOMAIN attendees
  BY <1>2, TurnStepBound DEF Bound, SameStore
<1>3. ASSUME NEW l \in callbacks, NEW m \in Members, TokensStored(l, m) PROVE FALSE
  BY <1>3 DEF TokensStored, WithTokens
<1>4. ASSUME Restart PROVE FALSE
  BY <1>4 DEF Restart
<1>5. ASSUME UNCHANGED sessions PROVE FALSE
  BY <1>5
<1> QED BY <1>1, <1>2, <1>3, <1>4, <1>5
        DEF Next, Authorise, ExchangeFails, PurgeExpired, chatVars, vars

(* In production agent.py moves a session to another attendee only when    *)
(* the row of the one before is gone.                                      *)
THEOREM BindingCorrect == Spec => AttendeeBindingStable
<1>1. (IInv /\ SidsMinted) /\ [Next]_vars =>
        [dev = NoMember =>
           \A s \in DOMAIN sessions \cap DOMAIN sessions' :
              /\ sessions[s].sid = sessions'[s].sid
              /\ sessions[s].attendee # NoAttendee
              /\ sessions'[s].attendee # sessions[s].attendee
              => sessions[s].attendee \notin DOMAIN attendees]_vars
  BY BindingStep
<1> QED BY <1>1, SidsAreMinted, PTL DEF Spec, AttendeeBindingStable

(* A new "checked in" is one that VectorWritten said.                      *)
LEMMA ToldStep ==
  ASSUME IInv, [Next]_vars, NEW s \in Senders,
         replies'[s] = "checked_in", replies[s] # "checked_in"
  PROVE  LET x == sessions'[s] IN
         /\ x.attendee \in DOMAIN attendees' \cap DOMAIN embeddings'
         /\ attendees'[x.attendee].event = x.event
         /\ <<x.sid, attendees'[x.attendee].member>> \in consent
<1>1. VectorWritten(s)
  <2>1. ASSUME NEW r \in Senders, NEW msg \in Message, ChatMessage(r, msg) PROVE FALSE
    BY <2>1, ChatMessageBound DEF Silent
  <2>2. ASSUME NEW r \in Senders, TurnStep(r) PROVE VectorWritten(s)
    <3>1. VectorWritten(r)
      BY <2>2, TurnStepBound DEF Silent
    <3>2. r = s
      BY <3>1 DEF VectorWritten, Reply, Say, IInv, TypeOK
    <3> QED BY <3>1, <3>2
  <2>3. ASSUME UNCHANGED replies PROVE FALSE
    BY <2>3
  <2> QED BY <2>1, <2>2, <2>3
          DEF Next, Authorise, TokensStored, ExchangeFails, PurgeExpired, Restart, chatVars, vars
<1> DEFINE a == turns[s].attendee
<1>2. /\ s \in DOMAIN turns /\ turns[s].awaits = "vector"
      /\ UpsertEmbedding(a, turns[s].event)
      /\ Store(Kept, s, WithAttendee(sessions[s], a))
  BY <1>1 DEF VectorWritten, Awaiting, Reply
<1>3. a \in DOMAIN attendees /\ a \in DOMAIN embeddings' /\ UNCHANGED attendees
  BY <1>2 DEF UpsertEmbedding
<1>4. attendees[a] = [event |-> turns[s].event, member |-> turns[s].member]
  BY <1>2, <1>3, Resumed DEF OwnFrame
<1>5. /\ turns[s].event = sessions[s].event
      /\ <<sessions[s].sid, turns[s].member>> \in consent
  BY <1>2, AtStatement
<1>6. sessions'[s] = WithAttendee(sessions[s], a)
  BY <1>2 DEF Store
<1> QED BY <1>3, <1>4, <1>5, <1>6 DEF WithAttendee

(* agent.py says "You're checked in" only when row and vector of the       *)
(* session's own event and account are stored.                             *)
THEOREM ToldCorrect == Spec => ToldCheckedInIsStored
<1>1. IInv /\ [Next]_vars =>
        [\A s \in Senders :
           replies'[s] = "checked_in" /\ replies[s] # "checked_in" =>
              LET x == sessions'[s] IN
              /\ x.attendee \in DOMAIN attendees' \cap DOMAIN embeddings'
              /\ attendees'[x.attendee].event = x.event
              /\ <<x.sid, attendees'[x.attendee].member>> \in consent]_vars
  BY ToldStep
<1> QED BY <1>1, InductiveInvariant, PTL DEF Spec, ToldCheckedInIsStored
=============================================================================
