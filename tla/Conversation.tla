---------------------------- MODULE Conversation ----------------------------
(***************************************************************************)
(* What one session remembers of a conversation and what matching makes of *)
(* it: _handle_matching of agent.py, handlers/conversation.py and          *)
(* models/refinement.py over a room of fixed people (they come and go in   *)
(* Matching) whose profiles are what their last check-in could fetch.      *)
(* Whether the uAgents runtime hands over a sender's next message before   *)
(* it is done with the last is not in this repository: turns overlap here  *)
(* at every await, and share the session's intent and history, which       *)
(* includes the runs in which they do not.                                 *)
(***************************************************************************)
EXTENDS Ranking

CONSTANTS
    Turns,         \* slots for the turns that overlap
    Messages,      \* what the user may write, see Message
    ModelQueries,  \* what the model may parse a message into
    People, Me,    \* the others in the room, and the user
    Accounts,      \* person -> what LinkedIn and GitHub hold
    Similarity,    \* person -> 1 - cosine distance to the user, in hundredths
    SkillVocab, DomainVocab, RoleVocab,
    Within(_, _),  \* one term is a part of the other, as in "java" of "javascript"
    MaxHistory,    \* MAX_HISTORY_TURNS
    MaxBegun,      \* bound on turns
    Marker, NoMessage

VARIABLES
    intent,    \* session.intent
    history,   \* session.history
    turns,     \* what each slot is doing
    begun,     \* turns that have begun
    shown      \* the list the last step has shown, if it has

vars == <<intent, history, turns, begun, shown>>

NoQuery ==
    [intent |-> NoIntent, required |-> {}, excluded |-> {}, domains |-> {}, roles |-> {},
     years |-> NoYears]

(* hint: _looks_like_refinement; names: the keyword groups of              *)
(* Intent.from_text in it; terms: the vocabulary in it; negated: the words *)
(* of its negation chunks, which run to the next comma or end.             *)
Message == [hint : BOOLEAN, names : SUBSET (Intents \ {"friend"}), terms : SUBSET Terms,
            negated : SUBSET Terms, years : Nat \cup {NoYears}]

(* intent and prompt are the local variables intent and history_snapshot,  *)
(* by tells which parser answered; kept, since: history, whether the turn  *)
(* made an entry, and how many came between it and the turn's snapshot.    *)
Turn == [stage : {"idle", "load", "parse", "match"}, msg : Messages \cup {NoMessage},
         kept : BOOLEAN, since : 0..MaxHistory, intent : Intents \cup {NoIntent},
         prompt : Seq(Messages \cup {Marker}), by : {"none", "model", "fallback"},
         query : Query]

ASSUME ConversationAssumption ==
    /\ MaxHistory \in Nat \ {0} /\ MaxBegun \in Nat
    /\ SkillVocab \cup DomainVocab \cup RoleVocab \subseteq Terms
    /\ Messages \subseteq Message /\ ModelQueries \subseteq Query
    /\ Marker \notin Messages /\ NoMessage \notin Messages
    /\ IsFiniteSet(People) /\ Similarity \in [People -> Int]
    /\ Accounts \in [People \cup {Me} -> Account]

Idle == [stage |-> "idle", msg |-> NoMessage, kept |-> FALSE, since |-> 0, intent |-> NoIntent,
         prompt |-> <<>>, by |-> "none", query |-> NoQuery]

NoList == [turn |-> Idle, room |-> [p \in {} |-> p], near |-> {}, list |-> <<>>]

(* What check-ins may have stored of the user and of the others.           *)
Rooms ==
    LET all == People \cup {Me}
        stored == {f \in [all -> UNION {Merged(Accounts[p]) : p \in all}] :
                     \A p \in all : f[p] \in Merged(Accounts[p])}
    IN  {[p \in all |-> Facts(f[p])] : f \in stored}

Init ==
    /\ intent = NoIntent
    /\ history = <<>>
    /\ turns = [t \in Turns |-> Idle]
    /\ begun = 0
    /\ shown = NoList

-----------------------------------------------------------------------------
(* The history *)

(* ConversationHistory.append.  The mutants keep all or the oldest entries. *)
Appended_KeepsAll(h, x) == Append(h, x)
Appended_KeepsOldest(h, x) == SubSeq(Append(h, x), 1, Least(Len(h) + 1, MaxHistory))
Appended(h, x) ==
    LET long == Append(h, x) IN
    SubSeq(long, Greatest(1, Len(long) - MaxHistory + 1), Len(long))

Counted(r) ==
    IF r.kept /\ r.prompt = <<>> /\ r.stage \in {"load", "match"}
    THEN [r EXCEPT !.since = Least(MaxHistory, @ + 1)] ELSE r

(* on_chat_message, up to its first await: only a plain message is kept,   *)
(* the words that come with a StartSession are not.                        *)
Receive(t, msg, plain) ==
    /\ turns[t].stage = "idle"
    /\ begun < MaxBegun /\ begun' = begun + 1
    /\ history' = IF plain THEN Appended(history, msg) ELSE history
    /\ turns' = [u \in Turns |->
                   IF u = t THEN [Idle EXCEPT !.stage = "load", !.msg = msg, !.kept = plain]
                   ELSE IF plain THEN Counted(turns[u]) ELSE turns[u]]
    /\ shown' = NoList
    /\ UNCHANGED intent

(* _extract_linkedin_id leaves a marker in the history on its way to the   *)
(* attendee; there may be none yet, and the turn is onboarding's.          *)
CacheProfile(t) ==
    /\ turns[t].stage = "load"
    /\ history' = Appended(history, Marker)
    /\ \E stage \in {"match", "idle"} :
         turns' = [u \in Turns |->
                     IF u # t THEN Counted(turns[u])
                     ELSE IF stage = "idle" THEN Idle
                     ELSE [Counted(turns[u]) EXCEPT !.stage = stage]]
    /\ shown' = NoList
    /\ UNCHANGED <<intent, begun>>

(* The attendee was found by the session's attendee_id.                    *)
LoadById(t) ==
    /\ turns[t].stage = "load"
    /\ turns' = [turns EXCEPT ![t].stage = "match"]
    /\ shown' = NoList
    /\ UNCHANGED <<intent, history, begun>>

-----------------------------------------------------------------------------
(* Intent and refinement *)

(* Intent.from_text: the first keyword group that matches, else a friend.  *)
FromText(msg) ==
    IF "co-founder" \in msg.names THEN "co-founder"
    ELSE IF "mentor" \in msg.names THEN "mentor"
    ELSE IF "contributor" \in msg.names THEN "contributor"
    ELSE "friend"

(* The mutant classifies every message anew.                               *)
IntentOf_EveryMessage(msg) == FromText(msg)
IntentOf(msg) == IF intent = NoIntent THEN FromText(msg) ELSE intent

(* _handle_matching up to its first await.                                 *)
HandleMatching(t) ==
    /\ turns[t].stage = "match" /\ turns[t].intent = NoIntent
    /\ intent' = IntentOf(turns[t].msg)
    /\ turns' = [turns EXCEPT ![t] =
                   IF @.msg.hint
                   THEN [@ EXCEPT !.intent = intent', !.stage = "parse", !.prompt = history]
                   ELSE [@ EXCEPT !.intent = intent', !.kept = FALSE, !.since = 0]]
    /\ shown' = NoList
    /\ UNCHANGED <<history, begun>>

(* Terms a negation chunk contains, as a part of a word too.               *)
Negated(msg) ==
    {x \in SkillVocab \cup DomainVocab : \E n \in msg.negated : x = n \/ Within(x, n)}

(* _parse_via_regex.                                                       *)
RegexQuery(msg) ==
    [intent |-> FromText(msg), required |-> (msg.terms \cap SkillVocab) \ Negated(msg),
     excluded |-> Negated(msg), domains |-> msg.terms \cap DomainVocab,
     roles |-> msg.terms \cap RoleVocab, years |-> msg.years]

(* parse_refinement returned: an intent it names becomes the session's and *)
(* the turn's.                                                             *)
Parsed(t, query, by) ==
    LET named == IF query.intent = NoIntent THEN turns[t].intent ELSE query.intent IN
    /\ turns[t].stage = "parse"
    /\ intent' = IF query.intent = NoIntent THEN intent ELSE query.intent
    /\ turns' = [turns EXCEPT ![t].stage = "match", ![t].intent = named, ![t].query = query,
                              ![t].prompt = <<>>, ![t].kept = FALSE, ![t].since = 0,
                              ![t].by = by]
    /\ shown' = NoList
    /\ UNCHANGED <<history, begun>>

ParseByModel(t) == \E query \in ModelQueries : Parsed(t, query, "model")

(* The model has no key, fails, or answers something else.                 *)
ParseByRegex(t) == turns[t].stage = "parse" /\ Parsed(t, RegexQuery(turns[t].msg), "fallback")

(* It answers JSON of another shape, and parse_refinement raises.          *)
ParseRaises(t) == Parsed(t, NoQuery, "none")

Scored(r, room, near) ==
    {Candidate(c, Similarity[c], r.intent, r.query, room[Me], room[c]) : c \in near}

(* get_matches over the room, of whom the search finds some, and the       *)
(* answer.                                                                 *)
ShowMatches(t) ==
    LET r == turns[t] IN
    /\ r.stage = "match" /\ r.intent # NoIntent
    /\ \E room \in Rooms, near \in Hits(People) :
         \E list \in Lists(Scored(r, room, near), r.query, room) :
           shown' = [turn |-> r, room |-> room, near |-> near, list |-> list]
    /\ turns' = [turns EXCEPT ![t] = Idle]
    /\ UNCHANGED <<intent, history, begun>>

Next ==
    \E t \in Turns :
      \/ \E msg \in Messages, plain \in BOOLEAN : Receive(t, msg, plain)
      \/ CacheProfile(t) \/ LoadById(t)
      \/ HandleMatching(t) \/ ParseByModel(t) \/ ParseByRegex(t) \/ ParseRaises(t)
      \/ ShowMatches(t)

Spec == Init /\ [][Next]_vars

-----------------------------------------------------------------------------
(* Properties *)

(* The session holds an intent and a bounded history, a turn what its      *)
(* locals may be.                                                          *)
TypeOK ==
    /\ intent \in Intents \cup {NoIntent}
    /\ history \in Seq(Messages \cup {Marker}) /\ Len(history) <= MaxHistory
    /\ begun \in 0..MaxBegun
    /\ turns \in [Turns -> Turn]

(* The model is told the conversation that leads to the message it parses: *)
(* the message itself is in the prompt unless MaxHistory entries, other    *)
(* turns' messages and internal markers, have displaced it.                *)
PromptHoldsMessage ==
    \A t \in Turns : LET r == turns[t] IN
      r.stage = "parse" /\ r.kept /\ r.since < MaxHistory =>
        r.since < Len(r.prompt) /\ r.prompt[Len(r.prompt) - r.since] = r.msg

(* What the user is looking for, once known, changes only by a refinement: *)
(* one in which the model found another intent, or any that the fallback   *)
(* parsed, whatever turns overlap.                                         *)
IntentKept ==
    [][intent # NoIntent /\ intent' # intent =>
         \E t \in Turns :
           /\ turns[t].stage = "parse" /\ turns'[t].stage = "match"
           /\ turns[t].msg.hint
           /\ turns'[t].query.intent = intent' /\ turns'[t].intent = intent'
           /\ turns'[t].by = "fallback" => intent' = FromText(turns[t].msg)]_vars

(* Whoever is shown has none of the skills the query excludes, the years   *)
(* it asks for and, if it names skills, domains or roles, one of them; and *)
(* nobody has a skill the user said no to.  Skills only: a domain that was *)
(* said no to stays among the query's domains, and a headline or role that *)
(* names it still admits.                                                  *)
ShownFit ==
    LET r == shown.turn
        f == r.query
    IN  \A i \in DOMAIN shown.list : LET p == shown.room[shown.list[i].who] IN
          /\ p.skills \cap f.excluded = {}
          /\ f.years = NoYears \/ p.years >= f.years
          /\ f.required \cup f.domains \cup f.roles # {} =>
               (p.skills \cup p.text) \cap (f.required \cup f.domains \cup f.roles) # {}
          /\ r.by = "fallback" =>
               p.skills \cap r.msg.negated \cap (SkillVocab \cup DomainVocab) = {}

(* Of those the search has found (whom top_k or its index has left out is  *)
(* lost to the filter) nobody who fits better is left out: the list is as  *)
(* long as it can be, without repetition, in the order of the scores, and  *)
(* no one found but missing from it outscores one on it.                   *)
BestShown ==
    LET f   == shown.turn.query
        fit == {c \in Scored(shown.turn, shown.room, shown.near) :
                  HasFilters(f) => Passes(f, shown.room[c.who])}
        on  == {shown.list[i] : i \in DOMAIN shown.list}
    IN  shown # NoList =>
          /\ on \subseteq fit
          /\ Cardinality(on) = Len(shown.list)
          /\ Len(shown.list) = Least(FinalK, Cardinality(fit))
          /\ \A c \in on, d \in fit \ on : c.final >= d.final
          /\ \A i, j \in DOMAIN shown.list : i < j =>
               shown.list[i].final >= shown.list[j].final
=============================================================================
