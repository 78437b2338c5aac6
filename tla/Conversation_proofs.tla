------------------------- MODULE Conversation_proofs ------------------------
(* What one session's overlapping turns do to its history and intent, and  *)
(* what the list shown is, for any vocabulary, people, accounts, messages, *)
(* history length and number of turns.                                     *)
EXTENDS Conversation, FiniteSetTheorems, SequenceTheorems, WellFoundedInduction, TLAPS

-----------------------------------------------------------------------------
(* The invariant *)

(* The turn's own message is still where its count of entries says.        *)
Held(r, h) ==
    r.kept /\ r.since < MaxHistory => r.since < Len(h) /\ h[Len(h) - r.since] = r.msg

(* Before _handle_matching has begun, when the history grows under a turn. *)
Waits(r) == r.stage = "load" \/ (r.stage = "match" /\ r.intent = NoIntent)

(* From then on the snapshot is what counts; what the fallback has parsed  *)
(* stays what its message says.                                            *)
Good(r, h) ==
    /\ r.stage # "idle" => r.msg \in Messages
    /\ Waits(r) => r.prompt = <<>> /\ r.intent = NoIntent /\ Held(r, h)
    /\ r.stage \in {"idle", "parse"} \/ Waits(r) => r.by = "none"
    /\ r.stage = "parse" => r.intent \in Intents /\ r.msg.hint /\ Held(r, r.prompt)
    /\ r.by = "fallback" => r.intent \in Intents /\ r.query = RegexQuery(r.msg)

(* A list that is shown is one that matching makes of a room and a turn.   *)
ShownMade ==
    shown = NoList \/
      LET r == shown.turn IN
      /\ r \in Turn /\ r.msg \in Messages /\ r.intent \in Intents
      /\ r.by = "fallback" => r.query = RegexQuery(r.msg)
      /\ shown.room \in Rooms /\ shown.near \in Hits(People)
      /\ shown.list \in Lists(Scored(r, shown.room, shown.near), r.query, shown.room)

CInv ==
    /\ TypeOK
    /\ \A t \in Turns : Good(turns[t], history)
    /\ ShownMade

-----------------------------------------------------------------------------
(* The history *)

(* Each entry of h that g keeps is one place further back in g.            *)
MovedBack(h, g) ==
    \A k \in Nat : k < Len(h) /\ k + 1 < MaxHistory =>
      k + 1 < Len(g) /\ g[Len(g) - (k + 1)] = h[Len(h) - k]

(* append() keeps the newest MaxHistory entries: the new one is the last,  *)
(* and each of the others one place further back.                          *)
LEMMA AppendedHistory ==
  ASSUME NEW S, NEW h \in Seq(S), Len(h) <= MaxHistory, NEW x \in S
  PROVE  LET g == Appended(h, x) IN
         /\ g \in Seq(S)
         /\ Len(g) \in 1..MaxHistory
         /\ g[Len(g)] = x
         /\ MovedBack(h, g)
<1> DEFINE g    == Appended(h, x)
           long == Append(h, x)
           m    == Greatest(1, Len(long) - MaxHistory + 1)
<1>1. MaxHistory \in Nat \ {0}
  BY ConversationAssumption
<1>2. /\ long \in Seq(S) /\ Len(long) = Len(h) + 1 /\ Len(h) \in Nat
      /\ long[Len(long)] = x
      /\ \A i \in 1..Len(h) : long[i] = h[i]
  BY AppendProperties
<1>3. m \in 1..Len(long) /\ Len(long) - m + 1 \in 1..MaxHistory
  BY <1>1, <1>2 DEF Greatest
<1>4. g = SubSeq(long, m, Len(long))
  BY DEF Appended
<1> HIDE DEF g, long
<1>5. Len(long) - m + 1 = IF Len(h) + 1 <= MaxHistory THEN Len(h) + 1 ELSE MaxHistory
  <2>1. m = IF 1 > Len(long) - MaxHistory + 1 THEN 1 ELSE Len(long) - MaxHistory + 1
    BY DEF Greatest
  <2>2. Len(long) \in Nat /\ Len(h) \in Nat /\ MaxHistory \in Nat /\ Len(long) = Len(h) + 1
    BY <1>1, <1>2
  <2> HIDE DEF m
  <2>3. CASE Len(h) + 1 <= MaxHistory
    <3>1. m = 1
      BY <2>1, <2>2, <2>3
    <3> QED BY <2>2, <2>3, <3>1
  <2>4. CASE ~(Len(h) + 1 <= MaxHistory)
    BY <2>1, <2>2, <2>4
  <2> QED BY <2>3, <2>4
<1>6. /\ g \in Seq(S) /\ Len(g) = Len(long) - m + 1
      /\ \A i \in 1..Len(g) : g[i] = long[m + i - 1]
  <2> HIDE DEF m
  <2> QED BY <1>2, <1>3, <1>4, SubSeqProperties
<1>7. g[Len(g)] = x
  <2> HIDE DEF m
  <2> QED BY <1>2, <1>3, <1>6
<1>8. ASSUME NEW k \in Nat, k < Len(h), k + 1 < MaxHistory
      PROVE  k + 1 < Len(g) /\ g[Len(g) - (k + 1)] = h[Len(h) - k]
  <2>1. k + 1 < Len(g)
    <3> HIDE DEF m
    <3> QED BY <1>1, <1>2, <1>5, <1>6, <1>8
  <2>2. Len(g) - (k + 1) \in 1..Len(g) /\ m + (Len(g) - (k + 1)) - 1 = Len(h) - k
    <3> HIDE DEF m
    <3> QED BY <2>1, <1>2, <1>3, <1>6
  <2>3. g[Len(g) - (k + 1)] = long[Len(h) - k]
    <3> HIDE DEF m
    <3> QED BY <2>2, <1>6
  <2> QED BY <2>1, <2>3, <1>2, <1>8
<1> HIDE DEF m
<1> QED BY <1>3, <1>6, <1>7, <1>8 DEF g, MovedBack

(* A history that holds a message holds it one place further back after    *)
(* the next append(), if MaxHistory leaves it there.                       *)
LEMMA HeldOn ==
  ASSUME NEW r \in Turn, NEW h \in Seq(Messages \cup {Marker}), Len(h) <= MaxHistory,
         Held(r, h), NEW x \in Messages \cup {Marker}
  PROVE  Held([r EXCEPT !.since = Least(MaxHistory, @ + 1)], Appended(h, x))
<1> DEFINE g == Appended(h, x)
           q == [r EXCEPT !.since = Least(MaxHistory, @ + 1)]
<1>1. MaxHistory \in Nat \ {0}
  BY ConversationAssumption
<1>2. r.since \in 0..MaxHistory
  BY DEF Turn
<1>3. MovedBack(h, g)
  <2> DEFINE S == Messages \cup {Marker}
  <2>1. h \in Seq(S) /\ x \in S
    OBVIOUS
  <2> HIDE DEF S, q
  <2> QED BY <2>1, AppendedHistory
<1>4. q.since = Least(MaxHistory, r.since + 1) /\ q.kept = r.kept /\ q.msg = r.msg
  BY DEF Turn
<1> HIDE DEF g, q
<1> SUFFICES ASSUME q.kept, q.since < MaxHistory
             PROVE  q.since < Len(g) /\ g[Len(g) - q.since] = q.msg
  BY DEF Held, g, q
<1>5. q.since = r.since + 1 /\ r.since \in Nat /\ r.since < MaxHistory
  BY <1>1, <1>2, <1>4 DEF Least
<1>6. r.since < Len(h) /\ h[Len(h) - r.since] = r.msg
  BY <1>4, <1>5 DEF Held
<1> QED BY <1>3, <1>4, <1>5, <1>6 DEF MovedBack

(* A turn whose since is not counted on is one the history matters to no   *)
(* more, or one that kept nothing.                                         *)
LEMMA CountedGood ==
  ASSUME NEW r \in Turn, NEW h \in Seq(Messages \cup {Marker}), Len(h) <= MaxHistory,
         Good(r, h), NEW x \in Messages \cup {Marker}
  PROVE  Counted(r) \in Turn /\ Good(Counted(r), Appended(h, x))
<1> DEFINE q == [r EXCEPT !.since = Least(MaxHistory, @ + 1)]
<1>1. MaxHistory \in Nat \ {0} /\ r.since \in 0..MaxHistory
  BY ConversationAssumption DEF Turn
<1>2. CASE r.kept /\ r.prompt = <<>> /\ r.stage \in {"load", "match"}
  <2>1. Counted(r) = q
    BY <1>2 DEF Counted
  <2>2. Least(MaxHistory, r.since + 1) \in 0..MaxHistory
    BY <1>1 DEF Least
  <2>3. q \in Turn
    BY <2>2 DEF Turn
  <2>4. /\ q.stage = r.stage /\ q.msg = r.msg /\ q.prompt = r.prompt /\ q.intent = r.intent
        /\ q.by = r.by /\ q.query = r.query
    BY DEF Turn
  <2>5. Waits(r) => Held(q, Appended(h, x))
    BY HeldOn DEF Good
  <2> HIDE DEF q
  <2>6. Good(q, Appended(h, x))
    BY <1>2, <2>4, <2>5 DEF Good, Waits
  <2> QED BY <2>1, <2>3, <2>6
<1>3. CASE ~(r.kept /\ r.prompt = <<>> /\ r.stage \in {"load", "match"})
  <2>1. Counted(r) = r
    BY <1>3 DEF Counted
  <2>2. Waits(r) => ~r.kept
    BY <1>3 DEF Good, Waits
  <2> QED BY <2>1, <2>2 DEF Good, Held
<1> QED BY <1>2, <1>3

-----------------------------------------------------------------------------
(* Intents and queries *)

LEMMA FromTextIsIntent ==
  \A msg : FromText(msg) \in Intents
BY DEF FromText, Intents

(* The fallback answers with a query of the vocabularies, and an intent.   *)
LEMMA RegexIsQuery ==
  ASSUME NEW msg \in Messages
  PROVE  RegexQuery(msg) \in Query /\ RegexQuery(msg).intent = FromText(msg)
<1>1. /\ msg \in Message
      /\ SkillVocab \subseteq Terms /\ DomainVocab \subseteq Terms /\ RoleVocab \subseteq Terms
  BY ConversationAssumption
<1>2. msg.years \in Nat \cup {NoYears}
  BY <1>1 DEF Message
<1>3. Negated(msg) \subseteq Terms
  BY <1>1 DEF Negated
<1> QED BY <1>1, <1>2, <1>3, FromTextIsIntent DEF RegexQuery, Query

LEMMA NoQueryIsQuery ==
  NoQuery \in Query
BY DEF NoQuery, Query

LEMMA IdleIsTurn ==
  Idle \in Turn /\ \A h : Good(Idle, h)
<1>1. MaxHistory \in Nat \ {0} /\ <<>> \in Seq(Messages \cup {Marker})
  BY ConversationAssumption
<1>2. Idle \in Turn
  BY <1>1, NoQueryIsQuery DEF Idle, Turn
<1> QED BY <1>2 DEF Idle, Good, Waits

-----------------------------------------------------------------------------
(* The invariant is inductive: one lemma per action *)

LEMMA InitCInv ==
  Init => CInv
<1> SUFFICES ASSUME Init PROVE CInv
  OBVIOUS
<1>1. MaxHistory \in Nat \ {0} /\ MaxBegun \in Nat
  BY ConversationAssumption
<1>2. history \in Seq(Messages \cup {Marker}) /\ Len(history) = 0
  BY DEF Init
<1>3. TypeOK
  BY <1>1, <1>2, IdleIsTurn DEF Init, TypeOK
<1>4. \A t \in Turns : Good(turns[t], history)
  BY IdleIsTurn DEF Init
<1> QED BY <1>3, <1>4 DEF Init, CInv, ShownMade

(* What append() makes of the session's history.                           *)
LEMMA HistoryAppended ==
  ASSUME TypeOK, NEW x \in Messages \cup {Marker}
  PROVE  /\ Appended(history, x) \in Seq(Messages \cup {Marker})
         /\ Len(Appended(history, x)) \in 1..MaxHistory
         /\ Appended(history, x)[Len(Appended(history, x))] = x
<1> DEFINE S == Messages \cup {Marker}
<1>1. history \in Seq(S) /\ Len(history) <= MaxHistory /\ x \in S
  BY DEF TypeOK
<1> HIDE DEF S
<1>2. LET g == Appended(history, x) IN
        g \in Seq(S) /\ Len(g) \in 1..MaxHistory /\ g[Len(g)] = x
  BY <1>1, AppendedHistory
<1> QED BY <1>2 DEF S

LEMMA ReceiveCInv ==
  ASSUME CInv, NEW t \in Turns, NEW msg \in Messages, NEW plain \in BOOLEAN,
         Receive(t, msg, plain)
  PROVE  CInv'
<1> DEFINE own == [Idle EXCEPT !.stage = "load", !.msg = msg, !.kept = plain]
<1>1. MaxHistory \in Nat \ {0} /\ MaxBegun \in Nat
  BY ConversationAssumption
<1>2. /\ history' \in Seq(Messages \cup {Marker}) /\ Len(history') <= MaxHistory
      /\ plain => Len(history') \in 1..MaxHistory /\ history'[Len(history')] = msg
  BY <1>1, HistoryAppended DEF CInv, TypeOK, Receive
<1>3. own \in Turn
  BY IdleIsTurn DEF Turn
<1>4. Good(own, history')
  <2>1. /\ own.stage = "load" /\ own.msg = msg /\ own.kept = plain /\ own.since = 0
        /\ own.prompt = <<>> /\ own.intent = NoIntent /\ own.by = "none"
    BY DEF Idle
  <2> HIDE DEF own
  <2>2. Held(own, history')
    BY <1>1, <1>2, <2>1 DEF Held
  <2> QED BY <2>1, <2>2 DEF Good, Waits
<1>5. ASSUME NEW u \in Turns
      PROVE  turns'[u] \in Turn /\ Good(turns'[u], history')
  <2>1. CASE u = t
    BY <2>1, <1>3, <1>4 DEF Receive
  <2>2. CASE u # t
    <3>1. turns[u] \in Turn /\ Good(turns[u], history)
      BY DEF CInv, TypeOK
    <3>2. CASE plain
      <4>1. turns'[u] = Counted(turns[u]) /\ history' = Appended(history, msg)
        BY <2>2, <3>2 DEF Receive
      <4> QED BY <3>1, <4>1, CountedGood DEF CInv, TypeOK
    <3>3. CASE ~plain
      <4>1. turns'[u] = turns[u] /\ history' = history
        BY <2>2, <3>3 DEF Receive
      <4> QED BY <3>1, <4>1
    <3> QED BY <3>2, <3>3
  <2> QED BY <2>1, <2>2
<1>6. turns' \in [Turns -> Turn]
  BY <1>5 DEF Receive
<1>7. TypeOK'
  BY <1>1, <1>2, <1>6 DEF Receive, CInv, TypeOK
<1> QED BY <1>5, <1>7 DEF CInv, ShownMade, Receive

LEMMA CacheProfileCInv ==
  ASSUME CInv, NEW t \in Turns, CacheProfile(t)
  PROVE  CInv'
<1>1. MaxHistory \in Nat \ {0} /\ MaxBegun \in Nat
  BY ConversationAssumption
<1>2. history' = Appended(history, Marker)
  BY DEF CacheProfile
<1>3. history' \in Seq(Messages \cup {Marker}) /\ Len(history') <= MaxHistory
  BY <1>1, <1>2, HistoryAppended DEF CInv
<1>4. PICK stage \in {"match", "idle"} :
        turns' = [u \in Turns |->
                    IF u # t THEN Counted(turns[u])
                    ELSE IF stage = "idle" THEN Idle
                    ELSE [Counted(turns[u]) EXCEPT !.stage = stage]]
  BY DEF CacheProfile
<1>5. ASSUME NEW u \in Turns
      PROVE  turns'[u] \in Turn /\ Good(turns'[u], history')
  <2> DEFINE q == Counted(turns[u])
  <2>1. q \in Turn /\ Good(q, history')
    BY <1>2, CountedGood DEF CInv, TypeOK
  <2>2. CASE u # t
    BY <1>4, <2>1, <2>2
  <2>3. CASE u = t /\ stage = "idle"
    BY <1>4, <2>3, IdleIsTurn
  <2>4. CASE u = t /\ stage = "match"
    <3> DEFINE own == [q EXCEPT !.stage = "match"]
    <3>1. turns'[u] = own
      BY <1>4, <2>4
    <3>2. q.stage = "load"
      <4>1. turns[u].stage = "load" /\ turns[u] \in Turn
        BY <2>4 DEF CacheProfile, CInv, TypeOK
      <4> QED BY <4>1 DEF Counted, Turn
    <3> HIDE DEF q
    <3>3. /\ own \in Turn /\ own.stage = "match" /\ own.msg = q.msg /\ own.kept = q.kept
          /\ own.since = q.since /\ own.prompt = q.prompt /\ own.intent = q.intent
          /\ own.by = q.by
      BY <2>1 DEF Turn
    <3> HIDE DEF own
    <3>4. q.msg \in Messages /\ q.prompt = <<>> /\ q.intent = NoIntent /\ q.by = "none"
          /\ Held(q, history')
      BY <2>1, <3>2 DEF Good, Waits
    <3>5. Held(own, history')
      BY <3>3, <3>4 DEF Held
    <3>6. Good(own, history')
      BY <3>3, <3>4, <3>5 DEF Good
    <3> QED BY <3>1, <3>3, <3>6
  <2> QED BY <2>2, <2>3, <2>4
<1>6. turns' \in [Turns -> Turn]
  BY <1>4, <1>5
<1>7. TypeOK'
  BY <1>3, <1>6 DEF CacheProfile, CInv, TypeOK
<1> QED BY <1>5, <1>7 DEF CInv, ShownMade, CacheProfile

(* A step that changes one turn and leaves the history alone.              *)
LEMMA OneTurnCInv ==
  ASSUME CInv, NEW t \in Turns, NEW q \in Turn, turns' = [turns EXCEPT ![t] = q],
         Good(q, history), history' = history, begun' = begun,
         intent' \in Intents \cup {NoIntent}, ShownMade'
  PROVE  CInv'
<1>1. TypeOK'
  BY DEF CInv, TypeOK
<1>2. \A u \in Turns : Good(turns'[u], history')
  BY DEF CInv, TypeOK
<1> QED BY <1>1, <1>2 DEF CInv

LEMMA LoadByIdCInv ==
  ASSUME CInv, NEW t \in Turns, LoadById(t)
  PROVE  CInv'
<1> DEFINE r == turns[t]
           q == [r EXCEPT !.stage = "match"]
<1>1. r \in Turn /\ Good(r, history) /\ r.stage = "load"
  BY DEF CInv, TypeOK, LoadById
<1>2. turns' = [turns EXCEPT ![t] = q]
  BY DEF CInv, TypeOK, LoadById
<1> HIDE DEF r
<1>3. /\ q \in Turn /\ q.stage = "match" /\ q.msg = r.msg /\ q.kept = r.kept
      /\ q.since = r.since /\ q.prompt = r.prompt /\ q.intent = r.intent /\ q.by = r.by
  BY <1>1 DEF Turn
<1> HIDE DEF q
<1>4. Good(q, history)
  BY <1>1, <1>3 DEF Good, Waits, Held
<1> QED BY <1>2, <1>3, <1>4, OneTurnCInv DEF LoadById, CInv, TypeOK, ShownMade

LEMMA HandleMatchingCInv ==
  ASSUME CInv, NEW t \in Turns, HandleMatching(t)
  PROVE  CInv'
<1> DEFINE r == turns[t]
           q == IF r.msg.hint
                THEN [r EXCEPT !.intent = intent', !.stage = "parse", !.prompt = history]
                ELSE [r EXCEPT !.intent = intent', !.kept = FALSE, !.since = 0]
<1>1. r \in Turn /\ Good(r, history) /\ Waits(r) /\ r.stage = "match"
  BY DEF CInv, TypeOK, HandleMatching, Waits
<1>2. turns' = [turns EXCEPT ![t] = q]
  BY DEF CInv, TypeOK, HandleMatching
<1>3. intent' \in Intents
  BY FromTextIsIntent DEF CInv, TypeOK, HandleMatching, IntentOf
<1>4. /\ history \in Seq(Messages \cup {Marker})
      /\ <<>> \in Seq(Messages \cup {Marker})
  BY DEF CInv, TypeOK
<1> HIDE DEF r
<1>5. CASE r.msg.hint
  <2>1. /\ q \in Turn /\ q.stage = "parse" /\ q.msg = r.msg /\ q.kept = r.kept
        /\ q.since = r.since /\ q.prompt = history /\ q.intent = intent' /\ q.by = r.by
    BY <1>1, <1>3, <1>4, <1>5 DEF Turn
  <2> HIDE DEF q
  <2>2. Good(q, history)
    BY <1>1, <1>3, <1>5, <2>1 DEF Good, Waits, Held
  <2> QED BY <1>2, <1>3, <2>1, <2>2, OneTurnCInv DEF HandleMatching, ShownMade
<1>6. CASE ~r.msg.hint
  <2>1. 0 \in 0..MaxHistory
    BY ConversationAssumption
  <2>2. /\ q \in Turn /\ q.stage = "match" /\ q.msg = r.msg
        /\ q.intent = intent' /\ q.by = r.by
    BY <1>1, <1>3, <1>6, <2>1 DEF Turn
  <2> HIDE DEF q
  <2>3. Good(q, history)
    BY <1>1, <1>3, <1>6, <2>2, RankingAssumption DEF Good, Waits
  <2> QED BY <1>2, <1>3, <2>2, <2>3, OneTurnCInv DEF HandleMatching, ShownMade
<1> QED BY <1>5, <1>6

(* The fallback's query is RegexQuery's; any other parser's is a query.    *)
LEMMA ParsedCInv ==
  ASSUME CInv, NEW t \in Turns, NEW query \in Query, NEW by \in {"none", "model", "fallback"},
         by = "fallback" => query = RegexQuery(turns[t].msg), Parsed(t, query, by)
  PROVE  CInv'
<1> DEFINE r == turns[t]
           named == IF query.intent = NoIntent THEN r.intent ELSE query.intent
           q == [r EXCEPT !.stage = "match", !.intent = named, !.query = query,
                          !.prompt = <<>>, !.kept = FALSE, !.since = 0, !.by = by]
<1>1. r \in Turn /\ Good(r, history) /\ r.stage = "parse"
  BY DEF CInv, TypeOK, Parsed
<1>2. turns' = [turns EXCEPT ![t] = q]
  BY DEF CInv, TypeOK, Parsed
<1>3. query.intent \in Intents \cup {NoIntent} /\ named \in Intents
  BY <1>1 DEF Query, Good
<1>4. /\ by = "fallback" => query = RegexQuery(r.msg)
      /\ intent' \in Intents \cup {NoIntent}
  BY <1>3 DEF Parsed, CInv, TypeOK
<1>5. /\ <<>> \in Seq(Messages \cup {Marker})
      /\ 0 \in 0..MaxHistory
  BY ConversationAssumption
<1> HIDE DEF r, named
<1>6. /\ q \in Turn /\ q.stage = "match" /\ q.msg = r.msg
      /\ q.prompt = <<>> /\ q.intent = named /\ q.by = by /\ q.query = query
  <2> DEFINE p == [r EXCEPT !.stage = "match", !.intent = named, !.query = query]
  <2>1. /\ p \in Turn /\ p.stage = "match" /\ p.msg = r.msg
        /\ p.intent = named /\ p.query = query
    BY <1>1, <1>3 DEF Turn
  <2>2. q = [p EXCEPT !.prompt = <<>>, !.kept = FALSE, !.since = 0, !.by = by]
    BY <1>1 DEF Turn
  <2> HIDE DEF p, q
  <2> QED BY <1>5, <2>1, <2>2 DEF Turn
<1> HIDE DEF q
<1>7. Good(q, history)
  BY <1>1, <1>3, <1>4, <1>6, RankingAssumption DEF Good, Waits
<1> QED BY <1>2, <1>4, <1>6, <1>7, OneTurnCInv DEF Parsed, ShownMade

LEMMA ShowMatchesCInv ==
  ASSUME CInv, NEW t \in Turns, ShowMatches(t)
  PROVE  CInv'
<1> DEFINE r == turns[t]
<1>1. r \in Turn /\ Good(r, history) /\ r.stage = "match" /\ r.intent # NoIntent
  BY DEF CInv, TypeOK, ShowMatches
<1>2. PICK room \in Rooms, near \in Hits(People) :
        \E list \in Lists(Scored(r, room, near), r.query, room) :
          shown' = [turn |-> r, room |-> room, near |-> near, list |-> list]
  BY DEF ShowMatches
<1>3. PICK list \in Lists(Scored(r, room, near), r.query, room) :
        shown' = [turn |-> r, room |-> room, near |-> near, list |-> list]
  BY <1>2
<1>4. /\ turns' = [turns EXCEPT ![t] = Idle] /\ history' = history /\ begun' = begun
      /\ intent' \in Intents \cup {NoIntent}
  BY DEF ShowMatches, CInv, TypeOK
<1> HIDE DEF r
<1>5. r.msg \in Messages /\ r.intent \in Intents
      /\ (r.by = "fallback" => r.query = RegexQuery(r.msg))
  BY <1>1 DEF Good, Turn
<1>6. ShownMade'
  BY <1>1, <1>3, <1>5 DEF ShownMade
<1> QED BY <1>4, <1>6, IdleIsTurn, OneTurnCInv

LEMMA NextCInv ==
  CInv /\ [Next]_vars => CInv'
<1> SUFFICES ASSUME CInv, [Next]_vars PROVE CInv'
  OBVIOUS
<1>1. ASSUME NEW t \in Turns, NEW msg \in Messages, NEW plain \in BOOLEAN,
             Receive(t, msg, plain)
      PROVE  CInv'
  BY <1>1, ReceiveCInv
<1>2. ASSUME NEW t \in Turns, CacheProfile(t) PROVE CInv'
  BY <1>2, CacheProfileCInv
<1>3. ASSUME NEW t \in Turns, LoadById(t) PROVE CInv'
  BY <1>3, LoadByIdCInv
<1>4. ASSUME NEW t \in Turns, HandleMatching(t) PROVE CInv'
  BY <1>4, HandleMatchingCInv
<1>5. ASSUME NEW t \in Turns, ParseByModel(t) PROVE CInv'
  <2>1. PICK query \in ModelQueries : Parsed(t, query, "model")
    BY <1>5 DEF ParseByModel
  <2> QED BY <2>1, ParsedCInv, ConversationAssumption
<1>6. ASSUME NEW t \in Turns, ParseByRegex(t) PROVE CInv'
  <2>1. turns[t].msg \in Messages
    BY <1>6 DEF ParseByRegex, CInv, Good
  <2> QED BY <1>6, <2>1, ParsedCInv, RegexIsQuery DEF ParseByRegex
<1>7. ASSUME NEW t \in Turns, ParseRaises(t) PROVE CInv'
  BY <1>7, ParsedCInv, NoQueryIsQuery DEF ParseRaises
<1>8. ASSUME NEW t \in Turns, ShowMatches(t) PROVE CInv'
  BY <1>8, ShowMatchesCInv
<1>9. CASE UNCHANGED vars
  BY <1>9 DEF vars, CInv, TypeOK, ShownMade
<1> QED BY <1>1, <1>2, <1>3, <1>4, <1>5, <1>6, <1>7, <1>8, <1>9 DEF Next

(* In every behaviour each turn's local variables agree with the session's *)
(* history and with what its message says.                                 *)
THEOREM ConversationInvariant ==
  Spec => []CInv
BY InitCInv, NextCInv, PTL DEF Spec

-----------------------------------------------------------------------------
(* What the turns promise *)

(* The session holds an intent or none and a history no longer than        *)
(* MAX_HISTORY_TURNS, and a turn what its locals may be, for any turns.    *)
THEOREM ConversationTypeCorrect ==
  Spec => []TypeOK
<1>1. CInv => TypeOK
  BY DEF CInv
<1> QED BY <1>1, ConversationInvariant, PTL

(* The model is told the message it parses, wherever other turns' appends  *)
(* have moved it, unless MaxHistory entries came between.                  *)
THEOREM PromptCorrect ==
  Spec => []PromptHoldsMessage
<1>1. CInv => PromptHoldsMessage
  BY DEF CInv, Good, Held, PromptHoldsMessage
<1> QED BY <1>1, ConversationInvariant, PTL

(* A known intent changes only when parse_refinement returns one, of the   *)
(* model's or of the message's words.                                      *)
THEOREM IntentIsKept ==
  Spec => IntentKept
<1> DEFINE Kept ==
      intent # NoIntent /\ intent' # intent =>
        \E t \in Turns :
          /\ turns[t].stage = "parse" /\ turns'[t].stage = "match"
          /\ turns[t].msg.hint
          /\ turns'[t].query.intent = intent' /\ turns'[t].intent = intent'
          /\ turns'[t].by = "fallback" => intent' = FromText(turns[t].msg)
<1>1. ASSUME CInv, NEW t \in Turns, NEW query,  NEW by, Parsed(t, query, by),
             by = "fallback" => query.intent = FromText(turns[t].msg)
      PROVE  Kept
  <2> DEFINE r == turns[t]
  <2>1. r \in Turn /\ r.stage = "parse" /\ r.msg.hint
    BY <1>1 DEF CInv, TypeOK, Parsed, Good
  <2>2. CASE query.intent = NoIntent
    BY <1>1, <2>2 DEF Parsed
  <2>3. CASE query.intent # NoIntent
    <3>1. /\ intent' = query.intent
          /\ turns'[t] = [r EXCEPT !.stage = "match", !.intent = query.intent, !.query = query,
                                   !.prompt = <<>>, !.kept = FALSE, !.since = 0, !.by = by]
      BY <1>1, <2>3 DEF Parsed, CInv, TypeOK
    <3>2. /\ turns'[t].stage = "match" /\ turns'[t].query = query
          /\ turns'[t].intent = query.intent /\ turns'[t].by = by
      BY <2>1, <3>1 DEF Turn
    <3> QED BY <1>1, <2>1, <3>1, <3>2
  <2> QED BY <2>2, <2>3
<1>2. CInv /\ [Next]_vars => Kept
  <2> SUFFICES ASSUME CInv, [Next]_vars, intent' # intent, intent # NoIntent PROVE Kept
    OBVIOUS
  <2>1. PICK t \in Turns :
          HandleMatching(t) \/ ParseByModel(t) \/ ParseByRegex(t) \/ ParseRaises(t)
    BY DEF Next, vars, Receive, CacheProfile, LoadById, ShowMatches
  <2>2. CASE HandleMatching(t)
    BY <2>2 DEF HandleMatching, IntentOf
  <2>3. CASE ParseByModel(t)
    BY <1>1, <2>3 DEF ParseByModel
  <2>4. CASE ParseByRegex(t)
    BY <1>1, <2>4 DEF ParseByRegex, RegexQuery
  <2>5. CASE ParseRaises(t)
    BY <1>1, <2>5 DEF ParseRaises
  <2> QED BY <2>1, <2>2, <2>3, <2>4, <2>5
<1>3. CInv /\ [Next]_vars => [Kept]_vars
  BY <1>2
<1> QED BY <1>3, ConversationInvariant, PTL DEF Spec, IntentKept

-----------------------------------------------------------------------------
(* Profiles: what a stored profile gives matching to read *)

LEMMA SmallestIsLeast ==
  ASSUME NEW S \in SUBSET Nat, S # {}
  PROVE  Smallest(S) \in S /\ \A y \in S : Smallest(S) <= y
<1>1. PICK x \in S : \A y \in S : ~(<<y, x>> \in OpToRel(<, Nat))
  BY NatLessThanWellFounded, WFMin
<1>2. ASSUME NEW y \in S PROVE x <= y
  <2>1. x \in Nat /\ y \in Nat
    OBVIOUS
  <2>2. y < x => <<y, x>> \in OpToRel(<, Nat)
    BY <2>1 DEF OpToRel
  <2>3. ~(y < x)
    BY <1>1, <2>2
  <2> QED BY <2>1, <2>3
<1> QED BY <1>1, <1>2 DEF Smallest

LinkedInTyped(li) ==
    li.headline \in SUBSET Terms /\ li.positions \in Seq(Position) /\ li.skills \in SUBSET Terms

LEMMA LinkedInOutcomesTyped ==
  ASSUME NEW account \in Account, NEW li \in LinkedInOutcomes(account)
  PROVE  LinkedInTyped(li)
<1>1. /\ account.headline \in SUBSET Terms /\ account.positions \in Seq(Position)
      /\ account.skills \in SUBSET Terms
  BY DEF Account
<1>2. <<>> \in Seq(Position)
  OBVIOUS
<1>3. li = OidcProfile \/ \E A \in SUBSET {"positions", "skills"} : li = LegacyProfile(account, A)
  BY DEF LinkedInOutcomes
<1>4. CASE li = OidcProfile
  BY <1>2, <1>4 DEF OidcProfile, LinkedInProfile, LinkedInTyped
<1>5. ASSUME NEW A \in SUBSET {"positions", "skills"}, li = LegacyProfile(account, A)
      PROVE  LinkedInTyped(li)
  BY <1>1, <1>2, <1>5 DEF LegacyProfile, LinkedInProfile, LinkedInTyped
<1> QED BY <1>3, <1>4, <1>5

LEMMA GitHubOutcomesTyped ==
  ASSUME NEW account \in Account, account.github # NoGithub,
         NEW gh \in GitHubOutcomes(account.github)
  PROVE  gh.languages \in SUBSET Terms /\ gh.topics \in SUBSET Terms /\ gh.events \in Nat
<1>1. /\ account.github.repos
            \in Seq([language : Terms \cup {NoLanguage}, topics : SUBSET Terms])
      /\ account.github.events \in Nat
  BY DEF Account
<1>2. PICK repos \in {account.github.repos, <<>>}, n \in {account.github.events, 0} :
        \E L \in CommonLanguages(repos) :
          gh = [languages |-> L, topics |-> UNION {repos[i].topics : i \in DOMAIN repos},
                events |-> n]
  BY DEF GitHubOutcomes
<1>3. PICK L \in CommonLanguages(repos) :
        gh = [languages |-> L, topics |-> UNION {repos[i].topics : i \in DOMAIN repos},
              events |-> n]
  BY <1>2
<1>4. L \subseteq Terms
  BY <1>3 DEF CommonLanguages
<1>5. UNION {repos[i].topics : i \in DOMAIN repos} \subseteq Terms
  <2> DEFINE Repository == [language : Terms \cup {NoLanguage}, topics : SUBSET Terms]
  <2>1. \A x \in Repository : x.topics \subseteq Terms
    OBVIOUS
  <2>2. account.github.repos \in Seq(Repository)
    BY <1>1
  <2> HIDE DEF Repository
  <2>3. repos \in Seq(Repository)
    <3>1. <<>> \in Seq(Repository)
      OBVIOUS
    <3>2. CASE repos = account.github.repos
      BY <2>2, <3>2
    <3>3. CASE repos = <<>>
      BY <3>1, <3>3
    <3> QED BY <3>2, <3>3
  <2>4. \A i \in DOMAIN repos : repos[i] \in Repository
    BY <2>3
  <2> QED BY <2>1, <2>4
<1> QED BY <1>1, <1>2, <1>3, <1>4, <1>5

FactsTyped(p) ==
    /\ p.skills \in SUBSET Terms /\ p.languages \in SUBSET Terms /\ p.text \in SUBSET Terms
    /\ p.active \in BOOLEAN /\ p.years \in Nat

(* Whatever the two accounts hold and whichever calls are answered, the    *)
(* years are a number that is not negative and the texts are of terms.     *)
LEMMA FactsAreTyped ==
  ASSUME NEW account \in Account, NEW m \in Merged(account)
  PROVE  FactsTyped(Facts(m))
<1>1. /\ m.linkedin \in LinkedInOutcomes(account)
      /\ m.github # NoGithub =>
           account.github # NoGithub /\ m.github \in GitHubOutcomes(account.github)
  BY DEF Merged
<1>2. LinkedInTyped(m.linkedin)
  BY <1>1, LinkedInOutcomesTyped
<1>3. m.github # NoGithub =>
        m.github.languages \in SUBSET Terms /\ m.github.topics \in SUBSET Terms
  BY <1>1, GitHubOutcomesTyped
<1>4. Skills(m) \in SUBSET Terms /\ Languages(m) \in SUBSET Terms
  BY <1>2, <1>3 DEF Skills, Languages, LinkedInTyped
<1>5. IsActive(m) \in BOOLEAN
  BY DEF IsActive
<1> DEFINE positions == m.linkedin.positions
<1>6. positions \in Seq(Position) /\ DOMAIN positions \subseteq Nat
      /\ \A i \in DOMAIN positions : positions[i] \in Position
  BY <1>2 DEF LinkedInTyped
<1>7. Text(m) \in SUBSET Terms
  <2> DEFINE open == {i \in DOMAIN positions : ~positions[i].ended}
  <2>1. CASE open = {}
    BY <1>2, <2>1 DEF Text, CurrentRole, LinkedInTyped
  <2>2. CASE open # {}
    <3>1. CurrentRole(m) = positions[Smallest(open)]
      BY <2>2 DEF CurrentRole
    <3>2. open \in SUBSET Nat
      BY <1>6
    <3>3. Smallest(open) \in open
      <4> HIDE DEF open
      <4> QED BY <2>2, <3>2, SmallestIsLeast
    <3>4. CurrentRole(m) \in Position
      BY <1>6, <3>1, <3>3
    <3> QED BY <1>2, <3>4 DEF Text, Position, LinkedInTyped
  <2> QED BY <2>1, <2>2
<1>8. Years(m) \in Nat
  <2> DEFINE starts == {positions[i].start : i \in DOMAIN positions} \ {NoDate}
  <2>1. starts \in SUBSET Nat
    BY <1>6 DEF Position
  <2>2. Years(m) = IF starts = {} THEN 0 ELSE Greatest(0, ThisYear - Smallest(starts))
    BY DEF Years
  <2> HIDE DEF starts
  <2>3. starts # {} => Smallest(starts) \in Nat
    BY <2>1, SmallestIsLeast
  <2> QED BY <2>2, <2>3, ProfilesAssumption DEF Greatest
<1> QED BY <1>4, <1>5, <1>7, <1>8 DEF Facts, FactsTyped

LEMMA RoomsAreTyped ==
  ASSUME NEW room \in Rooms, NEW p \in People \cup {Me}
  PROVE  FactsTyped(room[p])
<1> DEFINE all == People \cup {Me}
<1>1. PICK f \in [all -> UNION {Merged(Accounts[q]) : q \in all}] :
        /\ \A q \in all : f[q] \in Merged(Accounts[q])
        /\ room = [q \in all |-> Facts(f[q])]
  BY DEF Rooms
<1>2. f[p] \in Merged(Accounts[p]) /\ Accounts[p] \in Account /\ room[p] = Facts(f[p])
  BY <1>1, ConversationAssumption
<1> QED BY <1>2, FactsAreTyped

-----------------------------------------------------------------------------
(* Ranking: the boosts and the sorted list *)

LEMMA UpToBound ==
  ASSUME NEW S \in SUBSET Terms, NEW n \in Nat
  PROVE  UpTo(S, n) \in 0..n
<1>1. Cardinality(S) \in Nat
  BY ProfilesAssumption, FS_Subset, FS_CardinalityType
<1> QED BY <1>1 DEF UpTo, Least

(* The most an intent's boosts come to.                                    *)
MostBoost(intention) ==
    CASE intention = "co-founder"  -> 35
      [] intention = "contributor" -> 50
      [] intention = "mentor"      -> 30
      [] OTHER                     -> 15

(* A boost is never negative and never more than its intent's most,        *)
(* whatever the two profiles say.                                          *)
LEMMA BoostBound ==
  ASSUME NEW me, FactsTyped(me), NEW p, FactsTyped(p), NEW intention \in Intents
  PROVE  Boost(intention, me, p) \in 0..MostBoost(intention)
<1>1. /\ me.skills \cap p.skills \in SUBSET Terms /\ me.languages \cap p.languages \in SUBSET Terms
      /\ me.years \in Nat /\ p.years \in Nat
  BY DEF FactsTyped
<1> DEFINE skills(n) == UpTo(me.skills \cap p.skills, n)
           languages == UpTo(me.languages \cap p.languages, 3)
<1>2. /\ skills(1) \in 0..1 /\ skills(3) \in 0..3 /\ skills(5) \in 0..5 /\ languages \in 0..3
  BY <1>1, UpToBound
<1>3. CofounderBoost(me, p) \in 0..35
  <2>1. CofounderBoost(me, p) \in {20 + 5 * skills(3), 0 + 5 * skills(3)}
    BY DEF CofounderBoost
  <2> HIDE DEF skills
  <2> QED BY <1>2, <2>1
<1>4. ContributorBoost(me, p) \in 0..50
  <2>1. ContributorBoost(me, p)
          \in {10 * languages + 5 * skills(3) + 5, 10 * languages + 5 * skills(3) + 0}
    BY DEF ContributorBoost
  <2> HIDE DEF skills, languages
  <2> QED BY <1>2, <2>1
<1>5. MentorBoost(me, p) \in 0..30
  <2> DEFINE delta == p.years - me.years
             senior == IF delta >= 5 THEN Least(25, 4 * delta) ELSE 0
  <2>1. MentorBoost(me, p) = senior + 5 * skills(1)
    BY DEF MentorBoost
  <2>2. delta \in Int
    BY <1>1
  <2> HIDE DEF delta
  <2>3. senior \in 0..25
    BY <2>2 DEF Least
  <2> HIDE DEF skills, senior
  <2> QED BY <1>2, <2>1, <2>3
<1>6. FriendBoost(me, p) \in 0..15
  <2>1. FriendBoost(me, p) = 3 * skills(5)
    BY DEF FriendBoost
  <2> HIDE DEF skills
  <2> QED BY <1>2, <2>1
<1> QED BY <1>3, <1>4, <1>5, <1>6 DEF Boost, MostBoost, Intents

(* The final score is the nearness and what the boosts may add to it.      *)
LEMMA ScoredAreTyped ==
  ASSUME NEW r \in Turn, r.intent \in Intents, NEW room \in Rooms, NEW near \in Hits(People),
         NEW c \in Scored(r, room, near)
  PROVE  /\ c.who \in People /\ c.similarity \in Int /\ c.rerank \in Int /\ c.final \in Int
         /\ Cardinality(r.query.required) \in Nat
         /\ c.similarity <= c.rerank /\ c.rerank <= c.final
         /\ c.final <= c.similarity + MostBoost(r.intent) + 5 * Cardinality(r.query.required)
<1>1. PICK p \in People :
        c = Candidate(p, Similarity[p], r.intent, r.query, room[Me], room[p])
  BY DEF Scored, Hits
<1> DEFINE boost == Boost(r.intent, room[Me], room[p])
           met == room[p].skills \cap r.query.required
<1>2. Similarity[p] \in Int
  BY ConversationAssumption
<1>3. boost \in 0..MostBoost(r.intent)
  BY RoomsAreTyped, BoostBound
<1>4. MostBoost(r.intent) \in Nat
  BY DEF MostBoost
<1>5. /\ Cardinality(met) \in Nat /\ Cardinality(r.query.required) \in Nat
      /\ Cardinality(met) <= Cardinality(r.query.required)
  <2>1. r.query.required \in SUBSET Terms
    BY DEF Turn, Query
  <2>2. IsFiniteSet(r.query.required)
    BY <2>1, ProfilesAssumption, FS_Subset
  <2>3. met \in SUBSET r.query.required
    OBVIOUS
  <2> QED BY <2>2, <2>3, FS_Subset, FS_CardinalityType
<1>6. /\ c.who = p /\ c.similarity = Similarity[p] /\ c.rerank = Similarity[p] + boost
      /\ c.final = Similarity[p] + boost + 5 * Cardinality(met)
  BY <1>1 DEF Candidate, RerankScore, FinalScore
<1> HIDE DEF boost, met
<1> QED BY <1>2, <1>3, <1>4, <1>5, <1>6

LEMMA ScoredIsFinite ==
  ASSUME NEW r, NEW room, NEW near \in Hits(People)
  PROVE  IsFiniteSet(Scored(r, room, near))
<1> DEFINE f == [c \in near |->
                   Candidate(c, Similarity[c], r.intent, r.query, room[Me], room[c])]
<1>1. f \in Surjection(near, Scored(r, room, near))
  BY DEF Surjection, Scored
<1>2. IsFiniteSet(near)
  BY ConversationAssumption, FS_Subset DEF Hits
<1> HIDE DEF f
<1> QED BY <1>1, <1>2, FS_Surjection

On(list) == {list[i] : i \in DOMAIN list}

(* The first FinalK of a sorted finite set: as many as there are, without  *)
(* repetition, in order, and none of the others must come before one of    *)
(* them.                                                                   *)
LEMMA TopOfSorted ==
  ASSUME NEW S, IsFiniteSet(S), NEW s \in Sorted(S)
  PROVE  /\ Top(s) \in Seq(S) /\ On(Top(s)) \subseteq S
         /\ Len(Top(s)) = Least(FinalK, Cardinality(S))
         /\ Cardinality(On(Top(s))) = Len(Top(s))
         /\ \A i, j \in DOMAIN Top(s) : i < j => MayPrecede(Top(s)[i], Top(s)[j])
         /\ \A c \in On(Top(s)), d \in S \ On(Top(s)) : MayPrecede(c, d)
<1> DEFINE list == Top(s)
           on == On(list)
<1> DEFINE n == Cardinality(S)
           k == Least(FinalK, n)
<1>1. n \in Nat
  BY FS_CardinalityType
<1>2. s \in [1..n -> S] /\ \A i, j \in 1..n : i < j => s[i] # s[j] /\ MayPrecede(s[i], s[j])
  BY DEF Sorted
<1>3. Len(s) = n
  <2> HIDE DEF n
  <2> QED BY <1>1, <1>2
<1>4. k \in 0..n
  BY <1>1, RankingAssumption DEF Least
<1>5. list = SubSeq(s, 1, k)
  BY <1>3 DEF Top
<1> HIDE DEF n, k, list
<1>6. list \in Seq(S) /\ Len(list) = k /\ \A i \in 1..k : list[i] = s[i]
  <2>1. \A i \in 1..k : s[i] \in S
    BY <1>1, <1>2, <1>4
  <2> QED BY <1>1, <1>4, <1>5, <2>1, SubSeqProperties
<1>7. DOMAIN list = 1..k /\ on = {list[i] : i \in DOMAIN list}
  BY <1>4, <1>6 DEF On
<1> HIDE DEF on
<1>8. \A i, j \in 1..n : i # j => s[i] # s[j]
  BY <1>1, <1>2
<1>9. \A d \in S : \E j \in 1..n : s[j] = d
  <2>1. s \in Injection(1..n, S)
    BY <1>2, <1>8 DEF Injection, IsInjective
  <2>2. Cardinality(1..n) = n
    BY <1>1, FS_Interval
  <2>3. s \in Surjection(1..n, S)
    BY <2>1, <2>2, FS_Injection DEF n
  <2> QED BY <2>3 DEF Surjection
<1>10. on \subseteq S
  BY <1>6, <1>7
<1>11. Cardinality(on) = k
  <2> DEFINE f == [i \in 1..k |-> list[i]]
  <2>1. f \in Surjection(1..k, on)
    BY <1>7 DEF Surjection
  <2>2. f \in Injection(1..k, on)
    BY <1>1, <1>4, <1>6, <1>7, <1>8 DEF Injection, IsInjective
  <2>3. IsFiniteSet(1..k) /\ Cardinality(1..k) = k
    BY <1>1, <1>4, FS_Interval
  <2> HIDE DEF f
  <2> QED BY <2>1, <2>2, <2>3, FS_Surjection
<1>12. \A i, j \in 1..k : i < j => MayPrecede(list[i], list[j])
  BY <1>1, <1>2, <1>4, <1>6
<1>13. ASSUME NEW c \in on, NEW d \in S \ on PROVE MayPrecede(c, d)
  <2>1. PICK i \in 1..k : c = s[i]
    BY <1>6, <1>7
  <2>2. PICK j \in 1..n : d = s[j]
    BY <1>9
  <2>3. j \notin 1..k
    BY <1>6, <1>7, <2>2
  <2>4. i \in 1..n /\ i < j
    BY <1>1, <1>4, <2>3
  <2> QED BY <1>2, <2>1, <2>2, <2>4
<1> QED BY <1>6, <1>7, <1>10, <1>11, <1>12, <1>13 DEF k, n, on, list

-----------------------------------------------------------------------------
(* What the list shown is *)

(* The candidates a refinement leaves: those found whom its filters let    *)
(* pass.                                                                   *)
Fit(r, room, near) ==
    {c \in Scored(r, room, near) : HasFilters(r.query) => Passes(r.query, room[c.who])}

(* Whatever ties the database breaks, the list is of the best who fit.     *)
LEMMA ListShown ==
  ASSUME CInv, shown # NoList
  PROVE  LET r == shown.turn
             room == shown.room
             list == shown.list
             fit == Fit(r, room, shown.near)
         IN  /\ r \in Turn /\ r.intent \in Intents /\ room \in Rooms
             /\ shown.near \in Hits(People)
             /\ list \in Seq(fit) /\ On(list) \subseteq fit
             /\ Len(list) = Least(FinalK, Cardinality(fit))
             /\ Cardinality(On(list)) = Len(list)
             /\ \A i, j \in DOMAIN list : i < j => MayPrecede(list[i], list[j])
             /\ \A c \in On(list), d \in fit \ On(list) : MayPrecede(c, d)
<1> DEFINE r == shown.turn
           room == shown.room
           near == shown.near
           list == shown.list
           S == Fit(r, room, near)
<1>1. /\ r \in Turn /\ r.intent \in Intents /\ room \in Rooms /\ near \in Hits(People)
      /\ list \in Lists(Scored(r, room, near), r.query, room)
  BY DEF CInv, ShownMade
<1>2. PICK s \in Sorted(S) : list = Top(s)
  BY <1>1 DEF Lists, Fit
<1>3. IsFiniteSet(S)
  BY <1>1, ScoredIsFinite, FS_Subset DEF Fit
<1> HIDE DEF r, room, near, list, S
<1>4. /\ list \in Seq(S) /\ On(list) \subseteq S
      /\ Len(list) = Least(FinalK, Cardinality(S)) /\ Cardinality(On(list)) = Len(list)
      /\ \A i, j \in DOMAIN list : i < j => MayPrecede(list[i], list[j])
      /\ \A c \in On(list), d \in S \ On(list) : MayPrecede(c, d)
  BY <1>2, <1>3, TopOfSorted
<1> QED BY <1>1, <1>4 DEF r, room, near, list, S

(* Whoever is shown passes every filter of the query the turn was left     *)
(* with, and nobody shown has a skill that the fallback parser read as     *)
(* negated, whatever else admits them.                                     *)
THEOREM ShownIsFit ==
  Spec => []ShownFit
<1>1. ASSUME CInv PROVE ShownFit
  <2> DEFINE r == shown.turn
             f == r.query
             room == shown.room
             list == shown.list
  <2>1. CASE shown = NoList
    BY <2>1 DEF NoList, ShownFit
  <2>2. CASE shown # NoList
    <3> SUFFICES ASSUME NEW i \in DOMAIN list,
                        NEW p, p = room[list[i].who]
                 PROVE  /\ p.skills \cap f.excluded = {}
                        /\ f.years = NoYears \/ p.years >= f.years
                        /\ f.required \cup f.domains \cup f.roles # {} =>
                             (p.skills \cup p.text)
                               \cap (f.required \cup f.domains \cup f.roles) # {}
                        /\ r.by = "fallback" =>
                             p.skills \cap r.msg.negated \cap (SkillVocab \cup DomainVocab) = {}
      BY DEF ShownFit
    <3>1. list[i] \in Fit(r, room, shown.near)
      <4>1. list \in Seq(Fit(r, room, shown.near))
        BY <1>1, <2>2, ListShown
      <4> QED BY <4>1
    <3>2. HasFilters(f) => Passes(f, p)
      BY <3>1 DEF Fit
    <3> HIDE DEF list, room
    <3>3. p.skills \cap f.excluded = {}
      BY <3>2 DEF HasFilters, Passes
    <3>4. f.years = NoYears \/ p.years >= f.years
      BY <3>2 DEF HasFilters, Passes
    <3>5. f.required \cup f.domains \cup f.roles # {} =>
            (p.skills \cup p.text) \cap (f.required \cup f.domains \cup f.roles) # {}
      BY <3>2 DEF HasFilters, Passes
    <3>6. r.by = "fallback" =>
            p.skills \cap r.msg.negated \cap (SkillVocab \cup DomainVocab) = {}
      <4> SUFFICES ASSUME r.by = "fallback"
                   PROVE  p.skills \cap r.msg.negated \cap (SkillVocab \cup DomainVocab) = {}
        OBVIOUS
      <4>1. f = RegexQuery(r.msg)
        BY <1>1, <2>2 DEF CInv, ShownMade
      <4>2. f.excluded = Negated(r.msg)
        BY <4>1 DEF RegexQuery
      <4>3. r.msg.negated \cap (SkillVocab \cup DomainVocab) \subseteq f.excluded
        BY <4>2 DEF Negated
      <4> QED BY <3>3, <4>3
    <3> QED BY <3>3, <3>4, <3>5, <3>6
  <2> QED BY <2>1, <2>2
<1> QED BY <1>1, ConversationInvariant, PTL

(* Of whomever the search has found, whatever top_k and the index made of  *)
(* the room: the list is as long as FinalK and the fit allow, without      *)
(* repetition, in order of the score, and nobody found and left out scores *)
(* more than one on it.                                                    *)
THEOREM BestIsShown ==
  Spec => []BestShown
<1>1. ASSUME CInv PROVE BestShown
  <2> DEFINE r == shown.turn
             room == shown.room
             fit == Fit(r, room, shown.near)
             list == shown.list
             on == On(list)
  <2> SUFFICES ASSUME shown # NoList
               PROVE  /\ on \subseteq fit
                      /\ Cardinality(on) = Len(list)
                      /\ Len(list) = Least(FinalK, Cardinality(fit))
                      /\ \A c \in on, d \in fit \ on : c.final >= d.final
                      /\ \A i, j \in DOMAIN list : i < j => list[i].final >= list[j].final
    BY DEF BestShown, Fit, On
  <2>1. /\ r \in Turn /\ r.intent \in Intents /\ room \in Rooms /\ shown.near \in Hits(People)
        /\ list \in Seq(fit) /\ on \subseteq fit
        /\ Len(list) = Least(FinalK, Cardinality(fit)) /\ Cardinality(on) = Len(list)
        /\ \A i, j \in DOMAIN list : i < j => MayPrecede(list[i], list[j])
        /\ \A c \in on, d \in fit \ on : MayPrecede(c, d)
    BY <1>1, ListShown
  <2> HIDE DEF r, room, list
  <2>2. \A c \in fit : c.final \in Int
    BY <2>1, ScoredAreTyped DEF Fit
  <2> HIDE DEF fit
  <2>3. ASSUME NEW c \in fit, NEW d \in fit, MayPrecede(c, d)
        PROVE  c.final >= d.final
    BY <2>2, <2>3 DEF MayPrecede
  <2>4. \A i \in DOMAIN list : list[i] \in fit
    BY <2>1
  <2> QED BY <2>1, <2>3, <2>4
<1> QED BY <1>1, ConversationInvariant, PTL

(* Boosts reorder neighbours only: nobody found who fits is left out for   *)
(* one who is farther by more than the intent's boosts and 5 hundredths    *)
(* for each skill required can make up.                                    *)
NearestShown ==
    LET r  == shown.turn
        on == On(shown.list)
    IN  shown # NoList =>
          \A c \in on, d \in Fit(r, shown.room, shown.near) :
            d.similarity > c.similarity + MostBoost(r.intent) + 5 * Cardinality(r.query.required)
              => d \in on

THEOREM NearestIsShown ==
  Spec => []NearestShown
<1>1. ASSUME CInv PROVE NearestShown
  <2> DEFINE r == shown.turn
             room == shown.room
             near == shown.near
             on == On(shown.list)
  <2> SUFFICES ASSUME shown # NoList, NEW c \in on, NEW d \in Fit(r, room, near) \ on
               PROVE  ~(d.similarity > c.similarity + MostBoost(r.intent)
                                         + 5 * Cardinality(r.query.required))
    BY DEF NearestShown
  <2>1. /\ r \in Turn /\ r.intent \in Intents /\ room \in Rooms /\ near \in Hits(People)
        /\ on \subseteq Fit(r, room, near) /\ MayPrecede(c, d)
    BY <1>1, ListShown
  <2>2. c \in Scored(r, room, near) /\ d \in Scored(r, room, near)
    BY <2>1 DEF Fit
  <2> HIDE DEF r, room, near, on
  <2>3. /\ c.final \in Int /\ d.final \in Int /\ c.similarity \in Int /\ d.similarity \in Int
        /\ d.rerank \in Int /\ d.similarity <= d.rerank /\ d.rerank <= d.final
        /\ Cardinality(r.query.required) \in Nat
        /\ c.final <= c.similarity + MostBoost(r.intent) + 5 * Cardinality(r.query.required)
    BY <2>1, <2>2, ScoredAreTyped
  <2>4. c.final >= d.final
    BY <2>1, <2>3 DEF MayPrecede
  <2>5. MostBoost(r.intent) \in Nat
    BY DEF MostBoost
  <2> QED BY <2>3, <2>4, <2>5
<1> QED BY <1>1, ConversationInvariant, PTL
=============================================================================
