---------------------------- MODULE SessionStore ----------------------------
(***************************************************************************)
(* The in-memory session map of session.py, the signed OAuth links of      *)
(* handlers/onboarding.py and the HTTP callback of callback_server.py,     *)
(* which share it.  What this module keeps is time: a session is evicted   *)
(* when idle for longer than SessionTTL, a link is refused when older than *)
(* StateTTL, and between the two a chat turn and a token exchange hold on  *)
(* to a session across awaits.  CheckIn keeps the conversation and leaves  *)
(* time out.                                                               *)
(*                                                                         *)
(* Python dicts are functions whose domain is the set of present keys.     *)
(***************************************************************************)
EXTENDS Integers

CONSTANTS
    Senders,       \* chat addresses
    SessionIds,    \* message ids: the one that opens a session names it
    Owner,         \* who sends which message id
    Platforms,     \* "linkedin" and "github"
    SessionTTL,    \* SessionStore._ttl
    StateTTL,      \* _STATE_TTL_SECONDS
    TurnTime,      \* longest a chat turn runs (its awaits all time out)
    ExchangeTime,  \* longest a code-for-token exchange runs
    MaxTime        \* bound on the clock

(* The code has SessionTTL = 3600 and StateTTL = 600: a turn and an        *)
(* exchange together have the 3000 s between.                              *)
ASSUME TimeAssumption ==
    /\ {SessionTTL, StateTTL, TurnTime, ExchangeTime, MaxTime} \subseteq Nat
    /\ TurnTime + StateTTL + ExchangeTime <= SessionTTL

(* Message ids are made by the sender's client; the code checks none of    *)
(* them, so the same sender's id can come again, in a message delivered    *)
(* twice.  Two senders' ids are different.                                 *)
ASSUME OwnerAssumption == Owner \in [SessionIds -> Senders]

VARIABLES
    now,        \* the clock
    sessions,   \* _sessions: sender -> session
    byId,       \* _by_session_id: session id -> sender
    lost,       \* session ids whose session a restart forgot
    turns,      \* chat turns in progress: sender -> the session it holds
    links,      \* authorisation URLs sent to users
    callbacks   \* callbacks whose state verified, waiting for their tokens

vars == <<now, sessions, byId, lost, turns, links, callbacks>>

(* A token remembers the session id whose link it was obtained with.       *)
Token   == [platform : Platforms, sid : SessionIds]
Session == [sid : SessionIds, lastSeen : Nat, tokens : SUBSET Token]
Turn    == [sid : SessionIds, began : Nat]
Link    == [sid : SessionIds, platform : Platforms, ts : Nat]
Callback == [link : Link, sid : SessionIds, began : Nat]

Init ==
    /\ now = 0
    /\ sessions = [s \in {} |-> {}]
    /\ byId = [i \in {} |-> {}]
    /\ lost = {}
    /\ turns = [s \in {} |-> {}]
    /\ links = {}
    /\ callbacks = {}

-----------------------------------------------------------------------------
(* The session map *)

Expired == {r \in DOMAIN sessions : now - sessions[r].lastSeen > SessionTTL}

(* evict() pops the session and its index entry.  (The mutant forgets the  *)
(* second pop.)                                                            *)
EvictedIds_NoPop == {}
EvictedIds == {sessions[r].sid : r \in Expired}

(* touch(), and its omission.                                              *)
Touched_Not(x) == x
Touched(x) == [sid |-> x.sid, lastSeen |-> now, tokens |-> x.tokens]

(* The index with an entry for a new session; the mutant swaps key and     *)
(* value.                                                                  *)
IndexWith_Swapped(i, s) ==
    [j \in (DOMAIN byId \ EvictedIds) \cup {s} |-> IF j = s THEN i ELSE byId[j]]
IndexWith(i, s) ==
    [j \in (DOMAIN byId \ EvictedIds) \cup {i} |-> IF j = i THEN s ELSE byId[j]]

NewSession(i) == [sid |-> i, lastSeen |-> now, tokens |-> {}]

BeginTurn(s, i) ==
    turns' = [r \in DOMAIN turns \cup {s} |->
                IF r = s THEN [sid |-> i, began |-> now] ELSE turns[r]]

(* on_chat_message enters get_or_create with a live session: the expired   *)
(* ones go, this one is touched.                                           *)
ReturningMessage(s) ==
    /\ s \in DOMAIN sessions \ (Expired \cup DOMAIN turns)
    /\ sessions' = [r \in DOMAIN sessions \ Expired |->
                      IF r = s THEN Touched(sessions[r]) ELSE sessions[r]]
    /\ byId' = [i \in DOMAIN byId \ EvictedIds |-> byId[i]]
    /\ BeginTurn(s, sessions[s].sid)
    /\ UNCHANGED <<now, lost, links, callbacks>>

(* The same with no live session: the message's own id names a new one,    *)
(* even the id of a session that was evicted or lost.                      *)
FirstMessage(s, i) ==
    /\ s \notin (DOMAIN sessions \ Expired) \cup DOMAIN turns
    /\ Owner[i] = s
    /\ sessions' = [r \in (DOMAIN sessions \ Expired) \cup {s} |->
                      IF r = s THEN NewSession(i) ELSE sessions[r]]
    /\ byId' = IndexWith(i, s)
    /\ BeginTurn(s, i)
    /\ UNCHANGED <<now, lost, links, callbacks>>

(* A turn may sign and send an authorisation URL for its session.          *)
SendLink(s, p) ==
    /\ s \in DOMAIN turns
    /\ links' = links \cup {[sid |-> turns[s].sid, platform |-> p, ts |-> now]}
    /\ UNCHANGED <<now, sessions, byId, lost, turns, callbacks>>

EndTurn(s) ==
    /\ s \in DOMAIN turns
    /\ turns' = [r \in DOMAIN turns \ {s} |-> turns[r]]
    /\ UNCHANGED <<now, sessions, byId, lost, links, callbacks>>

-----------------------------------------------------------------------------
(* The OAuth callback *)

(* _verify_state: the platform of the route, the session id of the query   *)
(* and the age must fit what was signed.  A refusal changes nothing.       *)
(* The mutants drop the age check and the session check.                   *)
StateVerifies_AnyAge(l, platform, sid) == l.platform = platform /\ l.sid = sid
StateVerifies_AnySession(l, platform, sid) ==
    l.platform = platform /\ now - l.ts <= StateTTL /\ sid \in SessionIds
StateVerifies(l, platform, sid) ==
    /\ l.platform = platform
    /\ l.sid = sid
    /\ now - l.ts <= StateTTL

OAuthCallback(l, platform, sid) ==
    /\ StateVerifies(l, platform, sid)
    /\ callbacks' = callbacks \cup {[link |-> l, sid |-> sid, began |-> now]}
    /\ UNCHANGED <<now, sessions, byId, lost, turns, links>>

(* get_by_session_id: through the index, then through the map.             *)
SessionFound(i) == i \in DOMAIN byId /\ byId[i] \in DOMAIN sessions

(* The token of one platform replaces an earlier one of that platform and  *)
(* does not count as activity: callbacks do not touch() the session.       *)
WithToken(x, l) ==
    [sid |-> x.sid, lastSeen |-> x.lastSeen,
     tokens |-> {t \in x.tokens : t.platform # l.platform}
                  \cup {[platform |-> l.platform, sid |-> l.sid]}]

(* The exchange returned tokens.  The session is looked up only now, after *)
(* the await; if it is gone the answer is 410 and the tokens are dropped.  *)
StoreTokens(c) ==
    /\ callbacks' = callbacks \ {c}
    /\ sessions' = [r \in DOMAIN sessions |->
                      IF SessionFound(c.sid) /\ byId[c.sid] = r
                      THEN WithToken(sessions[r], c.link) ELSE sessions[r]]
    /\ UNCHANGED <<now, byId, lost, turns, links>>

ExchangeFails(c) ==
    /\ callbacks' = callbacks \ {c}
    /\ UNCHANGED <<now, sessions, byId, lost, turns, links>>

-----------------------------------------------------------------------------
(* Environment *)

(* Every await of a turn or an exchange ends by a timeout.                 *)
Tick ==
    /\ now < MaxTime
    /\ \A s \in DOMAIN turns : now < turns[s].began + TurnTime
    /\ \A c \in callbacks : now < c.began + ExchangeTime
    /\ now' = now + 1
    /\ UNCHANGED <<sessions, byId, lost, turns, links, callbacks>>

(* The process restarts: memory is gone, signed links still verify.        *)
Restart ==
    /\ lost' = lost \cup DOMAIN byId
    /\ sessions' = [s \in {} |-> {}]
    /\ byId' = [i \in {} |-> {}]
    /\ turns' = [s \in {} |-> {}]
    /\ callbacks' = {}
    /\ UNCHANGED <<now, links>>

Next ==
    \/ \E s \in Senders : ReturningMessage(s)
    \/ \E s \in Senders, i \in SessionIds : FirstMessage(s, i)
    \/ \E s \in Senders, p \in Platforms : SendLink(s, p)
    \/ \E s \in Senders : EndTurn(s)
    \/ \E l \in links, p \in Platforms, i \in SessionIds : OAuthCallback(l, p, i)
    \/ \E c \in callbacks : StoreTokens(c)
    \/ \E c \in callbacks : ExchangeFails(c)
    \/ Tick
    \/ Restart

Spec == Init /\ [][Next]_vars

-----------------------------------------------------------------------------
(* Properties *)

(* Every variable keeps to the shape of the Python object it stands for.   *)
TypeOK ==
    /\ now \in Nat
    /\ DOMAIN sessions \subseteq Senders
    /\ sessions \in [DOMAIN sessions -> Session]
    /\ DOMAIN byId \subseteq SessionIds
    /\ byId \in [DOMAIN byId -> Senders]
    /\ lost \subseteq SessionIds
    /\ DOMAIN turns \subseteq Senders
    /\ turns \in [DOMAIN turns -> Turn]
    /\ links \subseteq Link
    /\ callbacks \subseteq Callback

(* The two dicts of SessionStore are inverse to each other through every   *)
(* mix of creation, eviction and restart, so that a lookup by session id   *)
(* finds that very session or nothing.                                     *)
IndexConsistent ==
    /\ \A s \in DOMAIN sessions :
         sessions[s].sid \in DOMAIN byId /\ byId[sessions[s].sid] = s
    /\ \A i \in DOMAIN byId :
         byId[i] \in DOMAIN sessions /\ sessions[byId[i]].sid = i

(* Tokens obtained with the link of one session never end up in another,   *)
(* although the callback looks its session up only after the exchange.     *)
TokensReachTheirSession ==
    \A s \in DOMAIN sessions : \A t \in sessions[s].tokens :
        t.sid = sessions[s].sid

(* A chat turn never works on a session that another sender's message has  *)
(* evicted while the turn was suspended.                                   *)
TurnHoldsLiveSession ==
    \A s \in DOMAIN turns :
        s \in DOMAIN sessions /\ sessions[s].sid = turns[s].sid

(* The 410 "session expired" answer is given only after a restart: a link  *)
(* whose state still verifies has its session, because links age faster    *)
(* than sessions.                                                          *)
VerifiedCallbackFindsSession ==
    \A c \in callbacks : SessionFound(c.sid) \/ c.sid \in lost
=============================================================================
