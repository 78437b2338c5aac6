---------------------------- MODULE Process_proofs ---------------------------
(* Proofs about what the process holds in memory and loses when it ends:   *)
(* the sessions of SessionStore, for every number of senders and sessions  *)
(* and all times that satisfy TimeAssumption, and the pool and readiness   *)
(* of Boot, for any number of turns, status requests and pools.            *)
EXTENDS SessionStore, Boot, TLAPS

-----------------------------------------------------------------------------
(* The sessions *)

(* A session is named by a message of its own sender.                      *)
OwnIds == \A s \in DOMAIN sessions : Owner[sessions[s].sid] = s

(* A turn holds a session that it touched when it began.                   *)
TurnFresh(s) ==
    /\ s \in DOMAIN sessions
    /\ sessions[s].sid = turns[s].sid
    /\ turns[s].began <= sessions[s].lastSeen
    /\ now <= turns[s].began + TurnTime

(* The session a link was sent for is in the map, with the link at most a  *)
(* turn younger than its last message; or a restart lost it; or the link   *)
(* is so old that no exchange it started can be running.                   *)
HasSession(l) ==
    \E s \in DOMAIN sessions :
        sessions[s].sid = l.sid /\ l.ts <= sessions[s].lastSeen + TurnTime

LinkCovered(l) ==
    \/ l.sid \in lost
    \/ HasSession(l)
    \/ l.ts + StateTTL + ExchangeTime < now

CallbackTimely(c) ==
    /\ c.link \in links
    /\ c.sid = c.link.sid
    /\ c.began <= c.link.ts + StateTTL
    /\ now <= c.began + ExchangeTime

IInv ==
    /\ TypeOK
    /\ IndexConsistent
    /\ TokensReachTheirSession
    /\ OwnIds
    /\ \A s \in DOMAIN sessions : sessions[s].lastSeen <= now
    /\ \A s \in DOMAIN turns : TurnFresh(s)
    /\ \A l \in links : LinkCovered(l)
    /\ \A c \in callbacks : CallbackTimely(c)

-----------------------------------------------------------------------------
(* The invariant holds initially.                                          *)
LEMMA InitIInv == Init => IInv
  BY TimeAssumption
     DEF Init, IInv, TypeOK, IndexConsistent, TokensReachTheirSession, OwnIds

(* A session that a running turn holds is not expired.                     *)
LEMMA TurnNotExpired ==
  ASSUME IInv, NEW s \in DOMAIN turns
  PROVE  s \in DOMAIN sessions \ Expired
  <1>1. TurnFresh(s) /\ s \in DOMAIN sessions
    BY DEF IInv, TurnFresh
  <1>2. sessions[s].lastSeen \in Nat /\ turns[s].began \in Nat /\ now \in Nat
    BY <1>1 DEF IInv, TypeOK, Session, Turn
  <1>3. now - sessions[s].lastSeen <= TurnTime
    BY <1>1, <1>2, TimeAssumption DEF TurnFresh
  <1> QED
    BY <1>1, <1>2, <1>3, TimeAssumption DEF Expired

(* Eviction removes from the index exactly the ids of the evicted sessions.*)
LEMMA EvictionKeepsIndex ==
  ASSUME IInv
  PROVE  /\ \A s \in DOMAIN sessions \ Expired :
              sessions[s].sid \in DOMAIN byId \ EvictedIds
         /\ \A i \in DOMAIN byId \ EvictedIds :
              byId[i] \in DOMAIN sessions \ Expired
  BY DEF IInv, IndexConsistent, EvictedIds, Expired

(* When a link's session is evicted, the link is too old to be in use.     *)
LEMMA EvictionCoversLinks ==
  ASSUME IInv, NEW l \in links
  PROVE  \/ l.sid \in lost
         \/ \E s \in DOMAIN sessions \ Expired :
               sessions[s].sid = l.sid /\ l.ts <= sessions[s].lastSeen + TurnTime
         \/ l.ts + StateTTL + ExchangeTime < now
  <1>1. CASE l.sid \in lost
    BY <1>1
  <1>2. CASE l.ts + StateTTL + ExchangeTime < now
    BY <1>2
  <1>3. ASSUME HasSession(l)
        PROVE  \/ \E s \in DOMAIN sessions \ Expired :
                    sessions[s].sid = l.sid /\ l.ts <= sessions[s].lastSeen + TurnTime
               \/ l.ts + StateTTL + ExchangeTime < now
    <2>1. PICK s \in DOMAIN sessions :
            sessions[s].sid = l.sid /\ l.ts <= sessions[s].lastSeen + TurnTime
      BY <1>3 DEF HasSession
    <2>2. CASE s \notin Expired
      BY <2>1, <2>2
    <2>3. CASE s \in Expired
      <3>1. sessions[s].lastSeen \in Nat /\ l.ts \in Nat /\ now \in Nat
        BY <2>1 DEF IInv, TypeOK, Session, Link
      <3>2. now - sessions[s].lastSeen > SessionTTL
        BY <2>3 DEF Expired
      <3> QED
        BY <2>1, <3>1, <3>2, TimeAssumption
    <2> QED
      BY <2>2, <2>3
  <1> QED
    BY <1>1, <1>2, <1>3 DEF IInv, LinkCovered

-----------------------------------------------------------------------------
(* Each action preserves the invariant. *)
(* A message of a live session evicts others and touches its own.          *)
LEMMA ReturningMessageIInv ==
  ASSUME IInv, NEW s \in Senders, ReturningMessage(s)
  PROVE  IInv'
  <1> USE DEF ReturningMessage, BeginTurn, Touched
  <1>1. /\ DOMAIN sessions' = DOMAIN sessions \ Expired
        /\ \A r \in DOMAIN sessions' :
             /\ sessions'[r].sid = sessions[r].sid
             /\ sessions'[r].tokens = sessions[r].tokens
             /\ sessions'[r].lastSeen = IF r = s THEN now ELSE sessions[r].lastSeen
             /\ sessions'[r] \in Session
    BY DEF IInv, TypeOK, Session
  <1>2. TypeOK'
    <2>1. /\ now' \in Nat /\ lost' \subseteq SessionIds
          /\ links' \subseteq Link /\ callbacks' \subseteq Callback
      BY DEF IInv, TypeOK
    <2>2. DOMAIN sessions' \subseteq Senders /\ sessions' \in [DOMAIN sessions' -> Session]
      BY <1>1 DEF IInv, TypeOK
    <2>3. DOMAIN byId' \subseteq SessionIds /\ byId' \in [DOMAIN byId' -> Senders]
      BY DEF IInv, TypeOK
    <2>4. DOMAIN turns' \subseteq Senders /\ turns' \in [DOMAIN turns' -> Turn]
      BY DEF IInv, TypeOK, Turn, Session
    <2> QED
      BY <2>1, <2>2, <2>3, <2>4 DEF TypeOK
  <1>3. IndexConsistent'
    BY <1>1, EvictionKeepsIndex DEF IInv, IndexConsistent
  <1>4. TokensReachTheirSession'
    BY <1>1 DEF IInv, TokensReachTheirSession
  <1>5. OwnIds'
    BY <1>1 DEF IInv, OwnIds
  <1>6. \A r \in DOMAIN turns' : TurnFresh(r)'
    <2> SUFFICES ASSUME NEW r \in DOMAIN turns'
                 PROVE  TurnFresh(r)'
      OBVIOUS
    <2>1. CASE r = s
      BY <1>1, <2>1, TimeAssumption DEF TurnFresh, IInv, TypeOK
    <2>2. CASE r # s
      <3>1. r \in DOMAIN turns /\ TurnFresh(r) /\ turns'[r] = turns[r]
        BY <2>2 DEF IInv
      <3>2. r \in DOMAIN sessions'
        BY <3>1, <1>1, TurnNotExpired
      <3> QED
        BY <3>1, <3>2, <1>1, <2>2 DEF TurnFresh
    <2> QED
      BY <2>1, <2>2
  <1>7. \A l \in links' : LinkCovered(l)'
    <2> SUFFICES ASSUME NEW l \in links
                 PROVE  LinkCovered(l)'
      OBVIOUS
    <2>1. ASSUME NEW r \in DOMAIN sessions \ Expired,
                 sessions[r].sid = l.sid, l.ts <= sessions[r].lastSeen + TurnTime
          PROVE  HasSession(l)'
      <3>1. sessions[r].lastSeen \in Nat /\ now \in Nat /\ l.ts \in Nat
        BY DEF IInv, TypeOK, Session, Link
      <3>2. sessions[r].lastSeen <= now
        BY DEF IInv
      <3> QED
        BY <1>1, <2>1, <3>1, <3>2, TimeAssumption DEF HasSession
    <2> QED
      BY <2>1, EvictionCoversLinks DEF LinkCovered
  <1>8. \A c \in callbacks' : CallbackTimely(c)'
    BY DEF IInv, CallbackTimely
  <1>9. \A r \in DOMAIN sessions' : sessions'[r].lastSeen <= now'
    BY <1>1 DEF IInv, TypeOK
  <1> QED
    BY <1>2, <1>3, <1>4, <1>5, <1>6, <1>7, <1>8, <1>9 DEF IInv

(* A message that opens a session takes an id that no other session has,   *)
(* for its sender has no session.                                          *)
LEMMA FirstMessageIInv ==
  ASSUME IInv, NEW s \in Senders, NEW i \in SessionIds, FirstMessage(s, i)
  PROVE  IInv'
  <1> USE DEF FirstMessage, BeginTurn, IndexWith, NewSession
  <1>0. now \in Nat
    BY DEF IInv, TypeOK
  <1>1. /\ DOMAIN sessions' = (DOMAIN sessions \ Expired) \cup {s}
        /\ sessions'[s] = [sid |-> i, lastSeen |-> now, tokens |-> {}]
        /\ \A r \in DOMAIN sessions \ Expired : r # s /\ sessions'[r] = sessions[r]
    OBVIOUS
  <1>2. TypeOK'
    <2>1. /\ now' \in Nat /\ lost' \subseteq SessionIds
          /\ links' \subseteq Link /\ callbacks' \subseteq Callback
      BY DEF IInv, TypeOK
    <2>2. sessions'[s] \in Session
      BY <1>0, <1>1 DEF Session
    <2>3. DOMAIN sessions' \subseteq Senders /\ sessions' \in [DOMAIN sessions' -> Session]
      BY <1>1, <2>2 DEF IInv, TypeOK
    <2>4. DOMAIN byId' \subseteq SessionIds /\ byId' \in [DOMAIN byId' -> Senders]
      BY DEF IInv, TypeOK
    <2>5. DOMAIN turns' \subseteq Senders /\ turns' \in [DOMAIN turns' -> Turn]
      BY <1>0 DEF IInv, TypeOK, Turn
    <2> QED
      BY <2>1, <2>3, <2>4, <2>5 DEF TypeOK
  <1>3. IndexConsistent'
    <2>1. i \notin DOMAIN byId \ EvictedIds
      <3>1. ASSUME i \in DOMAIN byId \ EvictedIds
            PROVE  byId[i] = s /\ byId[i] \in DOMAIN sessions \ Expired
        BY <3>1, EvictionKeepsIndex DEF IInv, IndexConsistent, OwnIds
      <3> QED
        BY <3>1
    <2>2. \A r \in DOMAIN sessions' :
            sessions'[r].sid \in DOMAIN byId' /\ byId'[sessions'[r].sid] = r
      BY <1>1, <2>1, EvictionKeepsIndex DEF IInv, IndexConsistent
    <2>3. \A j \in DOMAIN byId' :
            byId'[j] \in DOMAIN sessions' /\ sessions'[byId'[j]].sid = j
      BY <1>1, <2>1, EvictionKeepsIndex DEF IInv, IndexConsistent
    <2> QED
      BY <2>2, <2>3 DEF IndexConsistent
  <1>4. TokensReachTheirSession'
    BY <1>1 DEF IInv, TokensReachTheirSession
  <1>5. OwnIds'
    BY <1>1 DEF IInv, OwnIds, FirstMessage
  <1>6. \A r \in DOMAIN turns' : TurnFresh(r)'
    <2> SUFFICES ASSUME NEW r \in DOMAIN turns'
                 PROVE  TurnFresh(r)'
      OBVIOUS
    <2>1. CASE r = s
      BY <1>0, <1>1, <2>1, TimeAssumption DEF TurnFresh
    <2>2. CASE r # s
      <3>1. r \in DOMAIN turns /\ TurnFresh(r) /\ turns'[r] = turns[r]
        BY <2>2 DEF IInv
      <3>2. r \in DOMAIN sessions \ Expired
        BY <3>1, TurnNotExpired
      <3> QED
        BY <3>1, <3>2, <1>1 DEF TurnFresh
    <2> QED
      BY <2>1, <2>2
  <1>7. \A l \in links' : LinkCovered(l)'
    <2> SUFFICES ASSUME NEW l \in links
                 PROVE  LinkCovered(l)'
      OBVIOUS
    <2>1. ASSUME NEW r \in DOMAIN sessions \ Expired,
                 sessions[r].sid = l.sid, l.ts <= sessions[r].lastSeen + TurnTime
          PROVE  HasSession(l)'
      BY <1>1, <2>1 DEF HasSession
    <2> QED
      BY <2>1, EvictionCoversLinks DEF LinkCovered
  <1>8. \A c \in callbacks' : CallbackTimely(c)'
    BY DEF IInv, CallbackTimely
  <1>9. \A r \in DOMAIN sessions' : sessions'[r].lastSeen <= now'
    BY <1>0, <1>1 DEF IInv
  <1> QED
    BY <1>2, <1>3, <1>4, <1>5, <1>6, <1>7, <1>8, <1>9 DEF IInv

(* A link is signed within its turn, so at most TurnTime after the         *)
(* session was touched.                                                    *)
LEMMA SendLinkIInv ==
  ASSUME IInv, NEW s \in Senders, NEW p \in Platforms, SendLink(s, p)
  PROVE  IInv'
  <1> USE DEF SendLink
  <1> DEFINE new == [sid |-> turns[s].sid, platform |-> p, ts |-> now]
  <1>1. TurnFresh(s) /\ turns[s] \in Turn /\ now \in Nat
    BY DEF IInv, TypeOK
  <1>2. TypeOK'
    BY <1>1 DEF IInv, TypeOK, Link, Turn
  <1>3. IndexConsistent' /\ TokensReachTheirSession' /\ OwnIds'
    BY DEF IInv, IndexConsistent, TokensReachTheirSession, OwnIds
  <1>4. \A r \in DOMAIN turns' : TurnFresh(r)'
    BY DEF IInv, TurnFresh
  <1>5. \A l \in links' : LinkCovered(l)'
    <2>1. \A l \in links : LinkCovered(l)'
      BY DEF IInv, LinkCovered, HasSession
    <2>2. new.ts <= sessions[s].lastSeen + TurnTime
      <3>1. sessions[s].lastSeen \in Nat /\ turns[s].began \in Nat
        BY <1>1 DEF TurnFresh, IInv, TypeOK, Session, Turn
      <3> QED
        BY <1>1, <3>1, TimeAssumption DEF TurnFresh
    <2>3. HasSession(new)'
      BY <1>1, <2>2 DEF HasSession, TurnFresh
    <2> QED
      BY <2>1, <2>3 DEF LinkCovered
  <1>6. \A c \in callbacks' : CallbackTimely(c)'
    BY DEF IInv, CallbackTimely
  <1>7. \A r \in DOMAIN sessions' : sessions'[r].lastSeen <= now'
    BY DEF IInv
  <1> QED
    BY <1>2, <1>3, <1>4, <1>5, <1>6, <1>7 DEF IInv

(* The end of a turn touches neither sessions nor links.                   *)
LEMMA EndTurnIInv ==
  ASSUME IInv, NEW s \in Senders, EndTurn(s)
  PROVE  IInv'
  BY DEF EndTurn, IInv, TypeOK, IndexConsistent, TokensReachTheirSession, OwnIds,
         TurnFresh, LinkCovered, HasSession, CallbackTimely

(* A callback that verifies carries the session id of its link.            *)
LEMMA OAuthCallbackIInv ==
  ASSUME IInv, NEW l \in links, NEW p \in Platforms, NEW i \in SessionIds,
         OAuthCallback(l, p, i)
  PROVE  IInv'
  <1> USE DEF OAuthCallback, StateVerifies
  <1>1. now \in Nat /\ l \in Link /\ l.ts \in Nat
    BY DEF IInv, TypeOK, Link
  <1>2. TypeOK'
    BY <1>1 DEF IInv, TypeOK, Callback
  <1>3. IndexConsistent' /\ TokensReachTheirSession' /\ OwnIds'
    BY DEF IInv, IndexConsistent, TokensReachTheirSession, OwnIds
  <1>4. \A r \in DOMAIN turns' : TurnFresh(r)'
    BY DEF IInv, TurnFresh
  <1>5. \A k \in links' : LinkCovered(k)'
    BY DEF IInv, LinkCovered, HasSession
  <1>6. \A c \in callbacks' : CallbackTimely(c)'
    BY <1>1, TimeAssumption DEF IInv, CallbackTimely
  <1>7. \A r \in DOMAIN sessions' : sessions'[r].lastSeen <= now'
    BY DEF IInv
  <1> QED
    BY <1>2, <1>3, <1>4, <1>5, <1>6, <1>7 DEF IInv

(* Storing tokens changes no session's id and no time stamp, and reaches   *)
(* only the session that the link names.                                   *)
LEMMA StoreTokensIInv ==
  ASSUME IInv, NEW c \in callbacks, StoreTokens(c)
  PROVE  IInv'
  <1> USE DEF StoreTokens, SessionFound
  <1>1. c.sid = c.link.sid /\ c.link \in Link
    BY DEF IInv, TypeOK, CallbackTimely
  <1>2. /\ DOMAIN sessions' = DOMAIN sessions
        /\ \A r \in DOMAIN sessions :
             /\ sessions'[r].sid = sessions[r].sid
             /\ sessions'[r].lastSeen = sessions[r].lastSeen
             /\ sessions'[r] \in Session
             /\ \A t \in sessions'[r].tokens :
                  \/ t \in sessions[r].tokens
                  \/ c.sid \in DOMAIN byId /\ byId[c.sid] = r /\ t.sid = c.sid
    <2> SUFFICES ASSUME NEW r \in DOMAIN sessions
                 PROVE  /\ sessions'[r].sid = sessions[r].sid
                        /\ sessions'[r].lastSeen = sessions[r].lastSeen
                        /\ sessions'[r] \in Session
                        /\ \A t \in sessions'[r].tokens :
                             \/ t \in sessions[r].tokens
                             \/ c.sid \in DOMAIN byId /\ byId[c.sid] = r /\ t.sid = c.sid
      OBVIOUS
    <2>1. sessions[r] \in Session
      BY DEF IInv, TypeOK
    <2>2. CASE c.sid \in DOMAIN byId /\ byId[c.sid] = r
      <3>1. sessions'[r] = WithToken(sessions[r], c.link)
        BY <2>2
      <3> QED
        BY <1>1, <2>1, <2>2, <3>1 DEF WithToken, Session, Token, Link
    <2>3. CASE ~(c.sid \in DOMAIN byId /\ byId[c.sid] = r)
      BY <2>1, <2>3
    <2> QED
      BY <2>2, <2>3
  <1>3. TypeOK'
    BY <1>2 DEF IInv, TypeOK
  <1>4. IndexConsistent'
    BY <1>2 DEF IInv, IndexConsistent
  <1>5. TokensReachTheirSession'
    BY <1>2 DEF IInv, IndexConsistent, TokensReachTheirSession
  <1>6. OwnIds'
    BY <1>2 DEF IInv, OwnIds
  <1>7. \A r \in DOMAIN turns' : TurnFresh(r)'
    BY <1>2 DEF IInv, TurnFresh
  <1>8. \A l \in links' : LinkCovered(l)'
    BY <1>2 DEF IInv, LinkCovered, HasSession
  <1>9. \A d \in callbacks' : CallbackTimely(d)'
    BY DEF IInv, CallbackTimely
  <1>10. \A r \in DOMAIN sessions' : sessions'[r].lastSeen <= now'
    BY <1>2 DEF IInv
  <1> QED
    BY <1>3, <1>4, <1>5, <1>6, <1>7, <1>8, <1>9, <1>10 DEF IInv

(* A failed exchange stores nothing.                                       *)
LEMMA ExchangeFailsIInv ==
  ASSUME IInv, NEW c \in callbacks, ExchangeFails(c)
  PROVE  IInv'
  BY DEF ExchangeFails, IInv, TypeOK, IndexConsistent, TokensReachTheirSession,
         OwnIds, TurnFresh, LinkCovered, HasSession, CallbackTimely

(* Time passes no deadline of a turn or an exchange.                       *)
LEMMA TickIInv ==
  ASSUME IInv, Tick
  PROVE  IInv'
  <1> USE DEF Tick
  <1>1. now \in Nat /\ now' = now + 1
    BY DEF IInv, TypeOK
  <1>2. TypeOK'
    BY <1>1 DEF IInv, TypeOK
  <1>3. IndexConsistent' /\ TokensReachTheirSession' /\ OwnIds'
    BY DEF IInv, IndexConsistent, TokensReachTheirSession, OwnIds
  <1>4. \A r \in DOMAIN turns' : TurnFresh(r)'
    <2> SUFFICES ASSUME NEW r \in DOMAIN turns
                 PROVE  TurnFresh(r)'
      OBVIOUS
    <2>1. turns[r].began \in Nat /\ now < turns[r].began + TurnTime
      BY DEF IInv, TypeOK, Turn
    <2>2. now' <= turns[r].began + TurnTime
      BY <1>1, <2>1, TimeAssumption
    <2> QED
      BY <2>2 DEF IInv, TurnFresh
  <1>5. \A l \in links' : LinkCovered(l)'
    <2> SUFFICES ASSUME NEW l \in links
                 PROVE  LinkCovered(l)'
      OBVIOUS
    <2>1. l.ts \in Nat /\ LinkCovered(l)
      BY DEF IInv, TypeOK, Link
    <2>2. l.ts + StateTTL + ExchangeTime < now => l.ts + StateTTL + ExchangeTime < now'
      BY <1>1, <2>1, TimeAssumption
    <2> QED
      BY <2>1, <2>2 DEF LinkCovered, HasSession
  <1>6. \A c \in callbacks' : CallbackTimely(c)'
    <2> SUFFICES ASSUME NEW c \in callbacks
                 PROVE  CallbackTimely(c)'
      OBVIOUS
    <2>1. c.began \in Nat /\ now < c.began + ExchangeTime
      BY DEF IInv, TypeOK, Callback
    <2>2. now' <= c.began + ExchangeTime
      BY <1>1, <2>1, TimeAssumption
    <2> QED
      BY <2>2 DEF IInv, CallbackTimely
  <1>7. \A r \in DOMAIN sessions' : sessions'[r].lastSeen <= now'
    BY <1>1 DEF IInv, TypeOK, Session
  <1> QED
    BY <1>2, <1>3, <1>4, <1>5, <1>6, <1>7 DEF IInv

(* After a restart every link is of a session that was lost or is too old. *)
LEMMA RestartIInv ==
  ASSUME IInv, Restart
  PROVE  IInv'
  <1> USE DEF Restart
  <1>1. DOMAIN sessions' = {} /\ DOMAIN byId' = {} /\ DOMAIN turns' = {}
    OBVIOUS
  <1>2. TypeOK'
    BY <1>1 DEF IInv, TypeOK
  <1>3. IndexConsistent' /\ TokensReachTheirSession'
    BY <1>1 DEF IndexConsistent, TokensReachTheirSession
  <1>4. OwnIds'
    BY <1>1 DEF OwnIds
  <1>5. \A l \in links' : LinkCovered(l)'
    BY DEF IInv, LinkCovered, HasSession, IndexConsistent
  <1> QED
    BY <1>1, <1>2, <1>3, <1>4, <1>5 DEF IInv

-----------------------------------------------------------------------------

(* The invariant is inductive.                                             *)
LEMMA NextIInv == IInv /\ [Next]_vars => IInv'
  <1> SUFFICES ASSUME IInv, [Next]_vars
               PROVE  IInv'
    OBVIOUS
  <1>1. CASE \E s \in Senders : ReturningMessage(s)
    BY <1>1, ReturningMessageIInv
  <1>2. CASE \E s \in Senders, i \in SessionIds : FirstMessage(s, i)
    BY <1>2, FirstMessageIInv
  <1>3. CASE \E s \in Senders, p \in Platforms : SendLink(s, p)
    BY <1>3, SendLinkIInv
  <1>4. CASE \E s \in Senders : EndTurn(s)
    BY <1>4, EndTurnIInv
  <1>5. CASE \E l \in links, p \in Platforms, i \in SessionIds : OAuthCallback(l, p, i)
    BY <1>5, OAuthCallbackIInv
  <1>6. CASE \E c \in callbacks : StoreTokens(c)
    BY <1>6, StoreTokensIInv
  <1>7. CASE \E c \in callbacks : ExchangeFails(c)
    BY <1>7, ExchangeFailsIInv
  <1>8. CASE Tick
    BY <1>8, TickIInv
  <1>9. CASE Restart
    BY <1>9, RestartIInv
  <1>10. CASE UNCHANGED vars
    BY <1>10 DEF vars, IInv, TypeOK, IndexConsistent, TokensReachTheirSession,
                 OwnIds, TurnFresh, LinkCovered, HasSession, CallbackTimely
  <1> QED
    BY <1>1, <1>2, <1>3, <1>4, <1>5, <1>6, <1>7, <1>8, <1>9, <1>10 DEF Next

(* The inductive invariant of session.py, the signed links and the         *)
(* callback: the properties below and how they depend on the clock.        *)
THEOREM InductiveInvariant == Spec => []IInv
  BY InitIInv, NextIInv, PTL DEF Spec

(* The variables of session.py, onboarding.py and callback_server.py keep  *)
(* their types.                                                            *)
THEOREM TypeCorrect == Spec => []TypeOK
  <1>1. IInv => TypeOK
    BY DEF IInv
  <1> QED
    BY <1>1, InductiveInvariant, PTL

(* SessionStore's two dicts stay inverse to each other.                    *)
THEOREM IndexCorrect == Spec => []IndexConsistent
  <1>1. IInv => IndexConsistent
    BY DEF IInv
  <1> QED
    BY <1>1, InductiveInvariant, PTL

(* A token never lands in a session other than the one its link named.     *)
THEOREM TokensCorrect == Spec => []TokensReachTheirSession
  <1>1. IInv => TokensReachTheirSession
    BY DEF IInv
  <1> QED
    BY <1>1, InductiveInvariant, PTL

(* A suspended chat turn keeps its session.                                *)
THEOREM TurnCorrect == Spec => []TurnHoldsLiveSession
  <1>1. IInv => TurnHoldsLiveSession
    BY DEF IInv, TurnFresh, TurnHoldsLiveSession
  <1> QED
    BY <1>1, InductiveInvariant, PTL

(* If a turn, the life of a link and an exchange fit in the life of a      *)
(* session, a callback that verified finds its session, unless the process *)
(* restarted in between.                                                   *)
THEOREM CallbackCorrect == Spec => []VerifiedCallbackFindsSession
  <1>1. IInv => VerifiedCallbackFindsSession
    <2> SUFFICES ASSUME IInv, NEW c \in callbacks
                 PROVE  SessionFound(c.sid) \/ c.sid \in lost
      BY DEF VerifiedCallbackFindsSession
    <2>1. CallbackTimely(c) /\ LinkCovered(c.link)
      BY DEF IInv, CallbackTimely
    <2>2. ~(c.link.ts + StateTTL + ExchangeTime < now)
      <3>1. c.link.ts \in Nat /\ c.began \in Nat /\ now \in Nat
        BY DEF IInv, TypeOK, Callback, Link
      <3> QED
        BY <2>1, <3>1, TimeAssumption DEF CallbackTimely
    <2>3. CASE HasSession(c.link)
      BY <2>1, <2>3 DEF HasSession, CallbackTimely, SessionFound, IInv, IndexConsistent
    <2> QED
      BY <2>1, <2>2, <2>3 DEF LinkCovered, CallbackTimely
  <1> QED
    BY <1>1, InductiveInvariant, PTL

-----------------------------------------------------------------------------
(* The pool and readiness *)

(* Only who has asked with a database there is busy; the health check only *)
(* asks while start-up waits for it.                                       *)
ProbeInTime ==
    /\ \A c \in Callers : callers[c].at # "away" => database
    /\ callers[Probe].at # "away" => stage = "serving" /\ check = "none"

(* Who is making a pool has made none since _pool was last None: none at   *)
(* all before the close, and none that is late after it.                   *)
OneEach ==
    /\ pool = NoPool /\ ~AfterClose => DOMAIN pools = {}
    /\ \A p \in DOMAIN pools : made[p].late => AfterClose /\ pool # NoPool
    /\ \A c \in Creating, p \in DOMAIN pools : made[p].by = c => made[p].late # AfterClose
    /\ \A p \in DOMAIN pools : pools[p] = "closing" => stage = "closing"
    /\ \A p \in DOMAIN pools : pools[p] = "closed" => AfterClose

BInv == BootTypeOK /\ ReadyMeansChecked /\ PoolsBounded /\ ProbeInTime /\ OneEach

-----------------------------------------------------------------------------
(* Before start-up there is no pool and nobody asks for one.               *)
LEMMA InitBInv == BootInit => BInv
<1> SUFFICES ASSUME BootInit PROVE BInv
  OBVIOUS
<1>1. DOMAIN pools = {} /\ pools \in [DOMAIN pools -> {"open", "closing", "closed"}]
  BY DEF BootInit
<1>2. Creating = {} /\ Probe \in Callers
  BY DEF BootInit, Creating, Callers, Away
<1>3. BootTypeOK
  BY <1>1 DEF BootInit, BootTypeOK, Stages, Caller, Away
<1>4. ReadyMeansChecked /\ PoolsBounded /\ ProbeInTime /\ OneEach
  BY <1>1, <1>2 DEF BootInit, ReadyMeansChecked, PoolsBounded, ProbeInTime, OneEach, Away
<1> QED BY <1>3, <1>4 DEF BInv

(* Asking for the pool there is.                                           *)
LEMMA GetPoolBInv ==
  ASSUME BInv, NEW c \in Callers, GetPool(c)
  PROVE  BInv'
<1> USE BootAssumption
<1>1. Probe \in Callers
  BY DEF Callers
<1>2. BootTypeOK' /\ ReadyMeansChecked' /\ PoolsBounded'
  BY DEF BInv, BootTypeOK, ReadyMeansChecked, PoolsBounded, GetPool, Caller, Callers
<1>3. ProbeInTime'
  BY <1>1 DEF BInv, BootTypeOK, ProbeInTime, GetPool, MayCall, Caller, Callers, Away
<1>4. OneEach'
  BY DEF BInv, BootTypeOK, OneEach, AfterClose, GetPool, Creating, Caller, Callers, Away
<1> QED BY <1>2, <1>3, <1>4 DEF BInv

(* Who sets out to make a pool found _pool to be None.                     *)
LEMMA CreatePoolBInv ==
  ASSUME BInv, NEW c \in Callers, CreatePool(c)
  PROVE  BInv'
<1> USE BootAssumption
<1>1. Probe \in Callers
  BY DEF Callers
<1>2. BootTypeOK' /\ ReadyMeansChecked' /\ PoolsBounded'
  BY DEF BInv, BootTypeOK, ReadyMeansChecked, PoolsBounded, CreatePool, Caller, Callers
<1>3. ProbeInTime'
  BY <1>1 DEF BInv, BootTypeOK, ProbeInTime, CreatePool, MayCall, Caller, Callers, Away
<1>4. OneEach'
  BY DEF BInv, BootTypeOK, OneEach, AfterClose, CreatePool, Creating, Caller, Callers, Away
<1> QED BY <1>2, <1>3, <1>4 DEF BInv

(* The pool that was made becomes the pool; its maker had made none since  *)
(* _pool was last None.                                                    *)
LEMMA PoolCreatedBInv ==
  ASSUME BInv, NEW c \in Callers, PoolCreated(c)
  PROVE  BInv'
<1> USE BootAssumption
<1>1. Probe \in Callers
  BY DEF Callers
<1>2. PICK p \in Pools \ DOMAIN pools :
        /\ pools' = [x \in DOMAIN pools \cup {p} |-> IF x = p THEN "open" ELSE pools[x]]
        /\ pool' = p
        /\ callers' = [callers EXCEPT ![c] = [at |-> "querying", has |-> p]]
        /\ made' = [x \in DOMAIN pools \cup {p} |->
                      IF x = p THEN [by |-> c, late |-> AfterClose] ELSE made[x]]
  BY DEF PoolCreated
<1>3. callers[c].at = "creating" /\ UNCHANGED <<database, stage, ready, check>>
      /\ UNCHANGED AfterClose /\ AfterClose \in BOOLEAN
  BY DEF PoolCreated, AfterClose
<1>4. /\ DOMAIN pools' = DOMAIN pools \cup {p} /\ p \notin DOMAIN pools /\ p # NoPool
      /\ pools'[p] = "open" /\ made'[p].by = c /\ made'[p].late = AfterClose
      /\ \A x \in DOMAIN pools : pools'[x] = pools[x] /\ made'[x] = made[x]
  BY <1>2
<1>5. \A d \in Callers : callers'[d] = IF d = c THEN [at |-> "querying", has |-> p] ELSE callers[d]
  BY <1>2 DEF BInv, BootTypeOK
<1>6. BootTypeOK'
  <2>1. DOMAIN pools' \subseteq Pools /\ pools' \in [DOMAIN pools' -> {"open", "closing", "closed"}]
    BY <1>2, <1>4 DEF BInv, BootTypeOK
  <2>2. made' \in [DOMAIN pools' -> Maker]
    BY <1>2, <1>3, <1>4 DEF BInv, BootTypeOK, Maker
  <2>3. callers' \in [Callers -> Caller]
    BY <1>2 DEF BInv, BootTypeOK, Caller
  <2>4. \A d \in Callers : callers'[d].has \in DOMAIN pools' \cup {NoPool}
    BY <1>4, <1>5 DEF BInv, BootTypeOK
  <2> QED BY <1>2, <1>3, <1>4, <2>1, <2>2, <2>3, <2>4 DEF BInv, BootTypeOK
<1>7. ReadyMeansChecked'
  BY <1>3 DEF BInv, ReadyMeansChecked
<1>8. ProbeInTime'
  BY <1>1, <1>3, <1>5 DEF BInv, ProbeInTime
<1>9. c \in Creating /\ \A x \in DOMAIN pools : made[x].by = c => made[x].late # AfterClose
  BY <1>3 DEF BInv, OneEach, Creating
<1>10. PoolsBounded'
  <2>1. \A x \in DOMAIN pools : pools[x] = "closed" =>
          x # pool /\ \A d \in Callers : callers[d].has # x
    BY DEF BInv, PoolsBounded
  <2>2. \A x, y \in DOMAIN pools : x # y /\ made[x].by = made[y].by => made[x].late # made[y].late
    BY DEF BInv, PoolsBounded
  <2>3. \A x \in DOMAIN pools' : pools'[x] = "closed" =>
          x # pool' /\ \A d \in Callers : callers'[d].has # x
    BY <1>2, <1>4, <1>5, <2>1
  <2>4. \A x, y \in DOMAIN pools' :
          x # y /\ made'[x].by = made'[y].by => made'[x].late # made'[y].late
    BY <1>4, <1>9, <2>2
  <2> QED BY <2>3, <2>4 DEF PoolsBounded
<1>11. OneEach'
  <2>1. \A d \in Callers : d \in Creating' => d \in Creating /\ d # c
    BY <1>5 DEF Creating
  <2>2. Creating' \subseteq Callers
    BY DEF Creating
  <2>3. \A d \in Creating', x \in DOMAIN pools' : made'[x].by = d => made'[x].late # AfterClose
    BY <1>4, <2>1, <2>2 DEF BInv, OneEach
  <2> QED BY <1>2, <1>3, <1>4, <2>3 DEF BInv, OneEach
<1> QED BY <1>6, <1>7, <1>8, <1>10, <1>11 DEF BInv

(* A call that returns lets go of its pool; the health check's is noted.   *)
LEMMA CallReturnsBInv ==
  ASSUME BInv, NEW c \in Callers, QueryDone(c) \/ CallFails(c)
  PROVE  BInv'
<1> USE BootAssumption
<1>1. Probe \in Callers
  BY DEF Callers
<1>2. BootTypeOK' /\ PoolsBounded'
  BY DEF BInv, BootTypeOK, PoolsBounded, QueryDone, CallFails, Checked, Caller, Callers, Away
<1>3. ReadyMeansChecked'
  BY <1>1 DEF BInv, BootTypeOK, ReadyMeansChecked, ProbeInTime, QueryDone, CallFails, Checked
<1>4. ProbeInTime'
  BY <1>1 DEF BInv, BootTypeOK, ProbeInTime, QueryDone, CallFails, Checked, Caller, Callers, Away
<1>5. OneEach'
  BY DEF BInv, BootTypeOK, OneEach, AfterClose, QueryDone, CallFails, Checked, Creating, Caller, Callers, Away
<1> QED BY <1>2, <1>3, <1>4, <1>5 DEF BInv

(* Start-up ends ready only with the check passed, or with no database.    *)
LEMMA StartupBInv ==
  ASSUME BInv, StartHealthServer \/ HealthServerFails \/ StartupEnds
  PROVE  BInv'
<1> USE BootAssumption
<1>1. Probe \in Callers
  BY DEF Callers
<1>2. /\ stage \in {"down", "serving"} /\ stage' \in {"serving", "up"}
      /\ UNCHANGED <<database, pool, pools, callers, check, made>> /\ ready' \in BOOLEAN
  <2>1. CASE StartHealthServer
    BY <2>1 DEF BInv, BootTypeOK, StartHealthServer, OnlyStage
  <2>2. CASE HealthServerFails
    BY <2>2 DEF BInv, BootTypeOK, HealthServerFails, OnlyStage
  <2>3. CASE StartupEnds
    <3>1. (check # "failed") \in BOOLEAN
      OBVIOUS
    <3> QED BY <2>3, <3>1 DEF StartupEnds, OnlyStage
  <2> QED BY <2>1, <2>2, <2>3
<1>a. Creating' = Creating
  BY <1>2 DEF Creating
<1>b. BootTypeOK'
  BY <1>2 DEF BInv, BootTypeOK, Stages
<1>c. PoolsBounded' /\ OneEach'
  BY <1>2, <1>a DEF BInv, PoolsBounded, OneEach, AfterClose
<1>3. ReadyMeansChecked'
  BY DEF BInv, BootTypeOK, ReadyMeansChecked, StartHealthServer, HealthServerFails, StartupEnds,
         OnlyStage
<1>4. ProbeInTime'
  BY <1>1 DEF BInv, BootTypeOK, ProbeInTime, StartHealthServer, HealthServerFails, StartupEnds,
              OnlyStage
<1> QED BY <1>b, <1>c, <1>3, <1>4 DEF BInv

(* The shutdown unsets readiness first and closes the pool it finds.       *)
LEMMA ShutdownBInv ==
  ASSUME BInv, Shutdown \/ PoolClosed \/ StopHealthServer
  PROVE  BInv'
<1> USE BootAssumption
<1>1. Probe \in Callers
  BY DEF Callers
<1>2. BootTypeOK'
  BY DEF BInv, BootTypeOK, Shutdown, PoolClosed, StopHealthServer, OnlyStage, Stages, ClosingPool
<1>3. ReadyMeansChecked' /\ ProbeInTime'
  BY <1>1 DEF BInv, BootTypeOK, ReadyMeansChecked, ProbeInTime, Shutdown, PoolClosed,
              StopHealthServer, OnlyStage
<1>4. PoolsBounded'
  <2>1. UNCHANGED <<made, callers>> /\ DOMAIN pools' = DOMAIN pools
    BY DEF BInv, BootTypeOK, Shutdown, PoolClosed, StopHealthServer, OnlyStage
  <2>2. CASE PoolClosed
    <3>1. \A p \in DOMAIN pools : p # pool'
      BY <2>2 DEF BInv, BootTypeOK, PoolClosed
    <3>2. \A p \in DOMAIN pools : pools'[p] = "closed" =>
            \A c \in Callers : callers[c].has # p
      BY <2>2 DEF BInv, PoolsBounded, PoolClosed, ClosingPool
    <3> QED BY <2>1, <3>1, <3>2 DEF BInv, PoolsBounded
  <2>3. CASE Shutdown \/ StopHealthServer
    <3>1. pool' = pool /\ \A p \in DOMAIN pools : pools'[p] = "closed" => pools[p] = "closed"
      BY <2>3 DEF BInv, BootTypeOK, Shutdown, StopHealthServer, OnlyStage
    <3> QED BY <2>1, <3>1 DEF BInv, PoolsBounded
  <2> QED BY <2>2, <2>3
<1>5. OneEach'
  <2>1. Creating' = Creating /\ made' = made /\ DOMAIN pools' = DOMAIN pools
    BY DEF BInv, BootTypeOK, Shutdown, PoolClosed, StopHealthServer, OnlyStage, Creating
  <2>2. CASE Shutdown
    <3>1. stage = "up" /\ stage' \in {"closing", "stopping"} /\ pool' = pool
          /\ (pool = NoPool => stage' = "stopping" /\ pools' = pools)
          /\ (pool # NoPool => stage' = "closing" /\ pools' = [pools EXCEPT ![pool] = "closing"])
      BY <2>2 DEF Shutdown
    <3>2. CASE pool = NoPool
      <4>1. DOMAIN pools = {}
        BY <3>1, <3>2 DEF BInv, OneEach, AfterClose
      <4> QED BY <2>1, <4>1 DEF OneEach
    <3>3. CASE pool # NoPool
      <4>0. ~AfterClose /\ \A p \in DOMAIN pools : made[p].late \in BOOLEAN
        BY <3>1 DEF BInv, BootTypeOK, Maker, AfterClose
      <4>1. \A p \in DOMAIN pools : ~made[p].late /\ pools[p] # "closed"
        BY <4>0 DEF BInv, OneEach
      <4>a. \A c \in Creating, p \in DOMAIN pools : made[p].by # c
        <5>1. \A c \in Creating, p \in DOMAIN pools :
                made[p].by = c => made[p].late # (stage \in {"stopping", "stopped"})
          BY DEF BInv, OneEach, AfterClose
        <5> QED BY <3>1, <4>0, <4>1, <5>1
      <4>2. \A p \in DOMAIN pools : pools'[p] # "closed"
        BY <3>1, <3>3, <4>1 DEF BInv, BootTypeOK
      <4> QED BY <2>1, <3>1, <3>3, <4>1, <4>a, <4>2 DEF OneEach, AfterClose
    <3> QED BY <3>2, <3>3
  <2>3. CASE PoolClosed
    <3>1. stage = "closing" /\ stage' = "stopping" /\ pool' = NoPool
          /\ \A p \in DOMAIN pools : pools'[p] # "closing"
      BY <2>3 DEF BInv, BootTypeOK, PoolClosed, ClosingPool
    <3>2. \A p \in DOMAIN pools : ~made[p].late /\ made[p].late \in BOOLEAN
      BY <3>1 DEF BInv, BootTypeOK, OneEach, AfterClose, Maker
    <3> QED BY <2>1, <3>1, <3>2 DEF OneEach, AfterClose
  <2>4. CASE StopHealthServer
    <3>1. stage = "stopping" /\ stage' = "stopped" /\ pool' = pool /\ pools' = pools
      BY <2>4 DEF StopHealthServer, OnlyStage
    <3> QED BY <2>1, <3>1 DEF BInv, OneEach, AfterClose
  <2> QED BY <2>2, <2>3, <2>4
<1> QED BY <1>2, <1>3, <1>4, <1>5 DEF BInv

(* So every step keeps the invariant.                                      *)
LEMMA NextBInv == BInv /\ [BootNext]_bootVars => BInv'
<1> SUFFICES ASSUME BInv, [BootNext]_bootVars PROVE BInv'
  OBVIOUS
<1>1. CASE \E c \in Callers : GetPool(c) \/ CreatePool(c) \/ CallEnds(c)
  BY <1>1, GetPoolBInv, CreatePoolBInv, PoolCreatedBInv, CallReturnsBInv DEF CallEnds
<1>2. CASE Proceeds \/ Shutdown
  BY <1>2, StartupBInv, ShutdownBInv DEF Proceeds
<1>3. CASE UNCHANGED bootVars
  BY <1>3 DEF bootVars, BInv, BootTypeOK, ReadyMeansChecked, PoolsBounded, ProbeInTime, OneEach, AfterClose,
                Creating, Maker
<1> QED BY <1>1, <1>2, <1>3 DEF BootNext

(* The invariant of the process's life.                                    *)
THEOREM BootInvariant == BootSpec => []BInv
BY InitBInv, NextBInv, PTL DEF BootSpec

(* get_pool hands out only pools that have been made.                      *)
THEOREM BootTypeCorrect == BootSpec => []BootTypeOK
<1>1. BInv => BootTypeOK
  BY DEF BInv
<1> QED BY <1>1, BootInvariant, PTL

(* The process is ready only after the health check of this start, and     *)
(* not any more once it shuts down.                                        *)
THEOREM ReadinessCorrect == BootSpec => []ReadyMeansChecked
<1>1. BInv => ReadyMeansChecked
  BY DEF BInv
<1> QED BY <1>1, BootInvariant, PTL

(* However creations overlap with each other and with the shutdown, no     *)
(* caller makes more than one pool before the close or more than one after *)
(* it, and what close_pool has closed nobody uses or is handed.            *)
THEOREM PoolsCorrect == BootSpec => []PoolsBounded
<1>1. BInv => PoolsBounded
  BY DEF BInv
<1> QED BY <1>1, BootInvariant, PTL
=============================================================================
