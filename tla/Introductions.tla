---------------------------- MODULE Introductions ---------------------------
(***************************************************************************)
(* What matching promises a room, with no pipeline in it: somebody asks,   *)
(* and is introduced to a few others who were all in the asker's event at  *)
(* one moment before the answer and who each could be found there, vector  *)
(* and all, at some moment since the question.  People come and go all the *)
(* while.  This is a specification of handlers/matching.py, which Matching *)
(* is shown to implement.                                                  *)
(***************************************************************************)
EXTENDS FiniteSets, Naturals

CONSTANTS Events, People, Askers, K

VARIABLES
    room,    \* who is in an event: person -> event
    findable,\* those of them the search can find
    asked    \* asker -> nothing, an open question or an answer

vars == <<room, findable, asked>>

NotAsking == [state |-> "none"]

Open(e, p, seen)   == [state |-> "open", event |-> e, by |-> p, seen |-> seen]
Picked(e, p, some) == [state |-> "picked", event |-> e, by |-> p, to |-> some]

InEvent(e) == {p \in findable : room[p] = e}

Init ==
    /\ room = [p \in {} |-> {}]
    /\ findable = {}
    /\ asked = [q \in Askers |-> NotAsking]

(* The room changes in any way; whoever has a question open sees it.       *)
Mingle ==
    /\ DOMAIN room' \subseteq People
    /\ room' \in [DOMAIN room' -> Events]
    /\ \A p \in DOMAIN room \cap DOMAIN room' : room'[p] = room[p]
    /\ findable' \subseteq DOMAIN room'
    /\ asked' = [q \in Askers |->
                   IF asked[q].state # "open" THEN asked[q]
                   ELSE [asked[q] EXCEPT !.seen =
                           @ \cup {p \in findable' : room'[p] = asked[q].event}]]

Ask(q) ==
    /\ asked[q] = NotAsking
    /\ \E e \in Events, p \in People :
         asked' = [asked EXCEPT ![q] = Open(e, p, InEvent(e))]
    /\ UNCHANGED <<room, findable>>

(* Never oneself, never from another event, never somebody who has left.   *)
Pick(q) ==
    /\ asked[q].state = "open"
    /\ \E some \in SUBSET (asked[q].seen \cap DOMAIN room) :
         /\ asked[q].by \notin some
         /\ Cardinality(some) <= K
         /\ asked' = [asked EXCEPT ![q] = Picked(asked[q].event, asked[q].by, some)]
    /\ UNCHANGED <<room, findable>>

(* The question is answered, or comes to nothing.                          *)
Conclude(q) ==
    /\ asked' = [asked EXCEPT ![q] = NotAsking]
    /\ UNCHANGED <<room, findable>>

Next ==
    \/ Mingle
    \/ \E q \in Askers : Ask(q) \/ Pick(q) \/ Conclude(q)

Spec == Init /\ [][Next]_vars
=============================================================================
