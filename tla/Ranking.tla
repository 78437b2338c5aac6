------------------------------- MODULE Ranking ------------------------------
(***************************************************************************)
(* The arithmetic of matching: the boosts of rerank_candidates by intent,  *)
(* the filter and boost of apply_refinement, and the list both leave.      *)
(* Pure definitions; scores are in hundredths.                             *)
(***************************************************************************)
EXTENDS Profiles

CONSTANTS
    TopK,      \* top_k of get_matches
    FinalK,    \* final_k of get_matches
    NoYears,   \* min_years_experience is None
    NoIntent

Intents == {"co-founder", "contributor", "mentor", "friend"}

ASSUME RankingAssumption == TopK \in Nat /\ FinalK \in Nat /\ NoIntent \notin Intents

(* RefinementQuery.                                                        *)
Query == [intent : Intents \cup {NoIntent}, required : SUBSET Terms, excluded : SUBSET Terms,
          domains : SUBSET Terms, roles : SUBSET Terms, years : Nat \cup {NoYears}]

HasFilters(f) ==
    f.required \cup f.excluded \cup f.domains \cup f.roles # {} \/ f.years # NoYears

UpTo(S, n) == Least(Cardinality(S), n)

CofounderBoost(me, p) ==
    (IF me.axis # p.axis /\ "unknown" \notin {me.axis, p.axis} THEN 20 ELSE 0)
        + 5 * UpTo(me.skills \cap p.skills, 3)

ContributorBoost(me, p) ==
    10 * UpTo(me.languages \cap p.languages, 3)
        + 5 * UpTo(me.skills \cap p.skills, 3)
        + (IF p.active THEN 5 ELSE 0)

MentorBoost(me, p) ==
    LET delta == p.years - me.years IN
    (IF delta >= 5 THEN Least(25, 4 * delta) ELSE 0) + 5 * UpTo(me.skills \cap p.skills, 1)

FriendBoost(me, p) == 3 * UpTo(me.skills \cap p.skills, 5)

Boost(intent, me, p) ==
    CASE intent = "co-founder"  -> CofounderBoost(me, p)
      [] intent = "contributor" -> ContributorBoost(me, p)
      [] intent = "mentor"      -> MentorBoost(me, p)
      [] OTHER                  -> FriendBoost(me, p)

(* apply_refinement's loop: an excluded skill drops a candidate; of the    *)
(* filters that are present one is enough; then the years.  The mutant     *)
(* lets a required skill save an excluded one.                             *)
Passes_RequiredWins(f, p) ==
    LET hits == \/ p.skills \cap f.required # {}
                \/ (p.text \cup p.skills) \cap f.domains # {}
                \/ p.text \cap f.roles # {}
    IN  /\ p.skills \cap f.excluded = {} \/ hits
        /\ f.required \cup f.domains \cup f.roles = {} \/ hits
        /\ f.years = NoYears \/ p.years >= f.years
Passes(f, p) ==
    LET hits == \/ p.skills \cap f.required # {}
                \/ (p.text \cup p.skills) \cap f.domains # {}
                \/ p.text \cap f.roles # {}
    IN  /\ p.skills \cap f.excluded = {}
        /\ f.required \cup f.domains \cup f.roles = {} \/ hits
        /\ f.years = NoYears \/ p.years >= f.years

RerankScore(base, intent, me, p) == base + Boost(intent, me, p)

FinalScore(base, intent, f, me, p) ==
    RerankScore(base, intent, me, p) + 5 * Cardinality(p.skills \cap f.required)

(* What similarity_search may return of the others: at most top_k.  It     *)
(* orders by distance, but the index is ivfflat, which looks into a part   *)
(* of its lists and only then leaves out other events; so a near one may   *)
(* be missing, also where top_k is not reached.                            *)
Hits(others) == {near \in SUBSET others : Cardinality(near) <= TopK}

(* A _Candidate: who it is, and its score after each of the three sorts.   *)
Candidate(c, base, intent, f, me, p) ==
    [who |-> c, similarity |-> base,
     rerank |-> RerankScore(base, intent, me, p), final |-> FinalScore(base, intent, f, me, p)]

(* The sorts are stable, so an earlier one decides a tie of a later one.   *)
MayPrecede(x, y) ==
    \/ x.final > y.final
    \/ /\ x.final = y.final
       /\ \/ x.rerank > y.rerank
          \/ x.rerank = y.rerank /\ x.similarity >= y.similarity

(* The orders the sorts may leave a set of candidates in.                  *)
Sorted(S) ==
    {s \in [1..Cardinality(S) -> S] :
       \A i, j \in DOMAIN s : i < j => s[i] # s[j] /\ MayPrecede(s[i], s[j])}

Top(s) == SubSeq(s, 1, Least(FinalK, Len(s)))

(* The lists get_matches may return of the candidates C, ties being broken *)
(* by the database.  The mutant cuts before it filters.                    *)
Lists_CutFirst(C, f, profiles) ==
    {SelectSeq(Top(s), LAMBDA x : HasFilters(f) => Passes(f, profiles[x.who])) : s \in Sorted(C)}
Lists(C, f, profiles) ==
    {Top(s) : s \in Sorted({x \in C : HasFilters(f) => Passes(f, profiles[x.who])})}
=============================================================================
