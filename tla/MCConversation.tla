---------------------------- MODULE MCConversation --------------------------
(* One user, three others: an engineer who is on GitHub, a founder of long *)
(* standing, and a designer.                                               *)
EXTENDS Conversation, TLC

CONSTANTS t1, t2, me, p1, p2, p3

MCTurns  == {t1, t2}
MCPeople == {p1, p2, p3}

MCTerms       == {"rust", "java", "javascript", "crypto", "designer"}
MCSkillVocab  == {"rust", "java", "javascript", "crypto"}
MCDomainVocab == {"crypto"}
MCRoleVocab   == {"designer"}

MCWithin(x, y) == x = "java" /\ y = "javascript"

Says(hint, names, terms, negated, years) ==
    [hint |-> hint, names |-> names, terms |-> terms, negated |-> negated, years |-> years]

(* "a mentor", "only rust designers, no javascript", "any founder *)
(* with 10 years, not crypto".                                             *)
MCMessages ==
    {Says(FALSE, {"mentor"}, {}, {}, NoYears),
     Says(TRUE, {}, {"rust", "designer", "javascript"}, {"javascript"}, NoYears),
     Says(TRUE, {"co-founder"}, {"crypto"}, {"crypto"}, 10)}

MCModelQueries ==
    {[NoQuery EXCEPT !.intent = "contributor", !.required = {"rust"},
                     !.excluded = {"javascript"}, !.domains = {"crypto"}]}

Job(start, ended, axes, words) ==
    [start |-> start, ended |-> ended, axes |-> axes, words |-> words]

Holds(oidc, headline, positions, skills, github) ==
    [oidc |-> oidc, legacy |-> ~oidc, headline |-> headline, positions |-> positions,
     skills |-> skills, github |-> github]

Repo(language, topics) == [language |-> language, topics |-> topics]

MCAccounts ==
    (me :> Holds(FALSE, {}, <<>>, {"rust", "crypto"}, NoGithub)
     @@ p1 :> Holds(TRUE, {}, <<>>, {},
                [repos |-> <<Repo("rust", {"javascript"}), Repo("java", {}), Repo(NoLanguage, {}),
                             Repo("rust", {"javascript"})>>,
                 events |-> 0])
     @@ p2 :> Holds(FALSE, {"crypto"},
                <<Job(2005, TRUE, {}, {}),
                  Job(NoDate, FALSE, {"technical", "business"}, {"designer"})>>,
                {}, NoGithub)
     @@ p3 :> Holds(FALSE, {"designer", "crypto"}, <<>>, {}, NoGithub))

MCSimilarity == p1 :> 50 @@ p2 :> 40 @@ p3 :> 50

Symmetry == Permutations(MCTurns)

=============================================================================
