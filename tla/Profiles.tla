------------------------------ MODULE Profiles ------------------------------
(***************************************************************************)
(* What handlers/profile_fetch.py makes of the two accounts of a person    *)
(* and models/profile.py of the result: pure definitions, no state.  Each  *)
(* optional call may fail and leaves a thinner profile, so a fetch has a   *)
(* set of outcomes.  A text is the set of vocabulary terms in it.          *)
(***************************************************************************)
EXTENDS Integers, Sequences, FiniteSets

CONSTANTS
    Terms,          \* the words skills, languages, topics and texts consist of
    MaxLanguages,   \* most_common(8)
    ActiveAbove,    \* more events than this make an active contributor
    ThisYear,
    NoDate, NoGithub, NoRole, NoLanguage

ASSUME ProfilesAssumption == IsFiniteSet(Terms) /\ ThisYear \in Nat

Smallest(S) == CHOOSE x \in S : \A y \in S : x <= y
Least(x, y) == IF x < y THEN x ELSE y
Greatest(x, y) == IF x > y THEN x ELSE y

(* LinkedInPosition: its start year or NoDate, whether it has an end, and  *)
(* the keywords of matching.py and vocabulary terms in title and company.  *)
Position == [start : Nat \cup {NoDate}, ended : BOOLEAN,
             axes : SUBSET {"technical", "business"}, words : SUBSET Terms]

(* What LinkedIn and GitHub hold of a person, and which of LinkedIn's two  *)
(* interfaces answers.                                                     *)
Account ==
    [oidc : BOOLEAN, legacy : BOOLEAN, headline : SUBSET Terms, positions : Seq(Position),
     skills : SUBSET Terms,
     github : {NoGithub} \cup
      [repos : Seq([language : Terms \cup {NoLanguage}, topics : SUBSET Terms]), events : Nat]]

LinkedInProfile(headline, positions, skills) ==
    [headline |-> headline, positions |-> positions, skills |-> skills]

(* /v2/userinfo knows id and name, and nothing else.                       *)
OidcProfile == LinkedInProfile({}, <<>>, {})

(* /v2/me with the enrichment calls that were answered; one that was not   *)
(* leaves its empty list.                                                  *)
LegacyProfile(account, answered) ==
    LinkedInProfile(
        account.headline,
        IF "positions" \in answered THEN account.positions ELSE <<>>,
        IF "skills" \in answered THEN account.skills ELSE {})

(* fetch_linkedin_profile: userinfo first, the legacy calls if it gives    *)
(* nothing.  With neither the fetch raises and there is no outcome.        *)
LinkedInOutcomes(account) ==
    (IF account.oidc THEN {OidcProfile} ELSE {})
        \cup (IF account.legacy
              THEN {LegacyProfile(account, A) : A \in SUBSET {"positions", "skills"}} ELSE {})

Uses(repos, lang) == Cardinality({i \in DOMAIN repos : repos[i].language = lang})

(* most_common: any choice among equally common ones; a repository without *)
(* a language counts for none.                                             *)
CommonLanguages(repos) ==
    LET langs == {repos[i].language : i \in DOMAIN repos} \cap Terms IN
    {L \in SUBSET langs :
        /\ Cardinality(L) = Least(MaxLanguages, Cardinality(langs))
        /\ \A x \in L, y \in langs \ L : Uses(repos, x) >= Uses(repos, y)}

(* fetch_github_profile: repositories and events each count as none when   *)
(* their call was refused.                                                 *)
GitHubOutcomes(account) ==
    UNION {{[languages |-> L, topics |-> UNION {repos[i].topics : i \in DOMAIN repos},
             events |-> n] : L \in CommonLanguages(repos)} :
             repos \in {account.repos, <<>>}, n \in {account.events, 0}}

(* merge_profiles, for a person who may have left GitHub out.              *)
Merged(account) ==
    {[linkedin |-> li, github |-> gh] :
       li \in LinkedInOutcomes(account),
       gh \in {NoGithub} \cup
              (IF account.github = NoGithub THEN {} ELSE GitHubOutcomes(account.github))}

Languages(p) == IF p.github = NoGithub THEN {} ELSE p.github.languages

(* ProfileData.skills: LinkedIn skills, GitHub languages and topics.       *)
Skills(p) ==
    p.linkedin.skills \cup Languages(p)
        \cup (IF p.github = NoGithub THEN {} ELSE p.github.topics)

IsActive(p) == p.github # NoGithub /\ p.github.events > ActiveAbove

(* LinkedInProfile.current_position: the first without an end.             *)
CurrentRole(p) ==
    LET open == {i \in DOMAIN p.linkedin.positions : ~p.linkedin.positions[i].ended} IN
    IF open = {} THEN NoRole ELSE p.linkedin.positions[Smallest(open)]

(* The text a refinement looks into: headline and current role.            *)
Text(p) ==
    p.linkedin.headline \cup (IF CurrentRole(p) = NoRole THEN {} ELSE CurrentRole(p).words)

(* _classify_axis.                                                         *)
Axis(p) ==
    IF CurrentRole(p) = NoRole THEN "unknown"
    ELSE CASE CurrentRole(p).axes = {} -> "other"
           [] CurrentRole(p).axes = {"technical"} -> "technical"
           [] CurrentRole(p).axes = {"business"} -> "business"
           [] OTHER -> "hybrid"

(* _estimate_years_experience: since the earliest start, never negative.   *)
Years(p) ==
    LET starts == {p.linkedin.positions[i].start : i \in DOMAIN p.linkedin.positions} \ {NoDate}
    IN  IF starts = {} THEN 0 ELSE Greatest(0, ThisYear - Smallest(starts))

(* What matching reads of a stored profile.                                *)
Facts(p) ==
    [skills |-> Skills(p), languages |-> Languages(p), active |-> IsActive(p), text |-> Text(p),
     axis |-> Axis(p), years |-> Years(p)]
=============================================================================
