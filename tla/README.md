# A TLA+ model of meetup-agent

This directory models the meetup networking agent of this repository in TLA+,
model-checks it with TLC and proves theorems about it with TLAPS. The reference
is the Python and SQL under `src/`: `meetup-networking-agent/`,
`agents_shared/` and `agents-db/migrations/`. `PROJECT.json` maps every
definition to the lines it stands for. In comments, `agent.py`, `session.py`
and `README.md` without a path are files of `src/meetup-networking-agent/`.

## 1. The system

People at a meetup scan a QR code, which opens a chat with the agent. The agent
takes them through LinkedIn and GitHub authorisation, stores a profile and its
embedding, and then finds people in the same event for them. It is one Python
process with one event loop: chat messages, HTTP callbacks and typed protocol
requests are coroutines that interleave at every `await`, over in-memory
sessions and a Postgres database that other processes (a daily purge, the
organisers' scripts) write as well.

| Component | State it keeps | Operations | Talks to |
|---|---|---|---|
| Session store (`session.py`) | `_sessions`, `_by_session_id` | `get_or_create`, `get_by_session_id`, `evict_expired` | called by every chat turn and every OAuth callback |
| Signed links (`handlers/onboarding.py`) | none: state travels in the URL, signed | sign, verify, exchange a code | chat turns send them, the callback gets them back |
| OAuth callback (`callback_server.py`) | none of its own | `/oauth/callback/*`: limit, verify, exchange, store tokens | rate limiter, session store |
| Chat turn (`agent.py`, `handlers/embedding.py`, `handlers/profile_fetch.py`) | the locals of a suspended coroutine | greet, load the attendee, ask for what is missing, check in, match | session store, tables, LinkedIn, GitHub, the embedding service |
| Tables (`agents-db/migrations`, `db/queries.py`, `agents_shared/vector.py`) | events, attendees, embeddings, connections | upserts, insert, cascade deletes | chat turns, typed protocol, scripts |
| Purge (`20260522_02_meetup_retention.sql`) | time columns | `meetup_purge_expired()` | deletes from the tables; its schedule is outside the repository |
| Rate limiter (`agents_shared/rate_limit.py`) | a deque per key | `check`, `require` | the callback |
| Pool and readiness (`agents_shared/db.py`, `health.py`) | `_pool`, the ready flag | `get_pool`, `close_pool`, start-up checks, shutdown | everything that queries |
| Matching and ranking (`handlers/matching.py`) | none | similarity search, fetch rows, boost, store what was shown | tables |
| Profiles (`handlers/profile_fetch.py`, `models/profile.py`) | none | fetch both accounts with calls that may be refused, merge, derive skills and years | check-ins, ranking |
| Refinement (`handlers/conversation.py`, `models/refinement.py`) | intent and bounded history in the session | parse, filter | chat turns |
| Typed protocol (`protocols/matchmaking.py`) | none | check-in and match requests without a session | tables |
| HTTP client (`agents_shared/security_fetch.py`) | none | screen a URL and look its host up, retry, cap the body | every outgoing call |

### What is hard about it, and what makes each part correct

* **Session store.** A message from *one* sender evicts the idle sessions of
  *all*. Correct when the two dicts stay inverse, when a suspended turn never
  holds an orphaned session, and when a link that still verifies still has its
  session (link age, idle time, turn length and exchange length interact).
* **OAuth.** The session is looked up after the awaited exchange. Correct when
  tokens reach the session whose link was followed, or nobody.
* **Chat turn.** At each of its awaits other turns, callbacks, the purge, a
  restart or a failure can come in between. Correct when a session only ever
  acts as an attendee its own user authorised, a row is written only for a
  person and event the session was given, "You're checked in" is true when it
  is said, and every turn ends.
* **Tables.** Check-in is two autocommit statements, an answer may be lost
  after its commit, and `event_id` is repeated in three tables without a
  foreign key that ties them. Correct when at most one row exists per person
  and event, dependants never outlive or contradict their row, and row ids
  never come back.
* **Purge.** Correct when nothing outlives its period however often it is
  touched, and nothing goes before the promised day.
* **Rate limiter.** Correct at the boundary of the window, and when refusals
  neither count nor leak between keys.
* **HTTP client.** It repeats a POST that is not idempotent, and looks the host
  up once before the first attempt. Correct when the budget the limiters give
  is also a budget of what the provider is sent, when a user is rejected only
  for a reason, and when the browser gets its page.
* **Matching, typed protocol.** Five queries and one insert per match, each
  against a database that others change. Correct when what is shown were
  others of one's own event, what is shown is recorded, and a repeated check-in
  names the same row.
* **Ranking, refinement.** Correct when, of those the search found, nobody who
  fits better is left out, a skill the user excluded stays out, and the intent
  changes only when the user refines, whatever turns overlap.
* **Pool and readiness.** `get_pool` tests, awaits and assigns, so that callers
  race. Correct when traffic comes only after the check, the pools that a race
  leaves behind are bounded, and both handlers of the process's life return.

The full list, each hazard at its line, is in `PROJECT.json` under `hazards`.

## 2. Modules

    MeetupDB        the tables and every statement: the abstract client
      |-- CheckIn       chat turns and callbacks, implements DBSpec
      |-- Retention     the purge with its dates, implements DBSpec
      `-- Matching      the pipeline and the typed protocol,
                        implements DBSpec and Introductions
    Introductions   what matching promises a room, no pipeline in it
    Profiles        what two accounts make of a person         (definitions)
      `-- Ranking       scores, filter, sorts, cut              (definitions)
            `-- Conversation   one session's history, intent and lists
    RateLimiter     the sliding window
      `-- Exchange      callbacks through two limiters and the retry loop
    SessionStore    sessions, links and callbacks in time
    Boot            pool, readiness, start-up, shutdown

    X_proofs        theorems about X          MCX   X with small constants
    Process_proofs  theorems about SessionStore and Boot

**MeetupDB** has the four tables as functions from row ids, one operator per
statement (`UpsertEvent`, `UpsertAttendee`, `UpsertEmbedding`,
`InsertConnection`, `Purge` with its cascades) and `DBSpec`, which says that a
client issues them in any order. It is the promise the detailed modules are
shown to keep: a client may insert an embedding or a connection only under the
event its rows have. The columns no property tells apart are left out.
`gen_random_uuid()` is a row id never used before (`uuids`), `AttendeeIds`
bounds how many there are.

**SessionStore** has the clock. Its sessions carry a time and, for each token,
the link it came from; a turn and a token exchange are intervals whose length
is bounded by `TurnTime` and `ExchangeTime`, since every await of them times
out. What the turn *does* is left out. Signatures are abstracted to "this link
was signed"; whose link it is, for which platform and how old are kept. The id
of a session is that of the message that opened it; `Owner` says who sends
which, since clients make them up and the code checks none: the same sender's
message, delivered twice, may reopen a session that was evicted or lost under
its old id. That two senders never choose the same id is assumed.

**CheckIn** has the conversation and no clock. `turns[s]` is the suspended
coroutine of sender `s`: the call it awaits and the locals it will use. Each
action is the uninterrupted stretch of code from one await to the next, so that
everything between two awaits happens at once, as in the event loop, and
anything may happen at an await. `Route`, `Greet`, `LoadAttendee`,
`ContinueOnboarding` and `CompleteCheckin` are the functions of `agent.py` from
entry to first await; the actions named in the past tense (`EventKnown`,
`RowWritten`, ...) are what follows each call, with a separate action for its
failure. Replies are kept as what they mean. A session that no turn holds may
be found expired at any later message: that over-approximates the clock of
SessionStore, whose `TurnHoldsLiveSession` shows that a session a turn holds
may not. An id stands for one life of a session here: when a session is opened
again under the same message id, that is another id of the model. `consent` is
a history variable: which LinkedIn accounts were authorised in which session.

**Retention** adds `created_at`, `expires_at` and `checked_in_at` to the rows
of MeetupDB, in days, with the purge as one transaction and a job that runs at
least every `PurgeEvery` days. An event may be given any `expires_at`, or none:
no code relates it to the day of the event (`heldOn`).

**Matching** has a slot for each request that runs at a time: a chat turn's
(`CountPeers` of `agent.py`, then the pipeline), a typed match request
(`ResolveRequester`, the pipeline, `CountTotal`) or a typed check-in
(`FetchProfiles` to `CountAll`). The pipeline is `FetchRequester`,
`FetchQueryVector`, `SimilaritySearch`, `BuildCandidates` (rows read, profiles
validated, ranked, cut) and `StoreShown` once per match. Any call may fail;
what the code does then differs by stage: an answer that reports the failure,
a swallowed insert, or silence. `met` is a history variable: whom the search
could have found since the request began. The search returns any `TopK` of the others
at most (`Hits`): the index is `ivfflat`, which looks at a part of its lists,
so that not even the nearest is sure to be found.

**Introductions** is the promise without the pipeline: somebody asks, and is
introduced to at most `K` others of the same event, each still there when the
rows were read and each findable at some moment since the question. `Promise`
in Matching is its instance under the refinement mapping: the room is the
attendee rows, who can be found are the embeddings, and a request is an open
question from its count to the rows and has picked while it stores.

**Profiles** and **Ranking** are pure. A fetch has a *set* of outcomes, since
each optional call may be refused; a text is the set of vocabulary terms in it.
Scores are in hundredths, so that the code's constants are integers; the three
sorts are stable, and `Lists` is every list their ties allow. **Conversation**
puts one session around them: turns overlap and share `intent` and `history`,
`parse_refinement` answers by the model (any query of a set), by the regular
expressions, or raises. `Account` is what the two services may hold of a person
(`NoLanguage` is a repository without one). The room is fixed there, and the
search finds some of it; that people come and go is Matching's.

**RateLimiter** has the deques of `InMemoryRateLimiter` and the history of what
they admitted. `check()` runs under a lock without an await, so it is one
action. **Exchange** extends it with the callback: the limiter per address (a
second instance, `Remote`), the one per session, the state, the look-up of the
provider's host (both can end it with nothing sent, `Unsent`), then the attempts
of `fetch` against a provider that issues one token per code, may refuse an
unused one for good (`void`: it has expired, or the redirect is not the
registered one), and a network that loses requests and answers. It does what SessionStore leaves out of an
exchange, and leaves out the clock of sessions and links.

**Boot** is the process: `_on_startup`, `_on_shutdown`, `get_pool` for turns,
status requests and the health check, and the driver's pools, which are open,
closing or closed. `made` is a history variable: who made each pool, and
whether after the shutdown's close.

### How they fit together

CheckIn, Retention and Matching EXTEND MeetupDB and use its statements as parts
of their actions; that each of their steps is a step of `DBSpec` or leaves the
tables alone is proved for all three, and for CheckIn also checked as a
PROPERTY of the run `checkin_two`. Since the tables are the only thing they
share, what one assumes of the others is what `DBSpec` allows.

CheckIn ends a turn where it calls matching; Matching takes it up there, and
Conversation is what the same turn does to the session meanwhile.

SessionStore and CheckIn describe the same sessions from two sides: the first
discharges the two assumptions the second makes, that a suspended turn keeps
its session and that a token is stored in the session that signed the link or
not at all.

## 3. Runs

| Run | Question | Instance | States |
|---|---|---|---|
| `session` | Do sessions, links and callbacks fit under eviction and restart? | 2 senders, 3 message ids of which one sender has two, 2 platforms, clock to 5, TTL 3 = 1+1+1 | 2,119,214 |
| `checkin` | Is what a session acts as, writes and says right, in production and with the development shortcut? | 1 sender, 2 LinkedIn accounts, 2 sessions, 2 row ids, 1 event | 511,231 |
| `checkin_two` | The same when two senders' turns are suspended at once, maybe under one account; is it a proper client of the tables? | 2 senders, 2 turns, 1 account, 1 event, 1 row id | 303,386 |
| `checkin_live` | Does each turn end, and is an authorised user who keeps writing checked in, to the event scanned last? | 1 sender, 1 account, 2 events, 1 session, 1 row id | 211,036 |
| `retention` | Does nothing outlive its period? | 2 people, 1 event, 3 row ids, 5 days, period 2, any `expires_at` | 73,266 |
| `matching` | Does the pipeline keep the promise and record what it shows while rows come and go? | 2 requests at a time and 4 in all, 3 people, 2 events, 3 row ids, a search and lists of 2, 1 profile that does not validate, 1 failing call | 271,116 |
| `conversation` | Does the session remember, and is the list the best that fits of those found? | 2 overlapping turns, 3 others, 3 messages, 1 model query, history of 2, a search of 3, lists of 2 | 177,305 |
| `exchange` | Are budgets kept and rejections justified with lost requests and answers? | 2 callbacks at a time and 3 in all, 2 codes of 2 sessions behind 1 address, limits 1 and 2, 1 retry | 379,087 |
| `boot` | Ready only after the check, how many pools, both handlers return? | 2 turns, 1 status request, 4 pools | 388,749 |
| `skip`, `half`, `early_purge` | violations, section 5 | the smallest instance that shows them | |

Why the bounds are enough:

* `session`: the times are as tight as `TimeAssumption` allows, so an
  off-by-one anywhere would break the bound; the clock passes the first
  eviction; one sender has a second message id to come back with after one, and
  either may come back with the same. `FewAtOnce`
  limits outstanding links to two and exchanges to one, which still has two
  links of two sessions race. TLC gives the tight case, the theorems give all.
* `checkin`: two accounts let one user authorise another account in the middle
  of a check-in, two sessions let a session be lost and opened again, two row
  ids let a purged person come back under a new one. The second sender is in
  `checkin_two`. Two events are too many for both (over two million states), so
  that a second QR code is scanned in `checkin_live` only; for the safety
  properties the event half is carried by the theorems, which have any number
  of events. The uAgents dispatcher is not in the repository. If it hands over
  one message at a time, `MaxTurns = 1` is all there is; `MaxTurns = 2` has the
  turns of two senders overlap. That two turns of *one* sender do not overlap is
  an assumption of SessionStore and CheckIn; Conversation does without it.
* `checkin_live`: one account, one row id and one session, since two of any of
  them are out of reach for liveness. So what it does not have is a user who
  comes back after a restart, is purged and checks in again, or authorises a
  second account; two events, both modes, and tokens at any time it has.
* `retention`: a row can be written, refreshed, purged and written again, under
  an event without a date, with one before or after the promised day, and with
  one that is changed meanwhile.
* `matching`: three people are one who asks and more than one to be shown; the
  third row lets a purged person come back; a search that is cut to two of
  three, or finds fewer, is every case of `TopK`; the second event has rows a search
  must not return; one failure can hit any call, the second insert of a list
  included; four requests let two check-ins precede two that overlap. The
  theorems have no bounds.
* `conversation`: two turns can overlap at every await; a history of two is
  full at once, so that a marker displaces a message; the three people tie, are
  excluded, and gain and lose by the boosts; the messages include a negation
  that contains a word of the vocabulary. The bounded arithmetic is that of the
  accounts in `MCConversation`; whom the search finds is any part of the room.
* `exchange`: limit 1 per session and 2 per address let each limiter be the one
  that refuses; two callbacks with one code race for its single use; one retry
  has a first, a repeated and a last attempt; either code may be void.
* `boot`: two turns, the status request and the health check can race for the
  first pool and each make one, or some of them one before the shutdown and one
  after its close. A process starts and stops once.
* Row ids and session ids are bounded; when they are used up, no message can
  open a session and no row can be inserted. A session is allowed to expire,
  and the process to restart, only while every sender can still open one
  (`IdsLeftFor`), so that the bound does not starve a user in the liveness run.
  A row id bound that stops a check-in shows as an error the user sees; under
  fairness such a behaviour has infinitely many outages and is outside
  `FairSpec`.

Deadlock is checked except in `matching`, `conversation` and `exchange`, whose
requests, turns and callbacks are bounded in number (`MaxBegun`) and which stop
when the last has been answered, and in `boot`, whose process ends.

Symmetry is used in runs of safety properties only: of senders, accounts and
rows, of requests, and of the slots for turns.

### Fairness

* **CheckIn.** `FairSpec` assumes what asyncio and the timeouts give: a
  suspended turn whose call has ended is resumed, and every call ends
  (`WF(TurnStep(s))`): database commands have a timeout (`db.py:49`) and hold a
  connection for one command at a time, and every HTTP call, the embedding's
  included, goes through `security_fetch.py` with its timeout and bounded
  retries. It also assumes that services are down only for finite time
  (`<>[][~Outage]`): a promise to a user who writes into a permanent outage
  cannot be kept. `WritingSpec` adds the user's part, `SF(ChatMessage)`: who
  stops writing is owed nothing. It is strong because a sender cannot be heard
  while a turn of theirs runs. `EveryTurnEnds` needs only the first.
* **Exchange.** `WF(Proceeds(q))`: a request is answered or times out, and a
  sleep ends. Nothing is assumed of which: the provider may fail every time.
* **Boot.** `WF` of the end of each call (connecting and each command have
  timeouts), of the health check's own call and of the handlers' own steps.
  Nothing is assumed of messages, requests or when the shutdown comes.

### Mutants

For each property of each passing run `PROJECT.json` names a small change of a
mapped definition that a plausible bug would make (a pop forgotten, a cutoff
off by one, a cascade one level short, an error swallowed, a limiter left out).
The mutated operators stand beside the originals, and TLC finds each property
violated under its mutant.

## 4. Properties

* `SessionStore`: `IndexConsistent`, `TokensReachTheirSession`,
  `TurnHoldsLiveSession`, `VerifiedCallbackFindsSession`.
* `MeetupDB`: `RowsConsistent` (one row per person and event, embeddings and
  connections only of rows that exist and under those rows' event).
* `CheckIn`: `AttendeeIsOwn`, `NewRowsAuthorised`, `AttendeeBindingStable`,
  `ToldCheckedInIsStored`, that it implements `DBSpec`, and the liveness
  properties `EveryTurnEnds` and `AuthorisedUserChecksIn`. The last is about
  users who have no attendee yet: with one, the code never checks in again,
  whatever is scanned or authorised (section 5).
* `Retention`: `RetentionBound`.
* `Matching`: `KeepsThePromise` (it implements Introductions),
  `RecordedUnlessGone` (a failing insert costs no other match its record),
  `StoredUnlessRefused` and `SameAttendeeId` (typed check-ins may be repeated
  and overlap), and `RowsConsistent` under all of it.
* `Conversation`: `IntentKept`, `PromptHoldsMessage` (the message that is
  parsed is in the prompt, unless it was displaced), `ShownFit` (nobody with an
  excluded or negated skill is shown), `BestShown` (of those the search found).
* `RateLimiter`: `WindowBound`, `RefusalJustified`, checked and proved of the
  limiter as Exchange uses it.
* `Exchange`: `RejectionJustified`, `ProviderSpared`, and the liveness property
  `EveryCallbackEnds`.
* `Boot`: `ReadyMeansChecked`, `PoolsBounded`, and the liveness properties
  `StartupCompletes` and `ShutdownCompletes`.

The code does not keep the singleton that `db.py:35` speaks of: first callers
that overlap each make a pool, all but the last of which are never closed, and
so does a turn that asks after the shutdown's close. `PoolsBounded` says how far
that goes: no caller makes a second pool before the close, or a second after it,
however often its calls fail, and what is closed is in nobody's hands.

Exchange's `RejectionJustified` speaks of failures once a request was to be
sent; that a callback may end before (`Unsent`, the limiters) is in the model,
and `ProviderSpared` counts such a callback as none.

## 5. Where the code and its documents disagree

Each is a run that TLC must find violated, and a finding in `PROJECT.json`.

* `skip`: `_continue_onboarding` offers to say "skip" instead of connecting
  GitHub (`agent.py:436`), and nothing reads the word. Such a user is asked
  again for ever.
* `half`: when the embedding cannot be stored after the row was, the user is
  told to write again (`agent.py:479`). The next message finds the row and goes
  to matching: the person stays without an embedding and is found by nobody.
* `early_purge`: data is promised to stay until 30 days after the event
  (`README.md:118`, `agent.py:349`). For an event without `expires_at` the
  purge counts from the day it was created, and rows from check-in.

Seen while reading, modelled as the code has it, without a run of its own:

* The page shown after authorisation says check-in will continue automatically
  (`callback_server.py:43`). It continues at the next message.
* A second QR code greets the user in its event (`agent.py:346`), while the
  session keeps the attendee of the first (`agent.py:309`) and matching stays
  there: no row for the second event is ever written (`agent.py:369-372`). Nor
  does a second account authorised in the same session get one.
* `README.md:101` lists no re-ranking for FRIEND, and `matching.py` has one.
* The fallback parser resets the session's intent to FRIEND
  (`conversation.py:285`) at any refinement that names none. It keeps a negated
  domain: "no crypto" excludes the skill and asks for the domain. And it does
  not know the plural in "show me designers", which `agent.py:583` suggests.
* JSON of an unexpected shape from the model raises instead of falling back.
* Internal markers displace the user's messages from the bounded history.
* Two first callers of `get_pool` make two pools (`db.py:38-45`), where
  `db.py:35` says "Return the singleton pool" and `db.py:5-6` that it is created
  on the first call and reused forever.
* `security_fetch.py:10` promises retries on network errors. A host name that
  does not resolve ends the call at once, with nothing sent, as a host that the
  policy blocks would (`security_fetch.py:63-66`, `99-100`, `118`).
* `get_matches` cuts to the 20 most similar before filter and boosts
  (`matching.py:65`, `89-105`), through an approximate index: in a larger room
  somebody who fits better may not be looked at.
* `DEPLOY.md:231` schedules the purge with its default of 30 days whatever
  `RETENTION_DAYS` is.

## 6. Proofs

Every theorem holds for all values of the constants that satisfy the named
assumptions. TLC first checked each invariant on the small instance.

* **Process_proofs**, SessionStore (from `TimeAssumption`: times are naturals and
  `TurnTime + StateTTL + ExchangeTime <= SessionTTL`; the code has 600 + a turn
  + an exchange against 3600). None of the properties is inductive alone. The
  invariant adds that a session is named by its own sender's message (so the id
  of a new one, of a sender without a session, is that of no other; from
  `OwnerAssumption`), that a session is at least as fresh as its turn began,
  that a link was signed by a session fresh enough to outlive it or that a
  restart lost, and that a callback began while its link was valid. Its
  parts are proved action by action; `TypeCorrect`, `IndexCorrect`,
  `TokensCorrect`, `TurnCorrect` and `CallbackCorrect` follow.
* **MeetupDB_proofs**: `DBInv` is types, `RowsConsistent`, and that every row
  id was recorded in `uuids`, without which a purged id could come back under
  old dependants. `DBTypeCorrect` and `RowsCorrect` follow.
* **RateLimiter_proofs** (from `LimiterAssumption`): `Tracks` says that a
  bucket is the recent end of the history of its key and that everything older
  has left the window; `TypeCorrect`, `WindowBounded` and `RefusalsJustified`
  follow.
* **Retention_proofs** (from `RetentionAssumption`): `ImplementsDB` shows that
  each step is a step of `DBSpec`, so that `RowsCorrect` carries over
  (`RowsStayConsistent`) instead of being proved again; `RetentionCorrect`
  rests on the invariant that `checked_in_at` is the day the row was first
  stored and that no row was overdue at the last purge.
  `PurgeKeepsWhatIsYoung` is what the code keeps of the promise that
  `early_purge` refutes: nobody goes before `RetentionDays` since their own
  check-in, or the end of their event, which is its `expires_at` or else
  `RetentionDays` since it was created, whatever upserts come before.
* **CheckIn_proofs**: all safety properties of CheckIn, for any number of
  senders, accounts, events and concurrent turns of different senders. The invariant has two parts.
  `OwnSession`: the accounts a session knows, its token's and its cached
  profile's, were authorised in it, and so was its attendee's while the row
  exists. `OwnFrame`: what a suspended turn remembers is still right when it is
  resumed: its account is one of its session's, a check-in runs only in a
  session without a row and for the event the session still has, and the row
  between the two statements is the one the turn wrote, or is gone and its id
  never comes back. The last point is why `DBInv` is part of it. The argument
  is modular: `Move` says how any uninterrupted stretch leaves store and turn,
  `MoveInv` that this keeps the invariant for the own turn and, by `Grown`
  (rows go, or come under new ids), for every turn suspended meanwhile; one
  lemma per function of `agent.py` and per step shows that it is a `Move`.
  `ImplementsDB` then gives `RowsStayConsistent` from `RowsCorrect`.
  `NewRowsCorrect`, `BindingCorrect` and `ToldCorrect` are action properties
  from the same invariant; `BindingCorrect` needs in addition that session ids
  are not reused.
* **Matching_proofs** (from `MatchingAssumption`): `MInv` is `DBInv` and, for
  each request, `Good`: the rows it holds were generated and can come back
  under no other person, so each is the row it read or is gone; while the
  question is open, `met` covers everyone who can be found; the part of the
  list already stored is recorded. A request that does not move keeps `Good`
  under any statement of another by `Lasts`: no id is generated twice, and what
  is in a table stays unless a row it needs goes. The safety properties follow.
  `PromiseKept` is the refinement: under the mapping of `Promise` every action
  is a `Mingle`, `Ask`, `Pick` or `Conclude` of Introductions, or a stutter,
  one lemma per kind; `Pick` is where `Good` says that those shown were met and
  have not left. `MatchingUsesTables` shows the other refinement, `DBSpec`.
* **Exchange_proofs** (from `ExchangeAssumption` and `LimiterAssumption`):
  `UsesLimiter` and `UsesRemoteLimiter` show that a callback does nothing to a
  limiter that is not a step of RateLimiter, so that its theorems carry over to
  both instances (`CallbacksBounded`, `CallbackRefusalsJustified`,
  `RemoteCallbacksBounded`). `ProviderSpared` is not inductive: a callback
  between two attempts has requests still to send. `Paid` counts the pairs of
  callback and attempt that are still ahead as a finite set, and says that what
  was sent plus what is ahead is covered by the visits. `Apart` says that two
  callbacks busy with one code are two visits, which is what justifies a
  refusal that the first of them caused, of a code that is not void.
  `RejectionsJustified` and
  `ProviderIsSpared` follow.
* **Process_proofs**, Boot (from `BootAssumption`): the invariant adds that the health
  check asks only during start-up, and that who is making a pool has made none
  in the same part of the process's life (`OneEach`), because there is a pool
  from the first one made until the close and from the first one made after it
  on; the pool that the shutdown waits for is `_pool` when it begins.
  `BootTypeCorrect`, `ReadinessCorrect` and `PoolsCorrect` follow.
* **Conversation_proofs** (from `ProfilesAssumption`, `RankingAssumption` and
  `ConversationAssumption`: finitely many terms and people, what the accounts,
  messages and queries are, and that the two markers are no messages). `CInv` is
  inductive, and TLC checks it on the instance of `conversation`. For each turn
  `Good` says that, until `_handle_matching` takes its snapshot, the turn's
  message is `since` entries from the end of the history (`Held`), afterwards of
  the snapshot, and that what the fallback parsed is still what the message
  says. `AppendedHistory` is the lemma about `append()`: every entry that is
  kept moves one place back, which is what `Counted` counts for the turns that
  wait (`CountedGood`). `PromptCorrect`, `IntentIsKept` and
  `ConversationTypeCorrect` follow. `ShownMade` says that a list shown is one
  `get_matches` makes of a turn and a room. `TopOfSorted` is about cutting a
  sorted finite set: its order is a bijection, so that who is missing stands
  behind the cut, wherever the ties were broken; the scores are comparable
  because every stored profile gives numbers (`FactsAreTyped`, whatever calls
  were refused). `ShownIsFit` and `BestIsShown` follow, of whomever the search
  found. `BoostBound` adds up the boosts, and `NearestIsShown` says what that
  means: nobody found who fits is left out for one who is farther by more than
  0.35, 0.50, 0.30 or 0.15, by intent, and 0.05 for each skill required.

Only model-checked: all liveness, since TLAPS does not reason about ENABLED and
hence not about fairness; every other property of a passing run is a theorem.
What a recursive definition computes for every input is out of reach as well
(no induction theorem of the library can be instantiated, and RECURSIVE turns
the SMT backend off); no module here uses one.

## 7. What is not modelled

* The awaits of `ctx.send` are merged with the step before them: sending
  enqueues an envelope and changes no state that another coroutine reads.
* HMAC arithmetic, URL and text parsing, and wording: formats that no property
  is about. Of `security_fetch.py` how URLs are screened and names resolved, other
  than that this may end a call; of a profile the fields that are only
  displayed; of a vector everything but whether it is stored and, in Conversation, how similar
  it is.
* The `/submit` proxy, which forwards bytes and keeps no state, and that
  asyncpg's `Pool.close` may raise.
* Logging, error reporting, settings (they appear as constants), and the
  one-shot scripts except `create_event.py`.
* The growth of the limiter's dict by one deque per key ever seen
  (`rate_limit.py:63`): nothing removes one, and no property of the modelled
  behaviour is lost by it.
* The uAgents framework, Postgres, asyncio, LinkedIn and GitHub, other than by
  what the code observes of them. Boot assumes of uAgents that messages are
  handled from the end of start-up on, and that shutdown follows start-up.

## 8. What could follow

A joint module of CheckIn and Conversation over one session record, and the
time a slow provider adds to a turn in SessionStore's terms.
