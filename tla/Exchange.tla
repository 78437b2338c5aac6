------------------------------ MODULE Exchange ------------------------------
(***************************************************************************)
(* An OAuth callback from the browser's request to the page it gets: the   *)
(* two rate limiters of callback_server.py and handlers/onboarding.py, and *)
(* the POST of the one-time code through agents_shared/security_fetch.py,  *)
(* which repeats what fails.  The provider and the network are outside:    *)
(* requests and answers get lost, and a code is good for one use.          *)
(* The variables of RateLimiter are those of the limiter per session; the  *)
(* one per remote address is a second instance.                            *)
(***************************************************************************)
EXTENDS RateLimiter, FiniteSets

CONSTANTS
    Callbacks,      \* slots for the callbacks that are handled at one time
    Codes,          \* codes the provider has sent browsers back with
    SessionOf(_),   \* code -> the session of the signed state beside it
    RemoteOf(_),    \* code -> the address of the browser
    RemoteLimit,    \* limit of the limiter per remote address
    Retries,        \* retries of fetch
    MaxBegun,       \* bound on callbacks
    NoCode

ASSUME ExchangeAssumption ==
    /\ \A c \in Codes : SessionOf(c) \in Keys
    /\ IsFiniteSet(Callbacks)
    /\ RemoteLimit \in Nat \ {0} /\ Retries \in Nat /\ MaxBegun \in Nat
    /\ NoCode \notin Codes

VARIABLES
    remoteBuckets, remoteAdmitted, remoteAnswers,
    handling,   \* what each slot is doing
    used,       \* the provider: codes it has issued a token for
    void,       \* the provider: codes it refuses unused, as expired or for their redirect
    posts,      \* history: code -> requests sent to the provider
    visits,     \* history: code -> callbacks that set out to exchange it
    begun       \* callbacks that have begun

limiterVars  == <<buckets, admitted, answers>>
remoteVars   == <<remoteBuckets, remoteAdmitted, remoteAnswers>>
exchangeVars == <<handling, used, void, posts, visits, begun>>
allVars      == <<vars, remoteVars, exchangeVars>>

Remotes == {RemoteOf(c) : c \in Codes}

Remote ==
    INSTANCE RateLimiter WITH
      Keys <- Remotes, Limit <- RemoteLimit,
      buckets <- remoteBuckets, admitted <- remoteAdmitted, answers <- remoteAnswers

Pages == {"none", "connected", "rejected", "too_many", "expired", "error"}

(* reply: what the provider has sent back, "broken" for a 5xx; why: what a *)
(* rejection is for; failed: history, attempts that failed; lost: history, *)
(* a token was on its way to this callback and did not arrive.             *)
Handling ==
    [stage : {"idle", "send", "wait", "sleep", "done"}, code : Codes \cup {NoCode},
     attempt : 0..Retries, failed : 0..(Retries + 1),
     reply : {"none", "token", "refused", "broken"},
     lost : BOOLEAN, page : Pages,
     why : {"none", "limit", "state", "host", "exhausted", "refused", "unusable"}]

Idle ==
    [stage |-> "idle", code |-> NoCode, attempt |-> 0, failed |-> 0, reply |-> "none",
     lost |-> FALSE, page |-> "none", why |-> "none"]

ExchangeInit ==
    /\ Init /\ Remote!Init
    /\ handling = [q \in Callbacks |-> Idle]
    /\ used = {} /\ void = {}
    /\ posts = [c \in Codes |-> 0]
    /\ visits = [c \in Codes |-> 0]
    /\ begun = 0

Set(q, r) == handling' = [handling EXCEPT ![q] = r]

(* What a property looks back at stays in the slot.                        *)
Page(r, page, why) ==
    [Idle EXCEPT !.stage = "done", !.page = page, !.why = why,
                 !.failed = IF why = "exhausted" THEN r.failed ELSE 0,
                 !.code = IF why = "refused" THEN r.code ELSE NoCode,
                 !.lost = why = "refused" /\ r.lost]

-----------------------------------------------------------------------------
(* The callback up to its first await *)

(* What ends a callback that the limiters let through before anything is   *)
(* sent: the state, or the provider's host, which fetch looks up once      *)
(* before its first attempt; a name that does not resolve, or resolves to  *)
(* a blocked address, is not tried again.                                  *)
Unsent == {"state", "host"}

(* _oauth_callback and handle_oauth_callback: both limiters, in this       *)
(* order, then the state, which may be too old; neither limiter waits, as  *)
(* nothing waits while it holds a limiter's lock.  The mutant leaves the   *)
(* limiter per session out.                                                *)
Callback_Unlimited(q, c) ==
    LET r == [Idle EXCEPT !.code = c] IN
    /\ handling[q].stage \in {"idle", "done"}
    /\ begun < MaxBegun /\ begun' = begun + 1
    /\ Remote!Check(RemoteOf(c))
    /\ UNCHANGED <<limiterVars, used, void, posts>>
    /\ \/ /\ ~remoteAnswers'[RemoteOf(c)].allowed
          /\ Set(q, Page(r, "too_many", "none"))
          /\ UNCHANGED visits
       \/ /\ remoteAnswers'[RemoteOf(c)].allowed
          /\ Set(q, [r EXCEPT !.stage = "send"])
          /\ visits' = [visits EXCEPT ![c] = @ + 1]
Callback(q, c) ==
    LET k == SessionOf(c)
        r == [Idle EXCEPT !.code = c]
    IN
    /\ handling[q].stage \in {"idle", "done"}
    /\ begun < MaxBegun /\ begun' = begun + 1
    /\ Remote!Check(RemoteOf(c))
    /\ UNCHANGED <<used, void, posts>>
    /\ \/ /\ ~remoteAnswers'[RemoteOf(c)].allowed
          /\ Set(q, Page(r, "too_many", "none"))
          /\ UNCHANGED <<limiterVars, visits>>
       \/ /\ remoteAnswers'[RemoteOf(c)].allowed
          /\ Check(k)
          /\ \/ /\ ~answers'[k].allowed
                /\ Set(q, Page(r, "rejected", "limit"))
                /\ UNCHANGED visits
             \/ /\ answers'[k].allowed
                /\ \/ /\ \E why \in Unsent : Set(q, Page(r, "rejected", why))
                      /\ UNCHANGED visits
                   \/ /\ Set(q, [r EXCEPT !.stage = "send"])
                      /\ visits' = [visits EXCEPT ![c] = @ + 1]

-----------------------------------------------------------------------------
(* fetch *)

LimitersIdle == UNCHANGED <<vars, remoteVars>>

OnlyHandling == LimitersIdle /\ UNCHANGED <<used, void, posts, visits, begun>>

(* An attempt failed: sleep and try again, or give up after the last.  The *)
(* mutant tries once more.                                                 *)
LastAttempt_OneMore(r) == r.attempt > Retries
LastAttempt(r) == r.attempt >= Retries

AttemptFailed(r) ==
    LET f == [r EXCEPT !.failed = @ + 1, !.reply = "none"] IN
    IF LastAttempt(r) THEN Page(f, "rejected", "exhausted") ELSE [f EXCEPT !.stage = "sleep"]

(* The request is sent.  It gets lost, or the provider answers: a 5xx may  *)
(* come from before or from after it has used the code, and an answer may  *)
(* get lost.  It refuses a code that is used, and any other once that has  *)
(* expired or the redirect sent with it is not the registered one.         *)
Send(q) ==
    LET r == handling[q]
        c == r.code
        Reply(x, lost) == Set(q, [r EXCEPT !.stage = "wait", !.reply = x, !.lost = @ \/ lost])
    IN
    /\ r.stage = "send"
    /\ posts' = [posts EXCEPT ![c] = @ + 1]
    /\ \/ /\ c \notin used \cup void
          /\ used' = used \cup {c}
          /\ UNCHANGED void
          /\ Reply("token", FALSE) \/ Reply("broken", TRUE) \/ Reply("none", TRUE)
       \/ /\ void' = IF c \in used THEN void ELSE void \cup {c}
          /\ UNCHANGED used
          /\ Reply("refused", FALSE)
       \/ /\ UNCHANGED <<used, void>>
          /\ Reply("broken", FALSE) \/ Reply("none", FALSE)
    /\ LimitersIdle /\ UNCHANGED <<visits, begun>>

(* TimeoutError, ClientError or ConnectionError: no connection, or nothing *)
(* comes back within the timeout.  The mutant has no timeout.              *)
Fails_NoTimeout(q) ==
    /\ handling[q].stage = "send"
    /\ Set(q, AttemptFailed(handling[q]))
    /\ OnlyHandling
Fails(q) ==
    LET r == handling[q] IN
    /\ r.stage = "send" \/ (r.stage = "wait" /\ r.reply = "none")
    /\ Set(q, AttemptFailed(r))
    /\ OnlyHandling

(* A 5xx counts as a failure while there are attempts left; the last one   *)
(* is returned as it is, and rejected for its status.                      *)
ServerError(q) ==
    /\ handling[q].stage = "wait" /\ handling[q].reply = "broken"
    /\ Set(q, AttemptFailed(handling[q]))
    /\ OnlyHandling

Wake(q) ==
    /\ handling[q].stage = "sleep"
    /\ Set(q, [handling[q] EXCEPT !.stage = "send", !.attempt = @ + 1])
    /\ OnlyHandling

(* An answer over max_bytes is not asked for again.  The mutant does.      *)
TooLong_Repeated(q) ==
    /\ handling[q].stage = "wait" /\ handling[q].reply # "none"
    /\ Set(q, AttemptFailed(handling[q]))
    /\ OnlyHandling
TooLong(q) ==
    /\ handling[q].stage = "wait" /\ handling[q].reply # "none"
    /\ Set(q, Page(handling[q], "rejected", "unusable"))
    /\ OnlyHandling

-----------------------------------------------------------------------------
(* The answer *)

(* LinkedIn's refusal is a status, GitHub's a body; one without the        *)
(* description that the message is made of raises KeyError.                *)
Refused(q) ==
    /\ handling[q].stage = "wait" /\ handling[q].reply = "refused"
    /\ \E page \in {"rejected", "error"} : Set(q, Page(handling[q], page, "refused"))
    /\ OnlyHandling

(* The body is no JSON, or has no access_token.                            *)
Unreadable(q) ==
    /\ handling[q].stage = "wait" /\ handling[q].reply = "token"
    /\ Set(q, Page(handling[q], "error", "unusable"))
    /\ OnlyHandling

(* CheckIn models the tokens that are stored now, and SessionStore whether *)
(* the session is still there.                                             *)
Connected(q) ==
    /\ handling[q].stage = "wait" /\ handling[q].reply = "token"
    /\ \E page \in {"connected", "expired"} : Set(q, Page(handling[q], page, "none"))
    /\ OnlyHandling

Time == Tick /\ UNCHANGED <<remoteVars, exchangeVars>>

Proceeds(q) ==
    \/ Send(q) \/ Fails(q) \/ ServerError(q) \/ Wake(q)
    \/ TooLong(q) \/ Refused(q) \/ Unreadable(q) \/ Connected(q)

ExchangeNext ==
    \/ \E q \in Callbacks, c \in Codes : Callback(q, c)
    \/ \E q \in Callbacks : Proceeds(q)
    \/ Time

(* Every request is answered or times out, and every sleep ends.           *)
Fairness == \A q \in Callbacks : WF_allVars(Proceeds(q))

ExchangeSpec == ExchangeInit /\ [][ExchangeNext]_allVars /\ Fairness

-----------------------------------------------------------------------------
(* Properties *)

(* A callback counts its attempts from 0 to Retries.                       *)
ExchangeTypeOK ==
    /\ handling \in [Callbacks -> Handling]
    /\ used \subseteq Codes /\ void \subseteq Codes
    /\ posts \in [Codes -> Nat] /\ visits \in [Codes -> Nat] /\ begun \in 0..MaxBegun

(* A POST that is repeated is not idempotent: a code can be refused        *)
(* although the provider had issued its token.  With a code that was good  *)
(* that happens to nobody but a user whose browser asked twice, or whose   *)
(* token was lost on its way; and of those whose request was sent nobody   *)
(* is rejected for failures but after the last attempt.                    *)
RejectionJustified ==
    \A q \in Callbacks : LET r == handling[q] IN
      /\ r.why = "refused" => r.lost \/ visits[r.code] > 1 \/ r.code \in void
      /\ r.why = "exhausted" => r.failed = Retries + 1

(* Repeating does not get around the limiters: of a code the provider is   *)
(* sent Retries + 1 requests at most for every callback with it that both  *)
(* limiters let through.                                                   *)
ProviderSpared ==
    \A c \in Codes :
      /\ posts[c] <= (Retries + 1) * visits[c]
      /\ visits[c] <= Len(admitted[SessionOf(c)])
      /\ visits[c] <= Len(remoteAdmitted[RemoteOf(c)])

(* The browser gets its page, whatever the provider does.                  *)
EveryCallbackEnds ==
    \A q \in Callbacks : handling[q].stage \notin {"idle", "done"} ~> handling[q].stage = "done"
=============================================================================
