-------------------------------- MODULE Boot --------------------------------
(***************************************************************************)
(* The life of the agent's process: _on_startup and _on_shutdown of        *)
(* agent.py, the connection pool of agents_shared/db.py and the readiness  *)
(* flag of agents_shared/health.py.  Chat turns and GET /status ask        *)
(* get_pool for the pool whenever they have a query; the health check at   *)
(* start-up is one more caller.  An action is what runs between two        *)
(* awaits; create_pool and close are the driver's and may take long.       *)
(***************************************************************************)
EXTENDS FiniteSets, Naturals

CONSTANTS
    Turns,      \* callers of get_pool in chat turns
    Statuses,   \* callers of get_pool in GET /status
    Probe,      \* healthcheck's call at start-up
    Pools,      \* bound on the pools that are made
    NoPool

ASSUME BootAssumption ==
    /\ Probe \notin Turns \cup Statuses /\ Turns \cap Statuses = {}
    /\ NoPool \notin Pools /\ IsFiniteSet(Pools)

VARIABLES
    database,  \* DATABASE_URL is set
    stage,     \* how far _on_startup and _on_shutdown have come
    ready,     \* health._ready
    pool,      \* db._pool
    pools,     \* the driver: pool -> open, closing or closed
    callers,   \* what each caller of get_pool is doing
    check,     \* history: what the health check of this start has returned
    made       \* history: pool -> who made it, and if only after the shutdown's close

bootVars == <<database, stage, ready, pool, pools, callers, check, made>>

Callers == Turns \cup Statuses \cup {Probe}

Stages == {"down", "serving", "up", "closing", "stopping", "stopped"}

ShuttingDown == stage \in {"closing", "stopping", "stopped"}
AfterClose   == stage \in {"stopping", "stopped"}

Caller == [at : {"away", "creating", "querying"}, has : Pools \cup {NoPool}]

Maker == [by : Callers, late : BOOLEAN]

Away == [at |-> "away", has |-> NoPool]

Creating == {c \in Callers : callers[c].at = "creating"}

BootInit ==
    /\ database \in BOOLEAN
    /\ stage = "down" /\ ready = FALSE
    /\ pool = NoPool /\ pools = [p \in {} |-> "open"]
    /\ callers = [c \in Callers |-> Away]
    /\ check = "none" /\ made = [p \in {} |-> "nobody"]

-----------------------------------------------------------------------------
(* get_pool and the query it is for *)

(* Who has a query to make: /status is served once the health server is,   *)
(* chat messages once start-up has returned; turns that run are not        *)
(* stopped by the shutdown, which takes the health server down last.       *)
MayCall(c) ==
    \/ c \in Turns /\ stage \in {"up", "closing", "stopping", "stopped"}
    \/ c \in Statuses /\ stage \in {"serving", "up", "closing", "stopping"}
    \/ c = Probe /\ stage = "serving" /\ check = "none"

(* The pool there is: acquire raises if it is being closed.                *)
GetPool(c) ==
    /\ database /\ MayCall(c) /\ callers[c] = Away
    /\ pool # NoPool /\ pools[pool] = "open"
    /\ callers' = [callers EXCEPT ![c] = [at |-> "querying", has |-> pool]]
    /\ UNCHANGED <<database, stage, ready, pool, pools, check, made>>

(* None yet: it waits for create_pool.  The mutant makes one in any case.  *)
CreatePool_Always(c) ==
    /\ database /\ MayCall(c) /\ callers[c] = Away
    /\ Cardinality(DOMAIN pools) + Cardinality(Creating) < Cardinality(Pools)
    /\ callers' = [callers EXCEPT ![c] = [at |-> "creating", has |-> NoPool]]
    /\ UNCHANGED <<database, stage, ready, pool, pools, check, made>>
CreatePool(c) ==
    /\ database /\ MayCall(c) /\ callers[c] = Away
    /\ pool = NoPool
    /\ Cardinality(DOMAIN pools) + Cardinality(Creating) < Cardinality(Pools)
    /\ callers' = [callers EXCEPT ![c] = [at |-> "creating", has |-> NoPool]]
    /\ UNCHANGED <<database, stage, ready, pool, pools, check, made>>

(* create_pool returns, and its pool becomes the pool whatever _pool is by *)
(* now.  The mutant hands out a pool that is not set up.                   *)
PoolCreated_NotAwaited(c) ==
    /\ callers[c].at = "creating"
    /\ \E p \in Pools \ DOMAIN pools :
         /\ pool' = p
         /\ callers' = [callers EXCEPT ![c] = [at |-> "querying", has |-> p]]
    /\ UNCHANGED <<database, stage, ready, pools, check, made>>
PoolCreated(c) ==
    /\ callers[c].at = "creating"
    /\ \E p \in Pools \ DOMAIN pools :
         /\ pools' = [x \in DOMAIN pools \cup {p} |-> IF x = p THEN "open" ELSE pools[x]]
         /\ pool' = p
         /\ callers' = [callers EXCEPT ![c] = [at |-> "querying", has |-> p]]
         /\ made' = [x \in DOMAIN pools \cup {p} |->
                       IF x = p THEN [by |-> c, late |-> AfterClose] ELSE made[x]]
    /\ UNCHANGED <<database, stage, ready, check>>

(* What healthcheck makes of its query's end, any exception included.      *)
Checked(c, result) == IF c = Probe THEN check' = result ELSE UNCHANGED check

(* The query is done, its connection released.                             *)
QueryDone(c) ==
    /\ callers[c].at = "querying"
    /\ callers' = [callers EXCEPT ![c] = Away]
    /\ Checked(c, "passed")
    /\ UNCHANGED <<database, stage, ready, pool, pools, made>>

(* create_pool or the query raises, or times out.  The mutant makes        *)
(* healthcheck try again.                                                  *)
CallFails_Retried(c) ==
    /\ callers[c].at \in {"creating", "querying"}
    /\ callers' = [callers EXCEPT ![c] = Away]
    /\ UNCHANGED <<database, stage, ready, pool, pools, check, made>>
CallFails(c) ==
    /\ callers[c].at \in {"creating", "querying"}
    /\ callers' = [callers EXCEPT ![c] = Away]
    /\ Checked(c, "failed")
    /\ UNCHANGED <<database, stage, ready, pool, pools, made>>

-----------------------------------------------------------------------------
(* Start-up and shutdown *)

OnlyStage == UNCHANGED <<database, pool, pools, callers, check, made>>

(* start_health_server; the port may be taken, and start-up raises.        *)
StartHealthServer ==
    /\ stage = "down"
    /\ stage' = "serving"
    /\ UNCHANGED ready /\ OnlyStage
HealthServerFails ==
    /\ stage = "down"
    /\ stage' = "up"
    /\ UNCHANGED ready /\ OnlyStage

(* mark_ready, unless the check has failed: then start-up returns before.  *)
(* The mutant only logs it.                                                *)
StartupEnds_Anyway ==
    /\ stage = "serving" /\ (database => check # "none")
    /\ stage' = "up" /\ ready' = TRUE
    /\ OnlyStage
StartupEnds ==
    /\ stage = "serving" /\ (database => check # "none")
    /\ stage' = "up" /\ ready' = (check # "failed")
    /\ OnlyStage

(* _on_shutdown, up to the await of close.                                 *)
Shutdown ==
    /\ stage = "up"
    /\ ready' = FALSE
    /\ IF pool = NoPool THEN stage' = "stopping" /\ UNCHANGED <<pools, made>>
       ELSE /\ stage' = "closing"
            /\ pools' = [pools EXCEPT ![pool] = "closing"]
            /\ UNCHANGED made
    /\ UNCHANGED <<database, pool, callers, check>>

ClosingPool == {p \in DOMAIN pools : pools[p] = "closing"}

(* close waits for the connections that are out.  The mutant waits until   *)
(* nobody wants one.                                                       *)
PoolClosed_WhenIdle ==
    /\ stage = "closing"
    /\ \A c \in Callers : callers[c] = Away
    /\ pools' = [p \in DOMAIN pools |-> IF p \in ClosingPool THEN "closed" ELSE pools[p]]
    /\ stage' = "stopping" /\ pool' = NoPool
    /\ UNCHANGED <<database, ready, callers, check, made>>
PoolClosed ==
    /\ stage = "closing"
    /\ \A c \in Callers : callers[c].has \notin ClosingPool
    /\ pools' = [p \in DOMAIN pools |-> IF p \in ClosingPool THEN "closed" ELSE pools[p]]
    /\ stage' = "stopping" /\ pool' = NoPool
    /\ UNCHANGED <<database, ready, callers, check, made>>

(* stop_health_server.                                                     *)
StopHealthServer ==
    /\ stage = "stopping"
    /\ stage' = "stopped"
    /\ UNCHANGED ready /\ OnlyStage

-----------------------------------------------------------------------------
CallEnds(c) == PoolCreated(c) \/ QueryDone(c) \/ CallFails(c)

ProbeCalls == GetPool(Probe) \/ CreatePool(Probe)

Proceeds == StartHealthServer \/ HealthServerFails \/ StartupEnds \/ PoolClosed \/ StopHealthServer

BootNext ==
    \/ \E c \in Callers : GetPool(c) \/ CreatePool(c) \/ CallEnds(c)
    \/ Proceeds
    \/ Shutdown

(* What the two handlers wait for ends: connecting and each command have   *)
(* timeouts, and nothing else in them waits for others.  Nothing is        *)
(* assumed of when messages and requests come, or the shutdown.            *)
Fairness ==
    /\ \A c \in Callers : WF_bootVars(CallEnds(c))
    /\ WF_bootVars(ProbeCalls) /\ WF_bootVars(Proceeds)

BootSpec == BootInit /\ [][BootNext]_bootVars /\ Fairness

-----------------------------------------------------------------------------
(* Properties *)

(* _pool is a pool that was made, and nobody has a pool that was not.      *)
BootTypeOK ==
    /\ database \in BOOLEAN /\ ready \in BOOLEAN
    /\ stage \in Stages /\ check \in {"none", "passed", "failed"}
    /\ DOMAIN pools \subseteq Pools /\ pools \in [DOMAIN pools -> {"open", "closing", "closed"}]
    /\ made \in [DOMAIN pools -> Maker]
    /\ pool \in DOMAIN pools \cup {NoPool}
    /\ callers \in [Callers -> Caller]
    /\ \A c \in Callers : callers[c].has \in DOMAIN pools \cup {NoPool}

(* Readiness is gated on the database check (health.py:9-10): traffic is   *)
(* let in only if the check of this start has passed or there is no        *)
(* database, and not any more once the shutdown has begun.                 *)
ReadyMeansChecked ==
    ready => /\ stage = "up"
             /\ database => check = "passed"

(* First callers that overlap each make a pool, and of those only the last *)
(* is ever closed; so does who asks after the close.  It goes no further:  *)
(* until the close no caller makes a second pool, and none after it,       *)
(* however often calls fail and are made again; and a pool is closed only  *)
(* when nobody uses it, and not handed out any more.                       *)
PoolsBounded ==
    /\ \A p, q \in DOMAIN pools :
         p # q /\ made[p].by = made[q].by => made[p].late # made[q].late
    /\ \A p \in DOMAIN pools : pools[p] = "closed" =>
         p # pool /\ \A c \in Callers : callers[c].has # p

(* Start-up comes to its end: ready, or unready for good because its one   *)
(* health check failed; callers of get_pool make no difference to it.      *)
StartupCompletes ==
    stage = "serving" ~> stage # "serving" /\ (ready \/ ShuttingDown \/ check = "failed")

(* A shutdown comes to its end, whatever queries are running.              *)
ShutdownCompletes == ShuttingDown ~> stage = "stopped"
=============================================================================
