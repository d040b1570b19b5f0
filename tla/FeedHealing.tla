----------------------------- MODULE FeedHealing ------------------------------
(***************************************************************************)
(* The connection to Zerodha's market data and what brings it back: the    *)
(* daily login (scripts/zerodha_auto_auth.py), the provisioning, self-heal *)
(* job and watchdogs of src/api/main.py, and the WebSocket of              *)
(* src/market_data/zerodha_ticker.py with its retry thread.                *)
(*                                                                         *)
(* Time goes by in runs of the self-heal job, three minutes apart.  A      *)
(* token is named after the day it was issued; Zerodha takes it on that    *)
(* day only, Redis keeps it for a day.  A restart of the process, which    *)
(* Docker does, is one step.                                               *)
(***************************************************************************)
EXTENDS Integers

CONSTANTS
    LastDay,     \* bound: days
    MaxChecks,   \* TOKEN_REFRESH_CHECK_MAX_ATTEMPTS
    Cooldown,    \* AUTH_RETRY_COOLDOWN_SECONDS, in runs of the job
    MaxFaults    \* bound: failures that nothing explains

Days == 1 .. LastDay
NoToken == 0
Phases == {"night", "morning", "open", "evening"}

\* is_auth_retry_window()
LoginWindow(phase) == phase \in {"morning", "open"}

\* A feed is stale at the second check: TICK_STALE_THRESHOLD_SECONDS is the time
\* from one check to the next.
Stale == 2
Never == Cooldown

VARIABLES
    day, phase,
    token,       \* zerodha:access_token in Redis
    lots,        \* the lot sizes are in Redis
    kite,        \* the token of the shared client, NoToken if there is none
    resolved,    \* the instrument tokens were resolved with it
    feed,        \* the ticker: "none", "connecting", "open", "mute", "closed"
    feedToken,   \* its access token
    retry,       \* its retry thread: "idle", "asleep" or "starting"
    checks,      \* that the thread has left
    since,       \* what seconds_since_last_tick() counts from, and how long
    login,       \* age of last_auth_retry_attempt
    refill,      \* age of last_instrument_cache_retry_attempt
    wedged,      \* the event loop hangs
    faults,      \* failures so far
    quiet        \* history: checks of an open market since the feed was heard of

redisVars == <<token, lots>>
tickerVars == <<feed, feedToken, retry, checks, since>>
jobVars == <<login, refill>>
feedVars == <<day, phase, redisVars, kite, resolved, tickerVars, jobVars,
              wedged, faults, quiet>>

\* The references, each hiding those before it.
References == {"none", "attempt", "connect", "tick"}
Older(kind) == CASE kind = "attempt" -> {"none", "attempt"}
                 [] kind = "connect" -> {"none", "attempt", "connect"}
                 [] kind = "tick"    -> References

FeedTypeOK ==
    /\ day \in Days /\ phase \in Phases
    /\ token \in {NoToken} \cup Days /\ kite \in {NoToken} \cup Days
    /\ {lots, resolved, wedged} \subseteq BOOLEAN
    /\ feed \in {"none", "connecting", "open", "mute", "closed"}
    /\ feedToken \in {NoToken} \cup Days
    /\ retry \in {"idle", "asleep", "starting"}
    /\ checks \in 0 .. MaxChecks
    /\ since \in [kind : References, age : 0 .. Stale]
    /\ login \in 0 .. Never /\ refill \in 0 .. Never
    /\ faults \in 0 .. MaxFaults
    /\ quiet \in Nat

\* A failure of the network or of Zerodha, while the bound allows one.
Fault == faults < MaxFaults /\ faults' = faults + 1
NoFault == UNCHANGED faults
Spend(outage) == IF outage THEN Fault ELSE NoFault

Works(t) == t = day

FeedInit ==
    /\ day = 1 /\ phase \in {"night", "open"}
    /\ token = NoToken /\ lots = FALSE
    /\ kite = NoToken /\ resolved = FALSE
    /\ feed = "none" /\ feedToken = NoToken /\ retry = "idle" /\ checks = 0
    /\ since = [kind |-> "none", age |-> 0]
    /\ login = Never /\ refill = Never
    /\ wedged = FALSE /\ faults = 0 /\ quiet = 0

-----------------------------------------------------------------------------
(* The login.                                                              *)

LoginFails == Fault /\ UNCHANGED redisVars

\* The dump of instruments does not come, or an empty one.
CachesFail == token' = day /\ Fault /\ UNCHANGED lots

\* run_daily_auth(): the token is stored before the caches are filled.
LogsIn == LoginFails \/ CachesFail \/ (token' = day /\ lots' = TRUE /\ NoFault)

\* The job of 08:30, which is missed when the process restarts in that minute.
DailyAuth ==
    /\ ~wedged /\ phase = "morning" /\ token # day
    /\ LogsIn
    /\ UNCHANGED <<day, phase, kite, resolved, tickerVars, jobVars, wedged, quiet>>

\* The keys of Redis expire.
TokenExpires ==
    /\ token # NoToken /\ ~Works(token) /\ LoginWindow(phase)
    /\ token' = NoToken
    /\ UNCHANGED <<day, phase, lots, kite, resolved, tickerVars, jobVars, wedged,
                   faults, quiet>>

LotsExpire ==
    /\ lots /\ phase = "night" /\ lots' = FALSE
    /\ UNCHANGED <<day, phase, token, kite, resolved, tickerVars, jobVars, wedged,
                   faults, quiet>>

-----------------------------------------------------------------------------
(* The ticker.                                                             *)

Seen(kind) == since' = IF since.kind \in Older(kind) THEN [kind |-> kind, age |-> 0]
                       ELSE since

\* start()
StartTicker(t) == feed' = "connecting" /\ feedToken' = t /\ Seen("attempt")

\* _on_connect()
Connects ==
    /\ feed = "connecting" /\ Works(feedToken)
    /\ feed' = "open" /\ Seen("connect") /\ quiet' = 0
    /\ UNCHANGED <<day, phase, redisVars, kite, resolved, feedToken, retry, checks,
                   jobVars, wedged, faults>>

\* _on_ticks(), which counts in market hours only.
Ticks ==
    /\ feed = "open" /\ phase = "open" /\ Works(feedToken)
    /\ Seen("tick")
    /\ since' # since \/ quiet # 0
    /\ quiet' = 0
    /\ UNCHANGED <<day, phase, redisVars, kite, resolved, feed, feedToken, retry,
                   checks, jobVars, wedged, faults>>

\* _schedule_token_refresh_retry(): not beside one that is in progress.
ScheduleRetry ==
    IF retry = "idle" THEN retry' = "asleep" /\ checks' = MaxChecks
    ELSE UNCHANGED <<retry, checks>>

\* _on_error() with a 403: the token is not taken.
TokenRefused ==
    /\ feed = "connecting" /\ ~Works(feedToken)
    /\ feed' = "closed" /\ ScheduleRetry
    /\ UNCHANGED <<day, phase, redisVars, kite, resolved, feedToken, since, jobVars,
                   wedged, faults, quiet>>

\* The connection is lost: KiteTicker reconnects, or gives up, _on_noreconnect(),
\* or says nothing any more.
Drops ==
    /\ feed \in {"open", "connecting"}
    /\ IF feed = "open" /\ ~Works(feedToken) THEN NoFault ELSE Fault
    /\ \/ feed' = "connecting" /\ UNCHANGED <<retry, checks>>
       \/ feed' = "closed" /\ ScheduleRetry
       \/ feed' = "mute" /\ UNCHANGED <<retry, checks>>
    /\ UNCHANGED <<day, phase, redisVars, kite, resolved, feedToken, since, jobVars,
                   wedged, quiet>>

\* _retry_with_fresh_token() looks into Redis once a minute.  A second start in one
\* process may come to nothing, silently: the reactor of KiteTicker runs once.
RetryChecks ==
    /\ retry = "asleep"
    /\ IF token \notin {NoToken, feedToken}
       THEN /\ \/ StartTicker(token)
               \/ feed' = "mute" /\ feedToken' = token /\ Seen("attempt")
            /\ retry' = "starting" /\ UNCHANGED checks
       ELSE /\ checks' = checks - 1
            /\ retry' = IF checks = 1 THEN "idle" ELSE "asleep"
            /\ UNCHANGED <<feed, feedToken, since>>
    /\ UNCHANGED <<day, phase, redisVars, kite, resolved, jobVars, wedged, faults, quiet>>

\* It is in progress until it has returned from start().
RetryEnds ==
    /\ retry = "starting" /\ retry' = "idle"
    /\ UNCHANGED <<day, phase, redisVars, kite, resolved, feed, feedToken, checks,
                   since, jobVars, wedged, faults, quiet>>

-----------------------------------------------------------------------------
(* The process.                                                            *)

\* _provision_kite() returns a client also when it could not get the instruments.
Provision(outage) == kite' = token /\ resolved' = (token # NoToken /\ ~outage)

\* lifespan(), with the token that is in Redis.
Lifespan(outage) ==
    /\ Provision(outage)
    /\ feedToken' = token
    /\ feed' = IF resolved' THEN "connecting" ELSE "none"
    /\ since' = [kind |-> IF resolved' THEN "attempt" ELSE "none", age |-> 0]
    /\ retry' = "idle" /\ checks' = 0
    /\ login' = Never /\ refill' = Never
    /\ wedged' = FALSE /\ quiet' = 0
    /\ Spend(outage)
    /\ UNCHANGED <<day, phase, token>>

Deploy == faults < MaxFaults /\ \E outage \in BOOLEAN : Lifespan(outage) /\ UNCHANGED lots

Wedge ==
    /\ ~wedged /\ Fault /\ wedged' = TRUE
    /\ UNCHANGED <<day, phase, redisVars, kite, resolved, tickerVars, jobVars, quiet>>

\* _scheduler_watchdog_thread(): the heartbeat job does not run.
DeadMan == wedged /\ \E outage \in BOOLEAN : Lifespan(outage) /\ UNCHANGED lots

-----------------------------------------------------------------------------
(* _kite_self_heal()                                                       *)

Cools(age) == IF age < Never THEN age + 1 ELSE age
CheckAge == IF since.age < Stale THEN since.age + 1 ELSE since.age

\* Without a token it logs in, now and then, and does nothing else.
HealLogin ==
    /\ token = NoToken
    /\ IF LoginWindow(phase) /\ login = Never
       THEN LogsIn /\ login' = 0
       ELSE login' = Cools(login) /\ UNCHANGED <<redisVars, faults>>
    /\ refill' = Cools(refill)
    /\ since' = [since EXCEPT !.age = CheckAge]
    /\ UNCHANGED <<day, phase, kite, resolved, feed, feedToken, retry, checks, wedged,
                   quiet>>

RefillIsDue == ~lots /\ LoginWindow(phase) /\ refill = Never

\* refresh_instrument_caches(), when instrument_caches_healthy() says no.
Refills(outage) == lots' = (lots \/ (RefillIsDue /\ Works(token) /\ ~outage))

\* A client that the start did not provision is provisioned now.
HealProvision ==
    /\ token # NoToken /\ kite = NoToken
    /\ \E outage \in BOOLEAN :
          /\ Spend(outage)
          /\ Provision(outage)
          /\ IF feed = "none" /\ resolved' THEN StartTicker(token)
             ELSE UNCHANGED <<feed, feedToken, since>>
          /\ Refills(outage)
    /\ refill' = IF RefillIsDue THEN 0 ELSE Cools(refill)
    /\ login' = Cools(login)
    /\ UNCHANGED <<day, phase, token, retry, checks, wedged, quiet>>

Watched == feed # "none" /\ phase = "open"

\* Mutant: an attempt that was not confirmed counts for nothing.
FeedIsStaleConfirmed ==
    since.kind \in {"connect", "tick"} /\ CheckAge >= Stale

\* seconds_since_last_tick() against the threshold.
FeedIsStale == since.kind # "none" /\ CheckAge >= Stale

\* A newer token goes to the shared client; empty caches are filled again.
HealCaches ==
    /\ token # NoToken /\ kite # NoToken
    /\ ~(Watched /\ FeedIsStale)
    /\ kite' = token
    /\ \E outage \in BOOLEAN : Spend(outage) /\ Refills(outage)
    /\ refill' = IF RefillIsDue THEN 0 ELSE Cools(refill)
    /\ login' = Cools(login)
    /\ since' = [since EXCEPT !.age = CheckAge]
    /\ quiet' = IF Watched THEN quiet + 1 ELSE quiet
    /\ UNCHANGED <<day, phase, token, resolved, feed, feedToken, retry, checks, wedged>>

\* Then the tick-staleness watchdog, for which only a new process helps.
Watchdog ==
    /\ token # NoToken /\ kite # NoToken
    /\ Watched /\ FeedIsStale
    /\ \E outage \in BOOLEAN : Refills(outage) /\ Lifespan(outage)

SelfHeal == ~wedged /\ (HealLogin \/ HealProvision \/ HealCaches \/ Watchdog)

-----------------------------------------------------------------------------
\* The retry thread has something to find, or Zerodha something to answer.
Due ==
    \/ retry = "asleep" /\ token \notin {NoToken, feedToken}
    \/ feed = "connecting" /\ ~Works(feedToken)

\* The hours of the day, at any pace, but each longer than the minute after which the
\* thread looks, and than an answer.
NextPhase ==
    /\ ~Due
    /\ \/ phase = "night" /\ phase' = "morning" /\ UNCHANGED day
       \/ phase = "morning" /\ phase' = "open" /\ UNCHANGED day
       \/ phase = "open" /\ phase' = "evening" /\ UNCHANGED day
       \/ phase = "evening" /\ phase' = "night" /\ day < LastDay /\ day' = day + 1
    /\ quiet' = 0
    /\ UNCHANGED <<redisVars, kite, resolved, tickerVars, jobVars, wedged, faults>>

FeedNext ==
    \/ DailyAuth \/ TokenExpires \/ LotsExpire
    \/ Connects \/ Ticks \/ TokenRefused \/ Drops \/ RetryChecks \/ RetryEnds
    \/ Deploy \/ Wedge \/ DeadMan \/ SelfHeal
    \/ NextPhase

\* The scheduler and the threads run, Redis expires its keys, and Zerodha answers.
FeedFair ==
    /\ WF_feedVars(SelfHeal) /\ WF_feedVars(DeadMan) /\ WF_feedVars(TokenExpires)
    /\ WF_feedVars(RetryChecks) /\ WF_feedVars(RetryEnds)
    /\ SF_feedVars(Connects) /\ SF_feedVars(TokenRefused) /\ SF_feedVars(Ticks)

FeedSpec == FeedInit /\ [][FeedNext]_feedVars /\ FeedFair

-----------------------------------------------------------------------------
(* What must hold.                                                         *)

\* A client without instruments: no ticker is made for it until the next start.
Stranded == kite # NoToken /\ ~resolved

\* In a session the ticks come back, whatever has failed before: a login that
\* was missed, a token of yesterday, a connection that is refused, gives up or
\* says nothing, a retry that gave up or was lost, a loop that hangs.
FeedComesBack ==
    phase = "open" ~> since = [kind |-> "tick", age |-> 0] \/ phase # "open" \/ Stranded

\* No feed stays silent in a session for twice the threshold without a restart of
\* the process, neither one whose connection was never confirmed nor one that
\* stopped: once, the retry thread may have started it again in the meantime.
\* (A connection that comes and goes is heard of each time, until its first tick.)
SilenceIsNoticed == quiet < 2 * Stale - 1

\* A retry sleeps only while there is no connection, which it would replace.
RetryOnlyWhenDown == retry = "asleep" => feed = "closed"

\* Lot sizes, without which no entry is made, come back as well.
LotsComeBack == phase = "open" ~> lots \/ phase # "open"

\* A silent feed is noticed, and what a session needs of it comes back.
FeedHeals == [](SilenceIsNoticed /\ RetryOnlyWhenDown) /\ FeedComesBack /\ LotsComeBack
=============================================================================
