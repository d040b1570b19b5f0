--------------------------- MODULE TrackedUniverse ----------------------------
(***************************************************************************)
(* Which stocks are looked at, and by whom: the active list that a weekly  *)
(* job publishes (recompute_active_universe() of                           *)
(* scripts/zerodha_auto_auth.py, _weekly_universe_refresh() of             *)
(* src/api/main.py), the poller that follows it and ranks the candidates   *)
(* (src/market_data/ltp_poller.py), and the engine, whose positions have   *)
(* to be looked at whatever the active list says.                          *)
(*                                                                         *)
(* Scores are left out: any of the candidates may come out on top.         *)
(***************************************************************************)
EXTENDS Integers, FiniteSets

CONSTANTS
    Symbols,      \* the F&O stocks
    Static,       \* FNO_SYMBOLS, and the list the engine falls back on
    PoolSize,     \* ACTIVE_TRADING_SYMBOLS
    WatchPolls,   \* _EMA_WATCHLIST_BARS
    MaxPollFaults \* bound: polls that fail and restarts

VARIABLES
    market,      \* the market is open
    listed,      \* the active list in Redis, empty if it is not there
    pool,        \* a candidate pool in Redis, empty if it is not there
    snapshot,    \* market:universe_health is younger than 75 s
    activeSet,   \* _active_set of the poller
    refreshed,   \* it is not None
    must,        \* _must_track
    tracked,     \* symbols, the ones that are polled
    watch,       \* _ema_watchlist: polls left
    held,        \* the underlyings of the engine's positions
    pollFaults

redisVars == <<listed, pool, snapshot>>
pollVars == <<activeSet, refreshed, must, tracked, watch>>
universeVars == <<market, redisVars, pollVars, held, pollFaults>>

UniverseTypeOK ==
    /\ {market, snapshot, refreshed} \subseteq BOOLEAN
    /\ \A S \in {listed, pool, activeSet, must, tracked, held} : S \subseteq Symbols
    /\ watch \in [Symbols -> 0 .. WatchPolls]
    /\ pollFaults \in 0 .. MaxPollFaults

UniverseInit ==
    /\ market = FALSE /\ snapshot = FALSE
    /\ listed = {} /\ pool = {}
    /\ activeSet = {} /\ refreshed = FALSE /\ must = {} /\ tracked = Static
    /\ watch = [s \in Symbols |-> 0]
    /\ held = {} /\ pollFaults = 0

-----------------------------------------------------------------------------
(* The poller.                                                             *)

\* get_active_fno_symbols()
ActiveList == IF listed = {} THEN Static ELSE listed

\* _refresh_active_symbols()
Refresh ==
    /\ activeSet' = ActiveList /\ refreshed' = TRUE
    /\ tracked' = ActiveList \cup must

\* The prefetch fails: the pools stay what they are.
PollFails ==
    /\ market /\ pollFaults < MaxPollFaults /\ pollFaults' = pollFaults + 1
    /\ Refresh
    /\ UNCHANGED <<market, redisVars, must, watch, held>>

\* Only what is active competes, not what is polled for its position.
Candidates(scored) == scored \cap activeSet'

\* _publish_pool(): the best, and those of the watchlist.
Published(qualified, watched) ==
    {P \cup (watched \cap qualified) : P \in
        {Q \in SUBSET qualified :
            Cardinality(Q) = IF Cardinality(qualified) < PoolSize
                             THEN Cardinality(qualified) ELSE PoolSize}}

\* The watchlist gets shorter, and those whose averages are close enter it.
Watchlist(close) ==
    [s \in Symbols |-> IF s \in close THEN WatchPolls
                      ELSE IF watch[s] > 0 THEN watch[s] - 1 ELSE 0]

\* _prefetch_stale_histories(): of any of the symbols there may be a history.
WithHistory == SUBSET tracked'

\* _score_all(): any of the candidates may have a score that counts.
Scores(scored) == SUBSET Candidates(scored)

NewPools(qualified) == Published(qualified, {s \in Symbols : watch'[s] > 0})

\* poll()
Poll ==
    /\ market /\ Refresh
    /\ \E scored \in WithHistory :
       \E close \in Scores(scored), qualified \in Scores(scored) :
          /\ watch' = Watchlist(close)
          /\ pool' \in NewPools(qualified)
    /\ snapshot' = TRUE
    /\ UNCHANGED <<market, listed, must, held, pollFaults>>

SnapshotAges ==
    /\ snapshot /\ snapshot' = FALSE
    /\ UNCHANGED <<market, listed, pool, pollVars, held, pollFaults>>

-----------------------------------------------------------------------------
(* The engine.                                                             *)

\* _sync_must_track_underlyings(), in each signal cycle.
SyncMustTrack ==
    /\ market /\ must' = held
    /\ UNCHANGED <<market, redisVars, activeSet, refreshed, tracked, watch, held, pollFaults>>

\* _get_active_symbols(): without a pool, the static list.
Offered == IF pool = {} THEN Static ELSE pool

\* An entry needs a snapshot that is not stale, and data, which is polled.
EnterStock(s) ==
    /\ market /\ snapshot /\ s \in Offered \cap tracked
    /\ s \notin held /\ held' = held \cup {s}
    /\ UNCHANGED <<market, redisVars, pollVars, pollFaults>>

\* The last position of the underlying is closed.
ExitStock(s) ==
    /\ market
    /\ s \in held /\ held' = held \ {s}
    /\ UNCHANGED <<market, redisVars, pollVars, pollFaults>>

-----------------------------------------------------------------------------
\* recompute_active_universe(), on a Sunday: the list is published when there are
\* tokens and turnovers enough.
Weekly ==
    /\ ~market
    /\ listed' \in SUBSET Symbols
    /\ UNCHANGED <<market, pool, snapshot, pollVars, held, pollFaults>>

\* The market opens and closes; a night is longer than anything stays fresh.
Hours ==
    /\ market' = ~market /\ snapshot' = FALSE
    /\ UNCHANGED <<listed, pool, pollVars, held, pollFaults>>

\* lifespan(), which attaches the pollers to the engine when it has its positions
\* back; the REST poller only if there is a token.
Reattach ==
    /\ pollFaults < MaxPollFaults /\ pollFaults' = pollFaults + 1
    /\ activeSet' = {} /\ refreshed' = FALSE /\ tracked' = Static
    /\ must' = held
    /\ watch' = [s \in Symbols |-> 0]
    /\ UNCHANGED <<market, redisVars, held>>

UniverseNext ==
    \/ Poll \/ PollFails \/ SnapshotAges
    \/ SyncMustTrack \/ \E s \in Symbols : EnterStock(s) \/ ExitStock(s)
    \/ Weekly \/ Hours \/ Reattach

\* The jobs of the scheduler run.
UniverseFair == WF_universeVars(Poll) /\ WF_universeVars(SyncMustTrack)

UniverseSpec == UniverseInit /\ [][UniverseNext]_universeVars /\ UniverseFair

-----------------------------------------------------------------------------
(* What must hold.                                                         *)

\* A stock that left the active list and is polled for its position alone is no
\* candidate for an entry: neither by its score, nor by the watchlist it was on, nor by
\* a pool that a failed poll has left.
PoolIsActive == snapshot /\ refreshed => pool \subseteq activeSet

\* The underlying of a position is polled, or will be soon, whatever the active list is.
HeldIsPolled == market ~> held \subseteq tracked \/ ~market
=============================================================================
