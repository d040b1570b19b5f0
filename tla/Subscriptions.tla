---------------------------- MODULE Subscriptions -----------------------------
(***************************************************************************)
(* What Zerodha is asked to send: the stocks that the ticker subscribes    *)
(* (src/market_data/zerodha_ticker.py), which a weekly job changes while    *)
(* the connection comes and goes in a thread of its own, and the option    *)
(* contracts that the REST poller quotes                                   *)
(* (src/market_data/zerodha_ltp_poller.py) for the positions of the        *)
(* engine.                                                                 *)
(***************************************************************************)
EXTENDS Integers

CONSTANTS
    Symbols,      \* the F&O stocks
    Traded,       \* those that have positions
    MaxRestarts   \* bound

\* The kinds of positions: an option, or a spread that has the same contract as one
\* of its legs.
Positions == Traded \X {"single", "spread"}
Legs(p) == {<<p[1], "near">>} \cup (IF p[2] = "spread" THEN {<<p[1], "far">>} ELSE {})
LegsOf(P) == UNION {Legs(p) : p \in P}

VARIABLES
    link,        \* the ticker's connection: "down", "opening" or "up"
    mapped,      \* its instrument tokens
    replaced,    \* the tokens that set_instrument_tokens() is replacing
    opening,     \* the tokens _on_connect() is about to subscribe
    subscribed,  \* what Zerodha sends
    held,        \* the engine's positions
    rest,        \* there is a REST poller
    quoted,      \* its option contracts
    shared,      \* history: symbols with a contract of two positions
    restarts

linkVars == <<link, mapped, replaced, opening, subscribed>>
bookVars == <<held, rest, quoted, shared>>
subscriptionVars == <<linkVars, bookVars, restarts>>

SubscriptionsTypeOK ==
    /\ link \in {"down", "opening", "up"} /\ rest \in BOOLEAN
    /\ \A S \in {mapped, replaced, opening, subscribed, shared} : S \subseteq Symbols
    /\ held \subseteq Positions /\ quoted \subseteq LegsOf(Positions)
    /\ rest \/ quoted = {}
    /\ restarts \in 0 .. MaxRestarts

HeldSymbols == {p[1] : p \in held}
HeldTwice == {s \in Traded : {<<s, "single">>, <<s, "spread">>} \subseteq held}

SubscriptionsInit ==
    /\ link = "down" /\ mapped = Symbols /\ replaced = {}
    /\ opening = {} /\ subscribed = {}
    /\ held = {} /\ rest \in BOOLEAN /\ quoted = {} /\ shared = {}
    /\ restarts = 0

-----------------------------------------------------------------------------
(* The ticker.                                                             *)

\* _on_connect() takes the tokens and subscribes them, in the ticker's thread.
ConnectReads ==
    /\ link = "down" /\ link' = "opening" /\ opening' = mapped
    /\ UNCHANGED <<mapped, replaced, subscribed, bookVars, restarts>>

ConnectSubscribes ==
    /\ link = "opening" /\ link' = "up"
    /\ subscribed' = subscribed \cup opening /\ opening' = {}
    /\ UNCHANGED <<mapped, replaced, bookVars, restarts>>

Disconnect ==
    /\ link # "down" /\ link' = "down" /\ subscribed' = {} /\ opening' = {}
    /\ UNCHANGED <<mapped, replaced, bookVars, restarts>>

\* set_instrument_tokens() replaces the tokens.  _weekly_universe_refresh() calls it
\* with those it got, unless there are none.
SetTokens ==
    /\ replaced = {}
    /\ mapped' \in (SUBSET Symbols) \ {{}} /\ replaced' = mapped
    /\ UNCHANGED <<link, opening, subscribed, bookVars, restarts>>

\* Mutant: as it was before 2026-08-20, the next connection is to subscribe them.
PushNothing ==
    /\ replaced # {} /\ replaced' = {}
    /\ UNCHANGED <<link, mapped, opening, subscribed, bookVars, restarts>>

\* Then it tells the connection of the difference; one that is down does not hear it.
Push ==
    /\ replaced # {} /\ replaced' = {}
    /\ subscribed' = IF link = "down" THEN subscribed
                     ELSE (subscribed \cup (mapped \ replaced)) \ (replaced \ mapped)
    /\ UNCHANGED <<link, mapped, opening, bookVars, restarts>>

-----------------------------------------------------------------------------
(* The contracts.                                                          *)

\* register_option_contracts(), unregister_option_contracts()
Register(contracts) == quoted' = IF rest THEN quoted \cup contracts ELSE quoted
Unregister(contracts) == quoted' = quoted \ contracts

\* A position is opened.
Enter(p) ==
    /\ p \notin held
    /\ held' = held \cup {p} /\ Register(Legs(p))
    /\ shared' = IF p[1] \in HeldSymbols THEN shared \cup {p[1]} ELSE shared
    /\ UNCHANGED <<linkVars, rest, restarts>>

\* A position is closed.  The contract of a single option stays.
Exit(p) ==
    /\ p \in held
    /\ held' = held \ {p}
    /\ IF p[2] = "spread" THEN Unregister(Legs(p)) ELSE UNCHANGED quoted
    /\ UNCHANGED <<linkVars, rest, shared, restarts>>

\* attach_ltp_poller(): a new poller learns the contracts of all positions.
Attach == rest' = TRUE /\ quoted' = LegsOf(held) /\ shared' = HeldTwice

\* lifespan(), which attaches a REST poller, if there is a token for one, when the
\* engine has its positions back.
Restart ==
    /\ restarts < MaxRestarts /\ restarts' = restarts + 1
    /\ link' = "down" /\ mapped' = Symbols /\ replaced' = {}
    /\ opening' = {} /\ subscribed' = {}
    /\ \/ Attach
       \/ rest' = FALSE /\ quoted' = {} /\ shared' = HeldTwice
    /\ UNCHANGED held

\* _kite_self_heal() makes up for a poller that was not attached.
AttachLate ==
    /\ ~rest /\ Attach
    /\ UNCHANGED <<linkVars, held, restarts>>

SubscriptionsNext ==
    \/ ConnectReads \/ ConnectSubscribes \/ Disconnect \/ SetTokens \/ Push
    \/ \E p \in Positions : Enter(p) \/ Exit(p)
    \/ Restart \/ AttachLate

SubscriptionsSpec == SubscriptionsInit /\ [][SubscriptionsNext]_subscriptionVars

-----------------------------------------------------------------------------
(* What must hold.                                                         *)

\* What the ticker wants to hear of, it has subscribed, also when the weekly job
\* changes its tokens while the connection is opening in the thread of the ticker.
WantedIsSubscribed == link = "up" /\ replaced = {} => mapped \subseteq subscribed

\* The contracts of each position are quoted, also after a restart, and by a REST
\* poller that came late.  (Where two positions share a contract, the exit of the one
\* takes it from the other.)
HeldIsQuoted ==
    rest => \A p \in held : p[1] \in shared \/ Legs(p) \subseteq quoted
=============================================================================
