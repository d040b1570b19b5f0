------------------------------- MODULE MCParts --------------------------------
(***************************************************************************)
(* The components that share no state with the others, checked in one run: *)
(* in each behaviour one of them moves, which part says, and the others    *)
(* stay in an initial state.  The properties of those that are instantiated *)
(* are restated here, with their constants, and so is the fairness.        *)
(***************************************************************************)
EXTENDS OrderPlacement, RegimeSwitching, CrossoverSignals, PullbackSignals,
        PaperBroker, BrokerRecords, StructureRules, TickRecord

VARIABLES
    part,
    day, phase, token, lots, kite, resolved, feed, feedToken, retry, checks,
    heard, login, refill, wedged, feedFaults, quiet,              \* FeedHealing
    market, listed, pool, fetched, activeSet, refreshed, must, tracked, watch,
    holds, pollFaults,                                                   \* TrackedUniverse
    link, mapped, replaced, opening, subscribed, held, byRest, quoted, shared,
    restarts                                                      \* Subscriptions

\* Strikes: all of them, some missing, and hardly any.
AllStrikes == 0 .. 44
SomeChains == {AllStrikes, {4, 8, 12, 14, 16, 17, 18, 22, 23, 24, 26, 28, 32},
               {6, 8, 12, 20, 28, 32, 34}}

Feed == INSTANCE FeedHealing WITH
    LastDay <- 2, MaxChecks <- 2, Cooldown <- 2, MaxFaults <- 2, faults <- feedFaults,
    since <- heard

Universe == INSTANCE TrackedUniverse WITH
    Symbols <- {"a", "b"}, Static <- {"a"}, PoolSize <- 1, WatchPolls <- 1,
    MaxPollFaults <- 1, held <- holds, snapshot <- fetched

Tokens == INSTANCE Subscriptions WITH
    Symbols <- {"a", "b"}, Traded <- {"a"}, MaxRestarts <- 1, rest <- byRest

feedState == <<day, phase, token, lots, kite, resolved, feed, feedToken, retry, checks,
               heard, login, refill, wedged, feedFaults, quiet>>
universeState == <<market, listed, pool, fetched, activeSet, refreshed, must,
                   tracked, watch, holds, pollFaults>>
contractState == <<link, mapped, replaced, opening, subscribed, held, byRest, quoted,
                   shared, restarts>>
partsVars == <<part, vars, ruleVars, paperVars, feedState, tickVars,
               universeState, contractState, regimeVars, recordsVars, crossVars,
               pullVars>>

\* One part moves alone.
PlacementOnly ==
    /\ part = "placement"
    /\ UNCHANGED <<part, ruleVars, paperVars, feedState, tickVars, universeState,
                   contractState, regimeVars, recordsVars, crossVars, pullVars>>
RulesOnly ==
    /\ part = "rules"
    /\ UNCHANGED <<part, vars, paperVars, feedState, tickVars, universeState,
                   contractState, regimeVars, recordsVars, crossVars, pullVars>>
PaperOnly ==
    /\ part = "paper"
    /\ UNCHANGED <<part, vars, ruleVars, feedState, tickVars, universeState,
                   contractState, regimeVars, recordsVars, crossVars, pullVars>>
FeedOnly ==
    /\ part = "feed"
    /\ UNCHANGED <<part, vars, ruleVars, paperVars, tickVars, universeState,
                   contractState, regimeVars, recordsVars, crossVars, pullVars>>
RecordOnly ==
    /\ part = "record"
    /\ UNCHANGED <<part, vars, ruleVars, paperVars, feedState, universeState,
                   contractState, regimeVars, recordsVars, crossVars, pullVars>>
UniverseOnly ==
    /\ part = "universe"
    /\ UNCHANGED <<part, vars, ruleVars, paperVars, feedState, tickVars,
                   contractState, regimeVars, recordsVars, crossVars, pullVars>>
ContractsOnly ==
    /\ part = "contracts"
    /\ UNCHANGED <<part, vars, ruleVars, paperVars, feedState, tickVars,
                   universeState, regimeVars, recordsVars, crossVars, pullVars>>
RegimeOnly ==
    /\ part = "regime"
    /\ UNCHANGED <<part, vars, ruleVars, paperVars, feedState, tickVars,
                   universeState, contractState, recordsVars, crossVars, pullVars>>
SyncOnly ==
    /\ part = "sync"
    /\ UNCHANGED <<part, vars, ruleVars, paperVars, feedState, tickVars,
                   universeState, contractState, regimeVars, crossVars, pullVars>>
CrossOnly ==
    /\ part = "cross"
    /\ UNCHANGED <<part, vars, ruleVars, paperVars, feedState, tickVars,
                   universeState, contractState, regimeVars, recordsVars, pullVars>>
PullbackOnly ==
    /\ part = "pullback"
    /\ UNCHANGED <<part, vars, ruleVars, paperVars, feedState, tickVars,
                   universeState, contractState, regimeVars, recordsVars, crossVars>>

PartsInit ==
    /\ part \in {"placement", "rules", "paper", "feed", "record", "universe",
                 "contracts", "regime", "sync", "cross", "pullback"}
    /\ Init /\ RulesInit /\ PaperInit /\ Feed!FeedInit
    /\ RecordInit /\ Universe!UniverseInit /\ Tokens!SubscriptionsInit
    /\ RegimeInit /\ RecordsInit /\ CrossInit /\ PullInit
    /\ part = "rules" \/ (chain = AllStrikes /\ price = 18 /\ vix = 1 /\ near = 9)
    /\ part = "feed" \/ phase = "night"
    /\ part = "contracts" \/ byRest

PartsNext ==
    \/ PlacementOnly /\ Next
    \/ RulesOnly     /\ RulesNext
    \/ PaperOnly     /\ PaperNext
    \/ FeedOnly      /\ Feed!FeedNext
    \/ RecordOnly    /\ RecordNext
    \/ UniverseOnly  /\ Universe!UniverseNext
    \/ ContractsOnly /\ Tokens!SubscriptionsNext
    \/ RegimeOnly    /\ RegimeNext
    \/ SyncOnly      /\ RecordsNext
    \/ CrossOnly     /\ CrossNext
    \/ PullbackOnly  /\ PullNext

\* The fairness of OrderPlacement, FeedHealing and TrackedUniverse.
PartsFair ==
    /\ WF_vars(part = "placement" /\ Call)
    /\ WF_feedState(part = "feed" /\ Feed!SelfHeal)
    /\ WF_feedState(part = "feed" /\ Feed!DeadMan)
    /\ WF_feedState(part = "feed" /\ Feed!TokenExpires)
    /\ WF_feedState(part = "feed" /\ Feed!RetryChecks)
    /\ WF_feedState(part = "feed" /\ Feed!RetryEnds)
    /\ SF_feedState(part = "feed" /\ Feed!Connects)
    /\ SF_feedState(part = "feed" /\ Feed!TokenRefused)
    /\ SF_feedState(part = "feed" /\ Feed!Ticks)
    /\ WF_universeState(part = "universe" /\ Universe!Poll)
    /\ WF_universeState(part = "universe" /\ Universe!SyncMustTrack)

PartsSpec == PartsInit /\ [][PartsNext]_partsVars /\ PartsFair

-----------------------------------------------------------------------------
(* What the components say of themselves.                                  *)

\* The types of all components.
PartsTypeOK ==
    /\ TypeOK /\ RulesTypeOK /\ PaperTypeOK /\ Feed!FeedTypeOK
    /\ RecordTypeOK /\ Universe!UniverseTypeOK /\ Tokens!SubscriptionsTypeOK
    /\ RegimeTypeOK /\ RecordsTypeOK /\ CrossTypeOK
    /\ PullTypeOK

\* place_order() of src/brokers/zerodha.py ends, whatever fails, and what it says is so.
CallAnswers ==
    /\ [](ReturnedIsTheOrder /\ RaisedIsDead)
    /\ part = "placement" ~> pc \in Done

\* A feed that is silent is noticed, and in a session the ticks and the lot sizes come
\* back, whatever has failed before.
FeedHeals == Feed!FeedHeals

\* What a position needs is polled and subscribed, whatever the pools and the tokens do
\* (TrackedUniverse, Subscriptions).
PositionsAreWatched ==
    /\ [](Universe!PoolIsActive) /\ Universe!HeldIsPolled
    /\ [](Tokens!WantedIsSubscribed /\ Tokens!HeldIsQuoted)
=============================================================================
