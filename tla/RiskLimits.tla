------------------------------ MODULE RiskLimits -------------------------------
(***************************************************************************)
(* The limits of src/risk/risk_manager.py over whole signal cycles: the    *)
(* sector cap, the number of positions, the daily loss and the kill switch *)
(* are compared with what the engine last told the risk manager of         *)
(* positions and losses, while orders fill, rest or time out, structures   *)
(* are closed by the cycle and beside it, reads fail, and operators        *)
(* intervene.  What a strategy has deployed is in OrderManager.            *)
(***************************************************************************)
EXTENDS Integers, FiniteSets

CONSTANTS
    Contracts,    \* the anchor legs of what may be entered
    Sector,       \* FNO_SECTORS, of their underlyings
    Legs,         \* how many positions each of them comes with
    SectorCap,    \* MAX_SECTOR_POSITIONS
    PositionCap,  \* rules["max_open_positions"]
    MaxEntries,   \* bound: orders accepted
    MaxFaults     \* bound: reads that fail

VARIABLES
    held,         \* broker: what has been filled and not closed
    resting,      \* broker: entry orders that may still fill
    lost,         \* journal: the trades closed today have lost the daily limit
    step,         \* the cycle: "idle", "expire", "exits", "checks", "entries"
    known,        \* engine: _broker_position_state_known
    counted,      \* current_open_positions
    loss,         \* daily_realized_pnl + daily_unrealized_pnl are a loss of the limit
    kill,         \* kill_switch_active
    limited,      \* the date from which the limit applies again has come
    unseen,       \* history: what is open, or still counted, and once was not counted
    blind,        \* history: the cycle's own reading of the positions failed
    due,          \* history: the limit was reached when the cycle could know it
    ignored,      \* history: an entry was accepted all the same
    entries, failures

limitVars == <<held, resting, lost, step, known, counted, loss, kill, limited, unseen,
               blind, due, ignored, entries, failures>>

\* What is assumed of the constants.
LimitsConstants ==
    /\ IsFiniteSet(Contracts) /\ Legs \in [Contracts -> Nat \ {0}]
    /\ SectorCap \in Nat /\ PositionCap \in Nat
    /\ MaxEntries \in Nat /\ MaxFaults \in Nat

Open == held \cup resting
Positions == UNION {{c} \X (1 .. Legs[c]) : c \in Contracts}
Anchor(c) == <<c, 1>>
Counted == {c \in Contracts : Anchor(c) \in counted}
Keep == unseen' = unseen \cap (held' \cup resting' \cup Counted)

LimitsTypeOK ==
    /\ held \subseteq Contracts /\ resting \subseteq Contracts
    /\ lost \in BOOLEAN
    /\ step \in {"idle", "expire", "exits", "checks", "entries"}
    /\ known \in BOOLEAN /\ counted \subseteq Positions
    /\ loss \in BOOLEAN /\ kill \in BOOLEAN /\ limited \in BOOLEAN
    /\ unseen \subseteq Contracts
    /\ blind \in BOOLEAN /\ due \in BOOLEAN /\ ignored \in BOOLEAN
    /\ entries \in 0 .. MaxEntries /\ failures \in 0 .. MaxFaults

LimitsInit ==
    /\ held = {} /\ resting = {} /\ lost = FALSE
    /\ step = "idle" /\ known = TRUE /\ counted = {} /\ loss = FALSE /\ kill = FALSE
    /\ limited \in BOOLEAN
    /\ unseen = {} /\ blind = FALSE /\ due = FALSE /\ ignored = FALSE
    /\ entries = 0 /\ failures = 0

-----------------------------------------------------------------------------
(* What the risk manager is told.                                          *)

\* _safe_get_positions(): a failure is an empty list and a flag.
Fetch(ok) ==
    /\ known' = ok /\ blind' = ~ok
    /\ counted' = IF ok THEN {p \in Positions : p[1] \in held} ELSE {}
    /\ unseen' = IF ok THEN (unseen \cap Open) \cup (resting \ held) ELSE Open

\* _refresh_risk_state(): losses that cannot be read are none; of positions that are not
\* known, and of quotes that are not cached, nothing is lost either.
Refresh(ok) ==
    \E floating \in IF counted' = {} THEN {FALSE} ELSE BOOLEAN :
        /\ loss' = ((ok /\ lost) \/ floating)
        /\ due' = (ok /\ limited /\ (lost \/ floating))

ReadState ==
    \E readable \in SUBSET {"positions", "journal"} :
        /\ Fetch("positions" \in readable) /\ Refresh("journal" \in readable)
        /\ failures + 2 - Cardinality(readable) <= MaxFaults
        /\ failures' = failures + 2 - Cardinality(readable)

-----------------------------------------------------------------------------
(* validate_trade(), for a leg that opens a position.                      *)

LimitReached == limited /\ loss

\* Layer 4: positions of the sector, on other contracts.
Crowded(c) ==
    /\ Sector[c] # "UNKNOWN"
    /\ Cardinality({p \in counted \ {Anchor(c)} : Sector[p[1]] = Sector[c]}) >= SectorCap

\* Layer 6.
Full(c) == Anchor(c) \notin counted /\ Cardinality(counted) >= PositionCap

Allowed(c) == ~kill /\ ~LimitReached /\ ~Crowded(c) /\ ~Full(c)

\* Layer 2: an entry that meets the limit trips the kill switch.
Tripped == kill \/ LimitReached

\* Mutant: what is entered is counted when the positions are read again.
CountLater(c) == unseen' = unseen \ {c} /\ UNCHANGED counted

\* place_order() counts what the broker has taken, and not what it has found after a
\* timeout, or not found out about.  What is counted already is let in as the position it
\* was.
Count(c) == counted' = counted \cup {Anchor(c)} /\ unseen' = unseen \ ({c} \ Counted)
Overlook(c) == unseen' = unseen \cup {c} /\ UNCHANGED counted

\* An order that is allowed: taken, and filled at once or not; timed out, and found or in
\* doubt; or refused.
Send(c, others) ==
    /\ entries < MaxEntries /\ entries' = entries + 1
    /\ ignored' = (ignored \/ due)
    /\ \/ Count(c) /\ held' = held \cup {c} /\ resting' = others
       \/ Count(c) /\ resting' = others \cup {c} /\ UNCHANGED held
       \/ Overlook(c) /\ resting' = others \cup {c} /\ UNCHANGED held
       \/ resting' = others /\ UNCHANGED <<held, counted>> /\ Keep

Place(c, others) ==
    /\ kill' = Tripped
    /\ IF Allowed(c) THEN Send(c, others)
       ELSE resting' = others /\ UNCHANGED <<held, counted, ignored, entries>> /\ Keep

-----------------------------------------------------------------------------
(* run_signal_cycle().                                                     *)

StartCycle ==
    /\ step = "idle" /\ step' = "expire" /\ ReadState
    /\ UNCHANGED <<held, resting, lost, kill, limited, ignored, entries>>

\* expire_stale_orders() cancels an entry, and may place it again.
Expire(c) ==
    /\ step = "expire" /\ c \in resting
    /\ \/ Place(c, resting \ {c})
       \/ resting' = resting \ {c}
          /\ UNCHANGED <<held, counted, kill, ignored, entries>> /\ Keep
    /\ UNCHANGED <<lost, step, known, loss, limited, blind, due, failures>>

StartExits ==
    /\ step = "expire" /\ step' = "exits"
    /\ UNCHANGED <<held, resting, lost, known, counted, loss, kill, limited, unseen,
                   blind, due, ignored, entries, failures>>

\* The positions are read again for the exits of options, and the losses after them.
EndExits ==
    /\ step = "exits" /\ step' = "checks" /\ ReadState
    /\ UNCHANGED <<held, resting, lost, kill, limited, ignored, entries>>

\* After the awaits of the regime detection the flag says whether to enter.
StartEntries ==
    /\ step = "checks" /\ step' = IF known THEN "entries" ELSE "idle"
    /\ UNCHANGED <<held, resting, lost, known, counted, loss, kill, limited, unseen,
                   blind, due, ignored, entries, failures>>

Enter(c) ==
    /\ step = "entries" /\ c \notin Open
    /\ Place(c, resting)
    /\ UNCHANGED <<lost, step, known, loss, limited, blind, due, failures>>

\* No more signals, or no entries in the first minutes or on stale data.
EndCycle ==
    /\ step \in {"checks", "entries"} /\ step' = "idle"
    /\ UNCHANGED <<held, resting, lost, known, counted, loss, kill, limited, unseen,
                   blind, due, ignored, entries, failures>>

-----------------------------------------------------------------------------
(* Beside the cycle.                                                       *)

\* An exit of the cycle, of the 10-second job or by hand.
Close(c) ==
    /\ c \in held /\ held' = held \ {c} /\ lost' \in {lost, TRUE}
    /\ UNCHANGED <<resting, step, known, counted, loss, kill, limited, blind, due,
                   ignored, entries, failures>> /\ Keep

\* It reads the positions for itself, and sets the flag.
ReadBeside ==
    /\ held # {}
    /\ \/ known' = TRUE /\ UNCHANGED failures
       \/ known' = FALSE /\ failures < MaxFaults /\ failures' = failures + 1
    /\ UNCHANGED <<held, resting, lost, step, counted, loss, kill, limited, unseen, blind,
                   due, ignored, entries>>

\* A resting order fills (what is left of one that fills in part is counted with it), or is
\* gone.
Fill(c) ==
    /\ c \in resting /\ resting' = resting \ {c}
    /\ held' \in {held, held \cup {c}} /\ Keep
    /\ UNCHANGED <<lost, step, known, counted, loss, kill, limited, blind, due, ignored,
                   entries, failures>>

\* on_market_open(): the kill switch stays, and trips if there is no token.
NextDay ==
    /\ step = "idle" /\ lost' = FALSE /\ loss' = FALSE
    /\ kill' \in {kill, TRUE} /\ limited' \in {limited, TRUE}
    /\ UNCHANGED <<held, resting, step, known, counted, unseen, blind, due, ignored,
                   entries, failures>>

\* POST /kill-switch/reset
ResetKillSwitch ==
    /\ kill /\ kill' = FALSE
    /\ UNCHANGED <<held, resting, lost, step, known, counted, loss, limited, unseen,
                   blind, due, ignored, entries, failures>>

\* A new process keeps neither the kill switch nor what it was told.
Restart ==
    /\ step' = "idle" /\ known' = TRUE /\ counted' = {} /\ loss' = FALSE /\ kill' = FALSE
    /\ UNCHANGED <<held, resting, lost, limited, unseen, blind, due, ignored, entries,
                   failures>>

LimitsNext ==
    \/ StartCycle \/ StartExits \/ EndExits \/ StartEntries \/ EndCycle
    \/ ReadBeside \/ NextDay \/ ResetKillSwitch \/ Restart
    \/ \E c \in Contracts : Expire(c) \/ Enter(c) \/ Close(c) \/ Fill(c)

LimitsSpec == LimitsInit /\ [][LimitsNext]_limitVars

-----------------------------------------------------------------------------
\* Of what was counted when it was entered and each time the positions were read, a sector
\* holds no more than its cap, and the book no more than it may: entries of one cycle see
\* each other (comment at the end of place_order()).  Orders that rested, or were found
\* after a timeout, and a reading that failed, are what exceeds it, and a contract that
\* exceeded it, was closed, and is entered again before the positions are read.
CapsHold ==
    /\ Cardinality(Open \ unseen) <= PositionCap
    /\ \A c \in Open : Sector[c] # "UNKNOWN" =>
          Cardinality({d \in Open \ unseen : Sector[d] = Sector[c]}) <= SectorCap

\* No order is sent to open a position once the trades of the day have lost the limit,
\* those included that the cycle itself has just closed, through resets of the kill switch,
\* restarts and nights, as far as the journal could be read.
LossIsHeeded == ~ignored

\* "run_signal_cycle() checks this immediately before the entry-signal loop and skips ALL
\* new entries for the cycle if the broker's real position state is unknown"
\* (LiveTradingEngine.__init__, at _broker_position_state_known).
UnknownBlocksEntries == step = "entries" => ~blind
=============================================================================
