--------------------------- MODULE RiskLimitsProofs ----------------------------
(***************************************************************************)
(* What is proved of RiskLimits: the caps on the book and on a sector and  *)
(* the daily loss, for any contracts, any caps and any number of entries   *)
(* and of reads that fail.                                                 *)
(***************************************************************************)
EXTENDS RiskLimits, FiniteSetTheorems, TLAPS

-----------------------------------------------------------------------------
(* Counting.                                                               *)

\* A finite set of contracts has finitely many positions.
LEMMA FinitelyManyPositions == ASSUME LimitsConstants PROVE IsFiniteSet(Positions)
<1> DEFINE of(c) == {c} \X (1 .. Legs[c])
           f == [c \in Contracts |-> of(c)]
           parts == {of(c) : c \in Contracts}
<1>1. IsFiniteSet(Contracts) /\ Legs \in [Contracts -> Nat \ {0}]
  BY DEF LimitsConstants
<1>2. f \in Surjection(Contracts, parts)
  BY DEF Surjection
<1>3. IsFiniteSet(parts)
  BY <1>1, <1>2, FS_Surjection
<1>4. ASSUME NEW c \in Contracts PROVE IsFiniteSet(of(c))
  <2>1. IsFiniteSet({c})
    BY FS_Singleton
  <2>2. Legs[c] \in Int
    BY <1>1
  <2>3. IsFiniteSet(1 .. Legs[c])
    BY <2>2, FS_Interval
  <2> QED BY <2>1, <2>3, FS_Product
<1>5. \A T \in parts : IsFiniteSet(T)
  BY <1>4
<1>6. IsFiniteSet(UNION parts)
  BY <1>3, <1>5, FS_UNION
<1> QED BY <1>6 DEF Positions

\* Contracts have different anchors: as many as are in the risk manager's list are
\* positions of it.
LEMMA AnchorsApart ==
    ASSUME NEW S, NEW T, IsFiniteSet(T), \A c \in S : Anchor(c) \in T
    PROVE  IsFiniteSet(S) /\ Cardinality(S) <= Cardinality(T)
<1> DEFINE f == [c \in S |-> Anchor(c)]
<1>1. f \in Injection(S, T)
  BY DEF Injection, IsInjective, Anchor
<1> QED BY <1>1, FS_Injection

LEMMA Smaller ==
    ASSUME LimitsConstants, NEW S \in SUBSET Contracts, NEW T \in SUBSET S
    PROVE  /\ IsFiniteSet(S) /\ Cardinality(S) \in Nat
           /\ IsFiniteSet(T) /\ Cardinality(T) \in Nat
           /\ Cardinality(T) <= Cardinality(S)
<1>1. IsFiniteSet(S)
  BY FS_Subset DEF LimitsConstants
<1>2. IsFiniteSet(T) /\ Cardinality(T) <= Cardinality(S)
  BY <1>1, FS_Subset
<1> QED BY <1>1, <1>2, FS_CardinalityType

LEMMA OneMore ==
    ASSUME LimitsConstants, NEW S \in SUBSET Contracts, NEW c,
           NEW n \in Nat, Cardinality(S) < n
    PROVE  Cardinality(S \cup {c}) <= n
<1>1. IsFiniteSet(S) /\ Cardinality(S) \in Nat
  BY Smaller
<1>2. Cardinality(S \cup {c}) \in {Cardinality(S), Cardinality(S) + 1}
  BY <1>1, FS_AddElement
<1> QED BY <1>1, <1>2

-----------------------------------------------------------------------------
(* Types.                                                                  *)

LEMMA AnchorIsPosition ==
    ASSUME LimitsConstants, NEW c \in Contracts PROVE Anchor(c) \in Positions
<1>1. Legs[c] \in Nat \ {0}
  BY DEF LimitsConstants
<1>2. 1 \in 1 .. Legs[c]
  BY <1>1
<1> QED BY <1>2 DEF Positions, Anchor

LEMMA ReadTyped ==
    ASSUME LimitsConstants, LimitsTypeOK, ReadState,
           UNCHANGED <<held, resting, lost, kill, limited, ignored, entries>>,
           step' \in {"idle", "expire", "exits", "checks", "entries"}
    PROVE  LimitsTypeOK'
<1>1. PICK readable \in SUBSET {"positions", "journal"} :
          /\ Fetch("positions" \in readable) /\ Refresh("journal" \in readable)
          /\ failures + 2 - Cardinality(readable) <= MaxFaults
          /\ failures' = failures + 2 - Cardinality(readable)
  BY DEF ReadState
<1>2. Cardinality(readable) \in Nat /\ Cardinality(readable) <= 2
  <2>1. IsFiniteSet({"positions"}) /\ Cardinality({"positions"}) = 1
    BY FS_Singleton
  <2>2. IsFiniteSet({"positions"} \cup {"journal"})
        /\ Cardinality({"positions"} \cup {"journal"}) \in {1, 2}
    BY <2>1, FS_AddElement
  <2>3. readable \in SUBSET ({"positions"} \cup {"journal"})
    OBVIOUS
  <2>4. IsFiniteSet(readable)
        /\ Cardinality(readable) <= Cardinality({"positions"} \cup {"journal"})
    BY <2>2, <2>3, FS_Subset
  <2>5. Cardinality(readable) \in Nat
    BY <2>4, FS_CardinalityType
  <2> QED BY <2>2, <2>4, <2>5
<1>3. failures' \in 0 .. MaxFaults
  BY <1>1, <1>2 DEF LimitsTypeOK, LimitsConstants
<1>4. known' \in BOOLEAN /\ blind' \in BOOLEAN /\ counted' \subseteq Positions
      /\ unseen' \subseteq Contracts
  BY <1>1 DEF Fetch, LimitsTypeOK, Open
<1>5. loss' \in BOOLEAN /\ due' \in BOOLEAN
  <2>1. PICK floating \in BOOLEAN :
            /\ loss' = (("journal" \in readable /\ lost) \/ floating)
            /\ due' = ("journal" \in readable /\ limited /\ (lost \/ floating))
    BY <1>1 DEF Refresh
  <2> QED BY <2>1
<1> QED BY <1>3, <1>4, <1>5 DEF LimitsTypeOK

LEMMA PlaceTyped ==
    ASSUME LimitsConstants, LimitsTypeOK, NEW c \in Contracts,
           NEW others \in SUBSET Contracts, Place(c, others),
           UNCHANGED <<lost, step, known, loss, limited, blind, due, failures>>
    PROVE  LimitsTypeOK'
<1>1. Anchor(c) \in Positions
  BY AnchorIsPosition
<1>2. kill' \in BOOLEAN
  BY DEF Place, Tripped, LimitReached, LimitsTypeOK
<1>3. CASE Send(c, others)
  <2>1. entries' \in 0 .. MaxEntries /\ ignored' \in BOOLEAN
    BY <1>3 DEF Send, LimitsTypeOK, LimitsConstants
  <2>2. held' \subseteq Contracts /\ resting' \subseteq Contracts
        /\ counted' \subseteq Positions /\ unseen' \subseteq Contracts
    BY <1>1, <1>3 DEF Send, Count, Overlook, Keep, LimitsTypeOK
  <2> QED BY <1>2, <2>1, <2>2 DEF LimitsTypeOK
<1>4. CASE resting' = others /\ UNCHANGED <<held, counted, ignored, entries>> /\ Keep
  BY <1>2, <1>4 DEF LimitsTypeOK, Keep
<1> QED BY <1>3, <1>4 DEF Place

LEMMA LimitsTypedStep ==
    ASSUME LimitsConstants, LimitsTypeOK, [LimitsNext]_limitVars
    PROVE  LimitsTypeOK'
<1>1. CASE StartCycle
  BY <1>1, ReadTyped DEF StartCycle
<1>2. CASE EndExits
  BY <1>2, ReadTyped DEF EndExits
<1>3. CASE StartExits \/ StartEntries \/ EndCycle
  BY <1>3 DEF StartExits, StartEntries, EndCycle, LimitsTypeOK
<1>4. CASE ReadBeside
  <2>1. known' \in BOOLEAN
    BY <1>4 DEF ReadBeside
  <2>2. failures' \in 0 .. MaxFaults
    BY <1>4 DEF ReadBeside, LimitsTypeOK, LimitsConstants
  <2> QED BY <1>4, <2>1, <2>2 DEF ReadBeside, LimitsTypeOK
<1>5. CASE NextDay \/ ResetKillSwitch \/ Restart
  <2>1. kill' \in BOOLEAN /\ limited' \in BOOLEAN /\ lost' \in BOOLEAN
        /\ loss' \in BOOLEAN /\ known' \in BOOLEAN
    BY <1>5 DEF NextDay, ResetKillSwitch, Restart, LimitsTypeOK
  <2>2. UNCHANGED <<held, resting, unseen, blind, due, ignored, entries, failures>>
        /\ step' \in {step, "idle"} /\ counted' \in {counted, {}}
    BY <1>5 DEF NextDay, ResetKillSwitch, Restart
  <2> QED BY <2>1, <2>2 DEF LimitsTypeOK
<1>6. ASSUME NEW c \in Contracts, Expire(c) PROVE LimitsTypeOK'
  <2>1. resting \ {c} \in SUBSET Contracts
    BY DEF LimitsTypeOK
  <2>2. CASE Place(c, resting \ {c})
    BY <1>6, <2>1, <2>2, PlaceTyped DEF Expire
  <2>3. CASE resting' = resting \ {c}
             /\ UNCHANGED <<held, counted, kill, ignored, entries>> /\ Keep
    BY <1>6, <2>3 DEF Expire, Keep, LimitsTypeOK
  <2> QED BY <1>6, <2>2, <2>3 DEF Expire
<1>7. ASSUME NEW c \in Contracts, Enter(c) PROVE LimitsTypeOK'
  <2>1. resting \in SUBSET Contracts
    BY DEF LimitsTypeOK
  <2> QED BY <1>7, <2>1, PlaceTyped DEF Enter
<1>8. ASSUME NEW c \in Contracts, Close(c) PROVE LimitsTypeOK'
  BY <1>8 DEF Close, Keep, LimitsTypeOK
<1>9. ASSUME NEW c \in Contracts, Fill(c) PROVE LimitsTypeOK'
  BY <1>9 DEF Fill, Keep, LimitsTypeOK
<1>10. CASE UNCHANGED limitVars
  BY <1>10 DEF limitVars, LimitsTypeOK
<1> QED
  <2>1. CASE \E c \in Contracts : Expire(c) \/ Enter(c) \/ Close(c) \/ Fill(c)
    BY <1>6, <1>7, <1>8, <1>9, <2>1
  <2> QED BY <1>1, <1>2, <1>3, <1>4, <1>5, <1>10, <2>1 DEF LimitsNext

LEMMA LimitsTypedInit == ASSUME LimitsConstants, LimitsInit PROVE LimitsTypeOK
<1>1. 0 \in 0 .. MaxEntries /\ 0 \in 0 .. MaxFaults
  BY DEF LimitsConstants
<1> QED BY <1>1 DEF LimitsInit, LimitsTypeOK

\* What the risk manager is told, and what it decides by, keeps its types.
THEOREM LimitsStayTyped == ASSUME LimitsConstants PROVE LimitsSpec => []LimitsTypeOK
<1>1. LimitsInit => LimitsTypeOK
  BY LimitsTypedInit
<1>2. LimitsTypeOK /\ [LimitsNext]_limitVars => LimitsTypeOK'
  BY LimitsTypedStep
<1> QED BY <1>1, <1>2, PTL DEF LimitsSpec

-----------------------------------------------------------------------------
(* The caps and the loss.  CapsHold is not inductive: an entry is compared  *)
(* with what the risk manager has counted, not with what is open.  CapsInv  *)
(* says what the two have to do with each other while a cycle runs: what    *)
(* was never overlooked is counted, and what is counted and was never       *)
(* overlooked keeps to the cap, also when it has been closed since.         *)

Seen == Open \ unseen
OfSector(c) == {d \in Seen : Sector[d] = Sector[c]}

Capped ==
    /\ Cardinality(Seen) <= PositionCap
    /\ \A c \in Contracts :
           Sector[c] # "UNKNOWN" => Cardinality(OfSector(c)) <= SectorCap

Informed ==
    /\ Seen \subseteq Counted
    /\ Cardinality(Counted \ unseen) <= PositionCap
    /\ due => LimitReached

CapsInv ==
    /\ Capped
    /\ step # "idle" => Informed
    /\ ~ignored

LEMMA FewerAreCapped ==
    ASSUME LimitsConstants, LimitsTypeOK, Capped, Seen' \subseteq Seen PROVE Capped'
<1>1. Seen \in SUBSET Contracts /\ PositionCap \in Nat /\ SectorCap \in Nat
  BY DEF Seen, Open, LimitsTypeOK, LimitsConstants
<1>2. Cardinality(Seen') <= PositionCap
  <2>1. Cardinality(Seen') \in Nat /\ Cardinality(Seen) \in Nat
        /\ Cardinality(Seen') <= Cardinality(Seen)
    BY <1>1, Smaller
  <2> QED BY <1>1, <2>1 DEF Capped
<1>3. ASSUME NEW c \in Contracts, Sector[c] # "UNKNOWN"
      PROVE  Cardinality(OfSector(c)') <= SectorCap
  <2>1. OfSector(c)' \subseteq OfSector(c) /\ OfSector(c) \in SUBSET Contracts
    BY <1>1 DEF OfSector
  <2>2. Cardinality(OfSector(c)') \in Nat /\ Cardinality(OfSector(c)) \in Nat
        /\ Cardinality(OfSector(c)') <= Cardinality(OfSector(c))
    BY <2>1, Smaller
  <2>3. Cardinality(OfSector(c)) <= SectorCap
    BY <1>3 DEF Capped
  <2> QED BY <1>1, <2>2, <2>3
<1> QED BY <1>2, <1>3 DEF Capped

\* What is told of positions and losses is what there is.
LEMMA ToldIsSo ==
    ASSUME LimitsConstants, LimitsTypeOK, Capped, ReadState,
           UNCHANGED <<held, resting, limited>>
    PROVE  Capped' /\ Informed'
<1>1. PICK readable \in SUBSET {"positions", "journal"} :
          Fetch("positions" \in readable) /\ Refresh("journal" \in readable)
  BY DEF ReadState
<1>2. due' => LimitReached'
  BY <1>1 DEF Refresh, LimitReached
<1>3. CASE "positions" \in readable
  <2>1. counted' = {p \in Positions : p[1] \in held}
        /\ unseen' = (unseen \cap Open) \cup (resting \ held)
    BY <1>1, <1>3 DEF Fetch
  <2>2. Seen' = held \ ((unseen \cap Open) \cup (resting \ held))
    BY <2>1 DEF Seen, Open
  <2>3. Seen' \subseteq Seen
    BY <2>2 DEF Seen, Open
  <2>4. ASSUME NEW c \in Contracts PROVE c \in Counted' <=> c \in held
    BY <2>1, AnchorIsPosition DEF Counted, Anchor
  <2>5. Seen' \subseteq Counted' /\ Counted' \ unseen' \subseteq Seen
    <3>1. held \subseteq Contracts /\ Counted' \subseteq Contracts
      BY DEF LimitsTypeOK, Counted
    <3> QED BY <2>1, <2>2, <2>4, <3>1 DEF Seen, Open
  <2>6. Cardinality(Counted' \ unseen') <= PositionCap
    <3>1. Seen \in SUBSET Contracts /\ PositionCap \in Nat
      BY DEF Seen, Open, LimitsTypeOK, LimitsConstants
    <3>2. Cardinality(Counted' \ unseen') \in Nat /\ Cardinality(Seen) \in Nat
          /\ Cardinality(Counted' \ unseen') <= Cardinality(Seen)
      BY <2>5, <3>1, Smaller
    <3> QED BY <3>1, <3>2 DEF Capped
  <2> QED BY <1>2, <2>3, <2>5, <2>6, FewerAreCapped DEF Informed
<1>4. CASE "positions" \notin readable
  <2>1. counted' = {} /\ unseen' = Open
    BY <1>1, <1>4 DEF Fetch
  <2>2. Seen' = {} /\ Counted' = {}
    BY <2>1 DEF Seen, Open, Counted
  <2>3. Counted' \ unseen' = {}
    BY <2>2
  <2>4. Cardinality(Counted' \ unseen') <= PositionCap
    BY <2>3, FS_EmptySet DEF LimitsConstants
  <2> QED BY <1>2, <2>2, <2>4, FewerAreCapped DEF Informed
<1> QED BY <1>3, <1>4

\* Nothing is counted, and nothing overlooked that is counted is forgotten.
LEMMA FewerAreSound ==
    ASSUME LimitsConstants, LimitsTypeOK, CapsInv, Seen' \subseteq Seen,
           UNCHANGED <<counted, ignored>>, unseen \cap Counted \subseteq unseen',
           step' # "idle" => step # "idle" /\ (due' => LimitReached')
    PROVE  CapsInv'
<1>1. Capped'
  BY FewerAreCapped DEF CapsInv
<1>2. ASSUME step' # "idle" PROVE Informed'
  <2>1. Informed
    BY <1>2 DEF CapsInv
  <2>2. Counted' = Counted /\ Counted \in SUBSET Contracts
    BY DEF Counted
  <2>3. Counted' \ unseen' \subseteq Counted \ unseen
    BY <2>2
  <2>4. Cardinality(Counted' \ unseen') <= PositionCap
    <3>1. Counted \ unseen \in SUBSET Contracts /\ PositionCap \in Nat
      BY <2>2 DEF LimitsConstants
    <3>2. Cardinality(Counted' \ unseen') \in Nat
          /\ Cardinality(Counted \ unseen) \in Nat
          /\ Cardinality(Counted' \ unseen') <= Cardinality(Counted \ unseen)
      BY <2>3, <3>1, Smaller
    <3> QED BY <2>1, <3>1, <3>2 DEF Informed
  <2> QED BY <1>2, <2>1, <2>2, <2>4 DEF Informed
<1> QED BY <1>1, <1>2 DEF CapsInv

\* An order that validate_trade() allows and place_order() counts.
LEMMA CountedIsCapped ==
    ASSUME LimitsConstants, LimitsTypeOK, Capped, Informed, NEW c \in Contracts,
           Allowed(c), Count(c), Open' \subseteq Open \cup {c},
           UNCHANGED <<due, limited, loss>>
    PROVE  Capped' /\ Informed'
<1>1. /\ Seen \in SUBSET Contracts /\ Counted \in SUBSET Contracts
      /\ PositionCap \in Nat /\ SectorCap \in Nat
  BY DEF Seen, Open, Counted, LimitsTypeOK, LimitsConstants
<1>2. IsFiniteSet(counted)
  BY FinitelyManyPositions, FS_Subset DEF LimitsTypeOK
<1>3. Counted' = Counted \cup {c}
  BY <1>1 DEF Count, Counted, Anchor
<1>4. Seen' \subseteq Seen \cup {c} /\ Seen' \subseteq Counted'
  BY <1>3 DEF Seen, Count, Informed
<1>5. ASSUME c \in Counted
      PROVE  /\ Cardinality(Seen') <= PositionCap
             /\ Cardinality(Counted' \ unseen') <= PositionCap
  <2>1. Counted' = Counted /\ unseen' = unseen
    BY <1>3, <1>5 DEF Count
  <2>2. Seen' \subseteq Counted \ unseen
    BY <1>4, <2>1 DEF Seen
  <2>3. Counted \ unseen \in SUBSET Contracts
    BY <1>1
  <2>4. /\ Cardinality(Seen') \in Nat /\ Cardinality(Counted \ unseen) \in Nat
        /\ Cardinality(Seen') <= Cardinality(Counted \ unseen)
    BY <2>2, <2>3, Smaller
  <2> QED BY <1>1, <2>1, <2>4 DEF Informed
<1>6. ASSUME c \notin Counted
      PROVE  /\ Cardinality(Seen') <= PositionCap
             /\ Cardinality(Counted' \ unseen') <= PositionCap
  <2>1. Cardinality(counted) \in Nat /\ Cardinality(counted) < PositionCap
    <3>1. Cardinality(counted) \in Nat
      BY <1>2, FS_CardinalityType
    <3>2. Anchor(c) \notin counted
      BY <1>6 DEF Counted
    <3> QED BY <1>1, <3>1, <3>2 DEF Allowed, Full
  <2>2. Cardinality(Counted \ unseen) < PositionCap
    <3>1. \A d \in Counted \ unseen : Anchor(d) \in counted
      BY DEF Counted
    <3>2. Cardinality(Counted \ unseen) <= Cardinality(counted)
      BY <1>2, <3>1, AnchorsApart
    <3>3. Cardinality(Counted \ unseen) \in Nat
      BY <1>1, Smaller
    <3> QED BY <1>1, <2>1, <3>2, <3>3
  <2>3. Cardinality((Counted \ unseen) \cup {c}) <= PositionCap
    <3>1. Counted \ unseen \in SUBSET Contracts
      BY <1>1
    <3> QED BY <1>1, <2>2, <3>1, OneMore
  <2>4. /\ (Counted \ unseen) \cup {c} \in SUBSET Contracts
        /\ Seen' \subseteq (Counted \ unseen) \cup {c}
        /\ Counted' \ unseen' \subseteq (Counted \ unseen) \cup {c}
    BY <1>1, <1>3, <1>4 DEF Count, Informed, Seen
  <2>5. /\ Cardinality((Counted \ unseen) \cup {c}) \in Nat
        /\ Cardinality(Seen') \in Nat /\ Cardinality(Counted' \ unseen') \in Nat
        /\ Cardinality(Seen') <= Cardinality((Counted \ unseen) \cup {c})
        /\ Cardinality(Counted' \ unseen')
             <= Cardinality((Counted \ unseen) \cup {c})
    BY <2>4, Smaller
  <2> QED BY <1>1, <2>3, <2>5
<1>7. Cardinality(Seen') <= PositionCap
      /\ Cardinality(Counted' \ unseen') <= PositionCap
  BY <1>5, <1>6
<1>8. ASSUME NEW d \in Contracts, Sector[d] # "UNKNOWN"
      PROVE  Cardinality(OfSector(d)') <= SectorCap
  <2>1. OfSector(d) \in SUBSET Contracts /\ OfSector(d)' \subseteq OfSector(d) \cup {c}
    BY <1>1, <1>4 DEF OfSector
  <2>2. CASE Sector[c] = Sector[d]
    <3> DEFINE near == {p \in counted \ {Anchor(c)} : Sector[p[1]] = Sector[c]}
    <3>1. IsFiniteSet(near) /\ Cardinality(near) \in Nat
      <4>1. near \in SUBSET counted
        OBVIOUS
      <4> QED BY <1>2, <4>1, FS_Subset, FS_CardinalityType
    <3>2. Cardinality(near) < SectorCap
      <4>1. ~Crowded(c)
        BY DEF Allowed
      <4>2. ~(Cardinality(near) >= SectorCap)
        BY <1>8, <2>2, <4>1 DEF Crowded
      <4> QED BY <1>1, <3>1, <4>2
    <3>3. \A e \in OfSector(d) \ {c} : Anchor(e) \in near
      BY <2>2 DEF OfSector, Informed, Counted, Anchor
    <3>4. OfSector(d) \ {c} \in SUBSET Contracts
      BY <2>1
    <3>5. Cardinality(OfSector(d) \ {c}) < SectorCap
      <4> HIDE DEF near
      <4>1. Cardinality(OfSector(d) \ {c}) <= Cardinality(near)
        BY <3>1, <3>3, AnchorsApart
      <4>2. Cardinality(OfSector(d) \ {c}) \in Nat
        BY <3>4, Smaller
      <4> QED BY <1>1, <3>1, <3>2, <4>1, <4>2
    <3>6. Cardinality((OfSector(d) \ {c}) \cup {c}) <= SectorCap
      BY <1>1, <3>4, <3>5, OneMore
    <3>7. (OfSector(d) \ {c}) \cup {c} \in SUBSET Contracts
          /\ OfSector(d)' \subseteq (OfSector(d) \ {c}) \cup {c}
      BY <2>1
    <3>8. Cardinality(OfSector(d)') \in Nat
          /\ Cardinality((OfSector(d) \ {c}) \cup {c}) \in Nat
          /\ Cardinality(OfSector(d)') <= Cardinality((OfSector(d) \ {c}) \cup {c})
      BY <3>7, Smaller
    <3> QED BY <1>1, <3>6, <3>8
  <2>3. CASE Sector[c] # Sector[d]
    <3>1. OfSector(d)' \subseteq OfSector(d)
      BY <1>4, <2>3 DEF OfSector
    <3>2. Cardinality(OfSector(d)') \in Nat /\ Cardinality(OfSector(d)) \in Nat
          /\ Cardinality(OfSector(d)') <= Cardinality(OfSector(d))
      BY <2>1, <3>1, Smaller
    <3>3. Cardinality(OfSector(d)) <= SectorCap
      BY <1>8 DEF Capped
    <3> QED BY <1>1, <3>2, <3>3
  <2> QED BY <2>2, <2>3
<1>9. (due => LimitReached)'
  BY DEF LimitReached, Informed
<1> QED BY <1>4, <1>7, <1>8, <1>9 DEF Capped, Informed

\* Any placement of a cycle that is running: _safe_get_positions() has told what is open.
LEMMA PlaceIsSound ==
    ASSUME LimitsConstants, LimitsTypeOK, CapsInv, step # "idle", NEW c \in Contracts,
           NEW others \in SUBSET resting, Place(c, others),
           UNCHANGED <<step, due, limited, loss>>
    PROVE  CapsInv'
<1>1. Informed
  BY DEF CapsInv
<1>2. LimitReached' = LimitReached
  BY DEF LimitReached
<1>3. CASE ~Allowed(c)
  <2>1. resting' = others /\ UNCHANGED <<held, counted, ignored>> /\ Keep
    BY <1>3 DEF Place
  <2>2. Seen' \subseteq Seen /\ unseen \cap Counted \subseteq unseen'
    BY <2>1 DEF Seen, Open, Keep
  <2> QED BY <1>1, <1>2, <2>1, <2>2, FewerAreSound DEF Informed
<1>4. CASE Allowed(c) /\ Send(c, others)
  <2>1. ignored' = FALSE
    <3>1. ~LimitReached
      BY <1>4 DEF Allowed
    <3>2. ~due /\ ~ignored
      BY <1>1, <3>1 DEF Informed, CapsInv
    <3> QED BY <1>4, <3>2 DEF Send
  <2>2. CASE /\ Count(c)
             /\ \/ held' = held \cup {c} /\ resting' = others
                \/ resting' = others \cup {c} /\ UNCHANGED held
    <3>1. Open' \subseteq Open \cup {c}
      BY <2>2 DEF Open
    <3>2. Capped' /\ Informed'
      BY <1>1, <1>4, <2>2, <3>1, CountedIsCapped DEF CapsInv
    <3> QED BY <2>1, <3>2 DEF CapsInv
  <2>3. CASE Overlook(c) /\ resting' = others \cup {c} /\ UNCHANGED held
    <3>1. Seen' \subseteq Seen /\ unseen \cap Counted \subseteq unseen'
          /\ UNCHANGED counted
      BY <2>3 DEF Seen, Open, Overlook
    <3>2. UNCHANGED ignored
      BY <2>1 DEF CapsInv, LimitsTypeOK
    <3> QED BY <1>1, <1>2, <3>1, <3>2, FewerAreSound DEF Informed
  <2>4. CASE resting' = others /\ UNCHANGED <<held, counted>> /\ Keep
    <3>1. Seen' \subseteq Seen /\ unseen \cap Counted \subseteq unseen'
      BY <2>4 DEF Seen, Open, Keep
    <3>2. UNCHANGED ignored
      BY <2>1 DEF CapsInv, LimitsTypeOK
    <3> QED BY <1>1, <1>2, <2>4, <3>1, <3>2, FewerAreSound DEF Informed
  <2> QED BY <1>4, <2>2, <2>3, <2>4 DEF Send
<1> QED BY <1>3, <1>4 DEF Place

LEMMA CapsStep ==
    ASSUME LimitsConstants, LimitsTypeOK, CapsInv, [LimitsNext]_limitVars
    PROVE  CapsInv'
<1>1. CASE StartCycle \/ EndExits
  <2>1. Capped' /\ Informed' /\ UNCHANGED ignored
    BY <1>1, ToldIsSo DEF StartCycle, EndExits, CapsInv
  <2> QED BY <2>1 DEF CapsInv
<1>2. CASE StartExits \/ StartEntries \/ EndCycle \/ ReadBeside
  <2>1. /\ UNCHANGED <<held, resting, counted, unseen, limited, loss, due, ignored>>
        /\ step' # "idle" => step # "idle"
    BY <1>2 DEF StartExits, StartEntries, EndCycle, ReadBeside
  <2>2. Seen' \subseteq Seen /\ LimitReached' = LimitReached
    BY <2>1 DEF Seen, Open, LimitReached
  <2> QED BY <2>1, <2>2, FewerAreSound DEF CapsInv, Informed
<1>3. CASE NextDay
  <2>1. UNCHANGED <<held, resting, counted, unseen, ignored>> /\ step' = "idle"
    BY <1>3 DEF NextDay
  <2>2. Seen' \subseteq Seen
    BY <2>1 DEF Seen, Open
  <2> QED BY <2>1, <2>2, FewerAreSound
<1>4. CASE ResetKillSwitch
  <2>1. UNCHANGED <<held, resting, counted, unseen, limited, loss, due, ignored, step>>
    BY <1>4 DEF ResetKillSwitch
  <2>2. Seen' \subseteq Seen /\ LimitReached' = LimitReached
    BY <2>1 DEF Seen, Open, LimitReached
  <2> QED BY <2>1, <2>2, FewerAreSound DEF CapsInv, Informed
<1>5. CASE Restart
  <2>1. UNCHANGED <<held, resting, unseen, ignored>> /\ step' = "idle"
    BY <1>5 DEF Restart
  <2>2. Seen' \subseteq Seen
    BY <2>1 DEF Seen, Open
  <2> QED BY <2>1, <2>2, FewerAreCapped DEF CapsInv
<1>6. ASSUME NEW c \in Contracts, Expire(c) PROVE CapsInv'
  <2>1. step # "idle" /\ resting \ {c} \in SUBSET resting
        /\ UNCHANGED <<step, due, limited, loss>>
    BY <1>6 DEF Expire
  <2>2. CASE Place(c, resting \ {c})
    BY <2>1, <2>2, PlaceIsSound
  <2>3. CASE /\ resting' = resting \ {c}
             /\ UNCHANGED <<held, counted, kill, ignored, entries>> /\ Keep
    <3>1. Seen' \subseteq Seen /\ unseen \cap Counted \subseteq unseen'
      BY <2>3 DEF Seen, Open, Keep
    <3>2. LimitReached' = LimitReached
      BY <2>1 DEF LimitReached
    <3> QED BY <2>1, <2>3, <3>1, <3>2, FewerAreSound DEF CapsInv, Informed
  <2> QED BY <1>6, <2>2, <2>3 DEF Expire
<1>7. ASSUME NEW c \in Contracts, Enter(c) PROVE CapsInv'
  <2>1. step # "idle" /\ UNCHANGED <<step, due, limited, loss>> /\ Place(c, resting)
    BY <1>7 DEF Enter
  <2>2. resting \in SUBSET resting
    OBVIOUS
  <2> QED BY <2>1, <2>2, PlaceIsSound
<1>8. ASSUME NEW c \in Contracts, Close(c) \/ Fill(c) PROVE CapsInv'
  <2>1. UNCHANGED <<step, counted, limited, loss, due, ignored>> /\ Keep
    BY <1>8 DEF Close, Fill
  <2>2. Open' \subseteq Open
    BY <1>8 DEF Close, Fill, Open
  <2>3. Seen' \subseteq Seen /\ unseen \cap Counted \subseteq unseen'
    BY <2>1, <2>2 DEF Seen, Open, Keep
  <2>4. LimitReached' = LimitReached
    BY <2>1 DEF LimitReached
  <2> QED BY <2>1, <2>3, <2>4, FewerAreSound DEF CapsInv, Informed
<1>9. CASE UNCHANGED limitVars
  <2>1. UNCHANGED <<held, resting, counted, unseen, limited, loss, due, ignored, step>>
    BY <1>9 DEF limitVars
  <2>2. Seen' \subseteq Seen /\ LimitReached' = LimitReached
    BY <2>1 DEF Seen, Open, LimitReached
  <2> QED BY <2>1, <2>2, FewerAreSound DEF CapsInv, Informed
<1> QED
  <2>1. CASE \E c \in Contracts : Expire(c) \/ Enter(c) \/ Close(c) \/ Fill(c)
    BY <1>6, <1>7, <1>8, <2>1
  <2> QED BY <1>1, <1>2, <1>3, <1>4, <1>5, <1>9, <2>1 DEF LimitsNext

LEMMA CapsInit == ASSUME LimitsConstants, LimitsInit PROVE CapsInv
<1>1. Seen = {} /\ \A c \in Contracts : OfSector(c) = {}
  BY DEF LimitsInit, Seen, Open, OfSector
<1>2. Cardinality({}) = 0 /\ PositionCap >= 0 /\ SectorCap >= 0
  BY FS_EmptySet DEF LimitsConstants
<1>3. Capped
  BY <1>1, <1>2 DEF Capped
<1> QED BY <1>3 DEF CapsInv, LimitsInit

LEMMA CapsAreHeld ==
    ASSUME LimitsTypeOK, CapsInv PROVE CapsHold /\ LossIsHeeded
<1>1. \A c \in Open : c \in Contracts
                      /\ OfSector(c) = {d \in Open \ unseen : Sector[d] = Sector[c]}
  BY DEF Open, OfSector, Seen, LimitsTypeOK
<1> QED BY <1>1 DEF CapsInv, Capped, CapsHold, LossIsHeeded, Seen

\* The book and the sectors keep to their caps, as far as the entries were counted, and
\* nothing is entered once the day has lost its limit (RiskManager.validate_trade(), with
\* _refresh_risk_state() and place_order() telling it what there is): for any contracts,
\* caps and legs, through nights, restarts, failing reads and resets of the kill switch.
THEOREM LimitsAreKept ==
    ASSUME LimitsConstants PROVE LimitsSpec => [](CapsHold /\ LossIsHeeded)
<1>1. LimitsInit => LimitsTypeOK /\ CapsInv
  BY LimitsTypedInit, CapsInit
<1>2. LimitsTypeOK /\ CapsInv /\ [LimitsNext]_limitVars => LimitsTypeOK' /\ CapsInv'
  BY LimitsTypedStep, CapsStep
<1>3. LimitsTypeOK /\ CapsInv => CapsHold /\ LossIsHeeded
  BY CapsAreHeld
<1> QED BY <1>1, <1>2, <1>3, PTL DEF LimitsSpec
=============================================================================
