------------------------------ MODULE ProxyProofs -----------------------------
(***************************************************************************)
(* Theorems of HealthRegistry and of Limiter, under any caller, and of     *)
(* Proxy, whose requests are such callers.  The parts are in this order;   *)
(* those of a registry use its own definitions and assumptions only.       *)
(*                                                                         *)
(* Of the limiter: a cap of 0 is excluded where the count is said to be    *)
(* exact, and is admitted everywhere else.                                 *)
(***************************************************************************)
EXTENDS Proxy, FiniteSetTheorems, SequenceTheorems, TLAPS

-----------------------------------------------------------------------------
(* The health registry: types. *)

\* New: the empty registry is well typed.
LEMMA HealthTypeInit == HealthInit => HealthTypeOK
  BY DEF HealthInit, HealthTypeOK

\* What a streak becomes is a streak.
LEMMA ObservationTyped ==
  ASSUME NEW s \in Streak, NEW ok \in BOOLEAN, NEW p \in Policies
  PROVE  AfterObservation(s, ok, p) \in Streak
  BY PoliciesTyped DEF AfterObservation, AfterFailure, NewStreak, Streak

\* An identity without a record reads as a fresh streak.
LEMMA StreakTyped ==
  ASSUME HealthTypeOK, NEW k \in Key PROVE StreakOf(k) \in Streak
  BY DEF HealthTypeOK, StreakOf, NewStreak, Streak

\* Pin, release, Reclaim, Observe and the clock keep the registry's types.
LEMMA HealthTypeStep == HealthTypeOK /\ [HealthNext]_healthVars => HealthTypeOK'
<1> SUFFICES ASSUME HealthTypeOK, [HealthNext]_healthVars PROVE HealthTypeOK'
  OBVIOUS
<1> USE DEF HealthTypeOK
<1>1. ASSUME NEW h \in Holder, PinSome(h) PROVE HealthTypeOK'
  <2>1. PICK keys \in SUBSET Key : Pin(h, keys)
    BY <1>1 DEF PinSome
  <2> QED
    BY <2>1 DEF Pin
<1>2. ASSUME NEW h \in Holder, ReleaseHeld(h) PROVE HealthTypeOK'
  BY <1>2 DEF ReleaseHeld, Release
<1>3. ASSUME NEW h \in Holder, ObserveHeld(h) PROVE HealthTypeOK'
  <2>1. PICK k \in pins[h], ok \in BOOLEAN, p \in Policies : Observe(k, ok, p)
    BY <1>3 DEF ObserveHeld
  <2>2. k \in Key
    BY <2>1
  <2>3. AfterObservation(StreakOf(k), ok, p) \in Streak
    BY <2>1, <2>2, StreakTyped, ObservationTyped
  <2> QED
    BY <2>1, <2>2, <2>3 DEF Observe, SetStreak
<1>4. CASE ReclaimSome
  BY <1>4 DEF ReclaimSome, Reclaim
<1>5. CASE Elapse
  BY <1>5 DEF Elapse, Streak
<1>6. CASE UNCHANGED healthVars
  BY <1>6 DEF healthVars
<1> QED
  BY <1>1, <1>2, <1>3, <1>4, <1>5, <1>6 DEF HealthNext

\* Every critical section of the registry keeps its types.
THEOREM HealthTypeCorrect == HealthSpec => []HealthTypeOK
  BY HealthTypeInit, HealthTypeStep, PTL DEF HealthSpec

-----------------------------------------------------------------------------
(* The health registry: reference counts. *)

\* Finitely many requests hold an identity, so they can be counted.
LEMMA HoldersFinite ==
  ASSUME NEW k \in Key
  PROVE  IsFiniteSet(Holders(k)) /\ Cardinality(Holders(k)) \in Nat
<1>1. Holders(k) \subseteq Holder
  BY DEF Holders
<1> QED
  BY <1>1, HolderFinite, FS_Subset, FS_CardinalityType

\* Pin: one more holder, one more reference, of exactly the pinned keys.
LEMMA PinCounts ==
  ASSUME HealthTypeOK, RefsCountHolders, NEW h \in Holder, NEW keys \in SUBSET Key, Pin(h, keys)
  PROVE  RefsCountHolders'
<1> SUFFICES ASSUME NEW k \in Key PROVE refs'[k] = Cardinality(Holders(k)')
  BY DEF RefsCountHolders
<1>1. refs[k] = Cardinality(Holders(k)) /\ h \notin Holders(k)
  BY DEF RefsCountHolders, Holders, Pin
<1>2. CASE k \in keys
  <2>1. Holders(k)' = Holders(k) \cup {h}
    BY <1>2 DEF Pin, Holders, HealthTypeOK
  <2>2. Cardinality(Holders(k) \cup {h}) = Cardinality(Holders(k)) + 1
    BY <1>1, HoldersFinite, FS_AddElement
  <2> QED
    BY <1>1, <1>2, <2>1, <2>2 DEF Pin
<1>3. CASE k \notin keys
  <2>1. Holders(k)' = Holders(k)
    BY <1>3 DEF Pin, Holders, HealthTypeOK
  <2> QED
    BY <1>1, <1>3, <2>1 DEF Pin
<1> QED
  BY <1>2, <1>3

\* The release closure: one holder and one reference fewer of the keys it captured.
LEMMA ReleaseCounts ==
  ASSUME HealthTypeOK, RefsCountHolders, NEW h \in Holder, Release(h)
  PROVE  RefsCountHolders'
<1> SUFFICES ASSUME NEW k \in Key PROVE refs'[k] = Cardinality(Holders(k)')
  BY DEF RefsCountHolders
<1>1. refs[k] = Cardinality(Holders(k))
  BY DEF RefsCountHolders
<1>2. CASE k \in pins[h]
  <2>1. h \in Holders(k) /\ Holders(k)' = Holders(k) \ {h}
    BY <1>2 DEF Release, Holders, HealthTypeOK
  <2>2. Cardinality(Holders(k) \ {h}) = Cardinality(Holders(k)) - 1
    BY <2>1, HoldersFinite, FS_RemoveElement
  <2>3. Cardinality(Holders(k)) # 0
    BY <2>1, HoldersFinite, FS_EmptySet
  <2>4. refs[k] > 0
    BY <1>1, <2>3, HoldersFinite
  <2> QED
    BY <1>1, <1>2, <2>1, <2>2, <2>4 DEF Release
<1>3. CASE k \notin pins[h]
  <2>1. Holders(k)' = Holders(k)
    BY <1>3 DEF Release, Holders, HealthTypeOK
  <2> QED
    BY <1>1, <1>3, <2>1 DEF Release
<1> QED
  BY <1>2, <1>3

\* Pin and its release closure: through every interleaving the count of an
\* identity is the number of in-flight requests holding it.
THEOREM RefsCorrect == HealthSpec => []RefsCountHolders
<1>1. HealthInit => RefsCountHolders
  <2> SUFFICES ASSUME HealthInit PROVE RefsCountHolders
    OBVIOUS
  <2>1. \A k \in Key : Holders(k) = {}
    BY DEF HealthInit, Holders
  <2> QED
    BY <2>1, FS_EmptySet DEF HealthInit, RefsCountHolders
<1>2. HealthTypeOK /\ RefsCountHolders /\ [HealthNext]_healthVars => RefsCountHolders'
  <2> SUFFICES ASSUME HealthTypeOK, RefsCountHolders, [HealthNext]_healthVars
               PROVE  RefsCountHolders'
    OBVIOUS
  <2>1. ASSUME NEW h \in Holder, PinSome(h) PROVE RefsCountHolders'
    BY <2>1, PinCounts DEF PinSome
  <2>2. ASSUME NEW h \in Holder, ReleaseHeld(h) PROVE RefsCountHolders'
    BY <2>2, ReleaseCounts DEF ReleaseHeld
  <2>3. CASE UNCHANGED <<refs, pins>>
    BY <2>3 DEF RefsCountHolders, Holders
  <2> QED
    BY <2>1, <2>2, <2>3
    DEF HealthNext, healthVars, ObserveHeld, Observe, ReclaimSome, Reclaim, Elapse
<1> QED
  BY <1>1, <1>2, HealthTypeCorrect, PTL DEF HealthSpec

-----------------------------------------------------------------------------
(* The health registry: what a step may never do. *)

\* Reclaim: "a pinned identity can never vanish mid-request".
THEOREM PinnedSurvives == HealthSpec => PinnedStateSurvives
<1> DEFINE Survives ==
      \A k \in Key : k \in DOMAIN states /\ Holders(k) # {} => k \in DOMAIN states'
<1>1. HealthTypeOK /\ RefsCountHolders /\ [HealthNext]_healthVars => [Survives]_healthVars
  <2> SUFFICES ASSUME RefsCountHolders, [HealthNext]_healthVars,
                      NEW k \in Key, k \in DOMAIN states, Holders(k) # {}
               PROVE  k \in DOMAIN states'
    OBVIOUS
  <2>1. refs[k] > 0
    <3>1. Cardinality(Holders(k)) # 0
      BY HoldersFinite, FS_EmptySet
    <3> QED
      BY <3>1, HoldersFinite DEF RefsCountHolders
  <2>2. CASE ReclaimSome
    BY <2>1, <2>2 DEF ReclaimSome, Reclaim
  <2>3. ASSUME NEW h \in Holder, ObserveHeld(h) PROVE k \in DOMAIN states'
    BY <2>3 DEF ObserveHeld, Observe, SetStreak
  <2>4. CASE Elapse
    BY <2>4 DEF Elapse
  <2>5. CASE UNCHANGED states
    BY <2>5
  <2> QED
    BY <2>2, <2>3, <2>4, <2>5 DEF HealthNext, PinSome, Pin, ReleaseHeld, Release, healthVars
<1> QED
  BY <1>1, HealthTypeCorrect, RefsCorrect, PTL DEF HealthSpec, PinnedStateSurvives

\* Observe: no step, and no later generation's policy, lengthens a cooldown
\* that is running.
THEOREM CooldownBounded == HealthSpec => CooldownNeverExtended
<1> DEFINE Shrinks ==
      \A k \in Key : Cooling(k) => StreakOf(k)'.cooling <= StreakOf(k).cooling
<1>1. HealthTypeOK /\ [HealthNext]_healthVars => [Shrinks]_healthVars
  <2> SUFFICES ASSUME HealthTypeOK, [HealthNext]_healthVars, NEW k \in Key, Cooling(k)
               PROVE  StreakOf(k)'.cooling <= StreakOf(k).cooling
    OBVIOUS
  <2>0. StreakOf(k) \in Streak /\ StreakOf(k).cooling \in Nat
    BY StreakTyped DEF Streak
  <2>1. CASE ReclaimSome
    BY <2>0, <2>1 DEF ReclaimSome, Reclaim, StreakOf, NewStreak, HealthTypeOK
  <2>2. ASSUME NEW h \in Holder, ObserveHeld(h) PROVE StreakOf(k)'.cooling <= StreakOf(k).cooling
    <3>1. PICK x \in pins[h], ok \in BOOLEAN, p \in Policies : Observe(x, ok, p)
      BY <2>2 DEF ObserveHeld
    <3>2. CASE Records(p) /\ x = k
      <4>1. StreakOf(k)' = AfterObservation(StreakOf(k), ok, p)
        BY <3>1, <3>2 DEF Observe, SetStreak, StreakOf
      <4>2. AfterObservation(StreakOf(k), ok, p) \in {NewStreak, StreakOf(k)}
        BY DEF AfterObservation, AfterFailure, Cooling
      <4> QED
        BY <2>0, <4>1, <4>2 DEF NewStreak
    <3>3. CASE ~(Records(p) /\ x = k)
      <4>1. StreakOf(k)' = StreakOf(k)
        BY <3>1, <3>3 DEF Observe, SetStreak, StreakOf
      <4> QED
        BY <2>0, <4>1
    <3> QED
      BY <3>2, <3>3
  <2>3. CASE Elapse
    BY <2>0, <2>3 DEF Elapse, StreakOf, NewStreak, HealthTypeOK, Streak
  <2>4. CASE UNCHANGED states
    BY <2>0, <2>4 DEF StreakOf
  <2> QED
    BY <2>1, <2>2, <2>3, <2>4 DEF HealthNext, PinSome, Pin, ReleaseHeld, Release, healthVars
<1> QED
  BY <1>1, HealthTypeCorrect, PTL DEF HealthSpec, CooldownNeverExtended

-----------------------------------------------------------------------------
(* The limiter: types. *)

\* NewLimiter: no slot is taken.
LEMMA LimiterTypeInit == LimiterInit => LimiterTypeOK
  BY DEF LimiterInit, LimiterTypeOK, Free

\* Acquire, Release and the body's Close keep the limiter's types.
LEMMA LimiterTypeStep == LimiterTypeOK /\ [LimiterNext]_limiterVars => LimiterTypeOK'
<1> SUFFICES ASSUME LimiterTypeOK, [LimiterNext]_limiterVars PROVE LimiterTypeOK'
  OBVIOUS
<1> USE CapsTyped DEF LimiterTypeOK, Held, Phase, Free, InPhase
<1>1. ASSUME NEW u \in User, NEW e \in Egress, NEW max \in Caps, Dial(u, e, max)
      PROVE LimiterTypeOK'
  BY <1>1 DEF Dial, Acquire
<1>2. ASSUME NEW u \in User, DialFails(u) PROVE LimiterTypeOK'
  BY <1>2 DEF DialFails, ReleaseSlot
<1>3. ASSUME NEW u \in User, DialSucceeds(u) PROVE LimiterTypeOK'
  BY <1>3 DEF DialSucceeds
<1>4. ASSUME NEW u \in User, CloseBody(u) PROVE LimiterTypeOK'
  BY <1>4 DEF CloseBody
<1>5. ASSUME NEW u \in User, FreeSlot(u) PROVE LimiterTypeOK'
  BY <1>5 DEF FreeSlot, ReleaseSlot
<1>6. CASE UNCHANGED limiterVars
  BY <1>6 DEF limiterVars
<1> QED
  BY <1>1, <1>2, <1>3, <1>4, <1>5, <1>6 DEF LimiterNext

\* Every operation keeps the types: counts are naturals, slots well-formed.
THEOREM LimiterTypeCorrect == LimiterSpec => []LimiterTypeOK
  BY LimiterTypeInit, LimiterTypeStep, PTL DEF LimiterSpec

-----------------------------------------------------------------------------
(* The limiter: the count is the number of counted holders. *)

\* Finitely many requests hold a slot of an egress, so they can be counted.
LEMMA CountedFinite ==
  ASSUME NEW e \in Egress
  PROVE  /\ IsFiniteSet(Counted(e))
         /\ Cardinality(Counted(e)) \in Nat
<1>1. Counted(e) \subseteq User
  BY DEF Counted, Holding
<1> QED
  BY <1>1, UserFinite, FS_Subset, FS_CardinalityType

\* Acquire: one more counted request of the egress dialed, and of no other.
LEMMA CountedGrows ==
  ASSUME LimiterTypeOK, 0 \notin Caps, CountMatchesHolders,
         NEW u \in User, NEW e \in Egress, NEW max \in Caps, Dial(u, e, max)
  PROVE  CountMatchesHolders'
<1> USE CapsTyped
<1> SUFFICES ASSUME NEW x \in Egress PROVE cur'[x] = Cardinality(Counted(x)')
  BY DEF CountMatchesHolders
<1>1. cur[x] = Cardinality(Counted(x)) /\ cur[x] \in Nat
  BY DEF CountMatchesHolders, LimiterTypeOK
<1>2. max > 0 /\ cur' = [cur EXCEPT ![e] = @ + 1]
  BY DEF Dial, Acquire
<1>3. slot' = [slot EXCEPT ![u] = [phase |-> "dialing", id |-> e, cap |-> max]]
  BY DEF Dial
<1>4. CASE x = e
  <2>1. Counted(x)' = Counted(x) \cup {u} /\ u \notin Counted(x)
    BY <1>2, <1>3, <1>4 DEF Counted, Holding, InPhase, LimiterTypeOK, Dial
  <2>2. Cardinality(Counted(x) \cup {u}) = Cardinality(Counted(x)) + 1
    BY <2>1, CountedFinite, FS_AddElement
  <2>3. cur'[x] = cur[x] + 1
    BY <1>2, <1>4 DEF LimiterTypeOK
  <2> QED
    BY <1>1, <2>1, <2>2, <2>3
<1>5. CASE x # e
  <2>1. Counted(x)' = Counted(x)
    BY <1>3, <1>5 DEF Counted, Holding, InPhase, LimiterTypeOK, Dial
  <2> QED
    BY <1>1, <1>2, <1>5, <2>1 DEF LimiterTypeOK
<1> QED
  BY <1>4, <1>5

\* Release: one counted request fewer of the egress it had dialed.
LEMMA CountedShrinks ==
  ASSUME LimiterTypeOK, 0 \notin Caps, CountMatchesHolders,
         NEW u \in User, ~InPhase(u, "none"),
         ReleaseSlot(slot[u].id), slot' = [slot EXCEPT ![u] = Free]
  PROVE  CountMatchesHolders'
<1> DEFINE e == slot[u].id
<1> USE CapsTyped
<1>0. slot[u] \in Held
  BY DEF LimiterTypeOK, Free, InPhase
<1>1. e \in Egress /\ slot[u].cap > 0
  BY <1>0 DEF Held
<1> HIDE DEF e
<1> SUFFICES ASSUME NEW x \in Egress PROVE cur'[x] = Cardinality(Counted(x)')
  BY DEF CountMatchesHolders
<1>2. cur[x] = Cardinality(Counted(x)) /\ cur[x] \in Nat
  BY DEF CountMatchesHolders, LimiterTypeOK
<1>3. cur' = [cur EXCEPT ![e] = IF @ > 0 THEN @ - 1 ELSE 0]
  BY DEF ReleaseSlot, e
<1>4. CASE x = e
  <2>1. u \in Counted(x) /\ Counted(x)' = Counted(x) \ {u}
    BY <1>1, <1>4 DEF Counted, Holding, InPhase, LimiterTypeOK, Free, e
  <2>2. Cardinality(Counted(x)) # 0
    BY <2>1, CountedFinite, FS_EmptySet
  <2>3. Cardinality(Counted(x) \ {u}) = Cardinality(Counted(x)) - 1
    BY <2>1, CountedFinite, FS_RemoveElement
  <2>4. cur'[x] = cur[x] - 1
    BY <1>2, <1>3, <1>4, <2>2 DEF LimiterTypeOK
  <2> QED
    BY <1>2, <2>1, <2>3, <2>4
<1>5. CASE x # e
  <2>1. Counted(x)' = Counted(x)
    BY <1>5 DEF Counted, Holding, InPhase, LimiterTypeOK, Free, e
  <2> QED
    BY <1>2, <1>3, <1>5, <2>1 DEF LimiterTypeOK
<1> QED
  BY <1>4, <1>5

\* Moving on within the life of a slot changes neither side.
LEMMA CountedKept ==
  ASSUME LimiterTypeOK, CountMatchesHolders, UNCHANGED cur,
         NEW u \in User, ~InPhase(u, "none"),
         NEW p \in Phase, slot' = [slot EXCEPT ![u].phase = p]
  PROVE  CountMatchesHolders'
<1>1. \A x \in Egress : Counted(x)' = Counted(x)
  BY DEF Counted, Holding, InPhase, LimiterTypeOK, Phase, Held, Free
<1> QED
  BY <1>1 DEF CountMatchesHolders

\* slotReleaseBody and the executor: as long as every cap is positive, the
\* count of an egress is the number of requests that hold one of its slots.
THEOREM CountCorrect ==
  ASSUME 0 \notin Caps PROVE LimiterSpec => []CountMatchesHolders
<1>1. LimiterInit => CountMatchesHolders
  <2> SUFFICES ASSUME LimiterInit PROVE CountMatchesHolders
    OBVIOUS
  <2>1. \A e \in Egress : Counted(e) = {}
    BY DEF LimiterInit, Counted, Holding, InPhase, Free
  <2> QED
    BY <2>1, FS_EmptySet DEF LimiterInit, CountMatchesHolders
<1>2. LimiterTypeOK /\ CountMatchesHolders /\ [LimiterNext]_limiterVars => CountMatchesHolders'
  <2> SUFFICES ASSUME LimiterTypeOK, CountMatchesHolders, [LimiterNext]_limiterVars
               PROVE  CountMatchesHolders'
    OBVIOUS
  <2>1. ASSUME NEW u \in User, NEW e \in Egress, NEW max \in Caps, Dial(u, e, max)
        PROVE CountMatchesHolders'
    BY <2>1, CountedGrows
  <2>2. ASSUME NEW u \in User, DialFails(u) \/ FreeSlot(u) PROVE CountMatchesHolders'
    <3>1. ~InPhase(u, "none") /\ ReleaseSlot(slot[u].id) /\ slot' = [slot EXCEPT ![u] = Free]
      BY <2>2 DEF DialFails, FreeSlot, InPhase
    <3> QED
      BY <3>1, CountedShrinks
  <2>3. ASSUME NEW u \in User, DialSucceeds(u) PROVE CountMatchesHolders'
    <3>1. ~InPhase(u, "none") /\ UNCHANGED cur /\ slot' = [slot EXCEPT ![u].phase = "open"]
      BY <2>3 DEF DialSucceeds, InPhase
    <3>2. "open" \in Phase
      BY DEF Phase
    <3> QED
      BY <3>1, <3>2, CountedKept
  <2>4. ASSUME NEW u \in User, CloseBody(u) PROVE CountMatchesHolders'
    <3>1. ~InPhase(u, "none") /\ UNCHANGED cur /\ slot' = [slot EXCEPT ![u].phase = "closed"]
      BY <2>4 DEF CloseBody, InPhase
    <3>2. "closed" \in Phase
      BY DEF Phase
    <3> QED
      BY <3>1, <3>2, CountedKept
  <2>5. CASE UNCHANGED limiterVars
    BY <2>5 DEF limiterVars, CountMatchesHolders, Counted, Holding, InPhase
  <2> QED
    BY <2>1, <2>2, <2>3, <2>4, <2>5 DEF LimiterNext
<1> QED
  BY <1>1, <1>2, LimiterTypeCorrect, PTL DEF LimiterSpec

\* Limiter.Acquire with slotReleaseBody's order: no request dials past its own
\* cap, because what is connected is counted.
THEOREM CapIsUpperBound ==
  ASSUME 0 \notin Caps PROVE LimiterSpec => DialsWithinCap
<1> DEFINE Step == \A u \in User, e \in Egress :
                      /\ InPhase(u, "none")
                      /\ InPhase(u, "dialing")' /\ slot'[u].id = e /\ slot'[u].cap > 0
                      => Cardinality(Connected(e)') <= slot'[u].cap
<1>1. LimiterTypeOK /\ LimiterTypeOK' /\ CountMatchesHolders /\ CountMatchesHolders'
        /\ [LimiterNext]_limiterVars => [Step]_limiterVars
  <2> SUFFICES ASSUME LimiterTypeOK, LimiterTypeOK', CountMatchesHolders', [LimiterNext]_limiterVars,
                      NEW u \in User, NEW e \in Egress,
                      InPhase(u, "none"), InPhase(u, "dialing")', slot'[u].id = e, slot'[u].cap > 0
               PROVE  Cardinality(Connected(e)') <= slot'[u].cap
    OBVIOUS
  <2>1. PICK max \in Caps : Dial(u, e, max)
    BY DEF LimiterNext, limiterVars, InPhase, LimiterTypeOK, Dial, DialFails, DialSucceeds,
           CloseBody, FreeSlot, Free
  <2>2. cur'[e] <= max /\ slot'[u].cap = max /\ cur'[e] \in Nat
    BY <2>1, CapsTyped DEF Dial, Acquire, LimiterTypeOK
  <2>3. IsFiniteSet(Counted(e)') /\ Connected(e)' \subseteq Counted(e)'
    <3>1. Counted(e)' \subseteq User
      BY DEF Counted, Holding
    <3> QED
      BY <3>1, UserFinite, FS_Subset DEF Connected
  <2>4. Cardinality(Connected(e)') <= Cardinality(Counted(e)') /\ Cardinality(Connected(e)') \in Nat
    BY <2>3, FS_Subset, FS_CardinalityType
  <2>5. cur'[e] = Cardinality(Counted(e)')
    BY DEF CountMatchesHolders
  <2> QED
    BY <2>2, <2>4, <2>5, CapsTyped
<1> QED
  BY <1>1, LimiterTypeCorrect, CountCorrect, PTL DEF LimiterSpec, DialsWithinCap

-----------------------------------------------------------------------------
(* The limiter with uncapped generations among them. *)

\* A reload may lift a cap or set one: a count is then at most the number of
\* counted holders, so a slot can be freed too early but is never leaked.
CountNeverAhead == \A e \in Egress : cur[e] <= Cardinality(Counted(e))

\* Acquire adds to both sides, or to neither when the caller is uncapped.
LEMMA DialNotAhead ==
  ASSUME LimiterTypeOK, CountNeverAhead,
         NEW u \in User, NEW e \in Egress, NEW max \in Caps, Dial(u, e, max)
  PROVE  CountNeverAhead'
<1> USE CapsTyped
<1> SUFFICES ASSUME NEW x \in Egress PROVE cur'[x] <= Cardinality(Counted(x)')
  BY DEF CountNeverAhead
<1>1. cur[x] <= Cardinality(Counted(x)) /\ cur[x] \in Nat
  BY DEF CountNeverAhead, LimiterTypeOK
<1>2. slot' = [slot EXCEPT ![u] = [phase |-> "dialing", id |-> e, cap |-> max]] /\ u \notin Counted(x)
  BY DEF Dial, Counted, Holding
<1>3. CASE x = e /\ max # 0
  <2>1. Counted(x)' = Counted(x) \cup {u}
    BY <1>2, <1>3 DEF Counted, Holding, InPhase, LimiterTypeOK, Dial
  <2>2. Cardinality(Counted(x) \cup {u}) = Cardinality(Counted(x)) + 1
    BY <1>2, CountedFinite, FS_AddElement
  <2>3. cur'[x] = cur[x] + 1
    BY <1>3 DEF Dial, Acquire, LimiterTypeOK
  <2> QED
    BY <1>1, <2>1, <2>2, <2>3, CountedFinite
<1>4. CASE ~(x = e /\ max # 0)
  <2>1. Counted(x)' = Counted(x)
    BY <1>2, <1>4 DEF Counted, Holding, InPhase, LimiterTypeOK, Dial
  <2>2. cur'[x] = cur[x]
    BY <1>4 DEF Dial, Acquire, LimiterTypeOK
  <2> QED
    BY <1>1, <2>1, <2>2
<1> QED
  BY <1>3, <1>4

\* Release takes one off the count whoever releases, and off the holders only
\* when the caller was counted.
LEMMA ReleaseNotAhead ==
  ASSUME LimiterTypeOK, CountNeverAhead, NEW u \in User, ~InPhase(u, "none"),
         ReleaseSlot(slot[u].id), slot' = [slot EXCEPT ![u] = Free]
  PROVE  CountNeverAhead'
<1> DEFINE e == slot[u].id
<1>0. slot[u] \in Held /\ e \in Egress /\ slot[u].cap \in Nat
  <2>1. slot[u] \in Held
    BY DEF LimiterTypeOK, Free, InPhase
  <2> QED
    BY <2>1, CapsTyped DEF Held
<1>1. cur' = [cur EXCEPT ![e] = IF @ > 0 THEN @ - 1 ELSE 0]
  BY DEF ReleaseSlot
<1> SUFFICES ASSUME NEW x \in Egress PROVE cur'[x] <= Cardinality(Counted(x)')
  BY DEF CountNeverAhead
<1>2. cur[x] <= Cardinality(Counted(x)) /\ cur[x] \in Nat /\ Cardinality(Counted(x)) \in Nat
  BY CountedFinite DEF CountNeverAhead, LimiterTypeOK
<1>3. Counted(x)' = Counted(x) \ {u}
  BY DEF Counted, Holding, InPhase, LimiterTypeOK, Free
<1>4. CASE u \in Counted(x)
  <2>1. x = e
    BY <1>4 DEF Counted, Holding
  <2>2. Cardinality(Counted(x) \ {u}) = Cardinality(Counted(x)) - 1
    BY <1>4, CountedFinite, FS_RemoveElement
  <2>3. cur'[x] = IF cur[x] > 0 THEN cur[x] - 1 ELSE 0
    BY <1>1, <2>1 DEF LimiterTypeOK
  <2>4. Cardinality(Counted(x)) # 0
    BY <1>4, CountedFinite, FS_EmptySet
  <2> QED
    BY <1>2, <1>3, <2>2, <2>3, <2>4
<1>5. CASE u \notin Counted(x)
  <2>1. Counted(x)' = Counted(x)
    BY <1>3, <1>5
  <2>2. cur'[x] <= cur[x] /\ cur'[x] \in Nat
    <3> HIDE DEF e
    <3> QED
      BY <1>0, <1>1, <1>2 DEF LimiterTypeOK
  <2> QED
    BY <1>2, <2>1, <2>2
<1> QED
  BY <1>4, <1>5

\* limits.go under any caps, uncapped generations included: no slot is ever
\* leaked, so an egress without requests has all its slots.
THEOREM NoSlotLeaks == LimiterSpec => []CountNeverAhead
<1>1. LimiterInit => CountNeverAhead
  <2> SUFFICES ASSUME LimiterInit PROVE CountNeverAhead
    OBVIOUS
  <2>1. \A e \in Egress : Counted(e) = {}
    BY DEF LimiterInit, Counted, Holding, InPhase, Free
  <2> QED
    BY <2>1, FS_EmptySet DEF LimiterInit, CountNeverAhead
<1>2. LimiterTypeOK /\ CountNeverAhead /\ [LimiterNext]_limiterVars => CountNeverAhead'
  <2> SUFFICES ASSUME LimiterTypeOK, CountNeverAhead, [LimiterNext]_limiterVars
               PROVE  CountNeverAhead'
    OBVIOUS
  <2>1. ASSUME NEW u \in User, NEW e \in Egress, NEW max \in Caps, Dial(u, e, max)
        PROVE CountNeverAhead'
    BY <2>1, DialNotAhead
  <2>2. ASSUME NEW u \in User, DialFails(u) \/ FreeSlot(u) PROVE CountNeverAhead'
    <3>1. ~InPhase(u, "none") /\ ReleaseSlot(slot[u].id) /\ slot' = [slot EXCEPT ![u] = Free]
      BY <2>2 DEF DialFails, FreeSlot, InPhase
    <3> QED
      BY <3>1, ReleaseNotAhead
  <2>3. ASSUME NEW u \in User, DialSucceeds(u) \/ CloseBody(u) PROVE CountNeverAhead'
    <3>1. /\ ~InPhase(u, "none") /\ UNCHANGED cur
          /\ \E p \in Phase : slot' = [slot EXCEPT ![u].phase = p]
      BY <2>3 DEF DialSucceeds, CloseBody, InPhase, Phase
    <3>2. \A x \in Egress : Counted(x)' = Counted(x)
      BY <3>1 DEF Counted, Holding, InPhase, LimiterTypeOK, Phase, Held, Free
    <3> QED
      BY <3>1, <3>2 DEF CountNeverAhead
  <2>4. CASE UNCHANGED limiterVars
    BY <2>4 DEF limiterVars, CountNeverAhead, Counted, Holding, InPhase
  <2> QED
    BY <2>1, <2>2, <2>3, <2>4 DEF LimiterNext
<1> QED
  BY <1>1, <1>2, LimiterTypeCorrect, PTL DEF LimiterSpec

-----------------------------------------------------------------------------
(* The composition: its invariant, in parts. *)

ReqType == [pc : Steps, gen : Generation, entry : Nat \ {0}, heads : Seq(Egress),
            plan : Seq(Egress), attempts : Nat]

\* The server's own state; a snapshot is of a generation already published.
ServerTyped ==
  /\ published \in Generation /\ published \in Nat \ {0} /\ draining \in BOOLEAN
  /\ prunedGen \in 0..published /\ dialedGen \in 0..published
  /\ clients \subseteq Transport
  /\ req \in [User -> ReqType]
  /\ \A r \in User : req[r].gen \in 1..published

\* Before its snapshot, and before its plan, a request has nothing to walk; what
\* it scans and walks afterwards are members of the route of its snapshot.
WalksItsRoute(q) ==
  /\ \A k \in DOMAIN q.heads : q.heads[k] \in Routed(q.gen)
  /\ \A k \in DOMAIN q.plan : q.plan[k] \in Routed(q.gen)
  /\ q.pc = "idle" => q.heads = <<>> /\ q.plan = <<>>
  /\ q.pc = "capacity" => q.entry \in DOMAIN Confs[q.gen].route
  /\ q.pc \in {"resolved", "dialing", "failed"} => q.entry \in DOMAIN q.plan

Planless == {"idle", "arrived", "admitted", "pinned", "eligibility", "capacity"}

\* Every attempt used up an entry of the plan.
CountsAttempts(q) ==
  /\ q.pc \in Planless => q.attempts = 0
  /\ q.pc \in {"dial", "resolved"} => q.attempts < q.entry
  /\ q.pc \in {"dialing", "failed"} => q.attempts <= q.entry
  /\ q.attempts <= Len(q.plan)

PlanInv == \A r \in User : WalksItsRoute(req[r]) /\ CountsAttempts(req[r])

Outside == {"idle", "arrived", "admitted", "done"}

SlotPhase(pc) == CASE pc = "dialing" -> "dialing" [] pc = "streaming" -> "open"
                   [] pc = "closing" -> "closed" [] OTHER -> "none"

\* What a request holds is told by where it is.
HoldInv ==
  \A r \in User :
    /\ pins[r] = IF req[r].pc \in Outside THEN {} ELSE KeptKeys(req[r].gen)
    /\ req[r].pc \notin Outside => Conf(r).route # <<>>
    /\ slot[r].phase = SlotPhase(req[r].pc)

\* Who looks up a transport has passed the maintenance of its generation.
ServiceInv ==
  /\ dialedGen <= prunedGen
  /\ \A r \in User : req[r].pc \notin Outside \cup {"pinned"} => req[r].gen <= prunedGen

ProxyInv == HealthTypeOK /\ LimiterTypeOK /\ ServerTyped /\ PlanInv /\ HoldInv /\ ServiceInv

-----------------------------------------------------------------------------

\* The identities of a route are health identities.
LEMMA KeptAreKeys ==
  ASSUME NEW g \in Generation PROVE KeptKeys(g) \subseteq Key /\ Routed(g) \subseteq Egress
<1>1. Confs[g].route \in Seq(Egress) /\ Confs[g].transport \in [Egress -> Transport]
  BY ConfsTyped
<1>2. Routed(g) \subseteq Egress
  BY <1>1, ElementOfSeq, LenProperties DEF Routed
<1> QED
  BY <1>1, <1>2, KeysAreIdentities DEF KeptKeys, Identity

\* Some order of the heads is a sequence of the same egresses.
LEMMA OrdersAreSequences ==
  ASSUME NEW s \in Seq(Egress), NEW p \in Orders(s)
  PROVE  /\ p \in Seq(Egress) /\ DOMAIN p = DOMAIN s /\ Len(p) = Len(s)
         /\ \A k \in DOMAIN p : \E j \in DOMAIN s : p[k] = s[j]
<1>1. DOMAIN s = 1..Len(s) /\ Len(s) \in Nat /\ s \in [1..Len(s) -> Egress]
  BY LenProperties
<1>2. p \in [1..Len(s) -> {s[k] : k \in DOMAIN s}]
  BY <1>1 DEF Orders
<1>3. p \in [1..Len(s) -> Egress]
  BY <1>1, <1>2
<1>4. p \in Seq(Egress)
  BY <1>1, <1>3, SeqDef
<1> QED
  BY <1>1, <1>2, <1>4, LenProperties

\* A step of one request leaves the others' place, pins and slots alone.
LEMMA OthersStay ==
  ASSUME ProxyInv, NEW r \in User, NEW x \in User, x # r, Arrive(r) \/ Advance(r)
  PROVE  req'[x] = req[x] /\ pins'[x] = pins[x] /\ slot'[x] = slot[x]
<1> USE SameRequests DEF ProxyInv, HealthTypeOK, LimiterTypeOK, ServerTyped, Goes, NextCandidate, Skipped, healthVars, limiterVars,
        Pin, Release, Reclaim, Observe, Dial, DialFails, DialSucceeds, CloseBody, FreeSlot
<1>1. CASE Arrive(r) BY <1>1 DEF Arrive
<1>2. CASE Gate(r) BY <1>2 DEF Gate
<1>3. CASE MatchAndPin(r) BY <1>3 DEF MatchAndPin
<1>4. CASE Maintain(r) BY <1>4 DEF Maintain
<1>5. CASE CheckEligible(r) BY <1>5 DEF CheckEligible
<1>6. CASE CheckCapacity(r) BY <1>6 DEF CheckCapacity
<1>7. CASE PlanHeads(r) BY <1>7 DEF PlanHeads
<1>8. CASE Resolve(r) BY <1>8 DEF Resolve
<1>9. CASE SkipUnbuilt(r) \/ SkipFull(r) BY <1>9 DEF SkipUnbuilt, SkipFull
<1>10. CASE TakeSlot(r) BY <1>10 DEF TakeSlot
<1>11. CASE AttemptFails(r) BY <1>11 DEF AttemptFails
<1>12. CASE Judge(r) BY <1>12 DEF Judge
<1>13. CASE AttemptSucceeds(r) BY <1>13 DEF AttemptSucceeds
<1>14. CASE PlanExhausted(r) BY <1>14 DEF PlanExhausted
<1>15. CASE EndStream(r) \/ ReturnSlot(r) BY <1>15 DEF EndStream, ReturnSlot
<1>16. CASE Leave(r) BY <1>16 DEF Leave
<1> QED
  BY <1>1, <1>2, <1>3, <1>4, <1>5, <1>6, <1>7, <1>8, <1>9, <1>10, <1>11, <1>12, <1>13, <1>14, <1>15, <1>16
  DEF Advance

\* The plan of a request, and its count of attempts, stay typed.
LEMMA RecordsTyped ==
  ASSUME NEW q \in ReqType, NEW p \in Seq(Egress)
  PROVE  /\ [q EXCEPT !.pc = "dial", !.entry = 1, !.plan = p] \in ReqType
         /\ [q EXCEPT !.pc = "dialing", !.attempts = @ + 1] \in ReqType
<1>1. q.attempts + 1 \in Nat /\ 1 \in Nat \ {0}
  BY DEF ReqType
<1>2. [q EXCEPT !.pc = "dial", !.entry = 1, !.plan = p] \in ReqType
  <2> DEFINE e == 1
  <2>1. e \in Nat \ {0}
    OBVIOUS
  <2> HIDE DEF e
  <2>2. [q EXCEPT !.pc = "dial", !.entry = e, !.plan = p] \in ReqType
    BY <2>1 DEF ReqType, Steps
  <2> QED
    BY <2>2 DEF e
<1>3. [q EXCEPT !.pc = "dialing", !.attempts = @ + 1] \in ReqType
  <2> DEFINE n == q.attempts + 1
  <2>1. n \in Nat
    BY <1>1
  <2> HIDE DEF n
  <2>2. [q EXCEPT !.pc = "dialing", !.attempts = n] \in ReqType
    BY <2>1 DEF ReqType, Steps
  <2> QED
    BY <2>2 DEF n
<1> QED
  BY <1>2, <1>3

\* A request that only moves keeps the rest of its record.
LEMMA GoesKeeps ==
  ASSUME req \in [User -> ReqType], NEW r \in User, NEW step \in Steps, Goes(r, step)
  PROVE  /\ req' \in [User -> ReqType]
         /\ req'[r] = [req[r] EXCEPT !.pc = step]
  BY DEF Goes, ReqType

\* The next entry of the route, or of the plan.
LEMMA NextEntryKeeps ==
  ASSUME req \in [User -> ReqType], NEW r \in User, NEW step \in Steps,
         req' = [req EXCEPT ![r].pc = step, ![r].entry = @ + 1]
  PROVE  /\ req' \in [User -> ReqType]
         /\ req'[r] = [req[r] EXCEPT !.pc = step, !.entry = @ + 1]
<1>1. req[r] \in ReqType /\ req[r].entry \in Nat
  BY DEF ReqType
<1>2. req[r].entry + 1 \in Nat \ {0}
  BY <1>1
<1>3. req' = [req EXCEPT ![r] = [req[r] EXCEPT !.pc = step, !.entry = req[r].entry + 1]]
  OBVIOUS
<1>4. [req[r] EXCEPT !.pc = step, !.entry = req[r].entry + 1] \in ReqType
  BY <1>1, <1>2 DEF ReqType
<1> QED
  BY <1>3, <1>4

\* A new record in a request's place: what stays typed when it is typed.
LEMMA ServerTypedStep ==
  ASSUME ProxyInv, ProxyNext PROVE ServerTyped'
<1> USE FirstGeneration DEF ServerTyped
<1> DEFINE Same == UNCHANGED <<published, draining, prunedGen, clients, dialedGen>>
<1>0. ServerTyped
  BY DEF ProxyInv
<1>1. CASE Reload
  BY <1>0, <1>1 DEF Reload
<1>2. CASE Drain \/ Tick
  BY <1>0, <1>2 DEF Drain, Tick, serverVars
<1>3. ASSUME NEW r \in User, Arrive(r) \/ Advance(r) PROVE ServerTyped'
  <2>0. req[r] \in ReqType /\ req[r].gen \in 1..published
    BY <1>0
  <2> DEFINE Moved == req' \in [User -> ReqType] /\ req'[r].gen \in 1..published
  <2>g. ASSUME NEW step \in Steps, Goes(r, step) PROVE Moved
    BY <1>0, <2>0, <2>g, GoesKeeps DEF ReqType
  <2>n. ASSUME NEW step \in Steps, req' = [req EXCEPT ![r].pc = step, ![r].entry = @ + 1] PROVE Moved
    <3>1. req' \in [User -> ReqType] /\ req'[r] = [req[r] EXCEPT !.pc = step, !.entry = @ + 1]
      BY <1>0, <2>n, NextEntryKeeps
    <3> QED
      BY <2>0, <3>1 DEF ReqType
  <2> HIDE DEF Moved
  <2>1. Moved
    <3> USE DEF Steps, NextCandidate, Skipped
    <3>1. CASE Arrive(r)
      <4>1. req' = [req EXCEPT ![r] = [req[r] EXCEPT !.pc = "arrived", !.gen = published]]
        BY <1>0, <3>1 DEF Arrive
      <4>2. [req[r] EXCEPT !.pc = "arrived", !.gen = published] \in ReqType
        BY <1>0, <2>0 DEF ReqType
      <4> QED
        BY <1>0, <2>0, <4>1, <4>2 DEF Moved, ReqType
    <3>2. CASE Gate(r)
      BY <2>g, <2>n, <3>2 DEF Gate
    <3>3. CASE MatchAndPin(r)
      BY <2>g, <2>n, <3>3 DEF MatchAndPin
    <3>4. CASE Maintain(r)
      BY <2>g, <2>n, <3>4 DEF Maintain
    <3>5. CASE CheckEligible(r)
      BY <2>g, <2>n, <3>5 DEF CheckEligible
    <3>6. CASE CheckCapacity(r)
      <4>1. CASE req' = [req EXCEPT ![r].pc = "eligibility", ![r].entry = @ + 1, ![r].heads = Append(@, Candidate(r))]
        <5>1. Candidate(r) \in Egress
          BY <2>0, <3>6, KeptAreKeys DEF CheckCapacity, At, Candidate, Conf, ProxyInv, PlanInv, WalksItsRoute, Routed, ReqType
        <5>2. req[r].entry + 1 \in Nat \ {0} /\ Append(req[r].heads, Candidate(r)) \in Seq(Egress)
          BY <2>0, <5>1 DEF ReqType
        <5> DEFINE hs == Append(req[r].heads, Candidate(r))
        <5>3. req' = [req EXCEPT ![r] = [req[r] EXCEPT !.pc = "eligibility", !.entry = req[r].entry + 1, !.heads = hs]]
          BY <1>0, <4>1
        <5> HIDE DEF hs
        <5>4. [req[r] EXCEPT !.pc = "eligibility", !.entry = req[r].entry + 1, !.heads = hs] \in ReqType
          BY <2>0, <5>2 DEF ReqType, hs
        <5> QED
          BY <1>0, <2>0, <5>3, <5>4 DEF Moved, ReqType
      <4> QED
        BY <2>n, <3>6, <4>1 DEF CheckCapacity
    <3>7. CASE PlanHeads(r)
      <4>1. CASE Goes(r, "leaving")
        BY <4>1, <2>g
      <4>2. ASSUME NEW p \in Orders(req[r].heads),
                   req' = [req EXCEPT ![r].pc = "dial", ![r].entry = 1, ![r].plan = p]
            PROVE  Moved
        <5>1. p \in Seq(Egress)
          BY <2>0, OrdersAreSequences DEF ReqType
        <5>2. req' = [req EXCEPT ![r] = [req[r] EXCEPT !.pc = "dial", !.entry = 1, !.plan = p]]
          BY <1>0, <4>2
        <5>3. [req[r] EXCEPT !.pc = "dial", !.entry = 1, !.plan = p] \in ReqType
          BY <2>0, <5>1, RecordsTyped
        <5> QED
          BY <1>0, <2>0, <5>2, <5>3 DEF Moved, ReqType
      <4> QED
        BY <3>7, <4>1, <4>2 DEF PlanHeads
    <3>8. CASE Resolve(r)
      BY <2>g, <2>n, <3>8 DEF Resolve
    <3>9. CASE SkipUnbuilt(r) \/ SkipFull(r)
      BY <2>g, <2>n, <3>9 DEF SkipUnbuilt, SkipFull
    <3>10. CASE TakeSlot(r)
      <4>1. req' = [req EXCEPT ![r] = [req[r] EXCEPT !.pc = "dialing", !.attempts = @ + 1]]
        BY <1>0, <3>10 DEF TakeSlot
      <4>2. [req[r] EXCEPT !.pc = "dialing", !.attempts = @ + 1] \in ReqType
        BY <2>0, RecordsTyped, EmptySeq
      <4> QED
        BY <1>0, <2>0, <4>1, <4>2 DEF Moved, ReqType
    <3>11. CASE AttemptFails(r) \/ AttemptSucceeds(r)
      BY <2>g, <2>n, <3>11 DEF AttemptFails, AttemptSucceeds
    <3>12. CASE Judge(r)
      BY <2>g, <2>n, <3>12 DEF Judge
    <3>13. CASE PlanExhausted(r) \/ Leave(r)
      BY <2>g, <2>n, <3>13 DEF PlanExhausted, Leave
    <3>14. CASE EndStream(r) \/ ReturnSlot(r)
      BY <2>g, <2>n, <3>14 DEF EndStream, ReturnSlot
    <3> QED
      BY <1>3, <3>1, <3>2, <3>3, <3>4, <3>5, <3>6, <3>7, <3>8, <3>9, <3>10, <3>11, <3>12, <3>13, <3>14
      DEF Advance
  <2>2. \A x \in User : req'[x].gen \in 1..published
    BY <1>0, <1>3, <2>1, OthersStay DEF Moved
  <2>3. CASE Maintain(r)
    BY <1>0, <2>0, <2>1, <2>2, <2>3 DEF Maintain, Moved
  <2>4. CASE Resolve(r)
    <3>1. Target(r) \in Egress /\ req[r].gen \in Generation
      BY <2>0, <2>4, ElementOfSeq, LenProperties DEF Resolve, HasTarget, Target, ReqType
    <3>2. Conf(r).transport[Target(r)] \in Transport
      BY <3>1, ConfsTyped DEF Conf
    <3> QED
      BY <1>0, <2>0, <2>1, <2>2, <2>4, <3>2 DEF Resolve, MaxOf, Moved
  <2>5. CASE ~Maintain(r) /\ ~Resolve(r)
    <3>1. Same
      BY <1>3, <2>5 DEF Arrive, Advance, Gate, MatchAndPin, CheckEligible, CheckCapacity, PlanHeads,
         SkipUnbuilt, SkipFull, TakeSlot, AttemptFails, Judge, AttemptSucceeds, PlanExhausted, EndStream,
         ReturnSlot, Leave, serverVars
    <3> QED
      BY <1>0, <2>1, <2>2, <3>1 DEF Moved
  <2> QED
    BY <2>3, <2>4, <2>5
<1> QED
  BY <1>1, <1>2, <1>3 DEF ProxyNext

\* What each step makes of its request.
LEMMA StepShapes ==
  ASSUME ServerTyped, NEW r \in User
  PROVE  /\ Arrive(r) => req'[r] = [req[r] EXCEPT !.pc = "arrived", !.gen = published]
         /\ Gate(r) => \E s \in {"done", "admitted"} : req'[r] = [req[r] EXCEPT !.pc = s]
         /\ MatchAndPin(r) => req'[r] = [req[r] EXCEPT !.pc = IF Conf(r).route = <<>> THEN "done" ELSE "pinned"]
         /\ Maintain(r) => req'[r] = [req[r] EXCEPT !.pc = "eligibility"]
         /\ CheckEligible(r) =>
              \/ req'[r] = [req[r] EXCEPT !.pc = "capacity"]
              \/ req'[r] = [req[r] EXCEPT !.pc = "eligibility", !.entry = @ + 1]
         /\ CheckCapacity(r) =>
              \/ req'[r] = [req[r] EXCEPT !.pc = "eligibility", !.entry = @ + 1]
              \/ req'[r] = [req[r] EXCEPT !.pc = "eligibility", !.entry = @ + 1,
                                         !.heads = Append(@, Candidate(r))]
         /\ PlanHeads(r) =>
              \/ req'[r] = [req[r] EXCEPT !.pc = "leaving"]
              \/ \E p \in Orders(req[r].heads) :
                    req'[r] = [req[r] EXCEPT !.pc = "dial", !.entry = 1, !.plan = p]
         /\ Resolve(r) => req'[r] = [req[r] EXCEPT !.pc = "resolved"]
         /\ SkipUnbuilt(r) \/ SkipFull(r) \/ Judge(r) =>
              \/ req'[r] = [req[r] EXCEPT !.pc = "leaving"]
              \/ req'[r] = [req[r] EXCEPT !.pc = "dial", !.entry = @ + 1]
         /\ TakeSlot(r) => req'[r] = [req[r] EXCEPT !.pc = "dialing", !.attempts = @ + 1]
         /\ AttemptFails(r) => req'[r] = [req[r] EXCEPT !.pc = "failed"]
         /\ AttemptSucceeds(r) => req'[r] = [req[r] EXCEPT !.pc = "streaming"]
         /\ EndStream(r) => req'[r] = [req[r] EXCEPT !.pc = "closing"]
         /\ PlanExhausted(r) \/ ReturnSlot(r) => req'[r] = [req[r] EXCEPT !.pc = "leaving"]
         /\ Leave(r) => req'[r] = [req[r] EXCEPT !.pc = "done"]
<1> USE DEF ServerTyped, ReqType, Goes, NextCandidate, Skipped
<1>1. Arrive(r) => req'[r] = [req[r] EXCEPT !.pc = "arrived", !.gen = published]
  BY DEF Arrive
<1>2. Gate(r) => \E s \in {"done", "admitted"} : req'[r] = [req[r] EXCEPT !.pc = s]
  BY DEF Gate
<1>3. MatchAndPin(r) => req'[r] = [req[r] EXCEPT !.pc = IF Conf(r).route = <<>> THEN "done" ELSE "pinned"]
  BY DEF MatchAndPin
<1>4. Maintain(r) => req'[r] = [req[r] EXCEPT !.pc = "eligibility"]
  BY DEF Maintain
<1>5. CheckEligible(r) =>
        \/ req'[r] = [req[r] EXCEPT !.pc = "capacity"]
        \/ req'[r] = [req[r] EXCEPT !.pc = "eligibility", !.entry = @ + 1]
  BY DEF CheckEligible
<1>6. CheckCapacity(r) =>
        \/ req'[r] = [req[r] EXCEPT !.pc = "eligibility", !.entry = @ + 1]
        \/ req'[r] = [req[r] EXCEPT !.pc = "eligibility", !.entry = @ + 1, !.heads = Append(@, Candidate(r))]
  BY DEF CheckCapacity
<1>7. PlanHeads(r) =>
        \/ req'[r] = [req[r] EXCEPT !.pc = "leaving"]
        \/ \E p \in Orders(req[r].heads) :
              req'[r] = [req[r] EXCEPT !.pc = "dial", !.entry = 1, !.plan = p]
  BY DEF PlanHeads
<1>8. Resolve(r) => req'[r] = [req[r] EXCEPT !.pc = "resolved"]
  BY DEF Resolve
<1>9. SkipUnbuilt(r) \/ SkipFull(r) \/ Judge(r) =>
        \/ req'[r] = [req[r] EXCEPT !.pc = "leaving"]
        \/ req'[r] = [req[r] EXCEPT !.pc = "dial", !.entry = @ + 1]
  BY DEF SkipUnbuilt, SkipFull, Judge
<1>10. TakeSlot(r) => req'[r] = [req[r] EXCEPT !.pc = "dialing", !.attempts = @ + 1]
  BY DEF TakeSlot
<1>11. /\ AttemptFails(r) => req'[r] = [req[r] EXCEPT !.pc = "failed"]
       /\ AttemptSucceeds(r) => req'[r] = [req[r] EXCEPT !.pc = "streaming"]
       /\ EndStream(r) => req'[r] = [req[r] EXCEPT !.pc = "closing"]
       /\ PlanExhausted(r) \/ ReturnSlot(r) => req'[r] = [req[r] EXCEPT !.pc = "leaving"]
       /\ Leave(r) => req'[r] = [req[r] EXCEPT !.pc = "done"]
  BY DEF AttemptFails, AttemptSucceeds, EndStream, PlanExhausted, ReturnSlot, Leave
<1> QED
  BY <1>1, <1>2, <1>3, <1>4, <1>5, <1>6, <1>7, <1>8, <1>9, <1>10, <1>11

\* Where the steps of an attempt and of its end lead, on the same snapshot.
LEMMA StepPlaces ==
  ASSUME ServerTyped, NEW r \in User
  PROVE  /\ TakeSlot(r) => req'[r].pc = "dialing" /\ req'[r].gen = req[r].gen
         /\ AttemptFails(r) => req'[r].pc = "failed" /\ req'[r].gen = req[r].gen
         /\ AttemptSucceeds(r) => req'[r].pc = "streaming" /\ req'[r].gen = req[r].gen
         /\ EndStream(r) => req'[r].pc = "closing" /\ req'[r].gen = req[r].gen
         /\ ReturnSlot(r) => req'[r].pc = "leaving" /\ req'[r].gen = req[r].gen
         /\ Leave(r) => req'[r].pc = "done" /\ req'[r].gen = req[r].gen
         /\ Advance(r) => req'[r].gen = req[r].gen
<1>0. req[r] \in ReqType
  BY DEF ServerTyped
<1>1. TakeSlot(r) => req'[r].pc = "dialing" /\ req'[r].gen = req[r].gen
  <2> SUFFICES ASSUME TakeSlot(r) PROVE req'[r].pc = "dialing" /\ req'[r].gen = req[r].gen
    OBVIOUS
  <2>1. req'[r] = [req[r] EXCEPT !.pc = "dialing", !.attempts = @ + 1]
    BY StepShapes
  <2> QED
    BY <1>0, <2>1 DEF ReqType
<1>2. AttemptFails(r) => req'[r].pc = "failed" /\ req'[r].gen = req[r].gen
  <2> SUFFICES ASSUME AttemptFails(r) PROVE req'[r].pc = "failed" /\ req'[r].gen = req[r].gen
    OBVIOUS
  <2>1. req'[r] = [req[r] EXCEPT !.pc = "failed"]
    BY StepShapes
  <2> QED
    BY <1>0, <2>1 DEF ReqType
<1>3. AttemptSucceeds(r) => req'[r].pc = "streaming" /\ req'[r].gen = req[r].gen
  <2> SUFFICES ASSUME AttemptSucceeds(r) PROVE req'[r].pc = "streaming" /\ req'[r].gen = req[r].gen
    OBVIOUS
  <2>1. req'[r] = [req[r] EXCEPT !.pc = "streaming"]
    BY StepShapes
  <2> QED
    BY <1>0, <2>1 DEF ReqType
<1>4. EndStream(r) => req'[r].pc = "closing" /\ req'[r].gen = req[r].gen
  <2> SUFFICES ASSUME EndStream(r) PROVE req'[r].pc = "closing" /\ req'[r].gen = req[r].gen
    OBVIOUS
  <2>1. req'[r] = [req[r] EXCEPT !.pc = "closing"]
    BY StepShapes
  <2> QED
    BY <1>0, <2>1 DEF ReqType
<1>5. ReturnSlot(r) => req'[r].pc = "leaving" /\ req'[r].gen = req[r].gen
  <2> SUFFICES ASSUME ReturnSlot(r) PROVE req'[r].pc = "leaving" /\ req'[r].gen = req[r].gen
    OBVIOUS
  <2>1. req'[r] = [req[r] EXCEPT !.pc = "leaving"]
    BY StepShapes
  <2> QED
    BY <1>0, <2>1 DEF ReqType
<1>6. Leave(r) => req'[r].pc = "done" /\ req'[r].gen = req[r].gen
  <2> SUFFICES ASSUME Leave(r) PROVE req'[r].pc = "done" /\ req'[r].gen = req[r].gen
    OBVIOUS
  <2>1. req'[r] = [req[r] EXCEPT !.pc = "done"]
    BY StepShapes
  <2> QED
    BY <1>0, <2>1 DEF ReqType
<1>7. ASSUME Gate(r) \/ MatchAndPin(r) \/ Maintain(r) \/ Resolve(r) \/ PlanExhausted(r) PROVE req'[r].gen = req[r].gen
  <2>1. \E step \in Steps : req'[r] = [req[r] EXCEPT !.pc = step]
    BY <1>7, StepShapes, ZenonT(60) DEF Steps
  <2> QED
    BY <1>0, <2>1 DEF ReqType
<1>8. ASSUME CheckEligible(r) \/ CheckCapacity(r) PROVE req'[r].gen = req[r].gen
  <2>1. \/ req'[r] = [req[r] EXCEPT !.pc = "capacity"]
        \/ req'[r] = [req[r] EXCEPT !.pc = "eligibility", !.entry = @ + 1]
        \/ req'[r] = [req[r] EXCEPT !.pc = "eligibility", !.entry = @ + 1, !.heads = Append(@, Candidate(r))]
    BY <1>8, StepShapes
  <2> QED
    BY <1>0, <2>1 DEF ReqType
<1>9. ASSUME PlanHeads(r) \/ SkipUnbuilt(r) \/ SkipFull(r) \/ Judge(r) PROVE req'[r].gen = req[r].gen
  <2>1. \/ req'[r] = [req[r] EXCEPT !.pc = "leaving"]
        \/ req'[r] = [req[r] EXCEPT !.pc = "dial", !.entry = @ + 1]
        \/ \E p \in Orders(req[r].heads) :
              req'[r] = [req[r] EXCEPT !.pc = "dial", !.entry = 1, !.plan = p]
    BY <1>9, StepShapes
  <2> QED
    BY <1>0, <2>1 DEF ReqType
<1> QED
  BY <1>1, <1>2, <1>3, <1>4, <1>5, <1>6, <1>7, <1>8, <1>9 DEF Advance

-----------------------------------------------------------------------------
(* The callers keep the discipline of the two registries. *)

\* What a request dials or observes is a member of its route, and pinned.
LEMMA TargetsArePinned ==
  ASSUME ProxyInv, NEW r \in User, req[r].pc \in {"resolved", "dialing", "failed"}
  PROVE  /\ Target(r) \in Egress /\ Conf(r).cap[Target(r)] \in Caps
         /\ Conf(r).policy \in Policies
         /\ Identity(req[r].gen, Target(r)) \in pins[r]
<1>1. req[r].gen \in Generation /\ Target(r) \in Routed(req[r].gen)
  BY DEF ProxyInv, ServerTyped, ReqType, PlanInv, WalksItsRoute, Target
<1>2. Target(r) \in Egress
  BY <1>1, KeptAreKeys
<1>3. Identity(req[r].gen, Target(r)) \in pins[r]
  BY <1>1 DEF ProxyInv, HoldInv, Outside, KeptKeys
<1> QED
  BY <1>1, <1>2, <1>3, ConfsTyped DEF Conf

\* A route that is served has at least one identity.
LEMMA ServedRoutesHaveKeys ==
  ASSUME NEW g \in Generation, Confs[g].route # <<>> PROVE KeptKeys(g) # {}
<1>1. Confs[g].route \in Seq(Egress)
  BY ConfsTyped
<1>2. 1 \in DOMAIN Confs[g].route
  BY <1>1, EmptySeq, LenProperties
<1> QED
  BY <1>2 DEF KeptKeys, Routed

\* router.Server only ever pins, observes and releases as the registry expects:
\* a request pins a non-empty set once and observes only what it pinned.
LEMMA HealthCalls == ProxyInv /\ [ProxyNext]_proxyVars => [HealthNext]_healthVars
<1> SUFFICES ASSUME ProxyInv, ProxyNext PROVE HealthNext \/ UNCHANGED healthVars
  BY DEF proxyVars, healthVars
<1>1. CASE Reload \/ Drain
  BY <1>1 DEF Reload, Drain
<1>2. CASE Tick
  BY <1>2 DEF Tick, HealthNext
<1>3. ASSUME NEW r \in User, Arrive(r) \/ Advance(r) PROVE HealthNext \/ UNCHANGED healthVars
  <2>0. r \in Holder /\ req[r].gen \in Generation /\ KeptKeys(req[r].gen) \in SUBSET Key
    BY SameRequests, KeptAreKeys DEF ProxyInv, ServerTyped, ReqType
  <2>1. CASE MatchAndPin(r)
    <3>1. CASE Conf(r).route = <<>>
      BY <2>1, <3>1 DEF MatchAndPin
    <3>2. CASE Conf(r).route # <<>>
      <4>0. KeptKeys(req[r].gen) # {}
        BY <2>0, <3>2, ServedRoutesHaveKeys DEF Conf
      <4>1. Pin(r, KeptKeys(req[r].gen))
        BY <2>1, <3>2 DEF MatchAndPin
      <4>2. KeptKeys(req[r].gen) \in (SUBSET Key) \ {{}}
        BY <2>0, <4>0
      <4>3. PinSome(r)
        BY <4>1, <4>2 DEF PinSome
      <4> QED
        BY <2>0, <4>3 DEF HealthNext
    <3> QED
      BY <3>1, <3>2
  <2>2. CASE Maintain(r)
    BY <2>0, <2>2 DEF Maintain, HealthNext, ReclaimSome, healthVars
  <2>3. CASE Judge(r)
    <3>1. Observe(Identity(req[r].gen, Target(r)), FALSE, Conf(r).policy) \/ UNCHANGED healthVars
      BY <2>3 DEF Judge
    <3>2. Identity(req[r].gen, Target(r)) \in pins[r] /\ Conf(r).policy \in Policies
      BY <2>3, TargetsArePinned DEF Judge, At
    <3> QED
      BY <2>0, <3>1, <3>2 DEF HealthNext, ObserveHeld
  <2>4. CASE AttemptSucceeds(r)
    <3>1. Observe(Identity(req[r].gen, Target(r)), TRUE, Conf(r).policy)
      BY <2>4 DEF AttemptSucceeds
    <3>2. Identity(req[r].gen, Target(r)) \in pins[r] /\ Conf(r).policy \in Policies
      BY <2>4, TargetsArePinned DEF AttemptSucceeds, At
    <3> QED
      BY <2>0, <3>1, <3>2 DEF HealthNext, ObserveHeld
  <2>5. CASE Leave(r)
    <3>1. pins[r] = KeptKeys(req[r].gen) /\ Conf(r).route # <<>>
      BY <2>5 DEF Leave, At, ProxyInv, HoldInv, Outside
    <3>2. pins[r] # {}
      BY <2>0, <3>1, ServedRoutesHaveKeys DEF Conf
    <3> QED
      BY <2>0, <2>5, <3>2 DEF Leave, HealthNext, ReleaseHeld
  <2> QED
    BY <1>3, <2>1, <2>2, <2>3, <2>4, <2>5
    DEF Advance, Arrive, Gate, CheckEligible, CheckCapacity, PlanHeads, Resolve, SkipUnbuilt, SkipFull,
        TakeSlot, AttemptFails, PlanExhausted, EndStream, ReturnSlot
<1> QED
  BY <1>1, <1>2, <1>3 DEF ProxyNext

\* The executor and the body use the limiter as the limiter expects: one slot
\* per request, freed once.
LEMMA LimiterCalls == ProxyInv /\ [ProxyNext]_proxyVars => [LimiterNext]_limiterVars
<1> SUFFICES ASSUME ProxyInv, ProxyNext PROVE LimiterNext \/ UNCHANGED limiterVars
  BY DEF proxyVars, limiterVars
<1>1. CASE Reload \/ Drain \/ Tick
  BY <1>1 DEF Reload, Drain, Tick
<1>2. ASSUME NEW r \in User, Arrive(r) \/ Advance(r) PROVE LimiterNext \/ UNCHANGED limiterVars
  <2>1. CASE TakeSlot(r)
    <3>1. Dial(r, Target(r), Conf(r).cap[Target(r)])
      BY <2>1 DEF TakeSlot
    <3>2. Target(r) \in Egress /\ Conf(r).cap[Target(r)] \in Caps
      BY <2>1, TargetsArePinned DEF TakeSlot, At
    <3> QED
      BY <3>1, <3>2 DEF LimiterNext
  <2>2. CASE AttemptFails(r) \/ AttemptSucceeds(r) \/ EndStream(r) \/ ReturnSlot(r)
    BY <2>2 DEF AttemptFails, AttemptSucceeds, EndStream, ReturnSlot, LimiterNext
  <2> QED
    BY <1>2, <2>1, <2>2
    DEF Advance, Arrive, Gate, MatchAndPin, Maintain, CheckEligible, CheckCapacity, PlanHeads, Resolve,
        SkipUnbuilt, SkipFull, Judge, PlanExhausted, Leave
<1> QED
  BY <1>1, <1>2 DEF ProxyNext

-----------------------------------------------------------------------------
(* The invariant. *)

\* The steps of a request keep it on the route of its snapshot.
LEMMA WalkStep ==
  ASSUME ServerTyped, NEW r \in User, WalksItsRoute(req[r]), Arrive(r) \/ Advance(r)
  PROVE  WalksItsRoute(req'[r])
<1> DEFINE q == req[r]
           q2 == req'[r]
<1>0. q \in ReqType /\ WalksItsRoute(q)
  BY DEF ServerTyped
<1>1. CASE Arrive(r)
  <2>1. q2 = [q EXCEPT !.pc = "arrived", !.gen = published] /\ q.pc = "idle"
    BY <1>1, StepShapes DEF Arrive, At
  <2> QED
    BY <1>0, <2>1 DEF WalksItsRoute, ReqType
<1>2. CASE Gate(r) \/ MatchAndPin(r) \/ Maintain(r) \/ EndStream(r) \/ PlanExhausted(r) \/ ReturnSlot(r)
           \/ Leave(r) \/ AttemptSucceeds(r)
  <2>1. \E s \in {"done", "admitted", "pinned", "eligibility", "closing", "leaving", "streaming"} :
          q2 = [q EXCEPT !.pc = s]
    BY <1>2, StepShapes
  <2>2. q2.heads = q.heads /\ q2.plan = q.plan /\ q2.gen = q.gen /\ q2.pc \notin {"idle", "capacity", "resolved", "dialing", "failed"}
    BY <1>0, <2>1 DEF ReqType
  <2> QED
    BY <1>0, <2>1, <2>2 DEF WalksItsRoute
<1>3. CASE CheckEligible(r)
  <2>1. /\ q.entry \in DOMAIN Confs[q.gen].route
        /\ \/ q2 = [q EXCEPT !.pc = "capacity"]
           \/ q2 = [q EXCEPT !.pc = "eligibility", !.entry = @ + 1]
    BY <1>3, StepShapes DEF CheckEligible, Conf
  <2>2. q2.heads = q.heads /\ q2.plan = q.plan /\ q2.gen = q.gen /\ q2.pc \in {"eligibility", "capacity"} /\ (q2.pc = "capacity" => q2.entry = q.entry)
    BY <1>0, <2>1 DEF ReqType
  <2> QED
    BY <1>0, <2>1, <2>2 DEF WalksItsRoute
<1>4. CASE CheckCapacity(r)
  <2>1. q.entry \in DOMAIN Confs[q.gen].route /\ Candidate(r) = Confs[q.gen].route[q.entry]
    BY <1>4 DEF CheckCapacity, At, WalksItsRoute, Candidate, Conf
  <2>2. CASE q2 = [q EXCEPT !.pc = "eligibility", !.entry = @ + 1]
    BY <1>0, <2>2 DEF WalksItsRoute, ReqType
  <2>3. CASE q2 = [q EXCEPT !.pc = "eligibility", !.entry = @ + 1, !.heads = Append(@, Candidate(r))]
    <3>1. Candidate(r) \in Routed(q.gen) /\ Routed(q.gen) \subseteq Egress
      BY <1>0, <2>1, KeptAreKeys DEF Routed, ReqType
    <3> DEFINE h2 == Append(q.heads, Candidate(r))
    <3>2. q.heads \in Seq(Egress) /\ Candidate(r) \in Egress /\ \A k \in DOMAIN q.heads : q.heads[k] \in Routed(q.gen)
      BY <1>0, <3>1 DEF ReqType, WalksItsRoute
    <3>3. \A k \in DOMAIN h2 : h2[k] \in Routed(q.gen)
      BY <3>1, <3>2
    <3>4. q2.heads = h2 /\ q2.plan = q.plan /\ q2.gen = q.gen /\ q2.pc = "eligibility"
      BY <1>0, <2>3 DEF ReqType
    <3> QED
      BY <1>0, <3>3, <3>4 DEF WalksItsRoute
  <2> QED
    BY <1>4, <2>2, <2>3, StepShapes
<1>5. CASE PlanHeads(r)
  <2>1. CASE q2 = [q EXCEPT !.pc = "leaving"]
    BY <1>0, <2>1 DEF WalksItsRoute, ReqType
  <2>2. ASSUME NEW p \in Orders(q.heads), q2 = [q EXCEPT !.pc = "dial", !.entry = 1, !.plan = p]
        PROVE  WalksItsRoute(q2)
    <3>1. q2.heads = q.heads /\ q2.plan = p /\ q2.gen = q.gen /\ q2.pc = "dial"
      BY <1>0, <2>2 DEF ReqType
    <3>2. \A k \in DOMAIN p : \E j \in DOMAIN q.heads : p[k] = q.heads[j]
      BY <1>0, OrdersAreSequences DEF ReqType
    <3> QED
      BY <1>0, <3>1, <3>2 DEF WalksItsRoute
  <2> QED
    BY <1>5, <2>1, <2>2, StepShapes
<1>6. CASE Resolve(r) \/ SkipUnbuilt(r) \/ SkipFull(r) \/ Judge(r)
  <2>1. \/ q2 = [q EXCEPT !.pc = "resolved"] /\ q.entry \in DOMAIN q.plan
        \/ q2 = [q EXCEPT !.pc = "leaving"]
        \/ q2 = [q EXCEPT !.pc = "dial", !.entry = @ + 1]
    BY <1>6, StepShapes DEF Resolve, HasTarget
  <2>2. q2.heads = q.heads /\ q2.plan = q.plan /\ q2.gen = q.gen /\ q2.pc \in {"resolved", "leaving", "dial"} /\ (q2.pc = "resolved" => q2.entry = q.entry /\ q.entry \in DOMAIN q.plan)
    BY <1>0, <2>1 DEF ReqType
  <2> QED
    BY <1>0, <2>1, <2>2 DEF WalksItsRoute
<1>7. CASE TakeSlot(r) \/ AttemptFails(r)
  <2>1. /\ q.pc \in {"resolved", "dialing"}
        /\ \/ q2 = [q EXCEPT !.pc = "dialing", !.attempts = @ + 1]
           \/ q2 = [q EXCEPT !.pc = "failed"]
    BY <1>7, StepShapes DEF TakeSlot, AttemptFails, At
  <2>2. q2.heads = q.heads /\ q2.plan = q.plan /\ q2.gen = q.gen /\ q2.pc \in {"dialing", "failed"} /\ q2.entry = q.entry
    BY <1>0, <2>1 DEF ReqType
  <2> QED
    BY <1>0, <2>1, <2>2 DEF WalksItsRoute
<1> QED
  BY <1>1, <1>2, <1>3, <1>4, <1>5, <1>6, <1>7 DEF Advance

\* An attempt is counted when its entry is left behind at the latest.
LEMMA CountStep ==
  ASSUME ServerTyped, NEW r \in User, WalksItsRoute(req[r]), CountsAttempts(req[r]), Arrive(r) \/ Advance(r)
  PROVE  CountsAttempts(req'[r])
<1> DEFINE q == req[r]
           q2 == req'[r]
<1>0. q \in ReqType /\ CountsAttempts(q) /\ Len(q.plan) \in Nat /\ q.attempts \in Nat /\ q.entry \in Nat
  BY DEF ServerTyped, ReqType
<1>1. CASE Arrive(r) \/ Gate(r) \/ MatchAndPin(r) \/ Maintain(r) \/ CheckEligible(r) \/ CheckCapacity(r)
  <2> DEFINE Kept == q2.attempts = q.attempts /\ q2.plan = q.plan /\ q2.pc \in Planless \cup {"done"}
  <2>1. q.pc \in Planless
    BY <1>1 DEF Arrive, Gate, MatchAndPin, Maintain, CheckEligible, CheckCapacity, At, Planless
  <2>2. ASSUME Arrive(r) PROVE Kept
    <3>1. q2 = [q EXCEPT !.pc = "arrived", !.gen = published]
      BY <2>2, StepShapes
    <3>2. q2.attempts = q.attempts /\ q2.plan = q.plan /\ q2.pc = "arrived"
      BY <1>0, <3>1 DEF ReqType
    <3> QED
      BY <3>2 DEF Planless
  <2>5. ASSUME Gate(r) \/ MatchAndPin(r) \/ Maintain(r) PROVE Kept
    <3>1. PICK step \in {"done", "admitted", "pinned", "eligibility"} : q2 = [q EXCEPT !.pc = step]
      BY <2>5, StepShapes
    <3>2. q2.attempts = q.attempts /\ q2.plan = q.plan /\ q2.pc = step
      BY <1>0, <3>1 DEF ReqType
    <3> QED
      BY <3>2 DEF Planless
  <2>3. ASSUME CheckEligible(r) \/ CheckCapacity(r) PROVE Kept
    <3>1. \/ q2 = [q EXCEPT !.pc = "capacity"]
          \/ q2 = [q EXCEPT !.pc = "eligibility", !.entry = @ + 1]
          \/ q2 = [q EXCEPT !.pc = "eligibility", !.entry = @ + 1, !.heads = Append(@, Candidate(r))]
      BY <2>3, StepShapes
    <3>2. q2.attempts = q.attempts /\ q2.plan = q.plan /\ q2.pc \in {"capacity", "eligibility"}
      BY <1>0, <3>1 DEF ReqType
    <3> QED
      BY <3>2 DEF Planless
  <2> HIDE DEF Kept
  <2>4. Kept
    BY <1>1, <2>2, <2>3, <2>5
  <2> QED
    BY <1>0, <2>1, <2>4 DEF Kept, CountsAttempts, Planless
<1>2. CASE PlanHeads(r)
  <2>1. q.attempts = 0
    BY <1>0, <1>2 DEF PlanHeads, At, CountsAttempts, Planless
  <2>2. CASE q2 = [q EXCEPT !.pc = "leaving"]
    BY <1>0, <2>2 DEF CountsAttempts, ReqType, Planless
  <2>3. ASSUME NEW p \in Orders(q.heads), q2 = [q EXCEPT !.pc = "dial", !.entry = 1, !.plan = p]
        PROVE  CountsAttempts(q2)
    <3>1. q2.attempts = 0 /\ q2.entry = 1 /\ q2.plan = p /\ q2.pc = "dial"
      BY <1>0, <2>1, <2>3 DEF ReqType
    <3>2. p \in Seq(Egress)
      BY <1>0, OrdersAreSequences DEF ReqType
    <3>3. Len(p) \in Nat
      BY <3>2
    <3> QED
      BY <3>1, <3>3 DEF CountsAttempts, Planless
  <2> QED
    BY <1>2, <2>2, <2>3, StepShapes
<1>3. CASE Resolve(r) \/ SkipUnbuilt(r) \/ SkipFull(r) \/ Judge(r)
  <2>1. /\ q.pc \in {"dial", "resolved", "failed"}
        /\ \/ q2 = [q EXCEPT !.pc = "resolved"] /\ q.pc = "dial"
           \/ q2 = [q EXCEPT !.pc = "leaving"]
           \/ q2 = [q EXCEPT !.pc = "dial", !.entry = @ + 1]
    BY <1>3, StepShapes DEF Resolve, SkipUnbuilt, SkipFull, Judge, At
  <2>2. q2.plan = q.plan /\ q2.attempts = q.attempts /\ q2.pc \in {"resolved", "leaving", "dial"}
        /\ (q2.pc = "resolved" => q2.entry = q.entry /\ q.pc = "dial")
        /\ (q2.pc = "dial" => q2.entry = q.entry + 1)
    BY <1>0, <2>1 DEF ReqType
  <2> QED
    BY <1>0, <2>1, <2>2 DEF CountsAttempts, Planless
<1>4. CASE TakeSlot(r)
  <2>1. q.pc = "resolved" /\ q2 = [q EXCEPT !.pc = "dialing", !.attempts = @ + 1]
    BY <1>4, StepShapes DEF TakeSlot, At
  <2>2. q2.pc = "dialing" /\ q2.attempts = q.attempts + 1 /\ q2.plan = q.plan /\ q2.entry = q.entry
    BY <1>0, <2>1 DEF ReqType
  <2>3. q.attempts < q.entry /\ q.entry \in DOMAIN q.plan /\ q.plan \in Seq(Egress)
    BY <1>0, <2>1 DEF CountsAttempts, WalksItsRoute, ReqType
  <2>4. q.entry <= Len(q.plan)
    BY <2>3
  <2> QED
    BY <1>0, <2>2, <2>3, <2>4 DEF CountsAttempts, Planless
<1>5. CASE AttemptFails(r) \/ AttemptSucceeds(r) \/ EndStream(r) \/ PlanExhausted(r) \/ ReturnSlot(r) \/ Leave(r)
  <2>1. \/ q2 = [q EXCEPT !.pc = "failed"] /\ q.pc = "dialing"
        \/ \E s \in {"streaming", "closing", "leaving", "done"} : q2 = [q EXCEPT !.pc = s]
    BY <1>5, StepShapes DEF AttemptFails, At
  <2>2. q2.plan = q.plan /\ q2.attempts = q.attempts /\ q2.entry = q.entry
        /\ q2.pc \in {"failed", "streaming", "closing", "leaving", "done"}
        /\ (q2.pc = "failed" => q.pc = "dialing")
    BY <1>0, <2>1 DEF ReqType
  <2> QED
    BY <1>0, <2>1, <2>2 DEF CountsAttempts, Planless
<1> QED
  BY <1>1, <1>2, <1>3, <1>4, <1>5 DEF Advance

\* Both for every request.
LEMMA PlanStep == ASSUME ProxyInv, ProxyNext PROVE PlanInv'
<1>0. PlanInv /\ ServerTyped
  BY DEF ProxyInv
<1>1. CASE Reload \/ Drain \/ Tick
  BY <1>0, <1>1 DEF Reload, Drain, Tick, PlanInv
<1>2. ASSUME NEW r \in User, Arrive(r) \/ Advance(r) PROVE PlanInv'
  <2>1. ASSUME NEW x \in User PROVE WalksItsRoute(req'[x]) /\ CountsAttempts(req'[x])
    <3>1. CASE x = r
      BY <1>0, <1>2, <3>1, WalkStep, CountStep DEF PlanInv
    <3>2. CASE x # r
      BY <1>0, <1>2, <3>2, OthersStay DEF PlanInv
    <3> QED
      BY <3>1, <3>2
  <2> QED
    BY <2>1 DEF PlanInv, WalksItsRoute, CountsAttempts
<1> QED
  BY <1>1, <1>2 DEF ProxyNext

\* Pins and slots follow the request through its steps.
LEMMA HoldStep == ASSUME ProxyInv, ProxyNext PROVE HoldInv'
<1>0. HoldInv /\ ServerTyped /\ HealthTypeOK /\ LimiterTypeOK
  BY DEF ProxyInv
<1>1. CASE Reload \/ Drain \/ Tick
  BY <1>0, <1>1 DEF Reload, Drain, Tick, Elapse, HoldInv, Conf, healthVars, limiterVars
<1>2. ASSUME NEW r \in User, Arrive(r) \/ Advance(r) PROVE HoldInv'
  <2> DEFINE q == req[r]
             q2 == req'[r]
             Holds(x, p, s) ==
               /\ p = IF x.pc \in Outside THEN {} ELSE KeptKeys(x.gen)
               /\ x.pc \notin Outside => Confs[x.gen].route # <<>>
               /\ s.phase = SlotPhase(x.pc)
  <2>0. q \in ReqType /\ Holds(q, pins[r], slot[r]) /\ r \in Holder
    BY <1>0, SameRequests DEF ServerTyped, HoldInv, Conf
  <2>1. Holds(req'[r], pins'[r], slot'[r])
    <3>1. CASE Arrive(r) \/ Gate(r)
      <4>1. q2.pc \in {"arrived", "done", "admitted"} /\ q.pc \in {"idle", "arrived"} /\ UNCHANGED <<pins, slot>>
        BY <1>0, <2>0, <3>1, StepShapes DEF Arrive, Gate, At, ReqType, healthVars, limiterVars
      <4> QED
        BY <2>0, <4>1 DEF Outside, SlotPhase
    <3>2. CASE MatchAndPin(r)
      <4>1. q.pc = "admitted" /\ q2.gen = q.gen /\ UNCHANGED slot
            /\ q2.pc = IF Confs[q.gen].route = <<>> THEN "done" ELSE "pinned"
        BY <1>0, <2>0, <3>2, StepShapes, ZenonT(60) DEF MatchAndPin, At, ReqType, limiterVars, Conf
      <4>2. pins'[r] = IF Confs[q.gen].route = <<>> THEN pins[r] ELSE KeptKeys(q.gen)
        BY <1>0, <2>0, <3>2 DEF MatchAndPin, Pin, HealthTypeOK, healthVars, Conf
      <4> QED
        BY <2>0, <4>1, <4>2 DEF Outside, SlotPhase
    <3>3. CASE Maintain(r) \/ CheckEligible(r) \/ CheckCapacity(r) \/ PlanHeads(r) \/ Resolve(r)
               \/ SkipUnbuilt(r) \/ SkipFull(r) \/ Judge(r) \/ PlanExhausted(r)
      <4> DEFINE Still == {"pinned", "eligibility", "capacity", "dial", "resolved", "failed", "leaving"}
      <4>1. q.pc \in Still /\ UNCHANGED <<pins, slot>>
        BY <3>3 DEF Maintain, CheckEligible, CheckCapacity, PlanHeads, Resolve, SkipUnbuilt, SkipFull, Judge,
                    PlanExhausted, At, Reclaim, Observe, healthVars, limiterVars
      <4>2. ASSUME Maintain(r) \/ Resolve(r) \/ PlanExhausted(r) PROVE q2.pc \in Still /\ q2.gen = q.gen
        <5>1. PICK step \in Still : q2 = [q EXCEPT !.pc = step]
          BY <1>0, <4>2, StepShapes
        <5> QED
          BY <2>0, <5>1 DEF ReqType
      <4>3. ASSUME CheckEligible(r) \/ CheckCapacity(r) PROVE q2.pc \in Still /\ q2.gen = q.gen
        <5>1. \/ q2 = [q EXCEPT !.pc = "capacity"]
              \/ q2 = [q EXCEPT !.pc = "eligibility", !.entry = @ + 1]
              \/ q2 = [q EXCEPT !.pc = "eligibility", !.entry = @ + 1, !.heads = Append(@, Candidate(r))]
          BY <1>0, <4>3, StepShapes
        <5>2. q2.pc \in {"capacity", "eligibility"} /\ q2.gen = q.gen
          BY <2>0, <5>1 DEF ReqType
        <5> QED
          BY <5>2
      <4>4. ASSUME PlanHeads(r) \/ SkipUnbuilt(r) \/ SkipFull(r) \/ Judge(r) PROVE q2.pc \in Still /\ q2.gen = q.gen
        <5>1. \/ q2 = [q EXCEPT !.pc = "leaving"]
              \/ q2 = [q EXCEPT !.pc = "dial", !.entry = @ + 1]
              \/ \E p \in Orders(q.heads) : q2 = [q EXCEPT !.pc = "dial", !.entry = 1, !.plan = p]
          BY <1>0, <4>4, StepShapes
        <5>2. q2.pc \in {"leaving", "dial"} /\ q2.gen = q.gen
          BY <2>0, <5>1 DEF ReqType
        <5> QED
          BY <5>2
      <4>5. q2.pc \in Still /\ q2.gen = q.gen
        BY <3>3, <4>2, <4>3, <4>4
      <4> QED
        BY <2>0, <4>1, <4>5 DEF Outside, SlotPhase
    <3>4. CASE TakeSlot(r)
      <4>1. q.pc = "resolved" /\ q2.pc = "dialing" /\ q2.gen = q.gen /\ UNCHANGED pins
        BY <1>0, <2>0, <3>4, StepPlaces DEF TakeSlot, At, healthVars
      <4>2. slot'[r].phase = "dialing"
        BY <1>0, <3>4 DEF TakeSlot, Dial, LimiterTypeOK
      <4> QED
        BY <2>0, <4>1, <4>2 DEF Outside, SlotPhase
    <3>5. CASE AttemptFails(r)
      <4>1. q.pc = "dialing" /\ q2.pc = "failed" /\ q2.gen = q.gen /\ UNCHANGED pins
        BY <1>0, <2>0, <3>5, StepPlaces DEF AttemptFails, At, healthVars
      <4>2. slot'[r].phase = "none"
        BY <1>0, <3>5 DEF AttemptFails, DialFails, LimiterTypeOK, Free
      <4> QED
        BY <2>0, <4>1, <4>2 DEF Outside, SlotPhase
    <3>6. CASE AttemptSucceeds(r)
      <4>1. q.pc = "dialing" /\ q2.pc = "streaming" /\ q2.gen = q.gen /\ UNCHANGED pins
        BY <1>0, <2>0, <3>6, StepPlaces DEF AttemptSucceeds, At, Observe
      <4>2. slot'[r].phase = "open"
        BY <1>0, <3>6 DEF AttemptSucceeds, DialSucceeds, LimiterTypeOK, Held, Free, InPhase
      <4> QED
        BY <2>0, <4>1, <4>2 DEF Outside, SlotPhase
    <3>7. CASE EndStream(r)
      <4>1. q.pc = "streaming" /\ q2.pc = "closing" /\ q2.gen = q.gen /\ UNCHANGED pins
        BY <1>0, <2>0, <3>7, StepPlaces DEF EndStream, At, healthVars
      <4>2. slot'[r].phase = "closed"
        BY <1>0, <3>7 DEF EndStream, CloseBody, LimiterTypeOK, Held, Free, InPhase
      <4> QED
        BY <2>0, <4>1, <4>2 DEF Outside, SlotPhase
    <3>8. CASE ReturnSlot(r)
      <4>1. q.pc = "closing" /\ q2.pc = "leaving" /\ q2.gen = q.gen /\ UNCHANGED pins
        BY <1>0, <2>0, <3>8, StepPlaces DEF ReturnSlot, At, healthVars
      <4>2. slot'[r].phase = "none"
        BY <1>0, <3>8 DEF ReturnSlot, FreeSlot, LimiterTypeOK, Free
      <4> QED
        BY <2>0, <4>1, <4>2 DEF Outside, SlotPhase
    <3>9. CASE Leave(r)
      <4>1. q.pc = "leaving" /\ q2.pc = "done" /\ q2.gen = q.gen /\ UNCHANGED slot
        BY <1>0, <2>0, <3>9, StepPlaces DEF Leave, At, limiterVars
      <4>2. pins'[r] = {}
        BY <1>0, <2>0, <3>9 DEF Leave, Release, HealthTypeOK
      <4> QED
        BY <2>0, <4>1, <4>2 DEF Outside, SlotPhase
    <3> QED
      BY <1>2, <3>1, <3>2, <3>3, <3>4, <3>5, <3>6, <3>7, <3>8, <3>9 DEF Advance
  <2>2. ASSUME NEW x \in User, x # r PROVE Holds(req'[x], pins'[x], slot'[x])
    <3>1. req'[x] = req[x] /\ pins'[x] = pins[x] /\ slot'[x] = slot[x]
      BY <1>2, <2>2, OthersStay
    <3> QED
      BY <1>0, <3>1 DEF HoldInv, Conf
  <2> QED
    BY <2>1, <2>2 DEF HoldInv, Conf
<1> QED
  BY <1>1, <1>2 DEF ProxyNext

\* A request past its maintenance is of a serviced generation, and stays so.
LEMMA ServiceStep == ASSUME ProxyInv, ProxyNext PROVE ServiceInv'
<1>0. ServiceInv /\ ServerTyped /\ PlanInv
  BY DEF ProxyInv
<1>1. CASE Reload \/ Drain \/ Tick
  BY <1>0, <1>1 DEF Reload, Drain, Tick, ServiceInv, serverVars
<1>2. ASSUME NEW r \in User, Arrive(r) \/ Advance(r) PROVE ServiceInv'
  <2> DEFINE Serviced(x) == x.pc \notin Outside \cup {"pinned"} => x.gen <= prunedGen'
  <2>0. /\ req[r] \in ReqType /\ prunedGen \in Nat /\ dialedGen \in Nat
        /\ \A x \in User : req[x].gen \in Nat
    BY <1>0 DEF ServerTyped
  <2>1. prunedGen <= prunedGen' /\ prunedGen' \in Nat /\ (Maintain(r) => req[r].gen <= prunedGen')
    <3>1. CASE Maintain(r)
      BY <2>0, <3>1 DEF Maintain
    <3>2. CASE ~Maintain(r)
      <4>1. UNCHANGED prunedGen
        BY <1>2, <3>2 DEF Arrive, Advance, Gate, MatchAndPin, CheckEligible, CheckCapacity, PlanHeads, Resolve,
           SkipUnbuilt, SkipFull, TakeSlot, AttemptFails, Judge, AttemptSucceeds, PlanExhausted, EndStream,
           ReturnSlot, Leave, serverVars
      <4> QED
        BY <2>0, <3>2, <4>1
    <3> QED
      BY <3>1, <3>2
  <2>2. dialedGen' <= prunedGen'
    <3>1. CASE Resolve(r)
      <4>1. req[r].gen <= prunedGen
        BY <1>0, <3>1 DEF Resolve, At, ServiceInv, Outside
      <4> QED
        BY <1>0, <2>0, <2>1, <3>1, <4>1 DEF Resolve, MaxOf, ServiceInv
    <3>2. CASE ~Resolve(r)
      <4>1. UNCHANGED dialedGen
        BY <1>2, <3>2 DEF Arrive, Advance, Gate, MatchAndPin, Maintain, CheckEligible, CheckCapacity, PlanHeads,
           SkipUnbuilt, SkipFull, TakeSlot, AttemptFails, Judge, AttemptSucceeds, PlanExhausted, EndStream,
           ReturnSlot, Leave, serverVars
      <4> QED
        BY <1>0, <2>0, <2>1, <4>1 DEF ServiceInv
    <3> QED
      BY <3>1, <3>2
  <2>3. ASSUME NEW x \in User, x # r PROVE Serviced(req'[x])
    <3>1. req'[x] = req[x]
      BY <1>2, <2>3, OthersStay
    <3> QED
      BY <1>0, <2>0, <2>1, <3>1 DEF ServiceInv
  <2>4. Serviced(req'[r])
    <3>1. CASE Arrive(r) \/ Gate(r) \/ MatchAndPin(r)
      <4>1. req'[r].pc \in Outside \cup {"pinned"}
        BY <1>0, <2>0, <3>1, StepShapes, ZenonT(60) DEF ReqType, Outside
      <4> QED
        BY <4>1
    <3>2. CASE ~(Arrive(r) \/ Gate(r) \/ MatchAndPin(r))
      <4>1. req'[r].gen = req[r].gen
        BY <1>0, <1>2, <3>2, StepPlaces
      <4>2. Maintain(r) \/ req[r].pc \notin Outside \cup {"pinned"}
        BY <1>2, <3>2 DEF Advance, CheckEligible, CheckCapacity, PlanHeads, Resolve, SkipUnbuilt, SkipFull,
           TakeSlot, AttemptFails, Judge, AttemptSucceeds, PlanExhausted, EndStream, ReturnSlot, Leave, At, Outside
      <4> QED
        BY <1>0, <2>0, <2>1, <4>1, <4>2 DEF ServiceInv
    <3> QED
      BY <3>1, <3>2
  <2> QED
    BY <2>2, <2>3, <2>4 DEF ServiceInv
<1> QED
  BY <1>1, <1>2 DEF ProxyNext

-----------------------------------------------------------------------------
(* Theorems of the composition. *)

\* NewServer: nothing held, nothing serviced, no snapshot taken.
LEMMA ProxyInvInit == ProxyInit => ProxyInv
<1> SUFFICES ASSUME ProxyInit PROVE ProxyInv
  OBVIOUS
<1>1. HealthTypeOK /\ LimiterTypeOK
  BY HealthTypeInit, LimiterTypeInit DEF ProxyInit
<1>2. ServerTyped
  <2> DEFINE q == [pc |-> "idle", gen |-> 1, entry |-> 1, heads |-> <<>>, plan |-> <<>>, attempts |-> 0]
  <2>1. <<>> \in Seq(Egress) /\ 1 \in Nat \ {0} /\ "idle" \in Steps
    BY EmptySeq DEF Steps
  <2>2. q \in ReqType /\ q.gen = 1
    BY <2>1, FirstGeneration DEF ReqType
  <2> HIDE DEF q
  <2>3. req = [r \in User |-> q]
    BY DEF ProxyInit, q
  <2>4. req \in [User -> ReqType] /\ \A r \in User : req[r].gen = 1
    BY <2>2, <2>3
  <2>5. published = 1 /\ prunedGen = 0 /\ dialedGen = 0 /\ draining = FALSE /\ clients = {}
    BY DEF ProxyInit
  <2>6. published \in Generation /\ published \in Nat \ {0} /\ prunedGen \in 0..published /\ dialedGen \in 0..published
    BY <2>5, FirstGeneration
  <2>7. \A r \in User : req[r].gen \in 1..published
    BY <2>4, <2>5
  <2> QED
    BY <2>4, <2>5, <2>6, <2>7 DEF ServerTyped
<1>3. PlanInv
  BY DEF ProxyInit, PlanInv, WalksItsRoute, CountsAttempts, Planless
<1>4. HoldInv /\ ServiceInv
  BY SameRequests DEF ProxyInit, HealthInit, LimiterInit, Free, HoldInv, ServiceInv, Outside, SlotPhase
<1> QED
  BY <1>1, <1>2, <1>3, <1>4 DEF ProxyInv

\* Every step of the server keeps it.
LEMMA ProxyInvStep == ProxyInv /\ [ProxyNext]_proxyVars => ProxyInv'
<1> SUFFICES ASSUME ProxyInv, [ProxyNext]_proxyVars PROVE ProxyInv'
  OBVIOUS
<1>1. CASE ProxyNext
  BY <1>1, HealthCalls, LimiterCalls, HealthTypeStep, LimiterTypeStep, ServerTypedStep, PlanStep, HoldStep,
     ServiceStep DEF ProxyInv
<1>2. CASE UNCHANGED proxyVars
  BY <1>2 DEF proxyVars, serverVars, healthVars, limiterVars, ProxyInv, HealthTypeOK, LimiterTypeOK, ServerTyped,
     PlanInv, WalksItsRoute, CountsAttempts, HoldInv, ServiceInv, Conf
<1> QED
  BY <1>1, <1>2

\* The composition keeps its invariant.
THEOREM ProxyInvCorrect == ProxySpec => []ProxyInv
  BY ProxyInvInit, ProxyInvStep, PTL DEF ProxySpec

\* handler.go and fallback.go are callers as the registry and the limiter
\* expect: what is proved of these under any such caller holds of the server.
THEOREM CallersKeepTheDiscipline == ProxySpec => HealthSpec /\ LimiterSpec
<1>1. ProxyInit => HealthInit /\ LimiterInit
  BY DEF ProxyInit
<1> QED
  BY <1>1, ProxyInvCorrect, HealthCalls, LimiterCalls, PTL DEF ProxySpec, HealthSpec, LimiterSpec

\* The types of the server; and a request makes no more attempts than its plan
\* has entries.
THEOREM ProxyTypeCorrect == ProxySpec => []ProxyTypeOK
<1>1. ProxyInv => ProxyTypeOK
  <2> SUFFICES ASSUME ProxyInv, NEW r \in User
               PROVE  /\ req[r].pc \in Steps /\ req[r].gen \in 1..published
                      /\ req[r].plan \in Seq(Egress) /\ req[r].heads \in Seq(Egress)
                      /\ req[r].attempts \in 0..Len(req[r].plan)
    BY DEF ProxyInv, ProxyTypeOK, ServerTyped
  <2>1. req[r] \in ReqType /\ req[r].gen \in 1..published /\ req[r].attempts <= Len(req[r].plan)
    BY DEF ProxyInv, ServerTyped, PlanInv, CountsAttempts
  <2> QED
    BY <2>1 DEF ReqType
<1> QED
  BY <1>1, ProxyInvCorrect, PTL

\* The deferred releases balance: when no request is in flight, no slot is
\* taken and no identity is referenced, whatever caps the generations had.
THEOREM QuietCorrect == ProxySpec => []QuietIsClean
<1>1. ProxyInv /\ RefsCountHolders /\ CountNeverAhead => QuietIsClean
  <2> SUFFICES ASSUME ProxyInv, RefsCountHolders, CountNeverAhead,
                      \A r \in User : req[r].pc \in {"idle", "done"}
               PROVE  (\A e \in Egress : cur[e] = 0) /\ (\A k \in Key : refs[k] = 0)
    BY DEF QuietIsClean
  <2>1. \A r \in User : pins[r] = {} /\ InPhase(r, "none")
    BY DEF ProxyInv, HoldInv, Outside, SlotPhase, InPhase
  <2>2. ASSUME NEW e \in Egress PROVE cur[e] = 0
    <3>1. Counted(e) = {}
      BY <2>1 DEF Counted, Holding
    <3>2. cur[e] <= 0 /\ cur[e] \in Nat
      BY <3>1, FS_EmptySet DEF CountNeverAhead, ProxyInv, LimiterTypeOK
    <3> QED
      BY <3>2
  <2>3. ASSUME NEW k \in Key PROVE refs[k] = 0
    <3>1. Holders(k) = {}
      BY <2>1, SameRequests DEF Holders
    <3> QED
      BY <3>1, FS_EmptySet DEF RefsCountHolders
  <2> QED
    BY <2>2, <2>3
<1> QED
  BY <1>1, ProxyInvCorrect, CallersKeepTheDiscipline, RefsCorrect, NoSlotLeaks, PTL

\* handler.go, relay: while a request is in flight no maintenance of any
\* generation drops the history of an identity of its route.
THEOREM HistoryCorrect == ProxySpec => InFlightHistorySurvives
<1> DEFINE Survives == \A k \in Key : k \in DOMAIN states /\ Holders(k) # {} => k \in DOMAIN states'
           Kept == \A r \in User : req[r].pc \notin {"idle", "arrived", "admitted", "done"}
                     => \A k \in KeptKeys(req[r].gen) : k \in DOMAIN states => k \in DOMAIN states'
<1>1. ProxyInv /\ [Survives]_healthVars => [Kept]_proxyVars
  <2> SUFFICES ASSUME ProxyInv, [Survives]_healthVars, NEW r \in User,
                      req[r].pc \notin {"idle", "arrived", "admitted", "done"},
                      NEW k \in KeptKeys(req[r].gen), k \in DOMAIN states
               PROVE  k \in DOMAIN states'
    OBVIOUS
  <2>1. CASE UNCHANGED healthVars
    BY <2>1 DEF healthVars
  <2>2. CASE Survives
    <3>1. k \in pins[r] /\ r \in Holder
      BY SameRequests DEF ProxyInv, HoldInv, Outside
    <3>2. k \in Key /\ Holders(k) # {}
      BY <3>1 DEF ProxyInv, HealthTypeOK, Holders
    <3> QED
      BY <2>2, <3>2
  <2> QED
    BY <2>1, <2>2
<1>2. PinnedStateSurvives => [][Survives]_healthVars
  BY PTL DEF PinnedStateSurvives
<1> QED
  BY <1>1, <1>2, ProxyInvCorrect, CallersKeepTheDiscipline, PinnedSurvives, PTL DEF InFlightHistorySurvives

\* server.go, onGeneration: the gate on the generation keeps a stale request
\* from evicting what a newer one may be dialing through.
THEOREM TransportsCorrect == ProxySpec => NewestTransportsSurvive
<1> DEFINE Kept ==
      dialedGen > 0 =>
          (clients \ clients') \cap KeptTransports(dialedGen) \subseteq
              (IF prunedGen' > dialedGen THEN Transport \ KeptTransports(prunedGen') ELSE {})
<1>1. ProxyInv /\ [ProxyNext]_proxyVars => [Kept]_proxyVars
  <2> SUFFICES ASSUME ProxyInv, ProxyNext PROVE Kept
    BY DEF proxyVars
  <2>0. ServerTyped /\ ServiceInv
    BY DEF ProxyInv
  <2>1. CASE Reload \/ Drain \/ Tick
    BY <2>1 DEF Reload, Drain, Tick, serverVars
  <2>2. ASSUME NEW r \in User, Arrive(r) \/ Advance(r) PROVE Kept
    <3>1. CASE Maintain(r) /\ prunedGen < req[r].gen
      <4>1. clients' = clients \cap KeptTransports(req[r].gen) /\ prunedGen' = req[r].gen
        BY <2>0, <3>1 DEF Maintain, ServerTyped
      <4>2. dialedGen < prunedGen' /\ clients \subseteq Transport
        BY <2>0, <3>1, <4>1 DEF ServerTyped, ServiceInv
      <4> QED
        BY <4>1, <4>2
    <3>2. CASE ~(Maintain(r) /\ prunedGen < req[r].gen)
      <4>1. CASE Maintain(r)
        <5>1. ~(prunedGen < req[r].gen) => prunedGen >= req[r].gen
          BY <2>0 DEF ServerTyped
        <5> QED
          BY <3>2, <4>1, <5>1 DEF Maintain
      <4>2. CASE ~Maintain(r)
        <5>1. clients \subseteq clients'
          BY <2>2, <4>2 DEF Arrive, Advance, Gate, MatchAndPin, CheckEligible, CheckCapacity, PlanHeads,
             Resolve, SkipUnbuilt, SkipFull, TakeSlot, AttemptFails, Judge, AttemptSucceeds, PlanExhausted,
             EndStream, ReturnSlot, Leave, serverVars
        <5> QED
          BY <5>1
      <4> QED
        BY <4>1, <4>2
    <3> QED
      BY <3>1, <3>2
  <2> QED
    BY <2>1, <2>2 DEF ProxyNext
<1> QED
  BY <1>1, ProxyInvCorrect, PTL DEF ProxySpec, NewestTransportsSurvive
=============================================================================
