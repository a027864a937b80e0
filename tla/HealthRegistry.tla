--------------------------- MODULE HealthRegistry ---------------------------
(***************************************************************************)
(* internal/health: the process-wide registry of per-identity failure      *)
(* streaks and cooldowns, and the in-flight references that shield an      *)
(* identity from reclamation.  An identity (Key) is an egress id plus the  *)
(* signature of its transport.                                             *)
(*                                                                         *)
(* The registry holds no policy: each call brings the policy of the        *)
(* CALLER's configuration generation.  Every action below is one critical  *)
(* section of Registry.mu.                                                 *)
(*                                                                         *)
(* The cooldown deadline is kept as the time that remains until it         *)
(* (st.until - now, 0 when it is unset or past): Healthy and Observe only  *)
(* ever ask whether now is before the deadline.                            *)
(***************************************************************************)
EXTENDS Naturals, FiniteSets

CONSTANTS
    Key,       \* health identities (config.Egress.HealthKey)
    Holder,    \* in-flight requests: each holds at most one Pin at a time
    Policies   \* the health policies of the generations that can be live

ASSUME HolderFinite == IsFiniteSet(Holder)

ASSUME PoliciesTyped ==
    \A p \in Policies : /\ p.enabled \in BOOLEAN
                        /\ p.threshold \in Nat
                        /\ p.cooldown \in Nat

VARIABLES
    states,    \* Registry.states: a record for every identity that has one
    refs,      \* Registry.refs: in-flight Pin holds per identity
    pins       \* the keys each request's release closure has captured

healthVars == <<states, refs, pins>>

Streak == [failures : Nat, cooling : Nat]

\* The registry's types.
HealthTypeOK ==
    /\ DOMAIN states \subseteq Key
    /\ \A k \in DOMAIN states : states[k] \in Streak
    /\ refs \in [Key -> Nat]
    /\ pins \in [Holder -> SUBSET Key]

HealthInit ==
    /\ states = [k \in {} |-> 0]
    /\ refs = [k \in Key |-> 0]
    /\ pins = [h \in Holder |-> {}]

-----------------------------------------------------------------------------
(* The operations. *)

NewStreak == [failures |-> 0, cooling |-> 0]

StreakOf(k) == IF k \in DOMAIN states THEN states[k] ELSE NewStreak

SetStreak(k, s) ==
    states' = [x \in DOMAIN states \cup {k} |-> IF x = k THEN s ELSE states[x]]

\* One reference on every key of the matched route; creates no state.
Pin(h, keys) ==
    /\ pins[h] = {}
    /\ pins' = [pins EXCEPT ![h] = keys]
    /\ refs' = [k \in Key |-> IF k \in keys THEN refs[k] + 1 ELSE refs[k]]
    /\ UNCHANGED states

\* The release closure: a count that is already zero stays zero.
Release(h) ==
    /\ pins' = [pins EXCEPT ![h] = {}]
    /\ refs' = [k \in Key |-> IF k \in pins[h] /\ refs[k] > 0 THEN refs[k] - 1 ELSE refs[k]]
    /\ UNCHANGED states

\* A slip a change could make, to show which property notices.
Reclaim_IgnoresPins(active) ==
    /\ states' = [k \in DOMAIN states \cap active |-> states[k]]
    /\ UNCHANGED <<refs, pins>>

\* Drops every state that is neither active nor pinned.
Reclaim(active) ==
    /\ states' = [k \in {x \in DOMAIN states : x \in active \/ refs[x] > 0} |-> states[k]]
    /\ UNCHANGED <<refs, pins>>

Records(p) == p.enabled /\ p.threshold > 0

\* Another slip.
AfterFailure_Extends(s, p) ==
    IF s.failures + 1 >= p.threshold
    THEN [failures |-> 0, cooling |-> p.cooldown]
    ELSE [s EXCEPT !.failures = @ + 1]

\* A success wipes the streak and the cooldown; a failure during a cooldown
\* changes nothing; any other failure counts, and crossing the observing
\* policy's threshold arms that policy's cooldown and restarts the count.
AfterFailure(s, p) ==
    IF s.cooling > 0 THEN s
    ELSE IF s.failures + 1 >= p.threshold
         THEN [failures |-> 0, cooling |-> p.cooldown]
         ELSE [s EXCEPT !.failures = @ + 1]

AfterObservation(s, ok, p) == IF ok THEN NewStreak ELSE AfterFailure(s, p)

Observe(k, ok, p) ==
    /\ IF Records(p)
       THEN SetStreak(k, AfterObservation(StreakOf(k), ok, p))
       ELSE UNCHANGED states
    /\ UNCHANGED <<refs, pins>>

Healthy(k, p) == p.enabled => StreakOf(k).cooling = 0

\* The wall clock advances by one unit of cooldown time.
Elapse ==
    /\ \E k \in DOMAIN states : states[k].cooling > 0
    /\ states' = [k \in DOMAIN states |->
                    [states[k] EXCEPT !.cooling = IF @ > 0 THEN @ - 1 ELSE 0]]
    /\ UNCHANGED <<refs, pins>>

-----------------------------------------------------------------------------
(* The registry under arbitrary callers: any request may pin any non-empty *)
(* set of identities, and observe only identities it has pinned.           *)

PinSome(h) == \E keys \in (SUBSET Key) \ {{}} : Pin(h, keys)

ReleaseHeld(h) == pins[h] # {} /\ Release(h)

ObserveHeld(h) ==
    \E k \in pins[h], ok \in BOOLEAN, p \in Policies : Observe(k, ok, p)

ReclaimSome == \E active \in SUBSET Key : Reclaim(active)

HealthNext ==
    \/ \E h \in Holder : PinSome(h) \/ ReleaseHeld(h) \/ ObserveHeld(h)
    \/ ReclaimSome
    \/ Elapse

HealthSpec == HealthInit /\ [][HealthNext]_healthVars

\* Time passes whatever the requests do.
HealthFairSpec == HealthSpec /\ WF_healthVars(Elapse)

-----------------------------------------------------------------------------
(* Properties. *)

Cooling(k) == StreakOf(k).cooling > 0

Holders(k) == {h \in Holder : k \in pins[h]}

\* The reference count of an identity is the number of requests holding it,
\* through any interleaving of pins and releases: never one short (a state
\* reclaimed under a request) and never one over (a state nothing reclaims).
RefsCountHolders == \A k \in Key : refs[k] = Cardinality(Holders(k))

\* health.go, Registry: "a pinned identity can never vanish mid-request".
PinnedStateSurvives ==
    [][\A k \in Key : k \in DOMAIN states /\ Holders(k) # {} => k \in DOMAIN states']_healthVars

\* Observe: a failure during an active cooldown never extends it, whichever
\* generation's policy the late failure is judged under.
CooldownNeverExtended ==
    [][\A k \in Key : Cooling(k) => StreakOf(k)'.cooling <= StreakOf(k).cooling]_healthVars

\* A cooled identity returns however many failures are reported meanwhile:
\* "repeated failures can't push an egress out indefinitely".
CooldownEnds == \A k \in Key : Cooling(k) ~> ~Cooling(k)
=============================================================================
