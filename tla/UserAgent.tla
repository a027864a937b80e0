----------------------------- MODULE UserAgent -----------------------------
(***************************************************************************)
(* The user agent cache: one forced Warm at startup, one per cycle of the  *)
(* sync loop, both resolving the triple (release, bun, provider-utils)     *)
(* from GitHub, where releases are published meanwhile.  A release is its  *)
(* number; 0 is the compiled-in fallback.                                  *)
(***************************************************************************)
EXTENDS Naturals

CONSTANT MaxRelease      \* bound: releases published while we look
ASSUME ReleasesAssumption == MaxRelease \in Nat

VARIABLES
    latest,     \* external: the newest release on GitHub
    inflight,   \* UserAgentCache.inflight
    triple,     \* UserAgentCache.triple
    loop,       \* where the sync loop is
    stopped,    \* done is closed
    warm        \* where each caller of Warm is, and what it fetched

uaVars == <<latest, inflight, triple, loop, stopped, warm>>

Callers == {"startup", "loop"}
\* Both the zero triple and the fallback triple it is rendered as.
Unresolved == [opencode |-> 0, bun |-> 0, utils |-> 0]
Steps == {"enter", "release", "bun", "utils", "publish", "failed", "done"}

UaInit ==
    /\ latest = 0
    /\ inflight = FALSE
    /\ triple = Unresolved
    /\ loop = "cycle" /\ stopped = FALSE
    /\ warm = [c \in Callers |->
                 [at |-> IF c = "startup" THEN "enter" ELSE "done", got |-> Unresolved]]

-----------------------------------------------------------------------------
(* GitHub. *)

Publishes ==
    /\ latest < MaxRelease
    /\ latest' = latest + 1
    /\ UNCHANGED <<inflight, triple, loop, stopped, warm>>

-----------------------------------------------------------------------------
(* Warm(client, force = true). *)

Goes(c, step, got) == warm' = [warm EXCEPT ![c] = [at |-> step, got |-> got]]

\* Single flight: whoever finds a fetch under way returns at once.
Enter_NotAlone(c) ==
    /\ warm[c].at = "enter"
    /\ inflight' = TRUE /\ Goes(c, "release", Unresolved)
    /\ UNCHANGED <<latest, triple, loop, stopped>>
Enter(c) ==
    /\ warm[c].at = "enter"
    /\ IF inflight
         THEN Goes(c, "done", Unresolved) /\ UNCHANGED inflight
         ELSE inflight' = TRUE /\ Goes(c, "release", Unresolved)
    /\ UNCHANGED <<latest, triple, loop, stopped>>

FetchLatestRelease(c) ==
    /\ warm[c].at = "release"
    /\ Goes(c, "bun", [Unresolved EXCEPT !.opencode = latest])
    /\ UNCHANGED <<latest, inflight, triple, loop, stopped>>

\* fetchRaw reads the file at the probed tag.
FileAt(tag) == tag

FetchBunVersion(c) ==
    /\ warm[c].at = "bun"
    /\ Goes(c, "utils", [warm[c].got EXCEPT !.bun = FileAt(warm[c].got.opencode)])
    /\ UNCHANGED <<latest, inflight, triple, loop, stopped>>

FetchProviderUtils(c) ==
    /\ warm[c].at = "utils"
    /\ Goes(c, "publish", [warm[c].got EXCEPT !.utils = FileAt(warm[c].got.opencode)])
    /\ UNCHANGED <<latest, inflight, triple, loop, stopped>>

\* No answer, a bad status, an oversized file, or nothing the pattern finds.
FetchFails(c) ==
    /\ warm[c].at \in {"release", "bun", "utils"}
    /\ Goes(c, "failed", warm[c].got)
    /\ UNCHANGED <<latest, inflight, triple, loop, stopped>>

\* All or nothing.
Leave(c) ==
    /\ warm[c].at \in {"publish", "failed"}
    /\ triple' = IF warm[c].at = "publish" THEN warm[c].got ELSE triple
    /\ inflight' = FALSE
    /\ Goes(c, "done", Unresolved)
    /\ UNCHANGED <<latest, loop, stopped>>

Warm(c) ==
    \/ Enter(c) \/ FetchLatestRelease(c) \/ FetchBunVersion(c)
    \/ FetchProviderUtils(c) \/ FetchFails(c) \/ Leave(c)

-----------------------------------------------------------------------------
(* StartSync's loop. *)

\* The interval is read from the live snapshot on every cycle, and a reload may
\* have changed it either way; without one the loop only idles.
Cycle ==
    /\ loop = "cycle" /\ warm["loop"].at = "done"
    /\ loop' \in {"armed", "idle"}
    /\ UNCHANGED <<latest, inflight, triple, stopped, warm>>

Idles ==
    /\ loop = "idle"
    /\ loop' = "cycle"
    /\ UNCHANGED <<latest, inflight, triple, stopped, warm>>

\* select: a timer that fired may win over a stop that came meanwhile.
TimerFires ==
    /\ loop = "armed"
    /\ loop' = "cycle"
    /\ Goes("loop", "enter", Unresolved)
    /\ UNCHANGED <<latest, inflight, triple, stopped>>

LoopStops ==
    /\ loop \in {"idle", "armed"} /\ stopped
    /\ loop' = "gone"
    /\ UNCHANGED <<latest, inflight, triple, stopped, warm>>

SyncLoop == Cycle \/ Idles \/ TimerFires \/ LoopStops

UaNext ==
    \/ Publishes
    \/ \E c \in Callers : Warm(c)
    \/ SyncLoop

-----------------------------------------------------------------------------
UaTypeOK ==
    /\ latest \in 0..MaxRelease
    /\ inflight \in BOOLEAN /\ stopped \in BOOLEAN
    /\ triple \in [opencode : 0..MaxRelease, bun : 0..MaxRelease, utils : 0..MaxRelease]
    /\ loop \in {"cycle", "armed", "idle", "gone"}
    /\ warm \in [Callers -> [at : Steps,
                   got : [opencode : 0..MaxRelease, bun : 0..MaxRelease, utils : 0..MaxRelease]]]

OneRelease(t) == t.bun = t.opencode /\ t.utils = t.opencode

\* The published identity is always that of one release, and never of an
\* older release than the one before, however the fetches of the startup
\* Warm and of the sync loop interleave with each other and with new releases
\* (useragent.go: fetchTriple, the single flight of Warm).
IdentityMovesForward ==
    [][triple' # triple =>
         OneRelease(triple') /\ triple'.opencode > triple.opencode]_triple
=============================================================================
