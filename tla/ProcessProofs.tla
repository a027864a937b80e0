--------------------------- MODULE ProcessProofs ---------------------------
(***************************************************************************)
(* What lives as long as the process: its configuration store with the     *)
(* poller (ConfigStore), its connections and its identity (Process).  For  *)
(* every set of contents, every assignment of levels, any number of        *)
(* writes, of connections and of releases.  The two share no state and     *)
(* each has its own specification, Spec and ProcessSpec.                   *)
(***************************************************************************)
EXTENDS Process, ConfigStore, TLAPS

-----------------------------------------------------------------------------
(* The configuration store. *)

\* The inductive invariant: besides the types and the stamp, the bytes a cycle
\* sets the level from are those it has just published, and Stop has not
\* returned before the poller is gone.
StoreInv ==
    /\ TypeOK
    /\ StampDescribesSnapshot
    /\ poller = "leveling" => raw = cur.content
    /\ stop = "returned" => poller = "exited"

\* NewStore: the poller starts from the bytes the first snapshot was parsed from.
LEMMA StoreInit == Init => StoreInv
  BY ContentAssumption, MaxWritesAssumption DEF Init, StoreInv, TypeOK, StampDescribesSnapshot

\* Every step of the operator, the poller and main preserves it.
LEMMA StoreStep == StoreInv /\ [Next]_storeVars => StoreInv'
<1> SUFFICES ASSUME StoreInv, [Next]_storeVars PROVE StoreInv'
  OBVIOUS
<1> USE ContentAssumption, MaxWritesAssumption DEF StoreInv, TypeOK, StampDescribesSnapshot
<1>1. ASSUME NEW c \in Content \cup {Missing}, Write(c) PROVE StoreInv'
  BY <1>1 DEF Write, pollVars
<1>2. CASE TickReads
  BY <1>2 DEF TickReads
<1>3. CASE TickRejects
  BY <1>3 DEF TickRejects
<1>4. CASE TickSwaps
  BY <1>4 DEF TickSwaps
<1>5. CASE TickSetsLevel
  BY <1>5 DEF TickSetsLevel, Levels
<1>6. CASE PollExits
  BY <1>6 DEF PollExits
<1>7. CASE BootReadsLevel
  BY <1>7 DEF BootReadsLevel, pollVars, Levels
<1>8. CASE BootSetsLevel
  BY <1>8 DEF BootSetsLevel
<1>9. CASE StopCloses
  BY <1>9 DEF StopCloses, pollVars
<1>10. CASE StopReturns
  BY <1>10 DEF StopReturns, pollVars
<1>11. CASE UNCHANGED storeVars
  BY <1>11 DEF storeVars
<1> QED
  BY <1>1, <1>2, <1>3, <1>4, <1>5, <1>6, <1>7, <1>8, <1>9, <1>10, <1>11 DEF Next, TickIgnores

\* The store's invariant holds in every behaviour of NewStore, poll and Stop.
LEMMA StoreInvariant == Spec => []StoreInv
  BY StoreInit, StoreStep, PTL DEF Spec

\* Types: in particular the published snapshot is always a valid content,
\* whatever the operator writes (LoadBytes gates every swap).
THEOREM TypeCorrect == Spec => []TypeOK
<1>1. StoreInv => TypeOK
  BY DEF StoreInv
<1> QED
  BY <1>1, StoreInvariant, PTL

\* tick: the hash that answers "unchanged" and the generation counter always
\* describe the live snapshot.
THEOREM StampCorrect == Spec => []StampDescribesSnapshot
<1>1. StoreInv => StampDescribesSnapshot
  BY DEF StoreInv
<1> QED
  BY <1>1, StoreInvariant, PTL

\* Stop: once it has returned no snapshot is ever published.
THEOREM StopIsFinal == Spec => StoppedForGood
<1>1. StoreInv /\ [Next]_storeVars => [stop = "returned" => cur' = cur]_storeVars
  <2> SUFFICES ASSUME StoreInv, [Next]_storeVars, stop = "returned" PROVE cur' = cur
    OBVIOUS
  <2>1. poller = "exited"
    BY DEF StoreInv
  <2> QED
    BY <2>1 DEF Next, storeVars, Write, pollVars, TickIgnores, TickReads, TickRejects, TickSwaps,
                TickSetsLevel, PollExits, BootReadsLevel, BootSetsLevel, StopCloses, StopReturns
<1> QED
  BY <1>1, StoreInvariant, PTL DEF Spec, StoppedForGood

\* store.go: for its readers the store is a register that moves from one valid
\* configuration to the next generation's; every other step is invisible.
THEOREM StoreIsRegister == Spec => ImplementsRegister
<1>1. Init => Register!Init
  BY DEF Init, Register!Init
<1>2. StoreInv /\ [Next]_storeVars => [Register!Next]_cur
  <2> SUFFICES ASSUME StoreInv, [Next]_storeVars PROVE [Register!Next]_cur
    OBVIOUS
  <2>1. CASE TickSwaps
    BY <2>1 DEF TickSwaps, StoreInv, StampDescribesSnapshot, Register!Next, Register!Publish
  <2>2. CASE ~TickSwaps
    <3>1. cur' = cur
      BY <2>2 DEF Next, storeVars, Write, pollVars, TickIgnores, TickReads, TickRejects,
                  TickSetsLevel, PollExits, BootReadsLevel, BootSetsLevel, StopCloses, StopReturns
    <3> QED
      BY <3>1
  <2> QED
    BY <2>1, <2>2
<1> QED
  BY <1>1, <1>2, StoreInvariant, PTL DEF Spec, ImplementsRegister, Register!Spec

-----------------------------------------------------------------------------
(* The connections and the identity. *)

Fetching == {"release", "bun", "utils", "publish", "failed"}
Triples == [opencode : 0..MaxRelease, bun : 0..MaxRelease, utils : 0..MaxRelease]

\* What a caller has fetched is of one release, no older than the published
\* one.
Fresh(w) ==
    /\ w.at \in {"bun", "utils", "publish"} => w.got.opencode \in triple.opencode..latest
    /\ w.at \in {"utils", "publish"} => w.got.bun = w.got.opencode
    /\ w.at = "publish" => w.got.utils = w.got.opencode

\* The single flight: at most one caller fetches, and inflight says so; that
\* is why a slow fetch never overtakes a quick one.
UaInv ==
    /\ UaTypeOK
    /\ OneRelease(triple) /\ triple.opencode <= latest
    /\ \A c \in Callers : warm[c].at \in Fetching => inflight
    /\ \A c, d \in Callers : warm[c].at \in Fetching /\ warm[d].at \in Fetching => c = d
    /\ \A c \in Callers : Fresh(warm[c])

\* The hook that is still to be made names the connection's state; an active
\* connection whose hook was made is tracked until the forced phase; a handler
\* past the gate runs on an active one; past Drain nothing gets past the gate.
ConnInv ==
    /\ tracked \subseteq Conns
    /\ \A c \in Conns : hook[c] # "none" => hook[c] = st[c]
    /\ \A c \in Conns : handler[c] = "admitted" => st[c] = "active" /\ hook[c] = "none"
    /\ main \notin {"forced"} \cup Gone =>
          \A c \in Conns : st[c] = "active" /\ hook[c] = "none" => c \in tracked
    /\ main \in {"stopping", "shutting", "waiting", "complete", "forced"} => draining

ConnTypes ==
    /\ st \in [Conns -> {"none", "new", "active", "idle", "closed"}]
    /\ open \in [Conns -> BOOLEAN]
    /\ hook \in [Conns -> {"none", "new", "active", "idle", "closed"}]
    /\ handler \in [Conns -> {"none", "read", "refused", "admitted"}]
    /\ main \in {"serving", "draining", "stopping", "shutting", "waiting",
                 "complete", "forced"} \cup Gone

-----------------------------------------------------------------------------
(* The user agent. *)

LEMMA UaStarts == UaInit => UaInv
<1> SUFFICES ASSUME UaInit PROVE UaInv
  OBVIOUS
<1>1. Unresolved \in Triples
  BY ReleasesAssumption DEF Unresolved, Triples
<1>2. UaTypeOK
  <2>1. warm \in [Callers -> [at : Steps, got : Triples]]
    BY <1>1 DEF UaInit, Callers, Steps
  <2>2. latest \in 0..MaxRelease /\ triple \in Triples
    BY <1>1, ReleasesAssumption DEF UaInit
  <2>3. inflight \in BOOLEAN /\ stopped \in BOOLEAN /\ loop = "cycle"
    BY DEF UaInit
  <2> QED
    BY <2>1, <2>2, <2>3 DEF UaTypeOK, Triples
<1>3. \A c \in Callers : warm[c].at \notin Fetching
  BY DEF UaInit, Callers, Fetching
<1>4. OneRelease(triple) /\ triple.opencode <= latest
  BY DEF UaInit, OneRelease, Unresolved
<1> QED
  BY <1>2, <1>3, <1>4 DEF UaInv, Fresh, Fetching

\* Enter, the fetches and their failure.
LEMMA FetchKeeps ==
  ASSUME UaInv, NEW c \in Callers,
         Enter(c) \/ FetchLatestRelease(c) \/ FetchBunVersion(c) \/ FetchProviderUtils(c) \/ FetchFails(c)
  PROVE  UaInv' /\ UNCHANGED triple
<1> USE ReleasesAssumption DEF UaInv, UaTypeOK, Fresh, Fetching, Goes, Steps, Triples, Unresolved
<1>1. CASE Enter(c)
  <2> USE <1>1 DEF Enter
  <2>1. CASE inflight
    <3>1. warm' = [warm EXCEPT ![c] = [at |-> "done", got |-> Unresolved]]
      BY <2>1
    <3>2. UaTypeOK'
      BY <2>1, <3>1
    <3>3. \A d \in Callers : warm'[d] = warm[d] \/ warm'[d].at = "done"
      BY <3>1
    <3> QED
      BY <2>1, <3>2, <3>3
  <2>2. CASE ~inflight
    BY <2>2
  <2> QED
    BY <2>1, <2>2
<1>2. CASE FetchLatestRelease(c)
  BY <1>2 DEF FetchLatestRelease
<1>3. CASE FetchBunVersion(c)
  BY <1>3 DEF FetchBunVersion, FileAt
<1>4. CASE FetchProviderUtils(c)
  BY <1>4 DEF FetchProviderUtils, FileAt
<1>5. CASE FetchFails(c)
  BY <1>5 DEF FetchFails
<1> QED
  BY <1>1, <1>2, <1>3, <1>4, <1>5

Forward == triple' # triple => OneRelease(triple') /\ triple'.opencode > triple.opencode

LEMMA LeaveKeeps == ASSUME UaInv, NEW c \in Callers, Leave(c) PROVE UaInv' /\ Forward
<1> USE ReleasesAssumption DEF UaInv, UaTypeOK, Fresh, Fetching, Goes, Steps, Unresolved, Leave
<1>1. \A d \in Callers \ {c} : warm'[d] = warm[d] /\ warm[d].at \notin Fetching
  OBVIOUS
<1>2. warm'[c] = [at |-> "done", got |-> Unresolved]
  OBVIOUS
<1>3. warm' \in [Callers -> [at : Steps,
                   got : [opencode : 0..MaxRelease, bun : 0..MaxRelease, utils : 0..MaxRelease]]]
  OBVIOUS
<1>4. triple' \in [opencode : 0..MaxRelease, bun : 0..MaxRelease, utils : 0..MaxRelease]
  OBVIOUS
<1>5. OneRelease(triple') /\ triple'.opencode <= latest /\ triple'.opencode >= triple.opencode
  BY DEF OneRelease
<1>6. triple'.opencode = triple.opencode => triple' = triple
  BY <1>4, <1>5 DEF OneRelease
<1>7. UaInv'
  BY <1>1, <1>2, <1>3, <1>4, <1>5, ZenonT(60)
<1>8. triple.opencode \in Nat /\ triple'.opencode \in Nat
  BY <1>4
<1> HIDE DEF UaInv, UaTypeOK, Fresh, Fetching, Goes, Steps, Unresolved, Leave
<1> QED
  BY <1>5, <1>6, <1>7, <1>8 DEF Forward

LEMMA UaStep == UaInv /\ UaNext => UaInv' /\ Forward
<1> SUFFICES ASSUME UaInv, UaNext PROVE UaInv' /\ Forward
  OBVIOUS
<1>1. CASE Publishes
  <2> USE <1>1, ReleasesAssumption DEF Publishes, UaInv, UaTypeOK
  <2>1. UaTypeOK'
    <3>1. latest' \in 0..MaxRelease
      OBVIOUS
    <3> QED
      BY <3>1
  <2>2. \A c \in Callers : Fresh(warm[c])'
    BY DEF Fresh
  <2>3. triple'.opencode <= latest' /\ OneRelease(triple')
    BY DEF OneRelease
  <2>4. UNCHANGED <<triple, warm, inflight>>
    OBVIOUS
  <2> QED
    BY <2>1, <2>2, <2>3, <2>4 DEF Forward
<1>2. ASSUME NEW c \in Callers, Warm(c) PROVE UaInv' /\ Forward
  BY <1>2, FetchKeeps, LeaveKeeps DEF Warm, Forward
<1>3. CASE SyncLoop
  <2> USE DEF UaInv, UaTypeOK, Fresh, Forward
  <2>1. CASE Cycle
    BY <1>3, <2>1 DEF Cycle
  <2>2. CASE Idles
    BY <1>3, <2>2 DEF Idles
  <2>3. CASE TimerFires
    BY <1>3, <2>3, ReleasesAssumption DEF TimerFires, Goes, Steps, Unresolved, Callers, Fetching
  <2>4. CASE LoopStops
    BY <1>3, <2>4 DEF LoopStops
  <2> QED
    BY <1>3, <2>1, <2>2, <2>3, <2>4 DEF SyncLoop
<1> QED
  BY <1>1, <1>2, <1>3 DEF UaNext

-----------------------------------------------------------------------------
(* The connections and main. *)

LEMMA ConnStarts == ProcessInit => ConnTypes /\ ConnInv
  BY DEF ProcessInit, ConnTypes, ConnInv, Gone

\* net/http's connection goroutines and the hook.
LEMMA ServesKeeps ==
  ASSUME ConnTypes, ConnInv, Running, NEW c \in Conns, ServesConn(c), UNCHANGED mainVars
  PROVE  ConnTypes' /\ ConnInv'
<1> USE DEF ConnTypes, ConnInv, Running, Gone, Becomes, mainVars
<1>1. CASE Accepts(c)
  BY <1>1 DEF Accepts
<1>2. CASE Hook(c)
  BY <1>2 DEF Hook, Tracks
<1>3. CASE ReadsRequest(c)
  BY <1>3 DEF ReadsRequest
<1>4. CASE Activates(c)
  BY <1>4 DEF Activates
<1>5. CASE Gate(c)
  BY <1>5 DEF Gate
<1>6. CASE HandlerEnds(c)
  BY <1>6 DEF HandlerEnds
<1>7. CASE ConnEnds(c)
  BY <1>7 DEF ConnEnds
<1>8. CASE Forget(c)
  BY <1>8 DEF Forget
<1> QED
  BY <1>1, <1>2, <1>3, <1>4, <1>5, <1>6, <1>7, <1>8 DEF ServesConn

MainSteps == Main \/ Signal \/ GraceEnds \/ SecondSignal \/ ListenerFails

LEMMA MainKeeps == ASSUME ConnTypes, ConnInv, MainSteps PROVE ConnTypes' /\ ConnInv'
<1> USE DEF ConnTypes, ConnInv, Gone, connVars
<1>1. CASE Drains
  BY <1>1 DEF Drains
<1>2. CASE StopsSync
  BY <1>2 DEF StopsSync
<1>3. CASE StartsShutdown
  BY <1>3 DEF StartsShutdown
<1>4. CASE Polls
  BY <1>4 DEF Polls
<1>5. CASE ForceCloses
  BY <1>5 DEF ForceCloses
<1>6. CASE Exits
  BY <1>6 DEF Exits
<1>7. CASE Signal \/ GraceEnds \/ SecondSignal \/ ListenerFails
  BY <1>7 DEF Signal, GraceEnds, SecondSignal, ListenerFails, Running
<1> QED
  BY <1>1, <1>2, <1>3, <1>4, <1>5, <1>6, <1>7 DEF MainSteps, Main

-----------------------------------------------------------------------------
(* The process. *)

ProcessInv == UaInv /\ ConnTypes /\ ConnInv /\ ShutdownKeepsItsWord

\* Neither phase of the shutdown breaks its word, and nothing after it does.
LEMMA WordKept ==
  ASSUME ConnTypes, ConnInv, ShutdownKeepsItsWord,
         (\E c \in Conns : Running /\ ServesConn(c) /\ UNCHANGED mainVars) \/ MainSteps
  PROVE  ShutdownKeepsItsWord'
<1> USE DEF ShutdownKeepsItsWord, ConnTypes, ConnInv
<1>1. ASSUME NEW c \in Conns, ServesConn(c), UNCHANGED mainVars PROVE ShutdownKeepsItsWord'
  <2>1. \A d \in Conns : handler'[d] = "admitted" => handler[d] = "admitted" \/ ~draining
    BY <1>1 DEF ServesConn, Accepts, Hook, ReadsRequest, Activates, Gate, HandlerEnds, ConnEnds, Forget
  <2>2. \A d \in Conns : open'[d] => open[d] \/ st[d] = "none"
    BY <1>1 DEF ServesConn, Accepts, Hook, ReadsRequest, Activates, Gate, HandlerEnds, ConnEnds, Forget
  <2> QED
    BY <1>1, <2>1, <2>2 DEF mainVars
<1>2. CASE Polls
  BY <1>2 DEF Polls, Quiescent
<1>3. CASE ForceCloses
  BY <1>3 DEF ForceCloses, Gone
<1>4. CASE Drains \/ StopsSync \/ StartsShutdown \/ Exits
  BY <1>4 DEF Drains, StopsSync, StartsShutdown, Exits
<1>5. CASE Signal \/ GraceEnds \/ SecondSignal \/ ListenerFails
  BY <1>5 DEF Signal, GraceEnds, SecondSignal, ListenerFails, connVars
<1> QED
  BY <1>1, <1>2, <1>3, <1>4, <1>5 DEF MainSteps, Main

LEMMA ProcessStep == ProcessInv /\ [ProcessNext]_vars => ProcessInv' /\ Forward
<1> SUFFICES ASSUME ProcessInv, [ProcessNext]_vars PROVE ProcessInv' /\ Forward
  OBVIOUS
<1> USE DEF ProcessInv
<1>1. ASSUME UNCHANGED uaVars PROVE UaInv' /\ Forward
  BY <1>1 DEF UaInv, UaTypeOK, Fresh, uaVars, Forward
<1>2. ASSUME UNCHANGED <<mainVars, connVars>> PROVE (ConnTypes /\ ConnInv /\ ShutdownKeepsItsWord)'
  BY <1>2 DEF ConnTypes, ConnInv, ShutdownKeepsItsWord, mainVars, connVars
<1>3. CASE Serves
  BY <1>1, <1>3, ServesKeeps, WordKept DEF Serves
<1>4. CASE Syncs
  BY <1>2, <1>4, UaStep DEF Syncs
<1>5. CASE StopsSync
  <2>1. UaInv' /\ Forward
    BY <1>5 DEF StopsSync, UaInv, UaTypeOK, Fresh, Forward
  <2> QED
    BY <1>5, <2>1, MainKeeps, WordKept DEF MainSteps, Main
<1>6. CASE MainSteps /\ ~StopsSync
  <2>1. UNCHANGED uaVars
    BY <1>6 DEF MainSteps, Main, Drains, StartsShutdown, Polls, ForceCloses, Exits,
                Signal, GraceEnds, SecondSignal, ListenerFails
  <2> QED
    BY <1>1, <1>6, <2>1, MainKeeps, WordKept
<1>7. CASE UNCHANGED vars
  BY <1>1, <1>2, <1>7 DEF vars
<1> QED
  BY <1>3, <1>4, <1>5, <1>6, <1>7 DEF ProcessNext, MainSteps, Main

LEMMA ProcessStarts == ProcessInit => ProcessInv
  BY UaStarts, ConnStarts DEF ProcessInit, ProcessInv, ShutdownKeepsItsWord

LEMMA ProcessInvariant == ProcessSpec => []ProcessInv
  BY ProcessStarts, ProcessStep, PTL DEF ProcessSpec

\* A shutdown that reports success has answered every admitted request, and a
\* forced one has closed the connection of every request it abandons
\* (main.go, the two phases of the shutdown).
THEOREM ShutdownCorrect == ProcessSpec => []ShutdownKeepsItsWord
  BY ProcessInvariant, PTL DEF ProcessInv

\* The identity sent upstream moves from one release to a newer one, never to
\* a mixture and never back (useragent.go, Warm and fetchTriple).
THEOREM IdentityCorrect == ProcessSpec => IdentityMovesForward
<1>1. ProcessInv /\ [ProcessNext]_vars =>
        [triple' # triple =>
           OneRelease(triple') /\ triple'.opencode > triple.opencode]_triple
  BY ProcessStep DEF Forward
<1> QED
  BY <1>1, ProcessInvariant, PTL DEF ProcessSpec, IdentityMovesForward
=============================================================================
