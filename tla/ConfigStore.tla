---------------------------- MODULE ConfigStore -----------------------------
(***************************************************************************)
(* config.Store: the initial load, the polling goroutine (poll, tick) that *)
(* swaps the published snapshot, the process log level it maintains, and   *)
(* Stop.  The operator's editor writes the file at any moment, including   *)
(* between the steps of a poll cycle; a half-written file is one more      *)
(* content that does not parse.  A content stands for its SHA-256.         *)
(***************************************************************************)
EXTENDS Naturals

CONSTANTS
    Content,       \* what the file may hold
    ValidContent,  \* the contents LoadBytes accepts
    Missing,       \* the file cannot be read
    LevelOf(_),    \* logging.level of a valid content
    MaxWrites      \* bound: writes of the file per behaviour

ASSUME ContentAssumption ==
    /\ ValidContent \subseteq Content
    /\ Missing \notin Content

ASSUME MaxWritesAssumption == MaxWrites \in Nat

VARIABLES
    file,          \* the configuration file
    writes,        \* number of writes so far
    cur,           \* Store.cur: generation and content of the snapshot
    gen,           \* Store.gen
    lastHash,      \* poll's last content hash
    poller,        \* where the polling goroutine is
    raw,           \* the bytes of the cycle's read
    level,         \* zerolog's process-wide level
    boot,          \* main, between NewStore and the first SetGlobalLevel
    bootLevel,     \* the level main has read from the snapshot
    stop           \* Stop: "no", "closed" (stopCh), "returned"

storeVars == <<file, writes, cur, gen, lastHash, poller, raw, level, boot, bootLevel, stop>>

pollVars == <<cur, gen, lastHash, poller, raw, level>>

Levels == {LevelOf(c) : c \in ValidContent}

\* The store's types: above all, the published snapshot is always valid.
TypeOK ==
    /\ file \in Content \cup {Missing}
    /\ writes \in 0..MaxWrites
    /\ cur \in [gen : Nat \ {0}, content : ValidContent]
    /\ gen \in Nat \ {0}
    /\ lastHash \in Content
    /\ poller \in {"waiting", "read", "leveling", "exited"}
    /\ raw \in Content
    /\ level \in Levels \cup {"default"}
    /\ boot \in {"start", "read", "done"}
    /\ bootLevel \in Levels \cup {"default"}
    /\ stop \in {"no", "closed", "returned"}

\* NewStore: a load failure is fatal, so the poller starts from valid bytes,
\* with the hash of those bytes.
Init ==
    /\ file \in ValidContent
    /\ writes = 0
    /\ cur = [gen |-> 1, content |-> file]
    /\ gen = 1
    /\ lastHash = file
    /\ poller = "waiting"
    /\ raw = file
    /\ level = "default"
    /\ boot = "start"
    /\ bootLevel = "default"
    /\ stop = "no"

-----------------------------------------------------------------------------
(* The operator. *)

Write(c) ==
    /\ writes < MaxWrites
    /\ c # file
    /\ file' = c
    /\ writes' = writes + 1
    /\ UNCHANGED <<pollVars, boot, bootLevel, stop>>

-----------------------------------------------------------------------------
(* The polling goroutine. *)

\* A tick fires and the read fails, or the hash is the last one adopted.
TickIgnores ==
    /\ poller = "waiting"
    /\ file \in {Missing, lastHash}
    /\ UNCHANGED storeVars

\* A tick fires and the one read of the cycle finds another content.
TickReads ==
    /\ poller = "waiting"
    /\ file \notin {Missing, lastHash}
    /\ raw' = file
    /\ poller' = "read"
    /\ UNCHANGED <<file, writes, cur, gen, lastHash, level, boot, bootLevel, stop>>

\* LoadBytes refuses it: the snapshot stays, and so does the hash.
TickRejects ==
    /\ poller = "read"
    /\ raw \notin ValidContent
    /\ poller' = "waiting"
    /\ UNCHANGED <<file, writes, cur, gen, lastHash, raw, level, boot, bootLevel, stop>>

\* Slips: a second read for the parse; a swap that keeps the old hash or takes
\* a content that was not checked.
TickSwaps_ReadsAgain ==
    /\ poller = "read"
    /\ file \in ValidContent
    /\ lastHash' = raw
    /\ gen' = gen + 1
    /\ cur' = [gen |-> gen + 1, content |-> file]
    /\ poller' = "leveling"
    /\ UNCHANGED <<file, writes, raw, level, boot, bootLevel, stop>>

TickSwaps_KeepsHash ==
    /\ poller = "read"
    /\ raw \in ValidContent
    /\ gen' = gen + 1
    /\ cur' = [gen |-> gen + 1, content |-> raw]
    /\ poller' = "leveling"
    /\ UNCHANGED <<file, writes, lastHash, raw, level, boot, bootLevel, stop>>

TickSwaps_Unvalidated ==
    /\ poller = "read"
    /\ lastHash' = raw
    /\ gen' = gen + 1
    /\ cur' = [gen |-> gen + 1, content |-> raw]
    /\ poller' = "leveling"
    /\ UNCHANGED <<file, writes, raw, level, boot, bootLevel, stop>>

\* LoadBytes accepts it: hash, generation and snapshot move together.
TickSwaps ==
    /\ poller = "read"
    /\ raw \in ValidContent
    /\ lastHash' = raw
    /\ gen' = gen + 1
    /\ cur' = [gen |-> gen + 1, content |-> raw]
    /\ poller' = "leveling"
    /\ UNCHANGED <<file, writes, raw, level, boot, bootLevel, stop>>

\* zerolog.SetGlobalLevel, after the snapshot is already public.
TickSetsLevel ==
    /\ poller = "leveling"
    /\ level' = LevelOf(raw)
    /\ poller' = "waiting"
    /\ UNCHANGED <<file, writes, cur, gen, lastHash, raw, boot, bootLevel, stop>>

\* poll's select takes the closed stopCh; it may also take a due tick first.
PollExits ==
    /\ poller = "waiting"
    /\ stop # "no"
    /\ poller' = "exited"
    /\ UNCHANGED <<file, writes, cur, gen, lastHash, raw, level, boot, bootLevel, stop>>

-----------------------------------------------------------------------------
(* main: the bootstrap level, and the shutdown's Stop. *)

BootReadsLevel ==
    /\ boot = "start"
    /\ boot' = "read"
    /\ bootLevel' = LevelOf(cur.content)
    /\ UNCHANGED <<file, writes, pollVars, stop>>

BootSetsLevel ==
    /\ boot = "read"
    /\ boot' = "done"
    /\ level' = bootLevel
    /\ UNCHANGED <<file, writes, cur, gen, lastHash, poller, raw, bootLevel, stop>>

StopCloses ==
    /\ boot = "done"
    /\ stop = "no"
    /\ stop' = "closed"
    /\ UNCHANGED <<file, writes, pollVars, boot, bootLevel>>

StopReturns_Unjoined ==
    /\ stop = "closed"
    /\ stop' = "returned"
    /\ UNCHANGED <<file, writes, pollVars, boot, bootLevel>>

\* <-s.done
StopReturns ==
    /\ stop = "closed"
    /\ poller = "exited"
    /\ stop' = "returned"
    /\ UNCHANGED <<file, writes, pollVars, boot, bootLevel>>

PollCycle == TickReads \/ TickRejects \/ TickSwaps \/ TickSetsLevel

Next ==
    \/ \E c \in Content \cup {Missing} : Write(c)
    \/ TickIgnores
    \/ TickReads
    \/ TickRejects
    \/ TickSwaps
    \/ TickSetsLevel
    \/ PollExits
    \/ BootReadsLevel
    \/ BootSetsLevel
    \/ StopCloses
    \/ StopReturns

Spec == Init /\ [][Next]_storeVars

\* The ticker keeps firing, the goroutine runs, a select that keeps finding
\* stopCh closed takes it in the end; nothing makes the operator write.
FairSpec ==
    /\ Spec
    /\ WF_storeVars(PollCycle)
    /\ SF_storeVars(PollExits)
    /\ WF_storeVars(StopReturns)
    /\ WF_storeVars(BootReadsLevel \/ BootSetsLevel)

-----------------------------------------------------------------------------
(* Properties. *)

\* store.go, Store: "a valid config is never replaced by an invalid one", and
\* each swap publishes the next generation: the store is a ConfigRegister.
Register == INSTANCE ConfigRegister

ImplementsRegister == Register!Spec

\* store.go, Store: the hash that gates "unchanged" always describes the
\* bytes the live snapshot was parsed from, whatever was written during the
\* cycle: otherwise a later edit would be taken for the old content.
StampDescribesSnapshot ==
    /\ lastHash = cur.content
    /\ gen = cur.gen

\* poll: an edit that stays is adopted, however many broken or half-written
\* versions (or read failures) came before it.
EditsAreAdopted ==
    \A c \in ValidContent :
        <>[](file = c /\ stop = "no") => <>[](cur.content = c)

\* Stop waits for the poller: nothing is published once it has returned.
StoppedForGood == [][stop = "returned" => cur' = cur]_storeVars
=============================================================================
