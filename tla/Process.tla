------------------------------ MODULE Process ------------------------------
(***************************************************************************)
(* The life of the process: the client connections net/http serves, the    *)
(* tracker its ConnState hook feeds, the drain gate, and main's shutdown,  *)
(* beside the user agent sync.                                             *)
(*                                                                         *)
(* net/http is external.  A connection's own state and the hook that       *)
(* reports it are two steps; a request has been read before the            *)
(* connection is marked active, so Shutdown may close it in between.       *)
(***************************************************************************)
EXTENDS UserAgent

CONSTANT Conns
ASSUME ConnsAssumption == Conns # {}

VARIABLES
    main,       \* where main is
    draining,   \* Server.Draining
    listening,  \* http.Server accepts
    closing,    \* http.Server.inShutdown
    graceOver,  \* the grace context is done
    st,         \* net/http's state of a connection
    open,       \* its socket is open
    hook,       \* the ConnState call that is still to be made
    tracked,    \* connTracker.conns
    handler     \* the request being handled

connVars == <<st, open, hook, tracked, handler>>
mainVars == <<main, draining, listening, closing, graceOver>>
vars == <<mainVars, connVars, uaVars>>

ProcessInit ==
    /\ UaInit
    /\ main = "serving" /\ listening = TRUE
    /\ draining = FALSE /\ closing = FALSE /\ graceOver = FALSE
    /\ st = [c \in Conns |-> "none"]
    /\ open = [c \in Conns |-> FALSE]
    /\ hook = [c \in Conns |-> "none"]
    /\ tracked = {}
    /\ handler = [c \in Conns |-> "none"]

Gone == {"exited", "killed", "died"}
Running == main \notin Gone

-----------------------------------------------------------------------------
(* net/http's connections. *)

Becomes(c, state) ==
    /\ st' = [st EXCEPT ![c] = state]
    /\ hook' = [hook EXCEPT ![c] = state]

Accepts(c) ==
    /\ listening /\ st[c] = "none"
    /\ Becomes(c, "new")
    /\ open' = [open EXCEPT ![c] = TRUE]
    /\ UNCHANGED <<tracked, handler>>

\* connTracker.connState.
Tracks_NewOnly(state) == state = "new"
Tracks(state) == state \in {"new", "active"}

Hook(c) ==
    /\ hook[c] # "none"
    /\ tracked' = IF Tracks(hook[c]) THEN tracked \cup {c} ELSE tracked \ {c}
    /\ hook' = [hook EXCEPT ![c] = "none"]
    /\ UNCHANGED <<st, open, handler>>

\* A whole request has been read.
ReadsRequest(c) ==
    /\ st[c] \in {"new", "idle"} /\ hook[c] = "none"
    /\ open[c] /\ handler[c] = "none"
    /\ handler' = [handler EXCEPT ![c] = "read"]
    /\ UNCHANGED <<st, open, hook, tracked>>

Activates(c) ==
    /\ handler[c] = "read" /\ st[c] # "active"
    /\ Becomes(c, "active")
    /\ UNCHANGED <<open, tracked, handler>>

\* The drain gate of HandleChatCompletions, HandleResponses and HandleModels.
Gate(c) ==
    /\ handler[c] = "read" /\ st[c] = "active" /\ hook[c] = "none"
    /\ handler' = [handler EXCEPT ![c] = IF draining THEN "refused" ELSE "admitted"]
    /\ UNCHANGED <<st, open, hook, tracked>>

\* The handler returns: it is done, or its client is gone.
HandlerEnds(c) ==
    /\ handler[c] \in {"admitted", "refused"}
    /\ handler' = [handler EXCEPT ![c] = "none"]
    /\ Becomes(c, "idle")
    /\ UNCHANGED <<open, tracked>>

\* An idle connection ends: the client closed it, IdleTimeout or
\* ReadHeaderTimeout ran out, or keep-alive is over because of a shutdown.
ConnEnds(c) ==
    /\ st[c] \in {"new", "idle"} /\ hook[c] = "none" /\ handler[c] = "none"
    /\ Becomes(c, "closed")
    /\ open' = [open EXCEPT ![c] = FALSE]
    /\ UNCHANGED <<tracked, handler>>

\* Its slot may serve another connection.
Forget(c) ==
    /\ st[c] = "closed" /\ hook[c] = "none"
    /\ st' = [st EXCEPT ![c] = "none"]
    /\ UNCHANGED <<open, hook, tracked, handler>>

ServesConn(c) ==
    \/ Accepts(c) \/ Hook(c) \/ ReadsRequest(c) \/ Activates(c) \/ Gate(c)
    \/ HandlerEnds(c) \/ ConnEnds(c) \/ Forget(c)

Serves ==
    /\ Running
    /\ \E c \in Conns : ServesConn(c)
    /\ UNCHANGED <<mainVars, uaVars>>

-----------------------------------------------------------------------------
(* main. *)

Signal ==
    /\ main = "serving"
    /\ main' = "draining"
    /\ UNCHANGED <<draining, listening, closing, graceOver, connVars, uaVars>>

\* server.Drain().
Drains ==
    /\ main = "draining"
    /\ draining' = TRUE
    /\ main' = "stopping"
    /\ UNCHANGED <<listening, closing, graceOver, connVars, uaVars>>

\* store.Stop() and uaStop(): the poller and the sync loop are told to end.
StopsSync ==
    /\ main = "stopping"
    /\ stopped' = TRUE
    /\ main' = "shutting"
    /\ UNCHANGED <<draining, listening, closing, graceOver, connVars,
                   latest, inflight, triple, loop, warm>>

\* http.Server.Shutdown closes the listeners first.
StartsShutdown ==
    /\ main = "shutting"
    /\ closing' = TRUE /\ listening' = FALSE
    /\ main' = "waiting"
    /\ UNCHANGED <<draining, graceOver, connVars, uaVars>>

\* closeIdleConns, on each poll: a new connection counts as idle once it is
\* old; whatever is not idle keeps Shutdown waiting.
Quiescent(idle) == \A c \in Conns : st[c] \in {"none", "closed"} \/ c \in idle

Polls ==
    /\ main = "waiting"
    /\ \E old \in SUBSET {c \in Conns : st[c] = "new"} :
         LET idle == old \cup {c \in Conns : st[c] = "idle"} IN
         /\ open' = [c \in Conns |-> open[c] /\ c \notin idle]
         /\ main' = IF Quiescent(idle) THEN "complete" ELSE "waiting"
    /\ UNCHANGED <<draining, listening, closing, graceOver,
                   st, hook, tracked, handler, uaVars>>

\* context.WithTimeout(ShutdownGrace).
GraceEnds_Unbounded ==
    /\ main \in {"shutting", "waiting"} /\ ~graceOver
    /\ UNCHANGED vars
GraceEnds ==
    /\ main \in {"shutting", "waiting"} /\ ~graceOver
    /\ graceOver' = TRUE
    /\ UNCHANGED <<main, draining, listening, closing, connVars, uaVars>>

\* Shutdown returned the context's error: forceCloseAll.
ForceCloses ==
    /\ main = "waiting" /\ graceOver
    /\ open' = [c \in Conns |-> open[c] /\ c \notin tracked]
    /\ tracked' = {}
    /\ main' = "forced"
    /\ UNCHANGED <<draining, listening, closing, graceOver, st, hook, handler, uaVars>>

Exits ==
    /\ main \in {"complete", "forced"}
    /\ main' = "exited"
    /\ UNCHANGED <<draining, listening, closing, graceOver, connVars, uaVars>>

\* stop() gave the signals their default meaning back.
SecondSignal ==
    /\ main \notin {"serving"} \cup Gone
    /\ main' = "killed"
    /\ UNCHANGED <<draining, listening, closing, graceOver, connVars, uaVars>>

\* ListenAndServe returned an error of its own: os.Exit(1).
ListenerFails ==
    /\ listening /\ Running
    /\ main' = "died"
    /\ UNCHANGED <<draining, listening, closing, graceOver, connVars, uaVars>>

Main == Drains \/ StopsSync \/ StartsShutdown \/ Polls \/ ForceCloses \/ Exits

Syncs == Running /\ UaNext /\ UNCHANGED <<mainVars, connVars>>

ProcessNext ==
    \/ Serves \/ Syncs \/ Main
    \/ Signal \/ GraceEnds \/ SecondSignal \/ ListenerFails

ProcessSpec == ProcessInit /\ [][ProcessNext]_vars

\* main runs on; a poll that leaves Shutdown waiting is no progress, so the
\* grace and what follows it are fair on their own.
ProcessFair ==
    /\ ProcessSpec
    /\ WF_vars(Drains) /\ WF_vars(StopsSync) /\ WF_vars(StartsShutdown)
    /\ WF_vars(GraceEnds) /\ WF_vars(ForceCloses) /\ WF_vars(Exits)

-----------------------------------------------------------------------------
ProcessTypeOK ==
    /\ UaTypeOK
    /\ main \in {"serving", "draining", "stopping", "shutting", "waiting",
                 "complete", "forced"} \cup Gone
    /\ {draining, listening, closing, graceOver} \subseteq BOOLEAN
    /\ st \in [Conns -> {"none", "new", "active", "idle", "closed"}]
    /\ open \in [Conns -> BOOLEAN]
    /\ hook \in [Conns -> {"none", "new", "active", "idle", "closed"}]
    /\ tracked \subseteq Conns
    /\ handler \in [Conns -> {"none", "read", "refused", "admitted"}]

\* When Shutdown reports success every admitted request has been answered, and
\* after the forced phase no admitted request still has its connection, in
\* whatever state the ConnState hooks were caught (main.go: the order of
\* Drain, Shutdown and forceCloseAll).
ShutdownKeepsItsWord ==
    /\ main = "complete" => \A c \in Conns : handler[c] # "admitted"
    /\ main = "forced" => \A c \in Conns : handler[c] = "admitted" => ~open[c]

\* A signalled process ends, whatever its streams do (main.go: the grace of
\* Shutdown and what follows it).
ProcessEnds == main # "serving" ~> main \in Gone
=============================================================================
