-------------------------------- MODULE Proxy --------------------------------
(***************************************************************************)
(* The life of concurrent requests in router.Server: the arrival snapshot, *)
(* the drain gate, the pin of the route's health identities, the           *)
(* once-per-generation maintenance, eligibility, the plan, the attempts,   *)
(* the stream and its slot, and the deferred release of the pins; while    *)
(* the configuration is reloaded and the server starts to drain.           *)
(*                                                                         *)
(* Composes HealthRegistry and Limiter.  The order of the plan is left     *)
(* open (Scheduler fixes it), an attempt is one verdict (Executor), and    *)
(* publishing a generation is one step (ConfigStore).                      *)
(*                                                                         *)
(* clientMu guards match-and-pin, the maintenance and the transport cache: *)
(* each of them is one action.                                             *)
(***************************************************************************)
EXTENDS HealthRegistry, Limiter, Sequences

CONSTANTS
    Confs,      \* the generations, in order of publication
    Transport   \* transport signatures

Generation == DOMAIN Confs

ASSUME SameRequests == Holder = User
ASSUME KeysAreIdentities == Key = Egress \X Transport
\* The store is never empty: the boot configuration is generation 1.
ASSUME FirstGeneration == 1 \in Generation

ASSUME ConfsTyped ==
    \A g \in Generation :
        /\ Confs[g].route \in Seq(Egress)
        /\ Confs[g].enabled \subseteq Egress
        /\ Confs[g].transport \in [Egress -> Transport]
        /\ Confs[g].cap \in [Egress -> Caps]
        /\ Confs[g].policy \in Policies
        /\ Confs[g].fallback \in BOOLEAN
        /\ Confs[g].max \in Nat \ {0}

VARIABLES
    published,     \* the store's current generation
    draining,      \* Server.Draining
    prunedGen,     \* Server.prunedGen
    clients,       \* Server.clients: transports in the cache
    req,           \* per request: where it is, its snapshot, plan and place in it
    dialedGen      \* history: newest generation that looked up a transport

serverVars == <<published, draining, prunedGen, clients, dialedGen>>
proxyVars == <<healthVars, limiterVars, serverVars, req>>

Steps == {"idle", "arrived", "admitted", "pinned", "eligibility", "capacity",
          "dial", "resolved", "dialing", "failed", "streaming", "closing", "leaving", "done"}

ProxyInit ==
    /\ HealthInit /\ LimiterInit
    /\ published = 1 /\ draining = FALSE /\ prunedGen = 0 /\ clients = {} /\ dialedGen = 0
    /\ req = [r \in User |-> [pc |-> "idle", gen |-> 1, entry |-> 1, heads |-> <<>>,
                              plan |-> <<>>, attempts |-> 0]]

-----------------------------------------------------------------------------
(* What a request reads off its own snapshot. *)

Conf(r) == Confs[req[r].gen]
Identity(g, e) == <<e, Confs[g].transport[e]>>
Routed(g) == {Confs[g].route[k] : k \in DOMAIN Confs[g].route}

\* generationKeepSets and routeHealthKeys: what the routes refer to.
KeptTransports(g) == {Confs[g].transport[e] : e \in Routed(g)}
KeptKeys(g) == {Identity(g, e) : e \in Routed(g)}

At(r, step) == req[r].pc = step
Goes(r, step) == req' = [req EXCEPT ![r].pc = step]

\* The egress looked at: of the route while scanning, of the plan afterwards.
Candidate(r) == Conf(r).route[req[r].entry]
Target(r) == req[r].plan[req[r].entry]
HasTarget(r) == req[r].entry \in DOMAIN req[r].plan

-----------------------------------------------------------------------------
(* The environment. *)

Reload ==
    /\ published + 1 \in Generation
    /\ published' = published + 1
    /\ UNCHANGED <<healthVars, limiterVars, draining, prunedGen, clients, req, dialedGen>>

Drain ==
    /\ ~draining
    /\ draining' = TRUE
    /\ UNCHANGED <<healthVars, limiterVars, published, prunedGen, clients, req, dialedGen>>

Tick == Elapse /\ UNCHANGED <<limiterVars, serverVars, req>>

-----------------------------------------------------------------------------
(* Before the first dial. *)

\* The single store read, BEFORE the drain gate.
Arrive(r) ==
    /\ At(r, "idle")
    /\ req' = [req EXCEPT ![r].pc = "arrived", ![r].gen = published]
    /\ UNCHANGED <<healthVars, limiterVars, serverVars>>

Gate(r) ==
    /\ At(r, "arrived")
    /\ Goes(r, IF draining THEN "done" ELSE "admitted")
    /\ UNCHANGED <<healthVars, limiterVars, serverVars>>

MatchAndPin_NoPin(r) ==
    /\ At(r, "admitted")
    /\ Goes(r, IF Conf(r).route = <<>> THEN "done" ELSE "pinned")
    /\ UNCHANGED <<healthVars, limiterVars, serverVars>>

\* No route: the answer is a 400 and nothing was pinned.
MatchAndPin(r) ==
    /\ At(r, "admitted")
    /\ IF Conf(r).route = <<>>
       THEN Goes(r, "done") /\ UNCHANGED healthVars
       ELSE Goes(r, "pinned") /\ Pin(r, KeptKeys(req[r].gen))
    /\ UNCHANGED <<limiterVars, serverVars>>

Maintain_AnyOther(r) ==
    /\ At(r, "pinned")
    /\ Goes(r, "eligibility")
    /\ IF prunedGen = req[r].gen
       THEN UNCHANGED <<prunedGen, clients, healthVars>>
       ELSE /\ prunedGen' = req[r].gen
            /\ clients' = clients \cap KeptTransports(req[r].gen)
            /\ Reclaim(KeptKeys(req[r].gen))
    /\ UNCHANGED <<limiterVars, published, draining, dialedGen>>

\* onGeneration: only a generation newer than every serviced one prunes the
\* transports, reclaims health state and (Scheduler) forgets routes.
Maintain(r) ==
    /\ At(r, "pinned")
    /\ Goes(r, "eligibility")
    /\ IF prunedGen >= req[r].gen
       THEN UNCHANGED <<prunedGen, clients, healthVars>>
       ELSE /\ prunedGen' = req[r].gen
            /\ clients' = clients \cap KeptTransports(req[r].gen)
            /\ Reclaim(KeptKeys(req[r].gen))
    /\ UNCHANGED <<limiterVars, published, draining, dialedGen>>

NextCandidate(r) == req' = [req EXCEPT ![r].pc = "eligibility", ![r].entry = @ + 1]

\* routeHeads, first half of an entry: the static filters, then health.
CheckEligible(r) ==
    /\ At(r, "eligibility") /\ req[r].entry \in DOMAIN Conf(r).route
    /\ IF /\ Candidate(r) \in Conf(r).enabled
          /\ Healthy(Identity(req[r].gen, Candidate(r)), Conf(r).policy)
       THEN Goes(r, "capacity")
       ELSE NextCandidate(r)
    /\ UNCHANGED <<healthVars, limiterVars, serverVars>>

\* Second half: a look at the slots, without reserving one.
CheckCapacity(r) ==
    /\ At(r, "capacity")
    /\ IF Peek(Candidate(r), Conf(r).cap[Candidate(r)])
       THEN req' = [req EXCEPT ![r].pc = "eligibility", ![r].entry = @ + 1,
                               ![r].heads = Append(@, Candidate(r))]
       ELSE NextCandidate(r)
    /\ UNCHANGED <<healthVars, limiterVars, serverVars>>

Orders(s) == {p \in [DOMAIN s -> {s[k] : k \in DOMAIN s}] :
                 \A j, k \in DOMAIN s : p[j] = p[k] => j = k}

\* No head: 502.  Else some order of the heads.
PlanHeads(r) ==
    /\ At(r, "eligibility") /\ req[r].entry \notin DOMAIN Conf(r).route
    /\ IF req[r].heads = <<>>
       THEN Goes(r, "leaving")
       ELSE \E p \in Orders(req[r].heads) :
                req' = [req EXCEPT ![r].pc = "dial", ![r].entry = 1, ![r].plan = p]
    /\ UNCHANGED <<healthVars, limiterVars, serverVars>>

-----------------------------------------------------------------------------
(* The attempts. *)

\* A skipped entry ends the walk when fallback is off.
Skipped(r) ==
    IF Conf(r).fallback
    THEN req' = [req EXCEPT ![r].pc = "dial", ![r].entry = @ + 1]
    ELSE Goes(r, "leaving")

MaxOf(a, b) == IF a > b THEN a ELSE b

\* clientForEgress: the cached transport, or a new one put in the cache.
Resolve(r) ==
    /\ At(r, "dial") /\ HasTarget(r)
    /\ clients' = clients \cup {Conf(r).transport[Target(r)]}
    /\ dialedGen' = MaxOf(dialedGen, req[r].gen)
    /\ Goes(r, "resolved")
    /\ UNCHANGED <<healthVars, limiterVars, published, draining, prunedGen>>

\* The transport cannot be built.
SkipUnbuilt(r) ==
    /\ At(r, "dial") /\ HasTarget(r)
    /\ Conf(r).transport[Target(r)] \notin clients
    /\ Skipped(r)
    /\ UNCHANGED <<healthVars, limiterVars, serverVars>>

SkipFull(r) ==
    /\ At(r, "resolved")
    /\ Full(Target(r), Conf(r).cap[Target(r)])
    /\ Skipped(r)
    /\ UNCHANGED <<healthVars, limiterVars, serverVars>>

TakeSlot(r) ==
    /\ At(r, "resolved")
    /\ Dial(r, Target(r), Conf(r).cap[Target(r)])
    /\ req' = [req EXCEPT ![r].pc = "dialing", ![r].attempts = @ + 1]
    /\ UNCHANGED <<healthVars, serverVars>>

\* The slot goes first ...
AttemptFails(r) ==
    /\ At(r, "dialing")
    /\ DialFails(r)
    /\ Goes(r, "failed")
    /\ UNCHANGED <<healthVars, serverVars>>

\* ... then the verdict is judged: it may mark health, and may fall back.
Judge(r) ==
    /\ At(r, "failed")
    /\ \/ Observe(Identity(req[r].gen, Target(r)), FALSE, Conf(r).policy)
       \/ UNCHANGED healthVars
    /\ \/ Goes(r, "leaving")
       \/ /\ req[r].attempts < (IF Conf(r).fallback THEN Conf(r).max ELSE 1)
          /\ req' = [req EXCEPT ![r].pc = "dial", ![r].entry = @ + 1]
    /\ UNCHANGED <<limiterVars, serverVars>>

\* Header-time success wipes the streak; the body now owns the slot.
AttemptSucceeds(r) ==
    /\ At(r, "dialing")
    /\ Observe(Identity(req[r].gen, Target(r)), TRUE, Conf(r).policy)
    /\ DialSucceeds(r)
    /\ Goes(r, "streaming")
    /\ UNCHANGED serverVars

PlanExhausted_Waits(r) ==
    /\ At(r, "dial") /\ ~HasTarget(r)
    /\ req[r].attempts > 0
    /\ Goes(r, "leaving")
    /\ UNCHANGED <<healthVars, limiterVars, serverVars>>

PlanExhausted(r) ==
    /\ At(r, "dial") /\ ~HasTarget(r)
    /\ Goes(r, "leaving")
    /\ UNCHANGED <<healthVars, limiterVars, serverVars>>

-----------------------------------------------------------------------------
(* The end of the request. *)

EndStream(r) ==
    /\ At(r, "streaming")
    /\ CloseBody(r)
    /\ Goes(r, "closing")
    /\ UNCHANGED <<healthVars, serverVars>>

ReturnSlot(r) ==
    /\ At(r, "closing")
    /\ FreeSlot(r)
    /\ Goes(r, "leaving")
    /\ UNCHANGED <<healthVars, serverVars>>

Leave_KeepsPins(r) ==
    /\ At(r, "leaving")
    /\ Goes(r, "done")
    /\ UNCHANGED <<healthVars, limiterVars, serverVars>>

\* The deferred release: on every way out once the pins are taken.
Leave(r) ==
    /\ At(r, "leaving")
    /\ Release(r)
    /\ Goes(r, "done")
    /\ UNCHANGED <<limiterVars, serverVars>>

Advance(r) ==
    \/ Gate(r) \/ MatchAndPin(r) \/ Maintain(r)
    \/ CheckEligible(r) \/ CheckCapacity(r) \/ PlanHeads(r)
    \/ Resolve(r) \/ SkipUnbuilt(r) \/ SkipFull(r) \/ TakeSlot(r)
    \/ AttemptFails(r) \/ Judge(r) \/ AttemptSucceeds(r) \/ PlanExhausted(r)
    \/ EndStream(r) \/ ReturnSlot(r) \/ Leave(r)

ProxyNext == Reload \/ Drain \/ Tick \/ \E r \in User : Arrive(r) \/ Advance(r)

ProxySpec == ProxyInit /\ [][ProxyNext]_proxyVars

\* Where a request waits for its own client or upstream, for as long as they
\* like: the upload of its body, an attempt whose peer reads or answers too
\* slowly, a stream that trickles or is not read, an answer that is not read.
\* The server has no read and no write timeout.
Waits == {"admitted", "dialing", "streaming", "leaving"}

\* Everywhere else the goroutine of an arrived request keeps moving.
ProxyFairSpec == ProxySpec /\ \A r \in User : WF_proxyVars(req[r].pc \notin Waits /\ Advance(r))

-----------------------------------------------------------------------------
(* Properties. *)

\* The types of the composition: no more attempts than plan entries.
ProxyTypeOK ==
    /\ HealthTypeOK /\ LimiterTypeOK
    /\ published \in Generation /\ draining \in BOOLEAN
    /\ prunedGen \in 0..published /\ dialedGen \in 0..published
    /\ clients \subseteq Transport
    /\ \A r \in User : /\ req[r].pc \in Steps
                       /\ req[r].gen \in 1..published
                       /\ req[r].plan \in Seq(Egress) /\ req[r].heads \in Seq(Egress)
                       /\ req[r].attempts \in 0..Len(req[r].plan)

\* handler.go: from its pin to its end a request never loses the history of
\* an identity it may consult or observe, whatever generations come and go.
InFlightHistorySurvives ==
    [][\A r \in User : req[r].pc \notin {"idle", "arrived", "admitted", "done"}
          => \A k \in KeptKeys(req[r].gen) :
                 k \in DOMAIN states => k \in DOMAIN states']_proxyVars

\* server.go, onGeneration: a request with a stale snapshot never evicts a
\* transport that a newer generation keeps and may have rebuilt.
NewestTransportsSurvive ==
    [][dialedGen > 0 =>
          (clients \ clients') \cap KeptTransports(dialedGen) \subseteq
              (IF prunedGen' > dialedGen THEN Transport \ KeptTransports(prunedGen') ELSE {})]_proxyVars

\* Once no request is in flight nothing is held: no slot, no reference.
QuietIsClean ==
    (\A r \in User : req[r].pc \in {"idle", "done"}) =>
        /\ \A e \in Egress : cur[e] = 0
        /\ \A k \in Key : refs[k] = 0

\* No request waits for another: it is answered and its handler returns, or
\* its own client or upstream keeps it, whatever the slots, the health, the
\* pins and the generations of the others, who may be kept for ever
\* (fallback.go: a full egress is skipped, never queued for).
EveryRequestEnds ==
    \A r \in User : (At(r, "arrived") ~> At(r, "done")) \/ <>[](req[r].pc \in Waits)
=============================================================================
