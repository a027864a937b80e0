------------------------------ MODULE Attempt ------------------------------
(***************************************************************************)
(* Client.attempt of an egress's client: the redirect chain of one POST,   *)
(* walked by hand so that every hop picks its transport anew, each hop on  *)
(* a connection dialed for it.                                             *)
(*                                                                         *)
(* A target is a scheme and a host name; ports are left out, the domain    *)
(* rule ignores them.  Upstreams, proxies and the resolver answer what     *)
(* they like or keep silent; the client may vanish at any moment.          *)
(***************************************************************************)
EXTENDS Naturals, Dial

CONSTANT MaxRedirects
ASSUME MaxRedirectsAssumption == MaxRedirects \in Nat

VARIABLES
    egress,     \* the egress the client was built for
    at,         \* "request", "dialing", "sending", "headers", "drain" or "done"
    current,    \* the target of this hop
    method, stripSensitive, droppedBody, hops,
    sent,       \* the request of this hop, once it is on a connection
    bodies,     \* responses whose body is open
    ctx,        \* the request's context
    result,     \* what attempt returned
    initial,    \* initialHostname
    visited,    \* history: the names of the hops so far
    switched    \* history: a hop turned the POST into a GET

chain == <<current, method, stripSensitive, droppedBody, hops, initial>>
history == <<visited, switched>>
attemptVars == <<egress, at, chain, sent, bodies, ctx, result, history, dialVars>>

Schemes == {"http", "https"}
Names == {"home", "sub.home", "away"}
Targets == [scheme : Schemes, name : Names]

\* sameDomainOrSub.
SameDomainOrSub(dest, parent) == dest = parent \/ (dest = "sub.home" /\ parent = "home")

\* What a Location header may be besides a target.
NoLocation == [scheme |-> "none", name |-> "none"]
BadLocation == [scheme |-> "other", name |-> "none"]

Redirects == {"301", "303", "307"}      \* 302 is as 301, 308 as 307
Statuses == Redirects \cup {"200", "407"}

NoRequest == [method |-> "none"]
Requests == [method : {"POST", "GET"}, auth : BOOLEAN, body : BOOLEAN, ctype : BOOLEAN]

AttemptInit ==
    /\ DialInit
    /\ egress \in Egresses
    /\ at = "request"
    /\ current \in [scheme : Schemes, name : {"home", "sub.home"}]
    /\ initial = current.name
    /\ method = "POST" /\ stripSensitive = FALSE /\ droppedBody = FALSE /\ hops = 0
    /\ sent = NoRequest /\ bodies = 0 /\ ctx = "live" /\ result = "none"
    /\ visited = {current.name} /\ switched = FALSE

Returns(what) == at' = "done" /\ result' = what

-----------------------------------------------------------------------------
\* A new hop: roundTrip on the transport of its scheme.
RoundTrip ==
    /\ at = "request" /\ ctx = "live"
    /\ StartDial(egress.kind, current.scheme)
    /\ at' = "dialing"
    /\ UNCHANGED <<egress, chain, sent, bodies, ctx, result, history>>

Dials ==
    /\ at \in {"dialing", "done"} /\ DialNext(egress.creds)
    /\ UNCHANGED <<egress, at, chain, sent, bodies, ctx, result, history>>

\* The request starts to go out, with the caller's headers less those a hop
\* lost.
Header(k) ==
    /\ k = "Authorization" => ~stripSensitive
    /\ k = "Content-Type" => ~droppedBody

Sends ==
    /\ at = "dialing" /\ dialed = "ok"
    /\ sent' = [method |-> method, auth |-> Header("Authorization"),
                body |-> ~droppedBody, ctype |-> Header("Content-Type")]
    /\ at' = "sending"
    /\ UNCHANGED <<egress, chain, bodies, ctx, result, history, dialVars>>

\* The last byte is written, as soon as the peer has read enough of it.  Only
\* now does ResponseHeaderTimeout run, and the connection has no deadline.
Sent ==
    /\ at = "sending"
    /\ at' = "headers"
    /\ UNCHANGED <<egress, chain, sent, bodies, ctx, result, history, dialVars>>

\* The peer can break off, or answer, before it has read the request.
OnTheWire == at \in {"sending", "headers"}

DialFailed ==
    /\ at = "dialing" /\ dialed \in {"failed", "proxy_auth"}
    /\ Returns(dialed)
    /\ UNCHANGED <<egress, chain, sent, bodies, ctx, history, dialVars>>

\* RoundTrip minds the request's context, whatever the dial does meanwhile.
Canceled ==
    /\ at \in {"request", "dialing", "sending", "headers"} /\ ctx = "done"
    /\ Returns("failed")
    /\ UNCHANGED <<egress, chain, sent, bodies, ctx, history, dialVars>>

\* ResponseHeaderTimeout, or the connection breaks.
NoHeaders ==
    /\ OnTheWire
    /\ Returns("failed")
    /\ UNCHANGED <<egress, chain, sent, bodies, ctx, history, dialVars>>

\* A forward proxy relays plain requests, or answers one itself.
Forwarded == current.scheme = "http" /\ egress.kind \in {"http", "https"}

\* The final answer: not a redirect, or one without a Location.  A forwarded
\* request's 407 is the origin's or the proxy's own, and nothing tells which.
Answers(status, location) ==
    /\ OnTheWire
    /\ status \notin Redirects \/ location = NoLocation
    /\ Returns(status)
    /\ refusal' \in {refusal} \cup IF status = "407" /\ Forwarded THEN {"forwarded"} ELSE {}
    /\ bodies' = bodies + 1
    /\ UNCHANGED <<egress, chain, sent, ctx, history,
                   todo, sock, deadline, watcher, dialCtx, peer, dialed>>

\* A redirect that ends the attempt: its response is drained and closed.
BadRedirect(location) ==
    /\ OnTheWire
    /\ location = BadLocation \/ (location \in Targets /\ hops + 1 > MaxRedirects)
    /\ hops' = IF location = BadLocation THEN hops ELSE hops + 1
    /\ bodies' = bodies + 1 /\ sent' = NoRequest
    /\ at' = "drain" /\ result' = "failed"
    /\ UNCHANGED <<egress, current, method, stripSensitive, droppedBody, initial, ctx,
                   history, dialVars>>

\* 301 and 302 of a POST, 303 of anything.
BecomesGet(status) == status \in {"301", "303"} /\ method = "POST"

Strips_Forgets(name) == ~SameDomainOrSub(name, initial)
Strips(name) == stripSensitive \/ ~SameDomainOrSub(name, initial)

\* The chain's state is updated before the response is drained.
Redirected(status, target) ==
    /\ OnTheWire /\ hops + 1 <= MaxRedirects
    /\ hops' = hops + 1
    /\ method' = IF BecomesGet(status) THEN "GET" ELSE method
    /\ droppedBody' = (droppedBody \/ BecomesGet(status))
    /\ stripSensitive' = Strips(target.name)
    /\ current' = target
    /\ visited' = visited \cup {target.name}
    /\ switched' = (switched \/ status \in {"301", "303"})
    /\ bodies' = bodies + 1 /\ sent' = NoRequest
    /\ at' = "drain"
    /\ UNCHANGED <<egress, initial, ctx, result, dialVars>>

Responds ==
    \E status \in Statuses, location \in Targets \cup {NoLocation, BadLocation} :
        \/ Answers(status, location)
        \/ status \in Redirects /\ BadRedirect(location)
        \/ status \in Redirects /\ location \in Targets /\ Redirected(status, location)

\* drainAndClose: up to its byte cap, the body's end, or the context's.
Drained ==
    /\ at = "drain"
    /\ bodies' = bodies - 1
    /\ at' = IF result = "none" THEN "request" ELSE "done"
    /\ UNCHANGED <<egress, chain, sent, ctx, result, history, dialVars>>

DrainCut == ctx = "done" /\ Drained

\* The client vanishes; the dial's context may follow.
Vanishes ==
    /\ ctx = "live" /\ ctx' = "done"
    /\ dialCtx' \in {dialCtx, "done"}
    /\ UNCHANGED <<egress, at, chain, sent, bodies, result, history,
                   todo, sock, deadline, watcher, peer, dialed, refusal>>

AttemptNext ==
    \/ RoundTrip \/ Dials \/ Sends \/ Sent \/ DialFailed \/ Canceled \/ NoHeaders
    \/ Responds \/ Drained \/ Vanishes

AttemptSpec == AttemptInit /\ [][AttemptNext]_attemptVars

\* The goroutines run and the timers fire; no peer owes us anything, neither
\* reading what we write (Sent) nor ending a body we drain (Drained), but the
\* resolver gives up by itself.
AttemptFair ==
    /\ AttemptSpec
    /\ WF_attemptVars(RoundTrip) /\ WF_attemptVars(Sends)
    /\ WF_attemptVars(DialFailed) /\ WF_attemptVars(Canceled)
    /\ WF_attemptVars(at = "headers" /\ (NoHeaders \/ Responds))
    /\ WF_attemptVars(DrainCut)
    /\ WF_attemptVars(Dials /\ DialOwn)
    /\ WF_attemptVars(Dials /\ DeadlinePasses)
    /\ WF_attemptVars(Dials /\ Step("resolve") /\ (Resolves \/ Refuses))

-----------------------------------------------------------------------------
AttemptTypeOK ==
    /\ egress \in Egresses
    /\ at \in {"request", "dialing", "sending", "headers", "drain", "done"}
    /\ current \in Targets /\ initial \in Names /\ visited \subseteq Names
    /\ method \in {"POST", "GET"}
    /\ {stripSensitive, droppedBody, switched} \subseteq BOOLEAN
    /\ refusal \in {"none", "handshake", "garbled", "forwarded"}
    /\ hops \in 0..(MaxRedirects + 1) /\ bodies \in 0..1
    /\ sent \in Requests \cup {NoRequest}
    /\ {ctx, dialCtx} \subseteq {"live", "done"}
    /\ result \in {"none", "failed", "proxy_auth"} \cup Statuses
    /\ sock \in {"none", "open", "closed"} /\ deadline \in {"none", "armed", "passed"}
    /\ watcher \in {"none", "armed", "fired", "stopped"}
    /\ peer \in {"proxy", "origin"}
    /\ dialed \in {"no", "busy", "ok", "failed", "proxy_auth"}

\* Every request of a chain carries the credentials exactly while the chain has
\* stayed in the first host's domain, and the body with its headers exactly
\* until a hop turned it into a GET (client.go: stripSensitive and droppedBody
\* are sticky).
RequestsCarryWhatTheyMay ==
    sent # NoRequest =>
        /\ sent.auth <=> \A name \in visited : SameDomainOrSub(name, initial)
        /\ sent.body <=> ~switched
        /\ sent.ctype <=> sent.body
        /\ sent.method = IF switched THEN "GET" ELSE "POST"

\* No hop of a proxied egress ever connects anywhere but to its proxy, however
\* the chain crosses between http and https (client.go: transportFor on every
\* hop).
HopsStayOnTheEgress == sock # "none" => (peer = "origin" <=> egress.kind = "direct")

\* A dial hands over a connection that is open, without a deadline and without
\* a watcher that could still close it, unless its context is done; a dial that
\* failed keeps no connection; and attempt leaves no response open but the one
\* it returns (connect.go, socks5.go, hello.go; client.go: drainAndClose).
NothingIsLeftBehind ==
    /\ dialed = "ok" /\ dialCtx = "live" =>
         sock = "open" /\ deadline = "none" /\ watcher # "armed"
    /\ dialed \in {"failed", "proxy_auth"} => sock # "open"
    /\ at = "done" => bodies = IF result \in Statuses THEN 1 ELSE 0

\* Only what a proxy answers in its own handshake makes a proxy_auth error: a
\* refusal of our credentials, or a garbled reply to them.  Every refusal made
\* there does, unless the client is gone, on whatever hop of a chain; the one
\* made in the answer to a forwarded request stays that answer, a 407
\* (failure.go: proxyAuthError is produced only where the proxy's protocol is
\* spoken, and classifyStatusFor cannot tell whose 407 it is given).
ProxyAuthIsTheProxysWord ==
    /\ result = "proxy_auth" => refusal \in {"handshake", "garbled"} /\ egress.kind # "direct"
    /\ at = "done" /\ ctx = "live" /\ refusal \in {"handshake", "garbled"} => result = "proxy_auth"
    /\ refusal = "forwarded" => result = "407"

\* Under a client that stays an attempt ends, but for two waits on its peer
\* that no timer bounds: a request it does not read (hello.go, connect.go: the
\* connection's deadline is cleared, and ResponseHeaderTimeout starts behind
\* the request) and a redirect's body it does not end (client.go:
\* drainAndClose has a byte bound only).  Its dial ends in any case, and a
\* client that leaves ends every wait.
AttemptEnds ==
    /\ <>(at = "done") \/ <>[](at = "sending" /\ ctx = "live") \/ <>[](at = "drain" /\ ctx = "live")
    /\ [](dialed = "busy" => <>(dialed # "busy"))
=============================================================================
