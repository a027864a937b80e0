------------------------------- MODULE Dial -------------------------------
(***************************************************************************)
(* The dialers behind one egress's transports: plain TCP, the SOCKS5       *)
(* handshake, the CONNECT tunnel, each followed by the origin's TLS for an *)
(* https target.  A dial is the list of steps it has left; the conn        *)
(* deadline and the context watcher come and go on the way.                *)
(*                                                                         *)
(* Every reply of a peer is the environment's choice, silence included; a  *)
(* deadline that is armed passes some day.  net/http may cut the dial's    *)
(* context from the request's, so it ends after the request's or never.    *)
(***************************************************************************)
EXTENDS Sequences

VARIABLES
    todo,       \* the steps the dial still has to take
    sock,       \* its TCP connection: "none", "open" or "closed"
    deadline,   \* of the connection or the dialer: "none", "armed", "passed"
    watcher,    \* context.AfterFunc: "none", "armed", "fired" or "stopped"
    dialCtx,    \* the context of the dial: "live" or "done"
    peer,       \* whom the TCP connection goes to: "proxy" or "origin"
    dialed,     \* "no", "busy", "ok", "failed" or "proxy_auth"
    refusal     \* history: how the proxy turned our credentials down: "none",
                \* "handshake", "garbled" or "forwarded"

dialVars == <<todo, sock, deadline, watcher, dialCtx, peer, dialed, refusal>>

Kinds == {"direct", "http", "https", "socks5", "socks5h"}
Egresses == [kind : Kinds, creds : BOOLEAN]
SocksKinds == {"socks5", "socks5h"}

-----------------------------------------------------------------------------
(* NewClientFor's transports, and what each does for a scheme. *)

\* Deadline and watcher, the exchanges they bound, and their removal.
Guarded_NoDeadline(steps) == <<"watch">> \o steps \o <<"clear", "stop">>
Guarded(steps) == <<"arm", "watch">> \o steps \o <<"clear", "stop">>

OriginTLS == Guarded(<<"tls">>)

\* transportFor.
TransportFor_Main(kind, scheme) == "main"
TransportFor_Tunneled(kind, scheme) == IF kind \in {"http", "https"} THEN "tunneled" ELSE "main"
TransportFor(kind, scheme) ==
    IF scheme = "https" /\ kind \in {"http", "https"} THEN "tunneled" ELSE "main"

\* The tunneled transport dials plain targets itself: it has no Proxy.
DialedPeer(kind, transport, scheme) ==
    IF kind = "direct" \/ (transport = "tunneled" /\ scheme = "http") THEN "origin" ELSE "proxy"

ToProxyTLS(kind, step) == IF kind = "https" THEN <<step>> ELSE <<>>

DialSteps(kind, transport, scheme) ==
    CASE transport = "tunneled" /\ scheme = "https" ->
           <<"tcp">> \o Guarded(ToProxyTLS(kind, "proxytls") \o <<"CONNECT", "tls">>)
      [] transport = "tunneled" /\ scheme = "http" -> <<"tcp">>
      [] kind = "direct" -> <<"tcp">> \o (IF scheme = "https" THEN OriginTLS ELSE <<>>)
      [] kind \in SocksKinds ->
           <<"tcp">> \o Guarded(<<"greet">> \o
                                (IF kind = "socks5" THEN <<"resolve">> ELSE <<>>) \o
                                <<"socksconnect">>)
                     \o (IF scheme = "https" THEN OriginTLS ELSE <<>>)
      [] OTHER -> \* the standard library's own way to an HTTP proxy
           <<"tcp">> \o ToProxyTLS(kind, "stdtls")
                     \o (IF scheme = "https" THEN <<"stdconnect", "stdtls">> ELSE <<>>)

-----------------------------------------------------------------------------
DialInit ==
    /\ todo = <<>> /\ sock = "none" /\ deadline = "none" /\ watcher = "none"
    /\ dialCtx = "live" /\ peer = "origin" /\ dialed = "no"
    /\ refusal = "none"

\* net.Dialer and the stdlib's TLS timer bound their own step.
SelfTimed == {"tcp", "stdtls", "stdconnect"}
DeadlineBefore(steps, now) == IF steps # <<>> /\ Head(steps) \in SelfTimed THEN "armed" ELSE now

StartDial(kind, scheme) ==
    LET transport == TransportFor(kind, scheme) IN
    /\ todo' = DialSteps(kind, transport, scheme)
    /\ peer' = DialedPeer(kind, transport, scheme)
    /\ sock' = "none" /\ deadline' = "armed" /\ watcher' = "none"
    /\ dialed' = "busy" /\ refusal' = "none"
    /\ UNCHANGED dialCtx

Step(s) == dialed = "busy" /\ todo # <<>> /\ Head(todo) = s

\* The step is done; the dial ends with its last one.
Goes(steps) ==
    /\ todo' = steps
    /\ dialed' = IF steps = <<>> THEN "ok" ELSE "busy"

\* An error return: the connection is closed and the deferred stop runs.
Fails(how) ==
    /\ todo' = <<>> /\ dialed' = how
    /\ sock' = IF sock = "open" THEN "closed" ELSE sock
    /\ watcher' = IF watcher = "armed" THEN "stopped" ELSE watcher
    /\ UNCHANGED <<deadline, dialCtx, peer>>

Connects ==
    /\ Step("tcp") /\ deadline = "armed" /\ dialCtx = "live"
    /\ sock' = "open"
    /\ deadline' = DeadlineBefore(Tail(todo), "none")
    /\ Goes(Tail(todo))
    /\ UNCHANGED <<watcher, dialCtx, peer, refusal>>

Arms ==
    /\ Step("arm")
    /\ deadline' = "armed"
    /\ Goes(Tail(todo))
    /\ UNCHANGED <<sock, watcher, dialCtx, peer, refusal>>

Watches ==
    /\ Step("watch")
    /\ watcher' = "armed"
    /\ Goes(Tail(todo))
    /\ UNCHANGED <<sock, deadline, dialCtx, peer, refusal>>

\* AfterFunc's function runs: nothing can stop it once the context is done.
WatcherCloses ==
    /\ watcher = "armed" /\ dialCtx = "done"
    /\ watcher' = "fired"
    /\ sock' = IF sock = "open" THEN "closed" ELSE sock
    /\ UNCHANGED <<todo, deadline, dialCtx, peer, dialed, refusal>>

Exchanges == {"greet", "auth", "socksconnect", "proxytls", "CONNECT", "tls", "stdtls", "stdconnect"}

\* The peer says yes, in time and on a connection that is still there.
Agrees ==
    /\ \E s \in Exchanges : Step(s)
    /\ sock = "open" /\ deadline # "passed"
    /\ deadline' = DeadlineBefore(Tail(todo),
                                  IF Head(todo) \in SelfTimed THEN "none" ELSE deadline)
    /\ Goes(Tail(todo))
    /\ UNCHANGED <<sock, watcher, dialCtx, peer, refusal>>

\* negotiate: the proxy asks for the credentials it was offered.
AsksForCredentials(creds) ==
    /\ Step("greet") /\ creds
    /\ sock = "open" /\ deadline # "passed"
    /\ Goes(<<"auth">> \o Tail(todo))
    /\ UNCHANGED <<sock, deadline, watcher, dialCtx, peer, refusal>>

\* Demands what we do not have, accepts no method, rejects the password, or
\* answers CONNECT with 407.
RefusesCredentials ==
    /\ sock = "open" /\ deadline # "passed"
    /\ \E s \in {"greet", "auth", "CONNECT", "stdconnect"} : Step(s)
    /\ refusal' = "handshake"
    /\ Fails(IF Head(todo) = "stdconnect" THEN "failed" ELSE "proxy_auth")

\* Two bytes that are no RFC 1929 reply: they cannot be told from a rejection.
GarblesAuth ==
    /\ Step("auth") /\ sock = "open" /\ deadline # "passed"
    /\ refusal' = "garbled"
    /\ Fails("proxy_auth")

\* Any other no, another malformed reply, a truncated one, a reset, a bad
\* certificate.
Refuses ==
    /\ \E s \in Exchanges \cup {"tcp", "resolve"} : Step(s)
    /\ Fails("failed") /\ UNCHANGED refusal

\* The resolver minds the context, not the connection's deadline.
Resolves ==
    /\ Step("resolve") /\ dialCtx = "live"
    /\ Goes(Tail(todo))
    /\ UNCHANGED <<sock, deadline, watcher, dialCtx, peer, refusal>>

\* A blocked step notices its deadline, its closed connection or, where it
\* takes the context, that one.  The reads of the SOCKS5 and CONNECT replies do
\* not: the watcher has to close the connection under them.
TakesContext == {"tcp", "resolve", "proxytls", "tls", "stdtls", "stdconnect"}

GivesUp ==
    /\ \/ \E s \in Exchanges \cup {"tcp"} : Step(s) /\ (deadline = "passed" \/ sock = "closed")
       \/ \E s \in TakesContext : Step(s) /\ dialCtx = "done"
    /\ Fails("failed") /\ UNCHANGED refusal

\* SetDeadline(time.Time{}).
Clears ==
    /\ Step("clear")
    /\ deadline' = "none"
    /\ Goes(Tail(todo))
    /\ UNCHANGED <<sock, watcher, dialCtx, peer, refusal>>

\* The deferred stopWatcher() of a dial that succeeds.
Stops_Never ==
    /\ Step("stop")
    /\ Goes(Tail(todo))
    /\ UNCHANGED <<sock, deadline, watcher, dialCtx, peer, refusal>>
Stops ==
    /\ Step("stop")
    /\ watcher' = IF watcher = "armed" /\ dialCtx = "live" THEN "stopped" ELSE watcher
    /\ Goes(Tail(todo))
    /\ UNCHANGED <<sock, deadline, dialCtx, peer, refusal>>

DeadlinePasses ==
    /\ deadline = "armed"
    /\ deadline' = "passed"
    /\ UNCHANGED <<todo, sock, watcher, dialCtx, peer, dialed, refusal>>

DialOwn == Arms \/ Watches \/ Clears \/ Stops \/ GivesUp \/ WatcherCloses

DialNext(creds) ==
    \/ DialOwn \/ Connects \/ Agrees \/ AsksForCredentials(creds)
    \/ RefusesCredentials \/ GarblesAuth \/ Refuses \/ Resolves \/ DeadlinePasses
=============================================================================
