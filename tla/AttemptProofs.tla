--------------------------- MODULE AttemptProofs ---------------------------
(***************************************************************************)
(* Theorems of Attempt, for chains of any length: what a hop sends, where  *)
(* it connects to, what its dial hands over and whom it blames.            *)
(***************************************************************************)
EXTENDS Attempt, SequenceTheorems, TLAPS

LeftHome == \E name \in visited : ~SameDomainOrSub(name, initial)

\* The chain's flags are what its history says, and the request on the wire
\* was built from them.
ChainInv ==
    /\ stripSensitive \in BOOLEAN /\ droppedBody \in BOOLEAN /\ switched \in BOOLEAN
    /\ stripSensitive <=> LeftHome
    /\ droppedBody <=> switched
    /\ method = IF switched THEN "GET" ELSE "POST"
    /\ sent # NoRequest =>
         /\ sent.auth <=> ~LeftHome
         /\ sent.body <=> ~switched
         /\ sent.ctype <=> ~switched
         /\ sent.method = method

\* A dial goes where its transport dials.
DialInv ==
    /\ egress \in Egresses /\ current.scheme \in Schemes
    /\ sock # "none" => dialed # "no"
    /\ dialed # "no" => (peer = "origin" <=> egress.kind = "direct")

LEMMA AttemptStarts == AttemptInit => ChainInv /\ DialInv
<1> SUFFICES ASSUME AttemptInit PROVE ChainInv /\ DialInv
  OBVIOUS
<1>1. ~LeftHome
  BY DEF AttemptInit, LeftHome, SameDomainOrSub
<1> QED
  BY <1>1 DEF AttemptInit, DialInit, ChainInv, DialInv

\* Only a redirect changes the chain, and it takes the request off the wire.
LEMMA RedirectKeeps ==
  ASSUME ChainInv, NEW status \in Redirects, NEW target \in Targets, Redirected(status, target)
  PROVE  ChainInv'
<1> USE DEF ChainInv, Redirected, BecomesGet, Strips, Redirects
<1>1. LeftHome' <=> LeftHome \/ ~SameDomainOrSub(target.name, initial)
  BY DEF LeftHome
<1>2. stripSensitive' \in BOOLEAN /\ (stripSensitive' <=> LeftHome')
  BY <1>1
<1>3. switched' \in BOOLEAN /\ droppedBody' \in BOOLEAN /\ (droppedBody' <=> switched')
  BY DEF Redirected
<1>4. method' = IF switched' THEN "GET" ELSE "POST"
  OBVIOUS
<1> QED
  BY <1>2, <1>3, <1>4

LEMMA SendKeeps == ASSUME ChainInv, Sends PROVE ChainInv'
<1>1. UNCHANGED <<stripSensitive, droppedBody, switched, method, visited, initial>>
  BY DEF Sends, chain, history
<1>2. (Header("Authorization") <=> ~stripSensitive) /\ (Header("Content-Type") <=> ~droppedBody)
  BY DEF Header
<1>3. /\ sent'.auth = Header("Authorization") /\ sent'.body = (~droppedBody)
      /\ sent'.ctype = Header("Content-Type") /\ sent'.method = method
  BY DEF Sends
<1>4. LeftHome' <=> LeftHome
  BY <1>1 DEF LeftHome
<1>5. /\ stripSensitive <=> LeftHome
      /\ droppedBody <=> switched
  BY DEF ChainInv
<1>6. /\ sent'.auth <=> ~LeftHome'
      /\ sent'.body <=> ~switched'
      /\ sent'.ctype <=> ~switched'
      /\ sent'.method = method'
  BY <1>1, <1>2, <1>3, <1>4, <1>5
<1> QED
  BY <1>1, <1>4, <1>6 DEF ChainInv

ChainStays == UNCHANGED <<stripSensitive, droppedBody, method, initial, visited, switched>>

LEMMA OthersKeep ==
  ASSUME ChainInv, ChainStays, sent' = sent \/ sent' = NoRequest
  PROVE  ChainInv'
<1>1. LeftHome' <=> LeftHome
  BY DEF LeftHome, ChainStays
<1> QED
  BY <1>1 DEF ChainInv, ChainStays

LEMMA ChainStep == ChainInv /\ [AttemptNext]_attemptVars => ChainInv'
<1> SUFFICES ASSUME ChainInv, [AttemptNext]_attemptVars PROVE ChainInv'
  OBVIOUS
<1>1. CASE Sends
  BY <1>1, SendKeeps
<1>2. ASSUME NEW status \in Redirects, NEW target \in Targets, Redirected(status, target)
      PROVE  ChainInv'
  BY <1>2, RedirectKeeps
<1>3. ASSUME NEW location, BadRedirect(location) PROVE ChainInv'
  BY <1>3, OthersKeep DEF BadRedirect, ChainStays, history
<1>4. ASSUME NEW status, NEW location, Answers(status, location) PROVE ChainInv'
  BY <1>4, OthersKeep DEF Answers, ChainStays, chain, history
<1>5. CASE RoundTrip \/ Dials \/ Sent \/ DialFailed \/ Canceled \/ NoHeaders \/ Drained \/ Vanishes
  <2>1. ChainStays /\ sent' = sent
    BY <1>5 DEF RoundTrip, Dials, Sent, DialFailed, Canceled, NoHeaders, Drained, Vanishes,
                ChainStays, chain, history
  <2> QED
    BY <2>1, OthersKeep
<1>6. CASE UNCHANGED attemptVars
  BY <1>6, OthersKeep DEF attemptVars, ChainStays, chain, history
<1> QED
  BY <1>1, <1>2, <1>3, <1>4, <1>5, <1>6 DEF AttemptNext, Responds

\* Every request of a chain of any length carries the credentials exactly
\* while the chain has stayed home, and the body exactly until it was dropped
\* (client.go, attempt).
THEOREM RequestsCorrect == AttemptSpec => []RequestsCarryWhatTheyMay
<1>1. ChainInv => RequestsCarryWhatTheyMay
  BY DEF ChainInv, RequestsCarryWhatTheyMay, LeftHome
<1> QED
  BY <1>1, AttemptStarts, ChainStep, PTL DEF AttemptSpec

-----------------------------------------------------------------------------
LEMMA DialKeeps ==
  ASSUME DialInv, DialNext(egress.creds), UNCHANGED <<egress, current>>
  PROVE  DialInv'
<1>1. peer' = peer
  BY DEF DialNext, DialOwn, Arms, Watches, Clears, Stops, GivesUp, WatcherCloses, Connects, Agrees,
         AsksForCredentials, RefusesCredentials, GarblesAuth, Refuses, Resolves, DeadlinePasses, Fails
<1>2. dialed # "no" => dialed' # "no"
  BY DEF DialNext, DialOwn, Arms, Watches, Clears, Stops, GivesUp, WatcherCloses, Connects, Agrees,
         AsksForCredentials, RefusesCredentials, GarblesAuth, Refuses, Resolves, DeadlinePasses, Fails, Goes, Step
<1>3. dialed = "no" => UNCHANGED <<sock, dialed>>
  BY DEF DialInv, DialNext, DialOwn, Arms, Watches, Clears, Stops, GivesUp, WatcherCloses, Connects, Agrees,
         AsksForCredentials, RefusesCredentials, GarblesAuth, Refuses, Resolves, DeadlinePasses, Fails, Goes, Step
<1> QED
  BY <1>1, <1>2, <1>3 DEF DialInv

LEMMA DialStep == DialInv /\ [AttemptNext]_attemptVars => DialInv'
<1> SUFFICES ASSUME DialInv, [AttemptNext]_attemptVars PROVE DialInv'
  OBVIOUS
<1>1. CASE RoundTrip
  <2>1. dialed' = "busy" /\ peer' = DialedPeer(egress.kind, TransportFor(egress.kind, current.scheme), current.scheme)
    BY <1>1 DEF RoundTrip, StartDial
  <2>2. peer' = "origin" <=> egress.kind = "direct"
    BY <2>1 DEF DialedPeer, TransportFor, DialInv, Schemes
  <2> QED
    BY <1>1, <2>1, <2>2 DEF RoundTrip, DialInv, chain
<1>2. CASE Dials
  BY <1>2, DialKeeps DEF Dials, chain
<1>3. ASSUME NEW status, NEW location \in Targets, Redirected(status, location) PROVE DialInv'
  BY <1>3 DEF Redirected, DialInv, dialVars, Targets
<1>4. ASSUME NEW status, NEW location, Answers(status, location) \/ BadRedirect(location) PROVE DialInv'
  BY <1>4 DEF Answers, BadRedirect, DialInv, dialVars, chain
<1>5. CASE Sends \/ Sent \/ DialFailed \/ Canceled \/ NoHeaders \/ Drained \/ Vanishes \/ UNCHANGED attemptVars
  BY <1>5 DEF Sends, Sent, DialFailed, Canceled, NoHeaders, Drained, Vanishes, attemptVars,
              DialInv, dialVars, chain
<1> QED
  BY <1>1, <1>2, <1>3, <1>4, <1>5 DEF AttemptNext, Responds

\* Whatever schemes a chain crosses, an egress with a proxy connects to its
\* proxy and nothing else (client.go, transportFor; transport.go,
\* NewClientFor).
THEOREM EgressCorrect == AttemptSpec => []HopsStayOnTheEgress
<1>1. DialInv => HopsStayOnTheEgress
  BY DEF DialInv, HopsStayOnTheEgress
<1> QED
  BY <1>1, AttemptStarts, DialStep, PTL DEF AttemptSpec

-----------------------------------------------------------------------------
(* The steps of a dial: what is switched on is switched off later on.      *)

Has(t, s) == \E i \in 1 .. Len(t) : t[i] = s

\* Every a in t has a b behind it.
Followed(t, a, b) ==
    \A i \in 1 .. Len(t) : t[i] = a => \E j \in 1 .. Len(t) : i < j /\ t[j] = b

\* What a dial of an egress may consist of, behind its first step.  The
\* standard library's own CONNECT is not among them: it would hide a 407.
Plain == {"arm", "watch", "tls", "clear", "stop"}
ProxySteps == {"greet", "auth", "resolve", "socksconnect", "proxytls", "CONNECT", "stdtls"}
StepsOf(kind) == IF kind = "direct" THEN Plain ELSE Plain \cup ProxySteps

Paired(t) == Followed(t, "arm", "clear") /\ Followed(t, "watch", "stop")

LEMMA FollowedTail ==
  ASSUME NEW S, NEW t \in Seq(S), t # <<>>, NEW a, NEW b, Followed(t, a, b)
  PROVE  /\ Followed(Tail(t), a, b)
         /\ Head(t) = a => Has(Tail(t), b)
<1>1. /\ Len(Tail(t)) = Len(t) - 1 /\ Len(t) \in Nat
      /\ \A i \in 1 .. Len(Tail(t)) : Tail(t)[i] = t[i + 1]
  BY HeadTailProperties
<1>2. \A i, j \in 1 .. Len(t) : i < j => j - 1 \in 1 .. Len(Tail(t)) /\ Tail(t)[j - 1] = t[j]
  BY <1>1
<1>3. ASSUME NEW i \in 1 .. Len(Tail(t)), Tail(t)[i] = a
      PROVE  \E j \in 1 .. Len(Tail(t)) : i < j /\ Tail(t)[j] = b
  <2>1. i + 1 \in 1 .. Len(t) /\ t[i + 1] = a
    BY <1>1, <1>3
  <2>2. PICK j \in 1 .. Len(t) : i + 1 < j /\ t[j] = b
    BY <2>1 DEF Followed
  <2> QED
    BY <1>1, <1>2, <2>1, <2>2
<1>4. ASSUME Head(t) = a PROVE Has(Tail(t), b)
  <2>1. 1 \in 1 .. Len(t) /\ t[1] = a
    BY <1>1, <1>4, EmptySeq
  <2>2. PICK j \in 1 .. Len(t) : 1 < j /\ t[j] = b
    BY <2>1 DEF Followed
  <2> QED
    BY <1>2, <2>1, <2>2 DEF Has
<1> QED
  BY <1>3, <1>4 DEF Followed

LEMMA HasTail ==
  ASSUME NEW S, NEW t \in Seq(S), t # <<>>, NEW s, Has(t, s), Head(t) # s
  PROVE  Has(Tail(t), s)
<1>1. /\ Len(Tail(t)) = Len(t) - 1 /\ Len(t) \in Nat /\ Head(t) = t[1]
      /\ \A i \in 1 .. Len(Tail(t)) : Tail(t)[i] = t[i + 1]
  BY HeadTailProperties
<1>2. PICK i \in 1 .. Len(t) : t[i] = s
  BY DEF Has
<1>3. i - 1 \in 1 .. Len(Tail(t)) /\ Tail(t)[i - 1] = s
  BY <1>1, <1>2
<1> QED
  BY <1>3 DEF Has

LEMMA FollowedConcat ==
  ASSUME NEW S, NEW t \in Seq(S), NEW u \in Seq(S), NEW a, NEW b,
         Followed(t, a, b) \/ Has(u, b), Followed(u, a, b)
  PROVE  Followed(t \o u, a, b)
<1>1. /\ t \o u \in Seq(S) /\ Len(t \o u) = Len(t) + Len(u) /\ Len(t) \in Nat /\ Len(u) \in Nat
      /\ \A i \in 1 .. Len(t) + Len(u) : (t \o u)[i] = IF i <= Len(t) THEN t[i] ELSE u[i - Len(t)]
  BY ConcatProperties
<1>2. ASSUME NEW j \in 1 .. Len(u), u[j] = b
      PROVE  Len(t) + j \in 1 .. Len(t \o u) /\ (t \o u)[Len(t) + j] = b
  BY <1>1, <1>2
<1>3. ASSUME NEW i \in 1 .. Len(t \o u), (t \o u)[i] = a
      PROVE  \E j \in 1 .. Len(t \o u) : i < j /\ (t \o u)[j] = b
  <2>1. CASE i <= Len(t)
    <3>1. i \in 1 .. Len(t) /\ t[i] = a
      BY <1>1, <1>3, <2>1
    <3>2. CASE Followed(t, a, b)
      <4>1. PICK j \in 1 .. Len(t) : i < j /\ t[j] = b
        BY <3>1, <3>2 DEF Followed
      <4>2. j \in 1 .. Len(t \o u) /\ (t \o u)[j] = b
        BY <1>1, <4>1
      <4> QED
        BY <4>1, <4>2
    <3>3. CASE Has(u, b)
      <4>1. PICK j \in 1 .. Len(u) : u[j] = b
        BY <3>3 DEF Has
      <4> QED
        BY <1>1, <1>2, <2>1, <3>1, <4>1
    <3> QED
      BY <3>2, <3>3
  <2>2. CASE i > Len(t)
    <3>1. i - Len(t) \in 1 .. Len(u) /\ u[i - Len(t)] = a
      BY <1>1, <1>3, <2>2
    <3>2. PICK j \in 1 .. Len(u) : i - Len(t) < j /\ u[j] = b
      BY <3>1 DEF Followed
    <3>3. i < Len(t) + j
      BY <1>1, <3>2
    <3> QED
      BY <1>2, <3>2, <3>3
  <2> QED
    BY <1>1, <2>1, <2>2
<1> QED
  BY <1>3 DEF Followed

LEMMA PairedConcat ==
  ASSUME NEW S, NEW t \in Seq(S), NEW u \in Seq(S), Paired(t), Paired(u)
  PROVE  t \o u \in Seq(S) /\ Paired(t \o u)
BY FollowedConcat, ConcatProperties DEF Paired

\* A guarded exchange switches its deadline and its watcher off itself.
LEMMA GuardedIsPaired ==
  ASSUME NEW kind, NEW steps \in Seq(StepsOf(kind) \ {"arm", "watch"})
  PROVE  Guarded(steps) \in Seq(StepsOf(kind)) /\ Paired(Guarded(steps))
<1> DEFINE off == <<"clear", "stop">>
           on == <<"arm", "watch">>
<1>1. on \in Seq(StepsOf(kind)) /\ off \in Seq(StepsOf(kind)) /\ steps \in Seq(StepsOf(kind))
  <2>1. {"arm", "watch", "clear", "stop"} \subseteq StepsOf(kind)
    BY DEF StepsOf, Plain
  <2>2. steps \in Seq(StepsOf(kind))
    <3>1. StepsOf(kind) \ {"arm", "watch"} \subseteq StepsOf(kind)
      OBVIOUS
    <3> QED
      BY <3>1
  <2> QED
    BY <2>1, <2>2
<1>2. Has(off, "clear") /\ Has(off, "stop") /\ Paired(off)
  BY DEF Has, Paired, Followed
<1>3. Paired(steps)
  <2>1. \A i \in 1 .. Len(steps) : steps[i] \notin {"arm", "watch"}
    OBVIOUS
  <2> QED
    BY <2>1 DEF Paired, Followed
<1>4. on \o steps \in Seq(StepsOf(kind)) /\ (on \o steps) \o off \in Seq(StepsOf(kind))
  BY <1>1, ConcatProperties
<1>5. Paired((on \o steps) \o off)
  BY <1>1, <1>2, <1>4, FollowedConcat DEF Paired
<1> QED
  BY <1>4, <1>5 DEF Guarded

LEMMA StepSeqs ==
  ASSUME NEW kind \in Kinds
  PROVE  /\ <<"tls">> \in Seq(StepsOf(kind) \ {"arm", "watch"})
         /\ kind # "direct" =>
              /\ <<"greet">> \in Seq(StepsOf(kind) \ {"arm", "watch"})
              /\ <<"resolve">> \in Seq(StepsOf(kind) \ {"arm", "watch"})
              /\ <<"socksconnect">> \in Seq(StepsOf(kind) \ {"arm", "watch"})
              /\ <<"CONNECT", "tls">> \in Seq(StepsOf(kind) \ {"arm", "watch"})
              /\ <<"proxytls">> \in Seq(StepsOf(kind) \ {"arm", "watch"})
              /\ <<"stdtls">> \in Seq(StepsOf(kind))
<1> DEFINE Calm == StepsOf(kind) \ {"arm", "watch"}
<1>1. "tls" \in Calm
  BY DEF StepsOf, Plain
<1>2. kind # "direct" => {"greet", "resolve", "socksconnect", "CONNECT", "proxytls", "stdtls"} \subseteq Calm
  BY DEF StepsOf, ProxySteps
<1>3. kind # "direct" => "stdtls" \in StepsOf(kind)
  BY <1>2
<1> HIDE DEF Calm
<1>4. <<"tls">> \in Seq(Calm)
  BY <1>1
<1>5. ASSUME kind # "direct"
      PROVE  /\ <<"greet">> \in Seq(Calm) /\ <<"resolve">> \in Seq(Calm)
             /\ <<"socksconnect">> \in Seq(Calm) /\ <<"CONNECT", "tls">> \in Seq(Calm)
             /\ <<"proxytls">> \in Seq(Calm) /\ <<"stdtls">> \in Seq(StepsOf(kind))
  BY <1>1, <1>2, <1>3, <1>5
<1> QED
  BY <1>4, <1>5 DEF Calm

LEMMA EmptyIsPaired == ASSUME NEW S PROVE <<>> \in Seq(S) /\ Paired(<<>>)
BY EmptySeq DEF Paired, Followed

\* Whatever the transport, a dial connects and then does something paired.
LEMMA DialIsPaired ==
  ASSUME NEW kind \in Kinds, NEW scheme \in Schemes
  PROVE  \E rest \in Seq(StepsOf(kind)) :
            /\ Paired(rest)
            /\ DialSteps(kind, TransportFor(kind, scheme), scheme) = <<"tcp">> \o rest
<1> DEFINE steps == DialSteps(kind, TransportFor(kind, scheme), scheme)
           Calm == StepsOf(kind) \ {"arm", "watch"}
<1>1. CASE kind = "direct"
  <2>1. steps = <<"tcp">> \o (IF scheme = "https" THEN Guarded(<<"tls">>) ELSE <<>>)
    BY <1>1 DEF DialSteps, TransportFor, OriginTLS, SocksKinds
  <2> QED
    BY <2>1, StepSeqs, GuardedIsPaired, EmptyIsPaired
<1>2. CASE kind \in {"http", "https"} /\ scheme = "https"
  <2>1. steps = <<"tcp">> \o Guarded(ToProxyTLS(kind, "proxytls") \o <<"CONNECT", "tls">>)
    BY <1>2 DEF DialSteps, TransportFor, OriginTLS, SocksKinds
  <2>2. ToProxyTLS(kind, "proxytls") \in Seq(Calm)
    BY <1>2, StepSeqs, EmptyIsPaired DEF ToProxyTLS
  <2>3. ToProxyTLS(kind, "proxytls") \o <<"CONNECT", "tls">> \in Seq(Calm)
    BY <1>2, <2>2, StepSeqs, ConcatProperties
  <2> QED
    BY <2>1, <2>3, GuardedIsPaired
<1>3. CASE kind \in {"http", "https"} /\ scheme = "http"
  <2>1. steps = (<<"tcp">> \o ToProxyTLS(kind, "stdtls")) \o <<>>
    BY <1>3 DEF DialSteps, TransportFor, SocksKinds
  <2>2. ToProxyTLS(kind, "stdtls") \in Seq(StepsOf(kind)) /\ Paired(ToProxyTLS(kind, "stdtls"))
    <3>1. Paired(<<"stdtls">>)
      BY DEF Paired, Followed
    <3> QED
      BY <1>3, <3>1, StepSeqs, EmptyIsPaired DEF ToProxyTLS
  <2>3. <<"tcp">> \o ToProxyTLS(kind, "stdtls") \in Seq(StepsOf(kind) \cup {"tcp"})
    <3>1. <<"tcp">> \in Seq(StepsOf(kind) \cup {"tcp"})
      OBVIOUS
    <3>2. ToProxyTLS(kind, "stdtls") \in Seq(StepsOf(kind) \cup {"tcp"})
      BY <2>2
    <3> QED
      BY <3>1, <3>2, ConcatProperties
  <2>4. steps = <<"tcp">> \o ToProxyTLS(kind, "stdtls")
    BY <2>1, <2>3, ConcatEmptySeq
  <2> QED
    BY <2>2, <2>4
<1>4. CASE kind \in SocksKinds
  <2> DEFINE resolve == IF kind = "socks5" THEN <<"resolve">> ELSE <<>>
             talk == (<<"greet">> \o resolve) \o <<"socksconnect">>
             origin == IF scheme = "https" THEN Guarded(<<"tls">>) ELSE <<>>
  <2>1. steps = (<<"tcp">> \o Guarded(talk)) \o origin
    BY <1>4 DEF DialSteps, TransportFor, OriginTLS, SocksKinds
  <2>2. resolve \in Seq(Calm) /\ kind # "direct"
    BY <1>4, StepSeqs, EmptyIsPaired DEF SocksKinds
  <2>3. <<"greet">> \o resolve \in Seq(Calm)
    BY <2>2, StepSeqs, ConcatProperties
  <2>4. talk \in Seq(Calm)
    BY <2>2, <2>3, StepSeqs, ConcatProperties
  <2>5. Guarded(talk) \in Seq(StepsOf(kind)) /\ Paired(Guarded(talk))
    BY <2>4, GuardedIsPaired
  <2>6. origin \in Seq(StepsOf(kind)) /\ Paired(origin)
    BY StepSeqs, GuardedIsPaired, EmptyIsPaired
  <2>7. steps = <<"tcp">> \o (Guarded(talk) \o origin)
    <3>1. \A u \in Seq(StepsOf(kind)) : u \in Seq(StepsOf(kind) \cup {"tcp"})
      OBVIOUS
    <3>2. <<"tcp">> \in Seq(StepsOf(kind) \cup {"tcp"})
      OBVIOUS
    <3>3. Guarded(talk) \in Seq(StepsOf(kind) \cup {"tcp"}) /\ origin \in Seq(StepsOf(kind) \cup {"tcp"})
      BY <2>5, <2>6, <3>1
    <3> HIDE DEF talk, origin
    <3> QED
      BY <2>1, <3>2, <3>3, ConcatAssociative
  <2> QED
    BY <2>5, <2>6, <2>7, PairedConcat
<1> QED
  BY <1>1, <1>2, <1>3, <1>4 DEF Kinds, Schemes, SocksKinds

-----------------------------------------------------------------------------
(* One dial.  The steps it has left say what is still switched on.         *)

\* A dial connects first; what follows is paired.
TodoInv ==
    /\ todo \in Seq(StepsOf(egress.kind) \cup {"tcp"})
    /\ todo # <<>> => Tail(todo) \in Seq(StepsOf(egress.kind))
    /\ Paired(todo)
    /\ dialed = "busy" <=> todo # <<>>

\* A deadline that is set, or a watcher that could fire, has its removal
\* ahead of it; a connection that is lost was lost to the context.
ConnectionInv ==
    /\ deadline # "none" /\ dialed \in {"busy", "ok"} =>
         dialed = "busy" /\ (Has(todo, "clear") \/ Head(todo) \in SelfTimed)
    /\ watcher = "armed" /\ dialCtx = "live" => dialed = "busy" /\ Has(todo, "stop")
    /\ dialed \in {"busy", "ok"} =>
         sock = "open" \/ dialCtx = "done" \/ (todo # <<>> /\ Head(todo) = "tcp")
    /\ dialed \in {"failed", "proxy_auth"} => sock # "open"

InHandshake == refusal \in {"handshake", "garbled"}

\* The dial's error tells a refusal in the handshake from everything else.
RefusalInv ==
    /\ dialed = "proxy_auth" <=> InHandshake
    /\ dialed = "proxy_auth" => egress.kind # "direct"
    /\ dialed \in {"no", "busy", "ok", "failed", "proxy_auth"}

HandoverInv ==
    /\ egress \in Egresses /\ current.scheme \in Schemes
    /\ TodoInv /\ ConnectionInv /\ RefusalInv

LEMMA EmptyHasNone == ASSUME NEW s PROVE ~Has(<<>>, s)
BY DEF Has

\* What a step may assume of the steps it leaves.
LEMMA RestOfTheSteps ==
  ASSUME HandoverInv, todo # <<>>
  PROVE  /\ Tail(todo) \in Seq(StepsOf(egress.kind))
         /\ Tail(todo) \in Seq(StepsOf(egress.kind) \cup {"tcp"})
         /\ Tail(todo) # <<>> => Tail(Tail(todo)) \in Seq(StepsOf(egress.kind))
         /\ Tail(todo) # <<>> => Head(Tail(todo)) # "tcp"
         /\ Paired(Tail(todo))
         /\ Head(todo) \in StepsOf(egress.kind) \cup {"tcp"}
         /\ Head(todo) = "arm" => Has(Tail(todo), "clear")
         /\ Head(todo) = "watch" => Has(Tail(todo), "stop")
         /\ Head(todo) # "clear" /\ Has(todo, "clear") => Has(Tail(todo), "clear")
         /\ Head(todo) # "stop" /\ Has(todo, "stop") => Has(Tail(todo), "stop")
<1> DEFINE S == StepsOf(egress.kind)
           T == S \cup {"tcp"}
<1>1. todo \in Seq(T) /\ Tail(todo) \in Seq(S) /\ Paired(todo)
  BY DEF HandoverInv, TodoInv
<1>2. Tail(todo) \in Seq(T) /\ Head(todo) \in T
  BY <1>1, HeadTailProperties
<1>3. Tail(todo) # <<>> => Tail(Tail(todo)) \in Seq(S) /\ Head(Tail(todo)) \in S
  BY <1>1, HeadTailProperties
<1>4. "tcp" \notin S
  BY DEF StepsOf, Plain, ProxySteps
<1>5. /\ Paired(Tail(todo))
      /\ Head(todo) = "arm" => Has(Tail(todo), "clear")
      /\ Head(todo) = "watch" => Has(Tail(todo), "stop")
  BY <1>1, FollowedTail DEF Paired
<1>6. /\ Head(todo) # "clear" /\ Has(todo, "clear") => Has(Tail(todo), "clear")
      /\ Head(todo) # "stop" /\ Has(todo, "stop") => Has(Tail(todo), "stop")
  BY <1>1, HasTail
<1> HIDE DEF S, T
<1> QED
  BY <1>1, <1>2, <1>3, <1>4, <1>5, <1>6 DEF S, T

\* A step that only moves on keeps the shape of what is left.
LEMMA MovingOn ==
  ASSUME HandoverInv, todo # <<>>, Goes(Tail(todo)), UNCHANGED <<egress, current>>
  PROVE  TodoInv'
<1>1. todo' = Tail(todo) /\ egress' = egress
  BY DEF Goes
<1>2. dialed' = "busy" <=> todo' # <<>>
  BY DEF Goes
<1> QED
  BY <1>1, <1>2, RestOfTheSteps DEF TodoInv

\* A dial that fails leaves nothing to do and no connection.
LEMMA FailingKeeps ==
  ASSUME HandoverInv, Step(Head(todo)), NEW how \in {"failed", "proxy_auth"}, Fails(how),
         how = "proxy_auth" <=> InHandshake', how = "proxy_auth" => egress.kind # "direct",
         UNCHANGED <<egress, current>>
  PROVE  HandoverInv'
<1>1. /\ todo' = <<>> /\ dialed' = how /\ sock' # "open"
      /\ watcher' # "armed" /\ deadline' = deadline
  BY DEF Fails
<1>2. TodoInv'
  BY <1>1, EmptyIsPaired DEF TodoInv
<1>3. ConnectionInv'
  BY <1>1 DEF ConnectionInv
<1>4. RefusalInv'
  BY <1>1 DEF RefusalInv
<1> QED
  BY <1>2, <1>3, <1>4 DEF HandoverInv

\* A step that moves on, with what is left enough to end what is on.
LEMMA ConnectionMoves ==
  ASSUME HandoverInv, dialed = "busy", Goes(Tail(todo)),
         deadline' # "none" => \/ Has(Tail(todo), "clear")
                               \/ Tail(todo) # <<>> /\ Head(Tail(todo)) \in SelfTimed,
         watcher' = "armed" /\ dialCtx' = "live" => Has(Tail(todo), "stop"),
         sock' = "open" \/ dialCtx' = "done"
  PROVE  ConnectionInv'
<1>1. todo' = Tail(todo) /\ dialed' = IF Tail(todo) = <<>> THEN "ok" ELSE "busy"
  BY DEF Goes
<1>2. \A s : Has(Tail(todo), s) => Tail(todo) # <<>>
  BY EmptyHasNone
<1> QED
  BY <1>1, <1>2 DEF ConnectionInv

LEMMA MovingKeeps ==
  ASSUME HandoverInv, dialed = "busy", todo # <<>>, Goes(Tail(todo)), ConnectionInv',
         UNCHANGED <<refusal, egress, current>>
  PROVE  HandoverInv'
<1>1. RefusalInv'
  BY DEF HandoverInv, RefusalInv, InHandshake, Goes
<1> QED
  BY <1>1, MovingOn DEF HandoverInv

\* Every step of a dial, of its peers, of its timers and of the watcher.
LEMMA DialKeepsHandover ==
  ASSUME HandoverInv, DialNext(egress.creds), UNCHANGED <<egress, current>>
  PROVE  HandoverInv'
<1> DEFINE rest == Tail(todo)
<1>a. /\ deadline # "none" /\ dialed = "busy" => Has(todo, "clear") \/ Head(todo) \in SelfTimed
      /\ watcher = "armed" /\ dialCtx = "live" => Has(todo, "stop")
      /\ dialed = "busy" => todo # <<>>
      /\ dialed = "busy" => sock = "open" \/ dialCtx = "done" \/ Head(todo) = "tcp"
  BY DEF HandoverInv, ConnectionInv, TodoInv
<1>1. CASE Connects
  <2>1. /\ todo # <<>> /\ Head(todo) = "tcp" /\ Goes(rest) /\ dialed = "busy"
        /\ sock' = "open" /\ deadline' = DeadlineBefore(rest, "none")
        /\ UNCHANGED <<watcher, dialCtx, peer, refusal>>
    BY <1>1 DEF Connects, Step
  <2>2. deadline' # "none" => rest # <<>> /\ Head(rest) \in SelfTimed
    BY <2>1 DEF DeadlineBefore
  <2>3. watcher' = "armed" /\ dialCtx' = "live" => Has(rest, "stop")
    BY <1>a, <2>1, RestOfTheSteps
  <2> QED
    BY <2>1, <2>2, <2>3, ConnectionMoves, MovingKeeps
<1>2. CASE Arms \/ Watches \/ Clears \/ Resolves
  <2>1. /\ todo # <<>> /\ Head(todo) \in {"arm", "watch", "clear", "resolve"}
        /\ Goes(rest) /\ dialed = "busy"
        /\ UNCHANGED <<sock, dialCtx, peer, refusal>>
    BY <1>2 DEF Arms, Watches, Clears, Resolves, Step
  <2>2. /\ deadline' = CASE Head(todo) = "arm" -> "armed" [] Head(todo) = "clear" -> "none" [] OTHER -> deadline
        /\ watcher' = IF Head(todo) = "watch" THEN "armed" ELSE watcher
    BY <1>2 DEF Arms, Watches, Clears, Resolves, Step
  <2>3. deadline' # "none" => Has(rest, "clear")
    BY <1>a, <2>1, <2>2, RestOfTheSteps DEF SelfTimed
  <2>4. watcher' = "armed" /\ dialCtx' = "live" => Has(rest, "stop")
    BY <1>a, <2>1, <2>2, RestOfTheSteps
  <2>5. sock' = "open" \/ dialCtx' = "done"
    BY <1>a, <2>1
  <2> QED
    BY <2>1, <2>3, <2>4, <2>5, ConnectionMoves, MovingKeeps
<1>3. CASE Stops
  <2>1. /\ todo # <<>> /\ Head(todo) = "stop" /\ Goes(rest) /\ dialed = "busy"
        /\ watcher' = IF watcher = "armed" /\ dialCtx = "live" THEN "stopped" ELSE watcher
        /\ UNCHANGED <<sock, deadline, dialCtx, peer, refusal>>
    BY <1>3 DEF Stops, Step
  <2>2. deadline' # "none" => Has(rest, "clear")
    BY <1>a, <2>1, RestOfTheSteps DEF SelfTimed
  <2>3. ~(watcher' = "armed" /\ dialCtx' = "live") /\ (sock' = "open" \/ dialCtx' = "done")
    BY <1>a, <2>1
  <2> QED
    BY <2>1, <2>2, <2>3, ConnectionMoves, MovingKeeps
<1>4. CASE Agrees
  <2>1. /\ todo # <<>> /\ Head(todo) \in Exchanges /\ Goes(rest) /\ dialed = "busy" /\ sock' = "open"
        /\ deadline' = DeadlineBefore(rest, IF Head(todo) \in SelfTimed THEN "none" ELSE deadline)
        /\ UNCHANGED <<watcher, dialCtx, peer, refusal>>
    BY <1>4 DEF Agrees, Step
  <2>2. deadline' # "none" => Has(rest, "clear") \/ (rest # <<>> /\ Head(rest) \in SelfTimed)
    BY <1>a, <2>1, RestOfTheSteps DEF DeadlineBefore, Exchanges
  <2>3. watcher' = "armed" /\ dialCtx' = "live" => Has(rest, "stop")
    BY <1>a, <2>1, RestOfTheSteps DEF Exchanges
  <2> QED
    BY <2>1, <2>2, <2>3, ConnectionMoves, MovingKeeps
<1>5. CASE AsksForCredentials(egress.creds)
  <2>1. /\ todo # <<>> /\ Head(todo) = "greet" /\ Goes(<<"auth">> \o rest) /\ dialed = "busy" /\ sock = "open"
        /\ UNCHANGED <<sock, deadline, watcher, dialCtx, peer, refusal>>
    BY <1>5 DEF AsksForCredentials, Step
  <2> DEFINE S == StepsOf(egress.kind)
  <2>2. egress.kind # "direct" /\ <<"auth">> \in Seq(S) /\ rest \in Seq(S) /\ Paired(rest)
    <3>1. egress.kind # "direct"
      BY <2>1, RestOfTheSteps DEF StepsOf, Plain
    <3>2. "auth" \in S
      BY <3>1 DEF StepsOf, ProxySteps
    <3>3. <<"auth">> \in Seq(S)
      BY <3>2
    <3> QED
      BY <2>1, <3>1, <3>3, RestOfTheSteps
  <2>3. /\ <<"auth">> \o rest \in Seq(S) /\ Len(<<"auth">> \o rest) = 1 + Len(rest) /\ Len(rest) \in Nat
        /\ \A i \in 1 .. 1 + Len(rest) : (<<"auth">> \o rest)[i] = IF i <= 1 THEN "auth" ELSE rest[i - 1]
    BY <2>2, ConcatProperties
  <2>4. Paired(<<"auth">> \o rest)
    <3>1. Paired(<<"auth">>)
      BY DEF Paired, Followed
    <3> QED
      BY <2>2, <3>1, PairedConcat
  <2>5. \A s : Has(rest, s) => Has(<<"auth">> \o rest, s)
    <3> SUFFICES ASSUME NEW s, NEW i \in 1 .. Len(rest), rest[i] = s
                 PROVE  Has(<<"auth">> \o rest, s)
      BY DEF Has
    <3>1. i + 1 \in 1 .. Len(<<"auth">> \o rest) /\ (<<"auth">> \o rest)[i + 1] = s
      BY <2>3
    <3> QED
      BY <3>1 DEF Has
  <2>6. <<"auth">> \o rest # <<>> /\ Tail(<<"auth">> \o rest) \in Seq(S)
    BY <2>3, HeadTailProperties, EmptySeq
  <2>7. todo' = <<"auth">> \o rest /\ dialed' = "busy"
    BY <2>1, <2>6 DEF Goes
  <2>8. TodoInv'
    <3>1. <<"auth">> \o rest \in Seq(S \cup {"tcp"})
      BY <2>3
    <3> QED
      BY <2>4, <2>6, <2>7, <3>1 DEF TodoInv
  <2>9. ConnectionInv'
    BY <1>a, <2>1, <2>5, <2>7, RestOfTheSteps DEF ConnectionInv, SelfTimed
  <2>10. RefusalInv'
    BY <2>1, <2>7 DEF HandoverInv, RefusalInv, InHandshake
  <2> QED
    BY <2>8, <2>9, <2>10 DEF HandoverInv
<1>6. CASE RefusesCredentials
  <2>1. /\ todo # <<>> /\ Head(todo) \in {"greet", "auth", "CONNECT", "stdconnect"} /\ Step(Head(todo))
        /\ refusal' = "handshake"
    BY <1>6 DEF RefusesCredentials, Step
  <2>2. Head(todo) # "stdconnect" /\ egress.kind # "direct"
    BY <2>1, RestOfTheSteps DEF StepsOf, Plain, ProxySteps
  <2>3. Fails("proxy_auth")
    BY <1>6, <2>2 DEF RefusesCredentials
  <2> QED
    BY <2>1, <2>2, <2>3, FailingKeeps DEF InHandshake
<1>7. CASE Refuses \/ GivesUp
  <2>1. Step(Head(todo)) /\ Fails("failed") /\ refusal' = refusal
    BY <1>7 DEF Refuses, GivesUp, Step
  <2>2. ~InHandshake
    BY <2>1 DEF HandoverInv, RefusalInv, Step
  <2> QED
    BY <2>1, <2>2, FailingKeeps DEF InHandshake
<1>8. CASE WatcherCloses
  <2>1. UNCHANGED <<todo, deadline, dialCtx, dialed, refusal>> /\ dialCtx = "done" /\ watcher' = "fired"
        /\ (sock' = "open" => sock = "open")
    BY <1>8 DEF WatcherCloses
  <2> QED
    BY <2>1 DEF HandoverInv, TodoInv, ConnectionInv, RefusalInv, InHandshake
<1>9. CASE DeadlinePasses
  <2>1. UNCHANGED <<todo, sock, watcher, dialCtx, dialed, refusal>> /\ deadline = "armed"
    BY <1>9 DEF DeadlinePasses
  <2> QED
    BY <2>1 DEF HandoverInv, TodoInv, ConnectionInv, RefusalInv, InHandshake
<1>10. CASE GarblesAuth
  <2>1. todo # <<>> /\ Head(todo) = "auth" /\ Step(Head(todo)) /\ refusal' = "garbled" /\ Fails("proxy_auth")
    BY <1>10 DEF GarblesAuth, Step
  <2>2. egress.kind # "direct"
    BY <2>1, RestOfTheSteps DEF StepsOf, Plain
  <2> QED
    BY <2>1, <2>2, FailingKeeps DEF InHandshake
<1> QED
  BY <1>1, <1>2, <1>3, <1>4, <1>5, <1>6, <1>7, <1>8, <1>9, <1>10 DEF DialNext, DialOwn

-----------------------------------------------------------------------------
(* The attempt around its dials.                                           *)

\* The one response that may be open is the one being drained or returned;
\* where no dial runs, none is left behind but by a client that is gone.
BodiesInv ==
    /\ at \in {"request", "dialing", "sending", "headers", "drain", "done"}
    /\ bodies = IF at = "drain" \/ (at = "done" /\ result \in Statuses) THEN 1 ELSE 0
    /\ at \in {"request", "dialing", "sending", "headers"} => result = "none"
    /\ at = "drain" => result \in {"none", "failed"}

VerdictInv ==
    /\ at \in {"sending", "headers", "drain"} => dialed = "ok"
    /\ at = "done" /\ ctx = "live" => dialed # "busy" /\ (InHandshake => result = "proxy_auth")
    /\ result = "proxy_auth" => at = "done" /\ InHandshake
    /\ refusal = "forwarded" => at = "done" /\ result = "407" /\ dialed = "ok"

AroundInv == HandoverInv /\ BodiesInv /\ VerdictInv

LEMMA AroundStarts == AttemptInit => AroundInv
<1> SUFFICES ASSUME AttemptInit PROVE AroundInv
  OBVIOUS
<1>1. TodoInv
  BY EmptyIsPaired DEF AttemptInit, DialInit, TodoInv
<1>2. ConnectionInv /\ RefusalInv
  BY DEF AttemptInit, DialInit, ConnectionInv, RefusalInv, InHandshake
<1>3. egress \in Egresses /\ current.scheme \in Schemes
  BY DEF AttemptInit
<1>4. BodiesInv /\ VerdictInv
  BY DEF AttemptInit, DialInit, BodiesInv, VerdictInv, InHandshake, Statuses, Redirects
<1> QED
  BY <1>1, <1>2, <1>3, <1>4 DEF AroundInv, HandoverInv

\* A new dial has its whole plan ahead of it.
LEMMA RoundTripKeeps == ASSUME AroundInv, RoundTrip PROVE AroundInv'
<1>1. egress.kind \in Kinds /\ current.scheme \in Schemes
  BY DEF AroundInv, HandoverInv, Egresses
<1> DEFINE S == StepsOf(egress.kind)
<1>2. PICK rest \in Seq(S) :
        /\ Paired(rest)
        /\ DialSteps(egress.kind, TransportFor(egress.kind, current.scheme), current.scheme) = <<"tcp">> \o rest
  BY <1>1, DialIsPaired
<1>3. /\ todo' = <<"tcp">> \o rest /\ deadline' = "armed" /\ watcher' = "none" /\ sock' = "none"
      /\ dialed' = "busy" /\ refusal' = "none"
      /\ UNCHANGED <<egress, current, dialCtx, bodies, ctx, result>>
      /\ at = "request" /\ at' = "dialing" /\ ctx = "live"
  BY <1>2 DEF RoundTrip, StartDial, chain
<1>4. <<"tcp">> \in Seq(S \cup {"tcp"}) /\ rest \in Seq(S \cup {"tcp"}) /\ Paired(<<"tcp">>)
  <2>1. Paired(<<"tcp">>)
    BY DEF Paired, Followed
  <2> QED
    BY <2>1
<1>5. /\ todo' \in Seq(S \cup {"tcp"}) /\ Paired(todo')
      /\ todo' # <<>> /\ Head(todo') = "tcp" /\ Tail(todo') = rest
  <2>1. todo' \in Seq(S \cup {"tcp"}) /\ Paired(todo')
    BY <1>2, <1>3, <1>4, PairedConcat
  <2>2. /\ Len(todo') = 1 + Len(rest) /\ Len(rest) \in Nat /\ todo'[1] = "tcp"
        /\ \A i \in 1 .. Len(rest) : todo'[i + 1] = rest[i]
    BY <1>3, <1>4, ConcatProperties
  <2>3. todo' # <<>>
    BY <2>2, EmptySeq
  <2>4. Tail(todo') = rest
    <3>1. /\ Tail(todo') \in Seq(S \cup {"tcp"}) /\ Len(Tail(todo')) = Len(rest)
          /\ \A i \in 1 .. Len(Tail(todo')) : Tail(todo')[i] = rest[i]
      BY <2>1, <2>2, <2>3, HeadTailProperties
    <3> QED
      BY <1>4, <3>1, SeqEqual
  <2> QED
    BY <2>1, <2>2, <2>3, <2>4, HeadTailProperties
<1>6. TodoInv'
  BY <1>3, <1>5 DEF TodoInv
<1>7. ConnectionInv' /\ RefusalInv'
  BY <1>3, <1>5 DEF ConnectionInv, RefusalInv, InHandshake, SelfTimed
<1>8. BodiesInv' /\ VerdictInv'
  BY <1>3 DEF AroundInv, BodiesInv, VerdictInv, InHandshake
<1> QED
  BY <1>3, <1>6, <1>7, <1>8 DEF AroundInv, HandoverInv

LEMMA DialsKeep == ASSUME AroundInv, Dials PROVE AroundInv'
<1>1. HandoverInv'
  BY DialKeepsHandover DEF AroundInv, Dials, chain
<1>2. /\ at \in {"dialing", "done"} /\ UNCHANGED <<at, bodies, ctx, result>>
  BY DEF Dials
<1>3. dialed # "busy" => UNCHANGED <<dialed, refusal>>
  BY DEF Dials, DialNext, DialOwn, Arms, Watches, Clears, Stops, GivesUp, WatcherCloses, Connects, Agrees,
         AsksForCredentials, RefusesCredentials, GarblesAuth, Refuses, Resolves, DeadlinePasses, Fails, Goes, Step
<1>4. InHandshake => dialed # "busy"
  BY DEF AroundInv, HandoverInv, RefusalInv
<1>5. refusal' = "forwarded" => refusal = "forwarded"
  BY DEF Dials, DialNext, DialOwn, Arms, Watches, Clears, Stops, GivesUp, WatcherCloses, Connects, Agrees,
         AsksForCredentials, RefusesCredentials, GarblesAuth, Refuses, Resolves, DeadlinePasses
<1> QED
  BY <1>1, <1>2, <1>3, <1>4, <1>5 DEF AroundInv, BodiesInv, VerdictInv, InHandshake

HandedOver == UNCHANGED <<egress, todo, deadline, watcher, dialCtx, dialed, sock, refusal>>

\* A refusal relayed as an answer is none of the dial's.
LEMMA AnswerKeeps ==
  ASSUME AroundInv, NEW status \in Statuses, NEW location, Answers(status, location)
  PROVE  AroundInv'
<1>1. /\ UNCHANGED <<egress, current, todo, sock, deadline, watcher, dialCtx, dialed, ctx>>
      /\ at \in {"sending", "headers"} /\ at' = "done" /\ result' = status /\ bodies' = bodies + 1
      /\ refusal' = refusal \/ (refusal' = "forwarded" /\ status = "407")
  BY DEF Answers, OnTheWire, Returns, chain
<1>2. dialed = "ok" /\ ~InHandshake /\ refusal # "forwarded" /\ bodies = 0
  BY <1>1 DEF AroundInv, HandoverInv, RefusalInv, VerdictInv, BodiesInv
<1>3. ~InHandshake' /\ (refusal' = "forwarded" => status = "407")
  BY <1>1, <1>2 DEF InHandshake
<1>4. TodoInv' /\ ConnectionInv' /\ RefusalInv'
  BY <1>1, <1>2, <1>3 DEF AroundInv, HandoverInv, TodoInv, ConnectionInv, RefusalInv
<1>5. BodiesInv' /\ VerdictInv'
  BY <1>1, <1>2, <1>3 DEF BodiesInv, VerdictInv, Statuses, Redirects
<1> QED
  BY <1>1, <1>4, <1>5 DEF AroundInv, HandoverInv

LEMMA HandoverStays ==
  ASSUME HandoverInv, HandedOver, current' = current \/ current' \in Targets
  PROVE  HandoverInv'
<1>1. current'.scheme \in Schemes /\ egress' \in Egresses
  BY DEF HandoverInv, HandedOver, Targets
<1>2. TodoInv'
  BY DEF HandoverInv, HandedOver, TodoInv
<1>3. ConnectionInv' /\ RefusalInv'
  BY DEF HandoverInv, HandedOver, ConnectionInv, RefusalInv, InHandshake
<1> QED
  BY <1>1, <1>2, <1>3 DEF HandoverInv

LEMMA AroundStep == AroundInv /\ [AttemptNext]_attemptVars => AroundInv'
<1> SUFFICES ASSUME AroundInv, [AttemptNext]_attemptVars PROVE AroundInv'
  OBVIOUS
<1>0. dialed = "proxy_auth" <=> InHandshake
  BY DEF AroundInv, HandoverInv, RefusalInv
<1>1. CASE RoundTrip
  BY <1>1, RoundTripKeeps
<1>2. CASE Dials
  BY <1>2, DialsKeep
<1>3. CASE Sends \/ Sent \/ DialFailed \/ Canceled \/ NoHeaders \/ Drained
  <2>1. HandoverInv'
    BY <1>3, HandoverStays DEF AroundInv, HandedOver, dialVars, chain,
       Sends, Sent, DialFailed, Canceled, NoHeaders, Drained
  <2>2. BodiesInv' /\ VerdictInv'
    BY <1>0, <1>3 DEF AroundInv, BodiesInv, VerdictInv, InHandshake, OnTheWire, Returns, Statuses, Redirects, dialVars,
       Sends, Sent, DialFailed, Canceled, NoHeaders, Drained
  <2> QED
    BY <2>1, <2>2 DEF AroundInv
<1>4. ASSUME NEW location, BadRedirect(location) PROVE AroundInv'
  <2>1. HandoverInv'
    BY <1>4, HandoverStays DEF AroundInv, HandedOver, dialVars, chain, BadRedirect
  <2>2. BodiesInv' /\ VerdictInv'
    BY <1>0, <1>4 DEF AroundInv, BodiesInv, VerdictInv, InHandshake, Statuses, Redirects, dialVars,
       BadRedirect, OnTheWire
  <2> QED
    BY <2>1, <2>2 DEF AroundInv
<1>5. ASSUME NEW status, NEW location \in Targets, Redirected(status, location)
      PROVE  AroundInv'
  <2>1. HandoverInv'
    BY <1>5, HandoverStays DEF AroundInv, HandedOver, dialVars, Redirected
  <2>2. BodiesInv' /\ VerdictInv'
    BY <1>0, <1>5 DEF AroundInv, BodiesInv, VerdictInv, InHandshake, dialVars, Redirected, OnTheWire
  <2> QED
    BY <2>1, <2>2 DEF AroundInv
<1>6. CASE Vanishes
  <2>1. /\ UNCHANGED <<egress, current, at, bodies, result, todo, sock, deadline, watcher, dialed, refusal>>
        /\ dialCtx' \in {dialCtx, "done"} /\ ctx' = "done"
    BY <1>6 DEF Vanishes, chain
  <2>2. TodoInv' /\ RefusalInv' /\ BodiesInv' /\ VerdictInv'
    BY <2>1 DEF AroundInv, HandoverInv, TodoInv, RefusalInv, BodiesInv, VerdictInv, InHandshake
  <2>3. ConnectionInv'
    BY <2>1 DEF AroundInv, HandoverInv, ConnectionInv
  <2> QED
    BY <2>1, <2>2, <2>3 DEF AroundInv, HandoverInv
<1>7. CASE UNCHANGED attemptVars
  <2>1. HandoverInv'
    BY <1>7, HandoverStays DEF AroundInv, HandedOver, attemptVars, dialVars, chain
  <2>2. BodiesInv' /\ VerdictInv'
    BY <1>7 DEF AroundInv, BodiesInv, VerdictInv, InHandshake, attemptVars, dialVars
  <2> QED
    BY <2>1, <2>2 DEF AroundInv
<1> QED
  BY <1>1, <1>2, <1>3, <1>4, <1>5, <1>6, <1>7, AnswerKeeps DEF AttemptNext, Responds

\* A connection is handed over open, without a deadline and with nobody left
\* to close it, a failed dial keeps none, and only the returned response is
\* open at the end, whatever the egress, the peers and the moments the
\* deadline and the client chose (connect.go, socks5.go, hello.go; client.go,
\* drainAndClose).
THEOREM HandoverCorrect == AttemptSpec => []NothingIsLeftBehind
<1>1. AroundInv => NothingIsLeftBehind
  <2> SUFFICES ASSUME AroundInv PROVE NothingIsLeftBehind
    OBVIOUS
  <2>1. dialed = "ok" => todo = <<>> /\ dialed # "busy"
    BY DEF AroundInv, HandoverInv, TodoInv
  <2> QED
    BY <2>1 DEF AroundInv, HandoverInv, ConnectionInv, BodiesInv, NothingIsLeftBehind
<1> QED
  BY <1>1, AroundStarts, AroundStep, PTL DEF AttemptSpec

\* For chains of any length over any egress: an attempt blames our credentials
\* exactly when the proxy refused them in its handshake or garbled its reply to
\* them there, unless its client is gone; a refusal relayed as the answer to a
\* forwarded request is returned as the 407 it is (failure.go: proxyAuthError,
\* classifyStatusFor; connect.go, socks5.go).
THEOREM ProxyAuthCorrect == AttemptSpec => []ProxyAuthIsTheProxysWord
<1>1. AroundInv => ProxyAuthIsTheProxysWord
  BY DEF AroundInv, HandoverInv, RefusalInv, VerdictInv, InHandshake, ProxyAuthIsTheProxysWord
<1> QED
  BY <1>1, AroundStarts, AroundStep, PTL DEF AttemptSpec
=============================================================================
