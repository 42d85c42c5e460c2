------------------------------- MODULE Routes -------------------------------
(***************************************************************************)
(* Routes: requests of the app that a test answers.  The SDK (network.ts,  *)
(* NetworkRouteManager) registers patterns on a stream to the daemon       *)
(* (grpc_server.rs, network_route); the daemon's proxy asks the stream's   *)
(* handler (route_handler.rs) about each request, and the handler asks the *)
(* test.  The stream may break at any time, and the SDK then opens another *)
(* and registers its routes again.                                         *)
(*                                                                         *)
(* Event subscriptions, which travel on the same stream, are left out, and *)
(* so is the end of a capture.  A route or a request stands for itself:    *)
(* its id, and the id its intercept is given.                              *)
(***************************************************************************)
EXTENDS Naturals, Sequences, SequencesExt

CONSTANTS
    RouteIds, Requests,
    Scenes,       \* what may happen in a behaviour, see scene
    MaxStreams,   \* bound on the streams of a behaviour
    NoRoute

Streams == 1 .. MaxStreams
NoStream == 0

VARIABLES
    scene,       \* pattern, per route: globs, what the daemon sees it match; accepts,
                 \* what it does match; times, or 0; valid, whether the daemon takes it;
                 \* requests, those the app makes; bounds, on the following
    spent,       \* how often a stream broke, unroute or dispose was called
    stream, opened,     \* the manager's _stream; how many there were
    routes, confirmed,  \* _routes, in the order of registration, and those confirmed
    left,        \* timesRemaining
    added,       \* routes a test has asked for
    adding, removing,   \* <<route, stream>>: replies addRoute and unroute wait for
    armed,       \* _reopenTimer
    call, said,  \* per request: where its route handler is; what the SDK last sent
    link,        \* per stream: "none", "open", "ended" by the SDK, "broken", "gone"
    up, down,    \* per stream: messages to the daemon, and to the SDK
    phase,       \* per stream: where the daemon's tasks for it are
    registered,  \* per stream: the handler's routes
    toSdk, forwards,    \* per stream: what the handler has to say; its forwarding task
    active, installed,  \* active_route_handler; the proxy's handler
    proxyOn,     \* a capture runs
    at, via, matched, pending, answer, outcome   \* the requests, see Arrive

sdkVars == <<stream, opened, routes, confirmed, left, added, adding, removing, armed>>
callVars == <<call, said>>
daemonVars == <<phase, registered, active, installed, proxyOn>>
requestVars == <<at, via, matched, pending, answer, outcome>>
routeVars == <<scene, spent, sdkVars, callVars, link, up, down, daemonVars, toSdk, forwards, requestVars>>

Occasions == {"break", "unroute", "dispose"}
pattern == scene.pattern

Init ==
    /\ scene \in Scenes /\ spent = [o \in Occasions |-> 0]
    /\ stream = NoStream /\ opened = 0
    /\ routes = <<>> /\ confirmed = {} /\ left = [r \in DOMAIN pattern |-> pattern[r].times]
    /\ added = {} /\ adding = {} /\ removing = {} /\ armed = FALSE
    /\ call = [q \in Requests |-> "none"] /\ said = [q \in Requests |-> "nothing"]
    /\ link = [k \in Streams |-> "none"]
    /\ up = [k \in Streams |-> <<>>] /\ down = [k \in Streams |-> <<>>]
    /\ phase = [k \in Streams |-> "none"] /\ registered = [k \in Streams |-> <<>>]
    /\ toSdk = [k \in Streams |-> <<>>] /\ forwards = [k \in Streams |-> TRUE]
    /\ active = NoStream /\ installed = NoStream /\ proxyOn = FALSE
    /\ at = [q \in Requests |-> "new"] /\ via = [q \in Requests |-> NoStream]
    /\ matched = [q \in Requests |-> NoRoute] /\ pending = {}
    /\ answer = [q \in Requests |-> "none"] /\ outcome = [q \in Requests |-> "none"]

-----------------------------------------------------------------------------
(* The SDK.                                                                *)

Without(rs, gone) == SelectSeq(rs, LAMBDA r : r \notin gone)
Each(kind, rs) == [i \in DOMAIN rs |-> <<kind, rs[i]>>]
On(pairs, k) == {p \in pairs : p[2] = k}
RoutesOf(pairs) == {p[1] : p \in pairs}

\* Mutant: the route being registered is replayed as well.
ReplayedUnchecked(rs) == rs

\* _replayState: under their old ids and in their old order.
Replayed(rs) == SelectSeq(rs, LAMBDA r : r \in confirmed)

Current == IF stream # NoStream THEN stream ELSE opened + 1

\* _ensureStream, when the routes are rs; then the caller's messages.
Send(rs, messages) ==
    IF stream # NoStream
    THEN /\ up' = [up EXCEPT ![stream] = @ \o messages]
         /\ UNCHANGED <<stream, opened, armed, link, phase>>
    ELSE /\ opened < MaxStreams
         /\ stream' = opened + 1 /\ opened' = opened + 1 /\ armed' = FALSE
         /\ link' = [link EXCEPT ![opened + 1] = "open"]
         /\ phase' = [phase EXCEPT ![opened + 1] = "asked"]
         /\ up' = [up EXCEPT ![opened + 1] = Each("register", Replayed(rs)) \o messages]

\* Nothing is sent while there is no stream.
SafeWrite(messages) ==
    up' = IF stream = NoStream THEN up ELSE [up EXCEPT ![stream] = @ \o messages]

Spend(o) == spent[o] < scene.bounds[o] /\ spent' = [spent EXCEPT ![o] = @ + 1]

\* A test, hook or route handler calls route().
AddRoute(r) ==
    /\ r \in DOMAIN pattern \ added
    /\ added' = added \cup {r} /\ routes' = Append(routes, r)
    /\ Send(routes', <<<<"register", r>>>>)
    /\ adding' = adding \cup {<<r, Current>>}
    /\ UNCHANGED <<scene, spent, confirmed, left, removing, callVars, down, registered, active,
                   installed, proxyOn, toSdk, forwards, requestVars>>

\* unroute() of a pattern, or all that a test or a scope has left.
Unroute(rs) ==
    /\ rs # {} /\ rs \subseteq ToSet(routes) /\ Spend("unroute")
    /\ Send(routes, Each("unregister", Without(routes, RouteIds \ rs)))
    /\ removing' = removing \cup {<<r, Current>> : r \in rs}
    /\ UNCHANGED <<scene, routes, confirmed, left, added, adding, callVars, down, registered,
                   active, installed, proxyOn, toSdk, forwards, requestVars>>

\* dispose, at the end of a session; what comes later is another manager's.
Dispose ==
    /\ stream # NoStream \/ routes # <<>>
    /\ Spend("dispose")
    /\ routes' = <<>> /\ confirmed' = {} /\ adding' = {} /\ removing' = {} /\ armed' = FALSE
    /\ call' = [q \in Requests |-> IF call[q] = "none" THEN "none" ELSE "over"]
    /\ stream' = NoStream
    /\ link' = IF stream # NoStream THEN [link EXCEPT ![stream] = IF @ = "open" THEN "ended" ELSE @] ELSE link
    /\ UNCHANGED <<scene, opened, left, added, said, up, down, daemonVars, toSdk, forwards, requestVars>>

\* The stream's error or end reaches the SDK: _onStreamDropped with
\* _scheduleReopen, and then the promises that wait for a reply on it.
EndSeen(k) ==
    /\ link[k] = "broken"
    /\ link' = [link EXCEPT ![k] = "gone"] /\ down' = [down EXCEPT ![k] = <<>>]
    /\ IF stream = k
       THEN /\ stream' = NoStream /\ armed' = TRUE
            /\ call' = [q \in Requests |-> IF call[q] = "fetching" THEN "over" ELSE call[q]]
            /\ routes' = Without(routes, RoutesOf(On(adding \cup removing, k)))
            /\ confirmed' = confirmed \ RoutesOf(On(removing, k))
            /\ adding' = adding \ On(adding, k) /\ removing' = removing \ On(removing, k)
       ELSE UNCHANGED <<stream, armed, call, routes, confirmed, adding, removing>>
    /\ UNCHANGED <<scene, spent, opened, left, added, said, up, daemonVars, toSdk, forwards, requestVars>>

\* The timer of _scheduleReopen.
ReopenFires ==
    /\ armed
    /\ IF stream = NoStream /\ confirmed # {}
       THEN Send(routes, <<>>)
       ELSE armed' = FALSE /\ UNCHANGED <<stream, opened, link, phase, up>>
    /\ UNCHANGED <<scene, spent, routes, confirmed, left, added, adding, removing, callVars, down,
                   registered, active, installed, proxyOn, toSdk, forwards, requestVars>>

-----------------------------------------------------------------------------
(* What the SDK does with a message of the daemon.                         *)

\* The reply to addRoute, or to a replay, which only warns.
OnRegistered(r, k, ok) ==
    /\ adding' = adding \ {<<r, k>>}
    /\ IF <<r, k>> \notin adding THEN UNCHANGED <<routes, confirmed>>
       ELSE IF ok THEN confirmed' = confirmed \cup ({r} \cap ToSet(routes)) /\ UNCHANGED routes
       ELSE routes' = Without(routes, {r}) /\ UNCHANGED confirmed
    /\ UNCHANGED <<left, removing, callVars, up>>

OnUnregistered(r, k) ==
    /\ removing' = removing \ {<<r, k>>}
    /\ IF <<r, k>> \in removing
       THEN routes' = Without(routes, {r}) /\ confirmed' = confirmed \ {r}
       ELSE UNCHANGED <<routes, confirmed>>
    /\ UNCHANGED <<left, adding, callVars, up>>

\* Nobody's request: the route is gone, or was sent to the daemon as "**".
PassOn(q, r) ==
    SafeWrite(<<<<"decision", q, "continue">>>>) /\ said' = [said EXCEPT ![q] = "continue"]

\* _handleInterceptedRequest; the last of a route's calls removes it, without
\* waiting for the daemon.
OnIntercepted(q, r, k) ==
    IF k # stream THEN UNCHANGED <<routes, confirmed, left, callVars, up>>
    ELSE IF r \notin ToSet(routes) \/ q \notin pattern[r].accepts
    THEN PassOn(q, r) /\ UNCHANGED <<routes, confirmed, left, call>>
    ELSE /\ call' = [call EXCEPT ![q] = "running"]
         /\ IF pattern[r].times = 0 THEN UNCHANGED <<routes, confirmed, left, up>>
            ELSE /\ left' = [left EXCEPT ![r] = @ - 1]
                 /\ IF left[r] > 1 THEN UNCHANGED <<routes, confirmed, up>>
                    ELSE /\ routes' = Without(routes, {r}) /\ confirmed' = confirmed \ {r}
                         /\ SafeWrite(<<<<"unregister", r>>>>)
         /\ UNCHANGED said

\* Mutant: a fetch that failed is taken for a response.
FetchedAnyway(q, ok) ==
    /\ call' = [call EXCEPT ![q] = IF @ = "fetching" THEN "fetched" ELSE @]
    /\ UNCHANGED <<routes, confirmed, left, said, up>>

\* route.fetch() returns, or throws and leaves the route resolved.
OnFetched(q, ok) ==
    /\ call' = [call EXCEPT ![q] = IF @ # "fetching" THEN @ ELSE IF ok THEN "fetched" ELSE "over"]
    /\ UNCHANGED <<routes, confirmed, left, said, up>>

Deliver(k) ==
    /\ link[k] \notin {"none", "gone"} /\ down[k] # <<>>
    /\ down' = [down EXCEPT ![k] = Tail(@)]
    /\ LET message == Head(down[k]) kind == message[1] IN
       \/ kind = "registered" /\ OnRegistered(message[2], k, message[3])
       \/ kind = "unregistered" /\ OnUnregistered(message[2], k)
       \/ kind = "intercepted" /\ OnIntercepted(message[2], message[3], k) /\ UNCHANGED <<adding, removing>>
       \/ kind = "fetched" /\ OnFetched(message[2], message[3]) /\ UNCHANGED <<adding, removing>>
    /\ UNCHANGED <<scene, spent, stream, opened, added, armed, link, daemonVars, toSdk, forwards, requestVars>>

\* The route handler decides; one that throws or returns without a decision
\* continues the request.  After a fetch only fulfill has its own message.
Decides(q, decision) ==
    /\ \/ call[q] = "running" /\ decision \in {"continue", "fulfill"}
       \/ call[q] = "fetched" /\ decision \in {"giveUp", "after"}
    /\ call' = [call EXCEPT ![q] = "over"] /\ said' = [said EXCEPT ![q] = decision]
    /\ SafeWrite(<<<<"decision", q, IF decision = "giveUp" THEN "continue" ELSE decision>>>>)
    /\ UNCHANGED <<scene, spent, sdkVars, link, down, daemonVars, toSdk, forwards, requestVars>>

Fetches(q) ==
    /\ call[q] = "running"
    /\ call' = [call EXCEPT ![q] = "fetching"] /\ said' = [said EXCEPT ![q] = "fetch"]
    /\ SafeWrite(<<<<"decision", q, "fetch">>>>)
    /\ UNCHANGED <<scene, spent, sdkVars, link, down, daemonVars, toSdk, forwards, requestVars>>

-----------------------------------------------------------------------------
(* The daemon's side of a stream.                                          *)

Break(k) ==
    /\ link[k] = "open" /\ Spend("break")
    /\ link' = [link EXCEPT ![k] = "broken"]
    /\ UNCHANGED <<scene, sdkVars, callVars, up, down, daemonVars, toSdk, forwards, requestVars>>

\* network_route: a new handler, kept for a capture that starts later.
Accept(k) ==
    /\ phase[k] = "asked"
    /\ \/ phase' = [phase EXCEPT ![k] = "opening"] /\ active' = k
       \/ link[k] # "open" /\ phase' = [phase EXCEPT ![k] = "closed"] /\ UNCHANGED active
    /\ UNCHANGED <<scene, spent, sdkVars, callVars, link, up, down, registered, installed, proxyOn,
                   toSdk, forwards, requestVars>>

\* And given to the proxy, if one runs; then the stream is read.
Install(k) ==
    /\ phase[k] = "opening"
    /\ phase' = [phase EXCEPT ![k] = "reading"]
    /\ installed' = IF proxyOn THEN k ELSE installed
    /\ UNCHANGED <<scene, spent, sdkVars, callVars, link, up, down, registered, active, proxyOn,
                   toSdk, forwards, requestVars>>

\* resolve_decision: a decision for no pending intercept of this handler is dropped.
Resolve(k, q, decision) ==
    IF q \in pending /\ via[q] = k
    THEN pending' = pending \ {q} /\ answer' = [answer EXCEPT ![q] = decision]
    ELSE UNCHANGED <<pending, answer>>

Read(k) ==
    /\ phase[k] = "reading" /\ up[k] # <<>>
    /\ up' = [up EXCEPT ![k] = Tail(@)]
    /\ LET message == Head(up[k]) r == message[2] IN
       \/ /\ message[1] = "register"
          /\ registered' = IF pattern[r].valid THEN [registered EXCEPT ![k] = Append(@, r)] ELSE registered
          /\ down' = [down EXCEPT ![k] = Append(@, <<"registered", r, pattern[r].valid>>)]
          /\ UNCHANGED <<pending, answer>>
       \/ /\ message[1] = "unregister"
          /\ registered' = [registered EXCEPT ![k] = Without(@, {r})]
          /\ down' = [down EXCEPT ![k] = Append(@, <<"unregistered", r>>)]
          /\ UNCHANGED <<pending, answer>>
       \/ message[1] = "decision" /\ Resolve(k, r, message[3]) /\ UNCHANGED <<registered, down>>
    /\ UNCHANGED <<scene, spent, sdkVars, callVars, link, phase, active, installed, proxyOn, toSdk,
                   forwards, at, via, matched, outcome>>

\* The task that passes on what the handler says ends when nobody listens.
Forward(k) ==
    /\ forwards[k] /\ toSdk[k] # <<>>
    /\ IF link[k] \in {"open", "ended"}
       THEN /\ down' = [down EXCEPT ![k] = Append(@, Head(toSdk[k]))]
            /\ toSdk' = [toSdk EXCEPT ![k] = Tail(@)] /\ UNCHANGED forwards
       ELSE toSdk' = [toSdk EXCEPT ![k] = <<>>] /\ forwards' = [forwards EXCEPT ![k] = FALSE] /\ UNCHANGED down
    /\ UNCHANGED <<scene, spent, sdkVars, callVars, link, up, daemonVars, requestVars>>

\* The stream closed: release_all_pending.
Release(k) ==
    /\ phase[k] = "reading"
    /\ link[k] \in {"broken", "gone"} \/ (link[k] = "ended" /\ up[k] = <<>>)
    /\ phase' = [phase EXCEPT ![k] = "released"] /\ up' = [up EXCEPT ![k] = <<>>]
    /\ pending' = {q \in pending : via[q] # k}
    /\ answer' = [q \in Requests |-> IF q \in pending /\ via[q] = k THEN "continue" ELSE answer[q]]
    /\ UNCHANGED <<scene, spent, sdkVars, callVars, link, down, registered, active, installed, proxyOn,
                   toSdk, forwards, at, via, matched, outcome>>

\* A newer stream's handler is left alone.
Compare(k) ==
    /\ phase[k] = "released"
    /\ phase' = [phase EXCEPT ![k] = IF active = k THEN "clearing" ELSE "closed"]
    /\ active' = IF active = k THEN NoStream ELSE active
    /\ UNCHANGED <<scene, spent, sdkVars, callVars, link, up, down, registered, installed, proxyOn,
                   toSdk, forwards, requestVars>>

Clear(k) ==
    /\ phase[k] = "clearing"
    /\ phase' = [phase EXCEPT ![k] = "closed"] /\ installed' = NoStream
    /\ UNCHANGED <<scene, spent, sdkVars, callVars, link, up, down, registered, active, proxyOn,
                   toSdk, forwards, requestVars>>

\* start_network_capture installs the handler of the stream there is.
StartCapture ==
    /\ ~proxyOn
    /\ proxyOn' = TRUE /\ installed' = active
    /\ UNCHANGED <<scene, spent, sdkVars, callVars, link, up, down, phase, registered, active,
                   toSdk, forwards, requestVars>>

-----------------------------------------------------------------------------
(* A request in the proxy, and on_request of the handler it met.           *)

requestOnly == <<scene, spent, sdkVars, callVars, link, up, down, daemonVars>>

Ends(q, result) ==
    at' = [at EXCEPT ![q] = "done"] /\ outcome' = [outcome EXCEPT ![q] = result]

Arrive(q) ==
    /\ at[q] = "new" /\ proxyOn /\ q \in scene.requests
    /\ via' = [via EXCEPT ![q] = installed]
    /\ IF installed = NoStream THEN Ends(q, "passed")
       ELSE at' = [at EXCEPT ![q] = "matching"] /\ UNCHANGED outcome
    /\ UNCHANGED <<requestOnly, toSdk, forwards, matched, pending, answer>>

\* match_route: the last one registered wins.
Match(q) ==
    /\ at[q] = "matching"
    /\ LET fits == SelectSeq(registered[via[q]], LAMBDA r : q \in pattern[r].globs)
       IN IF fits = <<>> THEN Ends(q, "passed") /\ UNCHANGED matched
          ELSE /\ at' = [at EXCEPT ![q] = "asking"] /\ UNCHANGED outcome
               /\ matched' = [matched EXCEPT ![q] = Last(fits)]
    /\ UNCHANGED <<requestOnly, toSdk, forwards, via, pending, answer>>

\* The receiver is registered, then the message sent; without a listener the
\* request goes on.
AskOr(q, message, next, otherwise) ==
    /\ IF forwards[via[q]]
       THEN /\ toSdk' = [toSdk EXCEPT ![via[q]] = Append(@, message)]
            /\ at' = [at EXCEPT ![q] = next] /\ pending' = pending \cup {q}
            /\ answer' = [answer EXCEPT ![q] = "none"] /\ UNCHANGED outcome
       ELSE Ends(q, otherwise) /\ UNCHANGED <<toSdk, pending, answer>>
    /\ UNCHANGED <<requestOnly, forwards, via, matched>>

Ask(q) ==
    /\ at[q] = "asking"
    /\ AskOr(q, <<"intercepted", q, matched[q]>>, "waiting", "passed")

\* The SDK's decision, or the release's, which stands for "continue".
Decided(q) ==
    /\ at[q] = "waiting" /\ answer[q] # "none"
    /\ \/ answer[q] = "continue" /\ Ends(q, "continued")
       \/ answer[q] = "fulfill" /\ Ends(q, "mocked")
       \/ answer[q] = "fetch" /\ at' = [at EXCEPT ![q] = "fetching"] /\ UNCHANGED outcome
    /\ UNCHANGED <<requestOnly, toSdk, forwards, via, matched, pending, answer>>

\* complete_fetch: the same id waits again.
Upstream(q) ==
    /\ at[q] = "fetching"
    /\ AskOr(q, <<"fetched", q, TRUE>>, "completing", "original")

\* "status 0", and no second attempt.
UpstreamFails(q) ==
    /\ at[q] = "fetching" /\ Ends(q, "aborted")
    /\ toSdk' = IF forwards[via[q]]
                THEN [toSdk EXCEPT ![via[q]] = Append(@, <<"fetched", q, FALSE>>)] ELSE toSdk
    /\ UNCHANGED <<requestOnly, forwards, via, matched, pending, answer>>

\* Anything but fulfill_after_fetch leaves the response that was fetched.
Completed(q) ==
    /\ at[q] = "completing" /\ answer[q] # "none"
    /\ Ends(q, IF answer[q] = "after" THEN "mocked" ELSE "original")
    /\ UNCHANGED <<requestOnly, toSdk, forwards, via, matched, pending, answer>>

\* HANDLER_TIMEOUT: as if there were no route, or the response that was fetched.
TimesOut(q) ==
    /\ at[q] \in {"waiting", "completing"} /\ answer[q] = "none"
    /\ pending' = pending \ {q} /\ Ends(q, "late")
    /\ UNCHANGED <<requestOnly, toSdk, forwards, via, matched, answer>>

-----------------------------------------------------------------------------

\* Every request has its answer.
Quiet == (\A q \in scene.requests : at[q] = "done") /\ UNCHANGED routeVars

Next ==
    \/ Quiet
    \/ \E r \in RouteIds : AddRoute(r)
    \/ \E rs \in SUBSET RouteIds : Unroute(rs)
    \/ Dispose \/ ReopenFires \/ StartCapture
    \/ \E k \in Streams :
          Deliver(k) \/ EndSeen(k) \/ Break(k) \/ Accept(k) \/ Install(k)
          \/ Read(k) \/ Forward(k) \/ Release(k) \/ Compare(k) \/ Clear(k)
    \/ \E q \in Requests :
          \/ \E decision \in {"continue", "fulfill", "giveUp", "after"} : Decides(q, decision)
          \/ Fetches(q) \/ Arrive(q) \/ Match(q) \/ Ask(q) \/ Decided(q)
          \/ Upstream(q) \/ UpstreamFails(q) \/ Completed(q) \/ TimesOut(q)

RoutesSpec == Init /\ [][Next]_routeVars

-----------------------------------------------------------------------------
(* Properties.                                                             *)

\* The routes a handler has once it has read what is on its way to it.
Applied(k) ==
    LET apply(rs, message) ==
            CASE message[1] = "register" -> IF pattern[message[2]].valid THEN Append(rs, message[2]) ELSE rs
              [] message[1] = "unregister" -> Without(rs, {message[2]})
              [] OTHER -> rs
    IN FoldLeft(apply, registered[k], up[k])

\* A test's routes outlive its stream (_replayState, _scheduleReopen).  What the
\* daemon has, once it has read what was sent, are the routes of the SDK in their
\* order of priority, without those being removed and those it refuses; and while
\* a confirmed route has no stream, a new one is on its way without a call of the
\* test's.
RoutesRestored ==
    /\ stream # NoStream /\ phase[stream] \in {"asked", "opening", "reading"} =>
          Applied(stream) = SelectSeq(routes, LAMBDA r : <<r, stream>> \notin removing /\ pattern[r].valid)
    /\ stream = NoStream /\ confirmed # {} => armed

\* Somebody still owes q the answer it waits for.
Owed(q) ==
    LET k == via[q]
        about(messages) == \E m \in ToSet(messages) : m[2] = q
    IN \/ about(toSdk[k]) \/ about(down[k]) \/ about(up[k])
       \/ call[q] \in {"running", "fetched"} /\ k = stream
       \/ link[k] # "open" /\ phase[k] = "reading"   \* and will be released

\* "fail-open": a request waits for the timeout alone only when it was matched
\* while its stream was being closed, after the release of those that waited then
\* (release_all_pending); whatever the route handler does and whichever route is
\* removed meanwhile, it is owed an answer.
HeldOnlyWhenOwed ==
    \A q \in pending : Owed(q) \/ phase[via[q]] \notin {"opening", "reading"}

\* A decision is carried out as it was made: over a stream that stays up, unless
\* the timeout came first, the app gets what the SDK said last of this request, in
\* the phase the request was in (resolve_decision, complete_fetch); and never a mock
\* nobody made.
AnswerHonoured ==
    \A q \in Requests : at[q] = "done" =>
        /\ outcome[q] = "mocked" => said[q] \in {"fulfill", "after"}
        /\ via[q] # NoStream /\ outcome[q] \notin {"passed", "late"} /\ link[via[q]] = "open" =>
              outcome[q] = CASE said[q] = "continue" -> "continued"
                             [] said[q] \in {"fulfill", "after"} -> "mocked"
                             [] said[q] = "giveUp" -> "original"
                             [] said[q] = "fetch" -> "aborted"
                             [] OTHER -> "none"
=============================================================================
