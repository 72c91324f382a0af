------------------------------- MODULE Requests -------------------------------
(***************************************************************************)
(* The requests of pages to the Core: what fetch of src/src/core/server.ts *)
(* serves and refuses, the checks of auth.ts, the dispatch of rpc.ts, and  *)
(* the addresses of binding.ts, over launches of the Core.                 *)
(*                                                                         *)
(* A launch mints a token, which the pages it serves carry; a page outlives*)
(* its Core, and the next one may listen at the same address.  What the    *)
(* methods do is left to the other modules: here they succeed, refuse or   *)
(* throw.  An authority is a record, not text; a window is known by the    *)
(* launch that served it and the address it was opened at.                 *)
(***************************************************************************)
EXTENDS Naturals, FiniteSets

CONSTANTS BindHosts,   \* what --host may be, in lower case
          Loopback,    \* those that are loopback addresses
          Colons,      \* those with a colon, IPv6 addresses
          BindPorts,   \* ports listened at
          HttpDefaultPort,
          MaxLaunches, \* bound: launches of the Core
          MaxWindows   \* bound: windows opened

ASSUME RequestsAssumption ==
    /\ Loopback \subseteq BindHosts /\ Colons \subseteq BindHosts /\ "elsewhere" \notin BindHosts
    /\ {"127.0.0.1", "::1"} \subseteq Loopback
    /\ BindPorts \subseteq Nat /\ HttpDefaultPort \in Nat
    /\ MaxLaunches \in Nat /\ MaxWindows \in Nat

VARIABLES
    bindHost,   \* where this behaviour's Cores listen
    boundPort,
    coreUp,     \* whether a Core runs
    launches,   \* number of launches so far; the token of each
    pages,      \* windows: launch and kind of page, and the authority they are at
    links,      \* live reports published, by launch
    onItsWay,   \* the request at the Core, or none
    answered    \* history: the last request if it is over, its answer, whether its handler ran, and
                \* the launch that answered

requestVars == <<bindHost, boundPort, coreUp, launches, pages, links, onItsWay, answered>>
configVars  == <<bindHost, boundPort>>

Elided    == 0
NoRequest == [path |-> "none"]
NoOrigin  == [host |-> [name |-> "none", brackets |-> FALSE], port |-> Elided]
NotAnswered  == [req |-> NoRequest, code |-> "unreachable", ran |-> FALSE, launch |-> 0]
IsWildcardHost(h) == h \in {"0.0.0.0", "::"}

\* The names a wildcard listener can be reached under besides the one it opens.
OtherNames == {"nas"}

-----------------------------------------------------------------------------
(* binding.ts, and what a browser makes of a URL.                          *)

BracketIfIpv6(h) == [name |-> h, brackets |-> h \in Colons]

\* Mutant of DeriveOpenUrl: an IPv6 address is left without its brackets.
DeriveOpenUrlPlain(h, p) ==
    [host |-> [name |-> IF h = "0.0.0.0" THEN "127.0.0.1" ELSE IF h = "::" THEN "::1" ELSE h,
               brackets |-> FALSE],
     port |-> IF p = HttpDefaultPort THEN Elided ELSE p]

\* deriveOpenUrl: a wildcard is opened at the loopback address of its family.
DeriveOpenUrl(h, p) ==
    [host |-> BracketIfIpv6(IF h = "0.0.0.0" THEN "127.0.0.1" ELSE IF h = "::" THEN "::1" ELSE h),
     port |-> IF p = HttpDefaultPort THEN Elided ELSE p]

\* The sandbox listens on loopback whatever the Core does.
SandboxBindHost(h) ==
    IF h \in Loopback THEN h ELSE IF h \in Colons THEN "::1" ELSE "127.0.0.1"

\* A browser leaves out the default port, and reads no address without brackets.
BrowserUrl(u) == [u EXCEPT !.port = IF @ = HttpDefaultPort THEN Elided ELSE @]
IsUrl(u)      == u.host.brackets <=> u.host.name \in Colons

\* Where pages are: where the Core opens them, or, of a wildcard, under any name.
Addresses ==
    {DeriveOpenUrl(bindHost, boundPort)} \cup
    (IF IsWildcardHost(bindHost)
     THEN {BrowserUrl([host |-> [name |-> n, brackets |-> FALSE], port |-> boundPort]) : n \in OtherNames}
     ELSE {})

-----------------------------------------------------------------------------
(* auth.ts and the checks of fetch.                                        *)

\* Mutant of PortIsBound: a URL without its default port is not known.
PortIsExactly(port) == port = boundPort

\* The port of a Host header: the one listened at, or none for the default one.
PortIsBound(port) == port = boundPort \/ (boundPort = HttpDefaultPort /\ port = Elided)

\* validateOrigin: a wildcard takes any name, another listener its own; an origin,
\* where there is one, is the host's.
ValidateOrigin(host, origin) ==
    IF IsWildcardHost(bindHost)
    THEN PortIsBound(host.port) /\ origin \in {NoOrigin, host}
    ELSE /\ host.host = BracketIfIpv6(bindHost) /\ PortIsBound(host.port)
         /\ origin = NoOrigin \/ (origin.host = BracketIfIpv6(bindHost) /\ PortIsBound(origin.port))

ValidateToken(token) == token = launches

\* overBodyLimit goes by the declared length.
OverBodyLimit(req) == req.size = "large"

\* The order of the checks at /rpc and /chat/stream.
Refusal(req) ==
    IF req.verb # "POST" THEN "method_not_allowed"
    ELSE IF ~ValidateOrigin(req.host, req.origin) THEN "forbidden_origin"
    ELSE IF ~ValidateToken(req.token) THEN "unauthorized"
    ELSE IF OverBodyLimit(req) \/ req.body = "no json" THEN "bad_request"
    ELSE "none"

\* HANDLERS: the methods, as far as they differ here.
Methods == {"health", "shutdown", "livereport.publish", "any other"}

\* dispatch: what a handler returns is the reply, what it throws an error; a handler
\* refuses parameters it cannot read, before it does anything.
Dispatch(req, outcome) ==
    IF req.body = "no method" THEN "bad_request"
    ELSE IF req.method \notin Methods THEN "unknown_method"
    ELSE IF req.params = "bad" /\ req.method \in {"livereport.publish", "any other"} THEN "bad_request"
    ELSE outcome

Runs(req) == Dispatch(req, "ok") = "ok"

-----------------------------------------------------------------------------
(* The Core and its pages.                                                 *)

RequestsInit ==
    /\ bindHost \in BindHosts /\ boundPort \in BindPorts
    /\ coreUp = FALSE /\ launches = 0 /\ pages = {} /\ links = {}
    /\ onItsWay = NoRequest /\ answered = NotAnswered

\* startCore: a token of its own; no live report outlives its Core.
StartServer ==
    /\ ~coreUp /\ launches < MaxLaunches
    /\ coreUp' = TRUE /\ launches' = launches + 1 /\ links' = {}
    /\ UNCHANGED <<configVars, pages, onItsWay, answered>>

\* GET /, and GET /live/<id> where it is published: the page carries the token, and
\* is told where the sandbox is.
OpenPage(at, kind) ==
    /\ coreUp /\ Cardinality(pages) < MaxWindows /\ IsUrl(at)
    /\ kind = "live" => launches \in links
    /\ pages' = pages \cup {[launch |-> launches, kind |-> kind, at |-> at,
                             sandbox |-> DeriveOpenUrl(SandboxBindHost(bindHost), boundPort + 1)]}
    /\ UNCHANGED <<configVars, coreUp, launches, links, onItsWay, answered>>

\* rpc, streamChat: what a page sends, with its own address and token.
RequestOf(w, path, method) ==
    [path |-> path, verb |-> "POST", host |-> w.at, origin |-> w.at, token |-> w.launch,
     size |-> "small", body |-> "json", method |-> method, params |-> "good"]

\* The ways a request may differ from one of a page of the Core's: in a header, in
\* its size or in its body.
Elsewhere == [host |-> [name |-> "elsewhere", brackets |-> FALSE], port |-> boundPort]
Variants(r) ==
    {r} \cup {[r EXCEPT !.verb = "GET"], [r EXCEPT !.host = Elsewhere], [r EXCEPT !.origin = Elsewhere],
              [r EXCEPT !.origin = NoOrigin], [r EXCEPT !.size = "large"], [r EXCEPT !.body = "no json"],
              [r EXCEPT !.body = "no method"], [r EXCEPT !.method = "no such"], [r EXCEPT !.params = "bad"]}

SendRequest(req) ==
    /\ onItsWay = NoRequest
    /\ onItsWay' = IF coreUp THEN req ELSE NoRequest
    /\ answered' = IF coreUp THEN NotAnswered ELSE [NotAnswered EXCEPT !.req = req]
    /\ UNCHANGED <<configVars, coreUp, launches, pages, links>>

\* fetch answers a request: refused before its handler, or handled.  /chat/stream
\* has no method; its errors go into the stream.
FetchAnswers(outcome) ==
    /\ onItsWay # NoRequest /\ coreUp /\ onItsWay' = NoRequest
    /\ LET refusal == Refusal(onItsWay)
           rpc     == onItsWay.path = "/rpc"
           runs    == refusal = "none" /\ (rpc => Runs(onItsWay))
       IN  /\ answered' = [req |-> onItsWay, ran |-> runs, launch |-> launches,
                           code |-> IF refusal # "none" THEN refusal
                                    ELSE IF rpc THEN Dispatch(onItsWay, outcome) ELSE outcome]
           /\ links' = IF runs /\ rpc /\ onItsWay.method = "livereport.publish" /\ outcome = "ok"
                       THEN links \cup {launches} ELSE links
    /\ UNCHANGED <<configVars, coreUp, launches, pages>>

\* The Core stops, by the shutdown method once its reply is out or by a signal:
\* open requests are cut off.
StopCore ==
    /\ coreUp /\ coreUp' = FALSE
    /\ onItsWay' = NoRequest
    /\ answered' = IF onItsWay # NoRequest THEN [NotAnswered EXCEPT !.req = onItsWay] ELSE answered
    /\ UNCHANGED <<configVars, launches, pages, links>>

RequestsNext ==
    \/ StartServer \/ StopCore
    \/ \E at \in Addresses, kind \in {"app", "live"} : OpenPage(at, kind)
    \/ \E w \in pages, method \in Methods : SendRequest(RequestOf(w, "/rpc", method))
    \/ \E w \in pages, path \in {"/rpc", "/chat/stream"} :
         \E req \in Variants(RequestOf(w, path, "any other")) : SendRequest(req)
    \/ \E outcome \in {"ok", "internal_error"} : FetchAnswers(outcome)

RequestsSpec == RequestsInit /\ [][RequestsNext]_requestVars

\* What makes a request other than one a page sends.
Amiss(r) ==
    \/ r.verb # "POST" \/ r.host = Elsewhere \/ r.origin = Elsewhere
    \/ r.size = "large" \/ r.body = "no json"
    \/ r.path = "/rpc" /\ \/ r.body = "no method" \/ r.method = "no such"
                          \/ r.params = "bad" /\ r.method \in {"livereport.publish", "any other"}

\* Whatever address the Core listens at and however the page came to be opened, a
\* page of the Core that runs is served and is given a sandbox it can load; one of
\* an earlier Core is told so and does nothing; and what is refused was not done.
PagesAreServed ==
    /\ coreUp => IsUrl(DeriveOpenUrl(bindHost, boundPort))
    /\ \A w \in pages : IsUrl(w.sandbox) /\ w.sandbox.host.name \in Loopback
    /\ answered.code # "unreachable" =>
         IF Amiss(answered.req) THEN ~answered.ran /\ answered.code \notin {"ok", "internal_error"}
         ELSE IF answered.req.token = answered.launch
         THEN answered.ran /\ answered.code \in {"ok", "internal_error"}
         ELSE ~answered.ran /\ answered.code = "unauthorized"

=============================================================================
