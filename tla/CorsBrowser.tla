----------------------------- MODULE CorsBrowser -----------------------------
(***************************************************************************)
(* Pages of several origins that fetch an endpoint of the api from a       *)
(* browser: registerApi and createApiHandler of src/src/api.js with the    *)
(* configuration, the gate and the headers of Cors.  The browser and a     *)
(* shared cache between it and the hub are external: what they do is the   *)
(* fetch standard, as far as src/src/cors.js relies on it.                 *)
(*                                                                         *)
(* Abstractions.  One request at a time, for one url, in cors mode.  The   *)
(* shared cache may keep the last response to a GET, the denied ones too.  *)
(***************************************************************************)
EXTENDS Cors

CONSTANTS
  Pages,             \* the origins of pages
  Server,            \* the origin of the api, as browsers see it
  ServerConfigs, EndpointConfigs,
  FetchHeaders       \* sets of headers that a page sends

(* Pages are on origins, or on the null origin; so are the entries of a       *)
(* configuration that is valid.  No configuration is null.                   *)
IsOrigin(o) == o.labels \in Seq(STRING)
ASSUME PagesAssumption ==
  /\ Server \in Pages /\ {} \in FetchHeaders
  /\ Pages \intersect {Disabled, NoOrigin, Any} = {}
  /\ \A page \in Pages \ {NullOrigin} : IsOrigin(page)
ASSUME ConfigsAssumption ==
  \A s \in ServerConfigs, e \in EndpointConfigs :
    LET config == Effective(s, e) IN
    config # Disabled /\ IsValidConfig(config) =>
      /\ Resolved(config) # Disabled
      /\ config["origin"] # Any => \A x \in config["origin"] : IsOrigin(x.origin)

VARIABLES
  server, endpoint,  \* server.cors and the cors of the endpoint
  exchange,          \* the request, and how far it is
  shared             \* the response in the shared cache, if there is one

vars == <<server, endpoint, exchange, shared>>

cors == ResolveCors(server, endpoint)

(* modern: does the browser send Sec-Fetch-Site?  ran: did the handler run?  *)
Idle ==
  [pc |-> "idle", page |-> Server, method |-> "GET", credentials |-> FALSE, headers |-> {},
   modern |-> TRUE, ran |-> FALSE]

Init ==
  /\ server \in ServerConfigs /\ endpoint \in EndpointConfigs
  /\ MayStart(server, endpoint)
  /\ exchange = Idle
  /\ shared = {}

-----------------------------------------------------------------------------
(* The browser *)

IsCrossOrigin(x) == x.page # Server
OriginHeader(x) == IF IsCrossOrigin(x) \/ x.method # "GET" THEN x.page ELSE NoOrigin
SecFetchSite(x) ==
  IF ~x.modern THEN "" ELSE IF IsCrossOrigin(x) THEN "cross-site" ELSE "same-origin"
NeedsPreflight(page, method, headers) == page # Server /\ (method # "GET" \/ headers # {})

(* The check of Access-Control-Allow-Origin and -Credentials. *)
PassesCheck(x, h) ==
  /\ "Allow-Origin" \in DOMAIN h
  /\ h["Allow-Origin"] = x.page \/ (h["Allow-Origin"] = Any /\ ~x.credentials)
  /\ x.credentials => "Allow-Credentials" \in DOMAIN h

(* "*" is a header's name when there are credentials, and never covers       *)
(* Authorization.                                                            *)
PassesPreflight(x, h) ==
  /\ PassesCheck(x, h)
  /\ x.method \in {"GET"} \union h["Allow-Methods"]
  /\ LET allowed == Get(h, "Allow-Headers", {}) IN
     \A name \in x.headers :
       name \in allowed \/ ("*" \in allowed /\ ~x.credentials /\ name # "Authorization")

Ask ==
  /\ exchange.pc = "idle"
  /\ \E page \in Pages, method \in {"GET", "DELETE"}, credentials, modern \in BOOLEAN,
        headers \in FetchHeaders :
       exchange' = [pc |-> IF NeedsPreflight(page, method, headers) THEN "preflight" ELSE "fetch",
                    page |-> page, method |-> method, credentials |-> credentials,
                    headers |-> headers, modern |-> modern, ran |-> FALSE]
  /\ UNCHANGED <<server, endpoint, shared>>

Close ==
  /\ exchange.pc \in {"read", "blocked"}
  /\ exchange' = Idle
  /\ UNCHANGED <<server, endpoint, shared>>

-----------------------------------------------------------------------------
(* The routes: without cors there is none for OPTIONS. *)

Options(origin) ==
  IF cors = Disabled THEN Absent ELSE WriteCorsPreflight(cors, origin, {"GET", "DELETE", "OPTIONS"})

Preflight ==
  /\ exchange.pc = "preflight"
  /\ exchange' = [exchange EXCEPT !.pc =
       IF PassesPreflight(exchange, Options(OriginHeader(exchange))) THEN "preflighted" ELSE "blocked"]
  /\ UNCHANGED <<server, endpoint, shared>>

(* A denied origin gets a 403, with the headers of any other response. *)
Response(x) ==
  [origin |-> OriginHeader(x),
   denied |-> ~OriginAllowed(cors, OriginHeader(x), Host(Server), SecFetchSite(x)),
   headers |-> WriteCorsResponse(cors, OriginHeader(x), {})]

(* The page gets a response: it reads it, or is blocked. *)
Receive(response, ran) ==
  exchange' = [exchange EXCEPT !.ran = ran,
    !.pc = IF ~response.denied /\ (IsCrossOrigin(exchange) => PassesCheck(exchange, response.headers))
           THEN "read" ELSE "blocked"]

IsReady == exchange.pc \in {"fetch", "preflighted"}

Fetch ==
  /\ IsReady
  /\ Receive(Response(exchange), ~Response(exchange).denied)
  /\ shared' \in {shared} \union
       (IF exchange.method = "GET" THEN {{Response(exchange)}} ELSE {})
  /\ UNCHANGED <<server, endpoint>>

(* A cached response is served to the requests that its Vary does not tell   *)
(* from the one it was made for.                                             *)
FetchCached ==
  /\ IsReady /\ exchange.method = "GET"
  /\ \E response \in shared :
       /\ "Vary" \in DOMAIN response.headers => response.origin = OriginHeader(exchange)
       /\ Receive(response, FALSE)
  /\ UNCHANGED <<server, endpoint, shared>>

Next == Ask \/ Close \/ Preflight \/ Fetch \/ FetchCached

Spec == Init /\ [][Next]_vars

-----------------------------------------------------------------------------
(* Type invariant. *)
TypeOK ==
  /\ server \in ServerConfigs /\ endpoint \in EndpointConfigs
  /\ exchange \in
       [pc : {"idle", "preflight", "preflighted", "fetch", "read", "blocked"}, page : Pages,
        method : {"GET", "DELETE"}, credentials : BOOLEAN, headers : FetchHeaders,
        modern : BOOLEAN, ran : BOOLEAN]
  /\ \A response \in shared :
       response.origin \in Pages \union {NoOrigin} /\ response.denied \in BOOLEAN
  /\ cors # Disabled =>
       {cors.credentials, cors.trustSameOrigin} \subseteq BOOLEAN /\ cors.maxAge \in Nat

(* What is configured, and what it means. *)
Config == Effective(server, endpoint)
Names(e, page) ==
  LET domain == e.origin.labels
      above == Len(page.labels) - Len(domain)
  IN  /\ <<page.scheme, page.port>> = <<e.origin.scheme, e.origin.port>>
      /\ IF e.star THEN above > 0 ELSE above = 0
      /\ \A i \in DOMAIN domain : page.labels[above + i] = domain[i]
IsConfigured(page) ==
  /\ Config # Disabled
  /\ \/ Config.origin = Any
     \/ page # NullOrigin /\ \E e \in Config.origin : Names(e, page)

(* A page reads what the api answers only if it is on the api's own origin   *)
(* or the configuration names its origin, also from a shared cache.          *)
ForeignersReadNothing ==
  exchange.pc = "read" => ~IsCrossOrigin(exchange) \/ IsConfigured(exchange.page)

(* The same holds for what it makes a handler do, when the browser tells     *)
(* the relation of the origins: the scheme is not compared.                  *)
ForeignersReachNothing ==
  exchange.ran /\ exchange.modern => ~IsCrossOrigin(exchange) \/ IsConfigured(exchange.page)

(* A hub that starts has a configuration that works: a page on an origin     *)
(* that is named reads its response, with credentials and headers if these   *)
(* are configured.  The variables and the configuration have their types.    *)
ConfiguredAreServed ==
  /\ TypeOK
  /\ exchange.pc = "blocked" /\ IsConfigured(exchange.page) /\ IsCrossOrigin(exchange) =>
       \/ exchange.credentials /\ ~Get(Config, "credentials", FALSE)
       \/ LET allowed == Get(Config, "allowHeaders", {"Content-Type", "Authorization"}) IN
          ~(exchange.headers \subseteq allowed \/ "*" \in allowed)

(* What passed its preflight passes the gate and is read: the two writers    *)
(* and the gate agree, and no response to another origin comes between.      *)
PreflightIsHonoured == [][exchange.pc = "preflighted" => exchange'.pc = "read"]_vars
=============================================================================
