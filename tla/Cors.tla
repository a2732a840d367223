-------------------------------- MODULE Cors --------------------------------
(***************************************************************************)
(* The cors configuration of the hub and of an endpoint, the origin gate   *)
(* of every request and upgrade, and the headers of responses and          *)
(* preflights: src/src/cors.js.                                            *)
(*                                                                         *)
(* An origin is a scheme, the labels of a host and a port, as the browser  *)
(* sends it; NoOrigin is a request without the header.  The texts are      *)
(* compared without case in the code, so they are values here.  A          *)
(* configuration is a function on the fields that are present, as an       *)
(* object is; Disabled stands for null, and Inherited for the cors of an   *)
(* endpoint that is undefined.  Headers are a function, too, from the      *)
(* names of those that are written.                                        *)
(***************************************************************************)
EXTENDS Naturals, Sequences

CONSTANTS Disabled, Inherited, NoOrigin, NullOrigin, Any   \* null, undefined, '', 'null' and '*'

ASSUME DistinctAssumption ==
  /\ NoOrigin \notin {Disabled, NullOrigin, Any}
  /\ NullOrigin \notin {Disabled, Any} /\ Disabled # Any

Fields ==
  {"origin", "credentials", "trustSameOrigin", "allowHeaders", "exposeHeaders", "maxAge"}

(* What is configured: an entry of the allowlist is an origin, or a pattern  *)
(* whose host is any host strictly under the labels of the pattern.          *)
Entry(star, origin) == [star |-> star, origin |-> origin]
Origin(scheme, labels, port) == [scheme |-> scheme, labels |-> labels, port |-> port]
Host(origin) == [labels |-> origin.labels, port |-> origin.port]

-----------------------------------------------------------------------------
(* resolveCors *)

(* A field of the endpoint replaces that of the server. *)
MergedConfig(server, endpoint) ==
  [f \in DOMAIN server \union DOMAIN endpoint |->
     IF f \in DOMAIN endpoint THEN endpoint[f] ELSE server[f]]

Get(config, field, default) == IF field \in DOMAIN config THEN config[field] ELSE default

HasDefaultPort(origin) ==
  \/ origin.scheme = "https" /\ origin.port = "443"
  \/ origin.scheme = "http" /\ origin.port = "80"

(* A wildcard needs two labels after its star. *)
IsValidEntry(e) ==
  /\ e.origin \notin {NoOrigin, NullOrigin, Any}
  /\ e.star => Len(e.origin.labels) >= 2
  /\ ~HasDefaultPort(e.origin)

IsValidOrigin(origin) == origin # Any => origin # {} /\ \A e \in origin : IsValidEntry(e)

(* A slip: the combination is left to the browser to reject. *)
CredentialsAreUnchecked(config) == TRUE

(* Browsers reject "*" together with credentials. *)
CredentialsAreSound(config) ==
  Get(config, "credentials", FALSE) =>
    /\ config["origin"] # Any
    /\ "*" \notin Get(config, "allowHeaders", {}) \union Get(config, "exposeHeaders", {})

(* The wildcard of allowHeaders does not cover Authorization. *)
HeadersAreSound(config) ==
  "*" \in Get(config, "allowHeaders", {}) => "Authorization" \in config["allowHeaders"]

(* What is not a boolean, or not a number of seconds, is refused. *)
HasTypes(config) ==
  /\ Get(config, "credentials", FALSE) \in BOOLEAN
  /\ Get(config, "trustSameOrigin", TRUE) \in BOOLEAN
  /\ Get(config, "maxAge", 3600) \in Nat

IsValidConfig(config) ==
  /\ DOMAIN config \subseteq Fields
  /\ "origin" \in DOMAIN config
  /\ HasTypes(config)
  /\ IsValidOrigin(config["origin"])
  /\ CredentialsAreSound(config)
  /\ HeadersAreSound(config)

Resolved(config) ==
  [origin |-> config["origin"],
   credentials |-> Get(config, "credentials", FALSE),
   trustSameOrigin |-> Get(config, "trustSameOrigin", TRUE),
   allowHeaders |-> Get(config, "allowHeaders", {"Content-Type", "Authorization"}),
   exposeHeaders |-> Get(config, "exposeHeaders", {}),
   maxAge |-> Get(config, "maxAge", 3600)]

(* The effective configuration of a server and an endpoint.  The hub does    *)
(* not start unless it is valid, so an endpoint that overrides nothing needs *)
(* a server to inherit its origin from.                                      *)
Absent == [f \in {} |-> 0]
Effective(server, endpoint) ==
  IF endpoint = Disabled THEN Disabled
  ELSE IF endpoint = Inherited THEN server
  ELSE MergedConfig(IF server = Disabled THEN Absent ELSE server, endpoint)
MayStart(server, endpoint) ==
  Effective(server, endpoint) # Disabled => IsValidConfig(Effective(server, endpoint))
ResolveCors(server, endpoint) ==
  IF Effective(server, endpoint) = Disabled THEN Disabled ELSE Resolved(Effective(server, endpoint))

-----------------------------------------------------------------------------
(* allowedOrigin and originAllowed *)

(* A slip: the suffix may begin within a label, or be all of the host. *)
IsUnderOrEqual(labels, domain) ==
  \E n \in 0 .. Len(labels) : SubSeq(labels, n + 1, Len(labels)) = domain

(* The star covers one or more labels: what follows it begins with a dot. *)
IsUnder(labels, domain) ==
  \E n \in 1 .. Len(labels) : SubSeq(labels, n + 1, Len(labels)) = domain

Matches(e, origin) ==
  /\ e.origin.scheme = origin.scheme /\ e.origin.port = origin.port
  /\ IF e.star THEN IsUnder(origin.labels, e.origin.labels) ELSE origin.labels = e.origin.labels

(* 'null' is the origin of sandboxed pages; it never matches an entry. *)
IsListed(cors, origin) ==
  origin \notin {NoOrigin, NullOrigin} /\ \E e \in cors.origin : Matches(e, origin)

(* The value of Access-Control-Allow-Origin, Disabled for none. *)
AllowedOrigin(cors, origin) ==
  IF cors.origin = Any THEN Any
  ELSE IF IsListed(cors, origin) THEN origin ELSE Disabled

(* A slip: the host says it all. *)
IsSameHost(origin, host, site) == origin # NullOrigin /\ Host(origin) = host

(* The scheme is not compared: behind a proxy the hub does not know its own. *)
IsSameOrigin(origin, host, site) ==
  /\ site \in {"", "same-origin", "none"}
  /\ origin # NullOrigin /\ Host(origin) = host

OriginAllowed(cors, origin, host, site) ==
  \/ origin = NoOrigin
  \/ cors # Disabled /\ AllowedOrigin(cors, origin) # Disabled
  \/ (cors # Disabled => cors.trustSameOrigin) /\ IsSameOrigin(origin, host, site)

-----------------------------------------------------------------------------
(* The headers.  own are the headers that the handler's response defines.    *)

Header(written, name, value) == [h \in IF written THEN {name} ELSE {} |-> value]
Headers(f, g) == [h \in DOMAIN f \union DOMAIN g |-> IF h \in DOMAIN f THEN f[h] ELSE g[h]]

WriteOrigin(cors, origin, own) ==
  Headers(Header(AllowedOrigin(cors, origin) # Disabled, "Allow-Origin", AllowedOrigin(cors, origin)),
          Header(AllowedOrigin(cors, origin) # Disabled /\ cors.credentials /\ "Allow-Credentials" \notin own,
                 "Allow-Credentials", "true"))

(* A slip: to vary is left to the handlers. *)
NoVary(cors) == Absent

(* The gate makes all responses depend on the origin, unless all are allowed. *)
Vary(cors) == Header(cors = Disabled \/ cors.origin # Any, "Vary", "Origin")

WriteCorsResponse(cors, origin, own) ==
  Headers(Vary(cors),
    IF cors = Disabled \/ "Allow-Origin" \in own \/ AllowedOrigin(cors, origin) = Disabled THEN Absent
    ELSE Headers(WriteOrigin(cors, origin, own),
                 Header(cors.exposeHeaders # {} /\ "Expose-Headers" \notin own,
                        "Expose-Headers", cors.exposeHeaders)))

WriteCorsPreflight(cors, origin, methods) ==
  IF cors = Disabled THEN Absent
  ELSE Headers(Vary(cors),
         IF AllowedOrigin(cors, origin) = Disabled THEN Absent
         ELSE Headers(WriteOrigin(cors, origin, {}),
                Headers(Header(TRUE, "Allow-Methods", methods),
                  Headers(Header(cors.allowHeaders # {}, "Allow-Headers", cors.allowHeaders),
                          Header(TRUE, "Max-Age", cors.maxAge)))))
=============================================================================
