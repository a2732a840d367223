------------------------------ MODULE CorsProofs -----------------------------
(***************************************************************************)
(* Proofs about CorsBrowser, for all pages and configurations: what        *)
(* foreign pages read and reach, that a preflight keeps its word, and that *)
(* the pages that are configured are served.                               *)
(*                                                                         *)
(* The induction carries what the shared cache holds: responses with the   *)
(* headers of the present configuration, and none denied for an origin     *)
(* that is allowed; and that a page is preflighted only by Options.        *)
(***************************************************************************)
EXTENDS CorsBrowser, SequenceTheorems, TLAPS

ExchangeOK ==
  exchange \in
    [pc : {"idle", "preflight", "preflighted", "fetch", "read", "blocked"}, page : Pages,
     method : {"GET", "DELETE"}, credentials : BOOLEAN, headers : FetchHeaders,
     modern : BOOLEAN, ran : BOOLEAN]

SharedOK ==
  \A response \in shared :
    /\ response.origin \in Pages \union {NoOrigin} /\ response.denied \in BOOLEAN
    /\ response.headers = WriteCorsResponse(cors, response.origin, {})
    /\ cors # Disabled /\ AllowedOrigin(cors, response.origin) # Disabled => ~response.denied

ConfigOK ==
  server \in ServerConfigs /\ endpoint \in EndpointConfigs /\ MayStart(server, endpoint)

PreflightedOK ==
  /\ exchange.pc \in {"preflight", "preflighted"} => IsCrossOrigin(exchange)
  /\ exchange.pc = "preflighted" => PassesPreflight(exchange, Options(OriginHeader(exchange)))

(* Why a page that is configured may be blocked: it sends credentials or     *)
(* headers that are not.                                                     *)
Overreaches(x) ==
  \/ x.credentials /\ ~Get(Config, "credentials", FALSE)
  \/ LET allowed == Get(Config, "allowHeaders", {"Content-Type", "Authorization"}) IN
     ~(x.headers \subseteq allowed \/ "*" \in allowed)

Reads == ForeignersReadNothing
Reaches == ForeignersReachNothing
Serves ==
  exchange.pc = "blocked" /\ IsConfigured(exchange.page) /\ IsCrossOrigin(exchange)
    => Overreaches(exchange)
IInv == ExchangeOK /\ SharedOK /\ ConfigOK /\ PreflightedOK /\ Reads /\ Reaches /\ Serves

-----------------------------------------------------------------------------
(* Allow-Origin, on a response and on a preflight, is the allowed origin,    *)
(* and Allow-Credentials is there if these are configured.                   *)
LEMMA ResponseHeaders ==
  ASSUME NEW c, NEW o
  PROVE  LET h == WriteCorsResponse(c, o, {}) IN
         /\ "Allow-Origin" \in DOMAIN h <=> c # Disabled /\ AllowedOrigin(c, o) # Disabled
         /\ "Allow-Origin" \in DOMAIN h => h["Allow-Origin"] = AllowedOrigin(c, o)
         /\ "Allow-Credentials" \in DOMAIN h
              <=> c # Disabled /\ AllowedOrigin(c, o) # Disabled /\ c.credentials
         /\ "Vary" \notin DOMAIN h => c # Disabled /\ c.origin = Any
<1> DEFINE a == AllowedOrigin(c, o)
           v == Vary(c)
           w == WriteOrigin(c, o, {})
           x == Header(c.exposeHeaders # {} /\ "Expose-Headers" \notin {}, "Expose-Headers", c.exposeHeaders)
<1>1. /\ DOMAIN v \subseteq {"Vary"}
      /\ "Vary" \notin DOMAIN v => c # Disabled /\ c.origin = Any
  BY DEF Vary, Header
<1>2. /\ "Allow-Origin" \in DOMAIN w <=> a # Disabled
      /\ "Allow-Origin" \in DOMAIN w => w["Allow-Origin"] = a
      /\ "Allow-Credentials" \in DOMAIN w <=> a # Disabled /\ c.credentials
  BY DEF WriteOrigin, Header, Headers
<1>3. DOMAIN x \subseteq {"Expose-Headers"}
  BY DEF Header
<1>4. CASE c = Disabled \/ a = Disabled
  <2>1. WriteCorsResponse(c, o, {}) = Headers(v, Absent)
    BY <1>4 DEF WriteCorsResponse
  <2>2. DOMAIN Headers(v, Absent) = DOMAIN v
    BY DEF Headers, Absent
  <2> QED
    BY <1>1, <1>4, <2>1, <2>2
<1>5. CASE c # Disabled /\ a # Disabled
  <2>1. WriteCorsResponse(c, o, {}) = Headers(v, Headers(w, x))
    BY <1>5 DEF WriteCorsResponse
  <2> HIDE DEF v, w, x, a
  <2>2. /\ DOMAIN Headers(v, Headers(w, x)) = DOMAIN v \union DOMAIN w \union DOMAIN x
        /\ "Allow-Origin" \in DOMAIN w => Headers(v, Headers(w, x))["Allow-Origin"] = w["Allow-Origin"]
    BY <1>1 DEF Headers
  <2> QED
    BY <1>1, <1>2, <1>3, <1>5, <2>1, <2>2 DEF a
<1> QED
  BY <1>4, <1>5

LEMMA PreflightHeaders ==
  ASSUME NEW c, NEW o, NEW m, c # Disabled
  PROVE  LET h == WriteCorsPreflight(c, o, m) IN
         /\ "Allow-Origin" \in DOMAIN h <=> AllowedOrigin(c, o) # Disabled
         /\ "Allow-Origin" \in DOMAIN h =>
              /\ h["Allow-Origin"] = AllowedOrigin(c, o)
              /\ "Allow-Credentials" \in DOMAIN h <=> c.credentials
              /\ h["Allow-Methods"] = m
              /\ Get(h, "Allow-Headers", {}) = c.allowHeaders
<1> DEFINE a == AllowedOrigin(c, o)
           v == Vary(c)
           w == WriteOrigin(c, o, {})
           l == Header(c.allowHeaders # {}, "Allow-Headers", c.allowHeaders)
           g == Header(TRUE, "Max-Age", c.maxAge)
           n == Header(TRUE, "Allow-Methods", m)
<1>1. DOMAIN v \subseteq {"Vary"}
  BY DEF Vary, Header
<1>2. /\ "Allow-Origin" \in DOMAIN w <=> a # Disabled
      /\ "Allow-Origin" \in DOMAIN w => w["Allow-Origin"] = a
      /\ "Allow-Credentials" \in DOMAIN w <=> a # Disabled /\ c.credentials
      /\ DOMAIN w \subseteq {"Allow-Origin", "Allow-Credentials"}
  BY DEF WriteOrigin, Header, Headers
<1>3. /\ DOMAIN l = IF c.allowHeaders # {} THEN {"Allow-Headers"} ELSE {}
      /\ c.allowHeaders # {} => l["Allow-Headers"] = c.allowHeaders
      /\ DOMAIN g = {"Max-Age"}
      /\ DOMAIN n = {"Allow-Methods"} /\ n["Allow-Methods"] = m
  BY DEF Header
<1>4. CASE a = Disabled
  <2>1. WriteCorsPreflight(c, o, m) = Headers(v, Absent)
    BY <1>4 DEF WriteCorsPreflight
  <2>2. DOMAIN Headers(v, Absent) = DOMAIN v
    BY DEF Headers, Absent
  <2> QED
    BY <1>1, <1>4, <2>1, <2>2
<1>5. CASE a # Disabled
  <2>1. WriteCorsPreflight(c, o, m) = Headers(v, Headers(w, Headers(n, Headers(l, g))))
    BY <1>5 DEF WriteCorsPreflight
  <2> HIDE DEF v, w, l, g, n, a
  <2> DEFINE t == Headers(n, Headers(l, g))
             u == Headers(w, t)
             h == Headers(v, u)
  <2>2. /\ DOMAIN t = {"Allow-Methods", "Max-Age"} \union DOMAIN l
        /\ t["Allow-Methods"] = m
        /\ c.allowHeaders # {} => t["Allow-Headers"] = c.allowHeaders
    BY <1>3 DEF Headers
  <2> HIDE DEF t
  <2>3. /\ DOMAIN u = DOMAIN w \union DOMAIN t
        /\ u["Allow-Methods"] = m
        /\ c.allowHeaders # {} => u["Allow-Headers"] = c.allowHeaders
        /\ "Allow-Origin" \in DOMAIN w => u["Allow-Origin"] = w["Allow-Origin"]
    BY <1>2, <1>3, <2>2 DEF Headers
  <2> HIDE DEF u
  <2>4. /\ DOMAIN h = DOMAIN v \union DOMAIN u
        /\ h["Allow-Methods"] = m
        /\ c.allowHeaders # {} => h["Allow-Headers"] = c.allowHeaders
        /\ "Allow-Origin" \in DOMAIN w => h["Allow-Origin"] = w["Allow-Origin"]
    BY <1>1, <1>2, <1>3, <2>2, <2>3 DEF Headers
  <2> HIDE DEF h
  <2>5. /\ "Allow-Origin" \in DOMAIN h /\ h["Allow-Origin"] = a
        /\ "Allow-Credentials" \in DOMAIN h <=> c.credentials
    BY <1>1, <1>2, <1>3, <1>5, <2>2, <2>3, <2>4
  <2>6. "Allow-Headers" \in DOMAIN h <=> c.allowHeaders # {}
    BY <1>1, <1>2, <1>3, <2>2, <2>3, <2>4
  <2>7. Get(h, "Allow-Headers", {}) = c.allowHeaders
    BY <2>4, <2>6 DEF Get
  <2>8. WriteCorsPreflight(c, o, m) = h
    BY <2>1 DEF h, u, t
  <2> QED
    BY <1>5, <2>4, <2>5, <2>7, <2>8 DEF a
<1> QED
  BY <1>4, <1>5

(* An entry matches the origins that it names, and no others: a star stands  *)
(* for one label or more.                                                    *)
LEMMA MatchesAreNamed ==
  ASSUME NEW e, NEW page, IsOrigin(e.origin), IsOrigin(page), Matches(e, page)
  PROVE  Names(e, page)
<1> DEFINE labels == page.labels
           domain == e.origin.labels
<1>1. labels \in Seq(STRING) /\ domain \in Seq(STRING)
  BY DEF IsOrigin
<1>2. <<page.scheme, page.port>> = <<e.origin.scheme, e.origin.port>>
  BY DEF Matches
<1>3. CASE ~e.star
  <2>1. labels = domain
    BY <1>3 DEF Matches
  <2> QED
    BY <1>1, <1>2, <1>3, <2>1 DEF Names
<1>4. CASE e.star
  <2>1. PICK n \in 1 .. Len(labels) : SubSeq(labels, n + 1, Len(labels)) = domain
    BY <1>4 DEF Matches, IsUnder
  <2> HIDE DEF labels, domain
  <2>2. /\ n \in Nat /\ n >= 1 /\ n <= Len(labels) /\ Len(labels) \in Nat
        /\ \A i \in n + 1 .. Len(labels) : labels[i] \in STRING
    BY <1>1, <2>1
  <2>3. /\ Len(domain) = IF n + 1 <= Len(labels) THEN Len(labels) - (n + 1) + 1 ELSE 0
        /\ \A i \in 1 .. Len(labels) - (n + 1) + 1 : domain[i] = labels[n + 1 + i - 1]
    BY <2>1, <2>2, SubSeqProperties
  <2>4. Len(domain) = Len(labels) - n /\ DOMAIN domain = 1 .. Len(domain)
    BY <1>1, <2>2, <2>3
  <2>5. Len(labels) - Len(domain) > 0
    BY <2>2, <2>4
  <2>6. \A i \in DOMAIN domain : labels[Len(labels) - Len(domain) + i] = domain[i]
    BY <2>2, <2>3, <2>4
  <2> QED
    BY <1>2, <1>4, <2>5, <2>6 DEF Names, labels, domain
<1> QED
  BY <1>3, <1>4

(* What the hub allows is what is configured. *)
LEMMA AllowedIsConfigured ==
  ASSUME ConfigOK, NEW page \in Pages, cors # Disabled, AllowedOrigin(cors, page) # Disabled
  PROVE  /\ IsConfigured(page)
         /\ AllowedOrigin(cors, page) = IF cors.origin = Any THEN Any ELSE page
<1>1. /\ Config # Disabled /\ cors.origin = Config["origin"]
      /\ IsValidConfig(Config)
  <2>1. Config # Disabled /\ cors = Resolved(Config)
    BY DEF cors, ResolveCors, Config
  <2>2. Resolved(Config).origin = Config["origin"]
    BY DEF Resolved
  <2>3. IsValidConfig(Config)
    BY <2>1 DEF ConfigOK, MayStart, Config
  <2> QED
    BY <2>1, <2>2, <2>3
<1>2. CASE cors.origin = Any
  BY <1>1, <1>2 DEF IsConfigured, AllowedOrigin
<1>3. CASE cors.origin # Any
  <2>1. IsListed(cors, page)
    BY <1>3 DEF AllowedOrigin
  <2>2. PICK e \in cors.origin : page # NullOrigin /\ Matches(e, page)
    BY <2>1 DEF IsListed
  <2>3. IsOrigin(e.origin) /\ IsOrigin(page)
    BY <1>1, <1>3, <2>2, PagesAssumption, ConfigsAssumption DEF ConfigOK, Config
  <2>4. Names(e, page)
    BY <2>2, <2>3, MatchesAreNamed
  <2> QED
    BY <1>1, <1>3, <2>1, <2>2, <2>4 DEF IsConfigured, AllowedOrigin
<1> QED
  BY <1>2, <1>3

(* The converse: an origin that is named matches its entry. *)
LEMMA NamedMatch ==
  ASSUME NEW e, NEW page, IsOrigin(e.origin), IsOrigin(page), Names(e, page)
  PROVE  Matches(e, page)
<1> DEFINE labels == page.labels
           domain == e.origin.labels
           above == Len(labels) - Len(domain)
<1>1. labels \in Seq(STRING) /\ domain \in Seq(STRING)
  BY DEF IsOrigin
<1>2. /\ e.origin.scheme = page.scheme /\ e.origin.port = page.port
      /\ IF e.star THEN above > 0 ELSE above = 0
      /\ \A i \in DOMAIN domain : labels[above + i] = domain[i]
  BY DEF Names
<1> HIDE DEF labels, domain
<1>3. /\ Len(labels) \in Nat /\ Len(domain) \in Nat
      /\ DOMAIN domain = 1 .. Len(domain) /\ DOMAIN labels = 1 .. Len(labels)
  BY <1>1
<1>4. CASE ~e.star
  <2>1. Len(labels) = Len(domain) /\ \A i \in 1 .. Len(domain) : labels[i] = domain[i]
    BY <1>2, <1>3, <1>4
  <2>2. labels = domain
    BY <1>1, <2>1, SeqEqual
  <2> QED
    BY <1>2, <1>4, <2>2 DEF Matches, labels, domain
<1>5. CASE e.star
  <2>1. above \in 1 .. Len(labels)
    BY <1>2, <1>3, <1>5
  <2> DEFINE tail == SubSeq(labels, above + 1, Len(labels))
  <2>2. PICK n \in 1 .. Len(labels) : n = above
    BY <2>1
  <2>3. \A i \in n + 1 .. Len(labels) : labels[i] \in STRING
    BY <1>1, <1>3
  <2>4. /\ SubSeq(labels, n + 1, Len(labels)) \in Seq(STRING)
        /\ Len(SubSeq(labels, n + 1, Len(labels))) =
             IF n + 1 <= Len(labels) THEN Len(labels) - (n + 1) + 1 ELSE 0
        /\ \A i \in 1 .. Len(labels) - (n + 1) + 1 :
             SubSeq(labels, n + 1, Len(labels))[i] = labels[n + 1 + i - 1]
    BY <1>3, <2>3, SubSeqProperties
  <2>5. /\ Len(SubSeq(labels, n + 1, Len(labels))) = Len(domain)
        /\ \A i \in 1 .. Len(domain) : SubSeq(labels, n + 1, Len(labels))[i] = domain[i]
    <3>1. n \in Nat /\ Len(labels) - (n + 1) + 1 = Len(domain)
      BY <1>3, <2>2
    <3>2. \A i \in 1 .. Len(domain) : n + 1 + i - 1 = n + i
      BY <3>1
    <3>3. \A i \in 1 .. Len(domain) : labels[n + i] = domain[i]
      BY <1>2, <1>3, <2>2
    <3>4. Len(SubSeq(labels, n + 1, Len(labels))) = Len(domain)
      <4>1. CASE n + 1 <= Len(labels)
        BY <2>4, <3>1, <4>1
      <4>2. CASE ~(n + 1 <= Len(labels))
        <5>1. Len(domain) = 0
          BY <1>3, <3>1, <4>2
        <5> QED
          BY <2>4, <4>2, <5>1
      <4> QED
        BY <4>1, <4>2
    <3> QED
      BY <2>4, <3>1, <3>2, <3>3, <3>4
  <2>6. SubSeq(labels, n + 1, Len(labels)) = domain
    BY <1>1, <2>4, <2>5, SeqEqual
  <2>7. IsUnder(labels, domain)
    BY <2>6 DEF IsUnder
  <2> QED
    BY <1>2, <1>5, <2>7 DEF Matches, labels, domain
<1> QED
  BY <1>4, <1>5

(* What is configured is allowed, with the credentials and headers that are  *)
(* configured; and a configuration with a "*" is one that browsers accept.   *)
LEMMA ConfiguredIsAllowed ==
  ASSUME ConfigOK, NEW page \in Pages, IsConfigured(page)
  PROVE  /\ cors # Disabled /\ AllowedOrigin(cors, page) # Disabled
         /\ AllowedOrigin(cors, page) = IF cors.origin = Any THEN Any ELSE page
         /\ cors.credentials = Get(Config, "credentials", FALSE)
         /\ cors.allowHeaders = Get(Config, "allowHeaders", {"Content-Type", "Authorization"})
         /\ cors.credentials => cors.origin # Any /\ "*" \notin cors.allowHeaders
         /\ "*" \in cors.allowHeaders => "Authorization" \in cors.allowHeaders
<1>1. Config # Disabled /\ cors = Resolved(Config) /\ IsValidConfig(Config)
  BY DEF IsConfigured, cors, ResolveCors, Config, ConfigOK, MayStart
<1>2. /\ cors.origin = Config["origin"]
      /\ cors.credentials = Get(Config, "credentials", FALSE)
      /\ cors.allowHeaders = Get(Config, "allowHeaders", {"Content-Type", "Authorization"})
  BY <1>1 DEF Resolved
<1>3. cors # Disabled
  BY <1>1, ConfigsAssumption DEF ConfigOK, Config
<1>4. AllowedOrigin(cors, page) # Disabled
      /\ AllowedOrigin(cors, page) = IF cors.origin = Any THEN Any ELSE page
  <2>1. CASE cors.origin = Any
    BY <2>1, DistinctAssumption DEF AllowedOrigin
  <2>2. CASE cors.origin # Any
    <3>1. PICK e \in Config["origin"] : page # NullOrigin /\ Names(e, page)
      BY <1>2, <2>2 DEF IsConfigured
    <3>2. IsOrigin(e.origin) /\ IsOrigin(page)
      BY <1>1, <1>2, <2>2, <3>1, PagesAssumption, ConfigsAssumption DEF ConfigOK, Config
    <3>3. Matches(e, page)
      BY <3>1, <3>2, NamedMatch
    <3>4. page \notin {NoOrigin, Disabled}
      BY PagesAssumption
    <3> QED
      BY <1>2, <2>2, <3>1, <3>3, <3>4 DEF AllowedOrigin, IsListed
  <2> QED
    BY <2>1, <2>2
<1>5. cors.credentials => cors.origin # Any /\ "*" \notin cors.allowHeaders
  <2> SUFFICES ASSUME cors.credentials
               PROVE  cors.origin # Any /\ "*" \notin cors.allowHeaders
    OBVIOUS
  <2>1. Get(Config, "credentials", FALSE)
    BY <1>2
  <2>2. Config["origin"] # Any /\ "*" \notin Get(Config, "allowHeaders", {})
    BY <1>1, <2>1 DEF IsValidConfig, CredentialsAreSound
  <2>3. "*" \notin Get(Config, "allowHeaders", {"Content-Type", "Authorization"})
    BY <2>2 DEF Get
  <2> QED
    BY <1>2, <2>2, <2>3
<1>6. "*" \in cors.allowHeaders => "Authorization" \in cors.allowHeaders
  BY <1>1, <1>2 DEF IsValidConfig, HeadersAreSound, Get
<1> QED
  BY <1>2, <1>3, <1>4, <1>5, <1>6

-----------------------------------------------------------------------------
(* The initial state. *)
LEMMA InitIInv == Init => IInv
<1> SUFFICES ASSUME Init PROVE IInv
  OBVIOUS
<1> USE DEF Init, Idle
<1>1. ExchangeOK
  BY PagesAssumption DEF ExchangeOK
<1>2. SharedOK /\ ConfigOK
  BY DEF SharedOK, ConfigOK
<1>3. PreflightedOK /\ Reads /\ Reaches /\ Serves
  BY DEF PreflightedOK, Reads, Reaches, Serves, ForeignersReadNothing, ForeignersReachNothing
<1> QED
  BY <1>1, <1>2, <1>3 DEF IInv

(* What the hub answers satisfies what the induction carries about the       *)
(* shared cache.                                                             *)
LEMMA ResponseOK ==
  ASSUME NEW x
  PROVE  LET response == Response(x) IN
         /\ response.headers = WriteCorsResponse(cors, response.origin, {})
         /\ response.origin = OriginHeader(x) /\ response.denied \in BOOLEAN
         /\ cors # Disabled /\ AllowedOrigin(cors, response.origin) # Disabled => ~response.denied
<1>1. /\ Response(x).origin = OriginHeader(x)
      /\ Response(x).headers = WriteCorsResponse(cors, OriginHeader(x), {})
      /\ Response(x).denied = ~OriginAllowed(cors, OriginHeader(x), Host(Server), SecFetchSite(x))
  BY DEF Response
<1>2. cors # Disabled /\ AllowedOrigin(cors, OriginHeader(x)) # Disabled
        => OriginAllowed(cors, OriginHeader(x), Host(Server), SecFetchSite(x))
  BY DEF OriginAllowed
<1> QED
  BY <1>1, <1>2

(* A page that passes the check of a response is on an origin that is        *)
(* configured.                                                               *)
LEMMA CheckedIsConfigured ==
  ASSUME IInv, NEW o \in Pages \union {NoOrigin},
         PassesCheck(exchange, WriteCorsResponse(cors, o, {}))
  PROVE  IsConfigured(exchange.page)
<1> DEFINE h == WriteCorsResponse(cors, o, {})
<1>1. "Allow-Origin" \in DOMAIN h /\ h["Allow-Origin"] \in {exchange.page, Any}
  BY DEF PassesCheck
<1>2. cors # Disabled /\ AllowedOrigin(cors, o) # Disabled /\ h["Allow-Origin"] = AllowedOrigin(cors, o)
  BY <1>1, ResponseHeaders
<1>3. exchange.page \in Pages /\ ConfigOK
  BY DEF IInv, ExchangeOK
<1>4. CASE cors.origin = Any
  <2>1. AllowedOrigin(cors, exchange.page) # Disabled
    BY <1>4, DistinctAssumption DEF AllowedOrigin
  <2> QED
    BY <1>2, <1>3, <2>1, AllowedIsConfigured
<1>5. CASE cors.origin # Any
  <2>1. o \in Pages /\ AllowedOrigin(cors, o) = o
    BY <1>2, <1>5 DEF AllowedOrigin, IsListed
  <2>2. o = exchange.page
    BY <1>1, <1>2, <2>1, PagesAssumption
  <2> QED
    BY <1>2, <1>3, <2>2, AllowedIsConfigured
<1> QED
  BY <1>4, <1>5

(* The gate, for a browser that sends Sec-Fetch-Site. *)
LEMMA GateIsConfigured ==
  ASSUME IInv, exchange.modern, IsCrossOrigin(exchange),
         OriginAllowed(cors, OriginHeader(exchange), Host(Server), SecFetchSite(exchange))
  PROVE  IsConfigured(exchange.page)
<1>1. exchange.page \in Pages /\ ConfigOK
  BY DEF IInv, ExchangeOK
<1>2. OriginHeader(exchange) = exchange.page /\ exchange.page # NoOrigin
  BY <1>1, PagesAssumption DEF OriginHeader
<1>3. SecFetchSite(exchange) = "cross-site"
  BY DEF SecFetchSite
<1>4. ~IsSameOrigin(exchange.page, Host(Server), "cross-site")
  BY DEF IsSameOrigin
<1>5. cors # Disabled /\ AllowedOrigin(cors, exchange.page) # Disabled
  BY <1>2, <1>3, <1>4 DEF OriginAllowed
<1> QED
  BY <1>1, <1>5, AllowedIsConfigured

(* What a page that receives a response to o reads. *)
LEMMA ReceiveIInv ==
  ASSUME IInv, IsReady, UNCHANGED <<server, endpoint>>,
         NEW response, response.origin \in Pages \union {NoOrigin},
         response.headers = WriteCorsResponse(cors, response.origin, {}),
         NEW ran \in BOOLEAN, Receive(response, ran),
         ran /\ exchange.modern => ~IsCrossOrigin(exchange) \/ IsConfigured(exchange.page)
  PROVE  ExchangeOK' /\ ConfigOK' /\ PreflightedOK' /\ Reads' /\ Reaches'
<1> DEFINE reads == ~response.denied
              /\ (IsCrossOrigin(exchange) => PassesCheck(exchange, response.headers))
<1>1. exchange' = [exchange EXCEPT !.ran = ran, !.pc = IF reads THEN "read" ELSE "blocked"]
  BY DEF Receive
<1>2. ExchangeOK
  BY DEF IInv
<1>3. reads => ~IsCrossOrigin(exchange) \/ IsConfigured(exchange.page)
  BY CheckedIsConfigured
<1> HIDE DEF reads
<1>4. /\ exchange'.pc = IF reads THEN "read" ELSE "blocked"
      /\ exchange'.ran = ran
      /\ exchange'.page = exchange.page /\ exchange'.modern = exchange.modern
      /\ ExchangeOK'
  BY <1>1, <1>2 DEF ExchangeOK
<1>5. /\ IsCrossOrigin(exchange') <=> IsCrossOrigin(exchange)
      /\ IsConfigured(exchange.page)' <=> IsConfigured(exchange'.page)
      /\ IsConfigured(exchange'.page) <=> IsConfigured(exchange.page)
  BY <1>4 DEF IsCrossOrigin, IsConfigured, Config
<1>6. Reads' /\ Reaches'
  BY <1>3, <1>4, <1>5 DEF Reads, Reaches, ForeignersReadNothing, ForeignersReachNothing, IsCrossOrigin
<1>7. PreflightedOK'
  BY <1>4 DEF PreflightedOK
<1>8. ConfigOK'
  BY DEF IInv, ConfigOK
<1> QED
  BY <1>4, <1>6, <1>7, <1>8

(* A page that is configured passes the check of the responses and of the    *)
(* preflight, unless it sends what is not configured.                        *)
LEMMA ConfiguredPasses ==
  ASSUME IInv, IsConfigured(exchange.page),
         ~(exchange.credentials /\ ~Get(Config, "credentials", FALSE)),
         NEW h, "Allow-Origin" \in DOMAIN h,
         h["Allow-Origin"] = AllowedOrigin(cors, exchange.page),
         "Allow-Credentials" \in DOMAIN h <=> cors.credentials
  PROVE  PassesCheck(exchange, h)
<1>1. exchange.page \in Pages /\ ConfigOK
  BY DEF IInv, ExchangeOK
<1>2. /\ AllowedOrigin(cors, exchange.page) = IF cors.origin = Any THEN Any ELSE exchange.page
      /\ cors.credentials = Get(Config, "credentials", FALSE)
      /\ cors.credentials => cors.origin # Any
  BY <1>1, ConfiguredIsAllowed
<1>3. exchange.credentials => cors.credentials
  BY <1>2
<1>4. h["Allow-Origin"] = exchange.page \/ (h["Allow-Origin"] = Any /\ ~exchange.credentials)
  BY <1>2, <1>3
<1> QED
  BY <1>3, <1>4 DEF PassesCheck

LEMMA PreflightServes ==
  ASSUME IInv, IsConfigured(exchange.page), IsCrossOrigin(exchange),
         ~PassesPreflight(exchange, Options(OriginHeader(exchange)))
  PROVE  Overreaches(exchange)
<1> SUFFICES ASSUME ~Overreaches(exchange) PROVE FALSE
  OBVIOUS
<1> DEFINE m == {"GET", "DELETE", "OPTIONS"}
           h == WriteCorsPreflight(cors, exchange.page, m)
<1>1. exchange.page \in Pages /\ ConfigOK /\ exchange.method \in {"GET", "DELETE"}
  BY DEF IInv, ExchangeOK
<1>2. /\ cors # Disabled /\ AllowedOrigin(cors, exchange.page) # Disabled
      /\ cors.credentials = Get(Config, "credentials", FALSE)
      /\ cors.allowHeaders = Get(Config, "allowHeaders", {"Content-Type", "Authorization"})
      /\ cors.credentials => cors.origin # Any /\ "*" \notin cors.allowHeaders
      /\ "*" \in cors.allowHeaders => "Authorization" \in cors.allowHeaders
  BY <1>1, ConfiguredIsAllowed
<1>3. Options(OriginHeader(exchange)) = h
  BY <1>2 DEF Options, OriginHeader
<1> HIDE DEF m
<1>4. /\ "Allow-Origin" \in DOMAIN h /\ h["Allow-Origin"] = AllowedOrigin(cors, exchange.page)
      /\ "Allow-Credentials" \in DOMAIN h <=> cors.credentials
      /\ h["Allow-Methods"] = m
      /\ Get(h, "Allow-Headers", {}) = cors.allowHeaders
  <2>1. "Allow-Origin" \in DOMAIN h <=> AllowedOrigin(cors, exchange.page) # Disabled
    BY <1>2, PreflightHeaders
  <2>2. "Allow-Origin" \in DOMAIN h
    BY <1>2, <2>1
  <2>3. h["Allow-Origin"] = AllowedOrigin(cors, exchange.page)
    BY <1>2, <2>2, PreflightHeaders
  <2>4. "Allow-Credentials" \in DOMAIN h <=> cors.credentials
    BY <1>2, <2>2, PreflightHeaders
  <2>5. h["Allow-Methods"] = m
    BY <1>2, <2>2, PreflightHeaders
  <2>6. Get(h, "Allow-Headers", {}) = cors.allowHeaders
    BY <1>2, <2>2, PreflightHeaders
  <2> QED
    BY <2>2, <2>3, <2>4, <2>5, <2>6
<1> HIDE DEF h
<1>5. /\ ~(exchange.credentials /\ ~Get(Config, "credentials", FALSE))
      /\ exchange.headers \subseteq cors.allowHeaders \/ "*" \in cors.allowHeaders
  BY <1>2 DEF Overreaches
<1>6. PassesCheck(exchange, h)
  BY <1>4, <1>5, ConfiguredPasses
<1>7. exchange.credentials => cors.credentials
  BY <1>2, <1>5
<1>8. \A name \in exchange.headers :
        \/ name \in cors.allowHeaders
        \/ "*" \in cors.allowHeaders /\ ~exchange.credentials /\ name # "Authorization"
  BY <1>2, <1>5, <1>7
<1>9. exchange.method \in {"GET"} \union h["Allow-Methods"]
  BY <1>1, <1>4 DEF m
<1>10. PassesPreflight(exchange, h)
  BY <1>4, <1>6, <1>8, <1>9 DEF PassesPreflight
<1> QED
  BY <1>3, <1>10

LEMMA ReceiveServes ==
  ASSUME IInv, UNCHANGED <<server, endpoint>>,
         NEW response, NEW ran \in BOOLEAN, Receive(response, ran), response.denied \in BOOLEAN,
         response.headers = WriteCorsResponse(cors, response.origin, {}),
         cors # Disabled /\ AllowedOrigin(cors, response.origin) # Disabled => ~response.denied,
         response.origin = OriginHeader(exchange) \/ (cors # Disabled /\ cors.origin = Any)
  PROVE  Serves'
<1> DEFINE reads == ~response.denied
              /\ (IsCrossOrigin(exchange) => PassesCheck(exchange, response.headers))
<1>1. exchange' = [exchange EXCEPT !.ran = ran, !.pc = IF reads THEN "read" ELSE "blocked"]
  BY DEF Receive
<1>2. ExchangeOK /\ exchange.page \in Pages /\ ConfigOK
  BY DEF IInv, ExchangeOK
<1>3. ASSUME IsCrossOrigin(exchange), IsConfigured(exchange.page), ~Overreaches(exchange)
      PROVE  reads
  <2>1. OriginHeader(exchange) = exchange.page
    BY <1>3 DEF OriginHeader
  <2>2. cors # Disabled /\ AllowedOrigin(cors, exchange.page) # Disabled
    BY <1>2, <1>3, ConfiguredIsAllowed
  <2>3. AllowedOrigin(cors, response.origin) = AllowedOrigin(cors, exchange.page)
    BY <2>1 DEF AllowedOrigin
  <2>4. /\ "Allow-Origin" \in DOMAIN response.headers
        /\ response.headers["Allow-Origin"] = AllowedOrigin(cors, exchange.page)
        /\ "Allow-Credentials" \in DOMAIN response.headers <=> cors.credentials
    BY <2>2, <2>3, ResponseHeaders
  <2>5. ~(exchange.credentials /\ ~Get(Config, "credentials", FALSE))
    BY <1>3 DEF Overreaches
  <2>6. PassesCheck(exchange, response.headers)
    BY <1>3, <2>4, <2>5, ConfiguredPasses
  <2> QED
    BY <2>2, <2>3, <2>6
<1> HIDE DEF reads
<1>4. /\ exchange'.pc = IF reads THEN "read" ELSE "blocked"
      /\ exchange'.page = exchange.page
      /\ exchange'.credentials = exchange.credentials /\ exchange'.headers = exchange.headers
  BY <1>1, <1>2 DEF ExchangeOK
<1>5. /\ IsConfigured(exchange.page)' <=> IsConfigured(exchange.page)
      /\ Overreaches(exchange)' <=> Overreaches(exchange)
      /\ IsCrossOrigin(exchange)' <=> IsCrossOrigin(exchange)
  BY <1>4 DEF IsConfigured, Overreaches, Config, IsCrossOrigin
<1> QED
  BY <1>3, <1>4, <1>5 DEF Serves

(* The shared cache is about the configuration, which never changes. *)
LEMMA SharedIInv ==
  ASSUME IInv, UNCHANGED <<server, endpoint>>, shared' \in {shared, {Response(exchange)}}
  PROVE  SharedOK'
<1>1. cors' = cors
  BY DEF cors
<1>2. CASE shared' = shared
  BY <1>1, <1>2 DEF IInv, SharedOK
<1>3. CASE shared' = {Response(exchange)}
  <2>1. Response(exchange).origin \in Pages \union {NoOrigin}
    BY ResponseOK DEF IInv, ExchangeOK, OriginHeader
  <2> QED
    BY <1>1, <1>3, <2>1, ResponseOK DEF SharedOK
<1> QED
  BY <1>2, <1>3

LEMMA StepIInv == IInv /\ [Next]_vars => IInv'
<1> SUFFICES ASSUME IInv, [Next]_vars PROVE IInv'
  OBVIOUS
<1>1. CASE UNCHANGED vars
  <2>1. (ExchangeOK /\ ConfigOK /\ PreflightedOK)'
    BY <1>1 DEF IInv, ExchangeOK, ConfigOK, PreflightedOK, vars, cors, Config, Options
  <2>u. shared' = shared /\ cors' = cors /\ exchange' = exchange /\ Config' = Config
    BY <1>1 DEF vars, cors, Config
  <2>2. SharedOK'
    BY <2>u, Zenon DEF IInv, SharedOK
  <2>3. (Reads /\ Reaches /\ Serves)'
    BY <2>u, Zenon DEF IInv, Reads, Reaches, Serves, IsConfigured, Overreaches,
                       ForeignersReadNothing, ForeignersReachNothing
  <2>4. (ForeignersReadNothing /\ ForeignersReachNothing)'
    BY <2>3, Zenon DEF Reads, Reaches
  <2> QED BY <2>1, <2>2, <2>3, <2>4 DEF IInv
<1>2. CASE Ask
  <2>1. PICK page \in Pages, method \in {"GET", "DELETE"}, credentials \in BOOLEAN,
             modern \in BOOLEAN, headers \in FetchHeaders :
          exchange' = [pc |-> IF NeedsPreflight(page, method, headers) THEN "preflight" ELSE "fetch",
                       page |-> page, method |-> method, credentials |-> credentials,
                       headers |-> headers, modern |-> modern, ran |-> FALSE]
    BY <1>2 DEF Ask
  <2>2. ExchangeOK' /\ exchange'.pc \in {"preflight", "fetch"} /\ ~exchange'.ran
    BY <2>1 DEF ExchangeOK
  <2>3. SharedOK' /\ ConfigOK'
    BY <1>2, SharedIInv DEF Ask, IInv, ConfigOK
  <2>4. exchange'.pc = "preflight" => exchange'.page # Server
    BY <2>1 DEF NeedsPreflight
  <2> QED
    BY <2>2, <2>3, <2>4
      DEF IInv, PreflightedOK, Reads, Reaches, Serves, ForeignersReadNothing, ForeignersReachNothing,
        IsCrossOrigin
<1>3. CASE Close
  <2>1. ExchangeOK' /\ exchange'.pc = "idle" /\ ~exchange'.ran
    BY <1>3, PagesAssumption DEF Close, Idle, ExchangeOK
  <2>2. SharedOK' /\ ConfigOK'
    BY <1>3, SharedIInv DEF Close, IInv, ConfigOK
  <2> QED
    BY <2>1, <2>2 DEF IInv, PreflightedOK, Reads, Reaches, Serves, ForeignersReadNothing,
      ForeignersReachNothing
<1>4. CASE Preflight
  <2> DEFINE passes == PassesPreflight(exchange, Options(OriginHeader(exchange)))
  <2>1. /\ exchange.pc = "preflight" /\ UNCHANGED <<server, endpoint, shared>>
        /\ exchange' = [exchange EXCEPT !.pc = IF passes THEN "preflighted" ELSE "blocked"]
    BY <1>4 DEF Preflight
  <2> HIDE DEF passes
  <2>2. ExchangeOK
    BY DEF IInv
  <2>3. /\ ExchangeOK'
        /\ exchange'.pc = IF passes THEN "preflighted" ELSE "blocked"
        /\ exchange'.page = exchange.page /\ exchange'.modern = exchange.modern
        /\ exchange'.ran = exchange.ran /\ exchange'.method = exchange.method
        /\ exchange'.credentials = exchange.credentials /\ exchange'.headers = exchange.headers
    BY <2>1, <2>2 DEF ExchangeOK
  <2>4. SharedOK' /\ ConfigOK'
    BY <2>1, SharedIInv DEF IInv, ConfigOK
  <2>5. Reads' /\ Reaches'
    BY <2>1, <2>3 DEF IInv, Reads, Reaches, ForeignersReadNothing, ForeignersReachNothing,
      IsCrossOrigin, IsConfigured, Config
  <2>6. PreflightedOK'
    <3>1. IsCrossOrigin(exchange) /\ cors' = cors
      BY <2>1 DEF IInv, PreflightedOK, cors
    <3>2. IsCrossOrigin(exchange)'
      BY <2>3, <3>1 DEF IsCrossOrigin
    <3>3. passes => PassesPreflight(exchange, Options(OriginHeader(exchange)))'
      BY <2>3, <3>1 DEF passes, PassesPreflight, PassesCheck, Options, OriginHeader, IsCrossOrigin
    <3> QED
      BY <2>3, <3>2, <3>3 DEF PreflightedOK
  <2>7. Serves'
    <3>1. ~passes /\ IsConfigured(exchange.page) => Overreaches(exchange)
      BY <2>1, PreflightServes DEF IInv, PreflightedOK, passes
    <3>2. /\ IsConfigured(exchange.page)' <=> IsConfigured(exchange.page)
          /\ Overreaches(exchange)' <=> Overreaches(exchange)
      BY <2>1, <2>3 DEF IsConfigured, Overreaches, Config
    <3> QED
      BY <2>3, <3>1, <3>2 DEF Serves
  <2> QED
    BY <2>3, <2>4, <2>5, <2>6, <2>7 DEF IInv
<1>5. CASE Fetch
  <2>1. /\ IsReady /\ UNCHANGED <<server, endpoint>>
        /\ Receive(Response(exchange), ~Response(exchange).denied)
        /\ shared' \in {shared, {Response(exchange)}}
    BY <1>5 DEF Fetch
  <2>2. /\ Response(exchange).origin \in Pages \union {NoOrigin}
        /\ Response(exchange).headers = WriteCorsResponse(cors, Response(exchange).origin, {})
    BY ResponseOK DEF IInv, ExchangeOK, OriginHeader
  <2>3. ~Response(exchange).denied
          <=> OriginAllowed(cors, OriginHeader(exchange), Host(Server), SecFetchSite(exchange))
    BY DEF Response
  <2>4. ~Response(exchange).denied /\ exchange.modern
          => ~IsCrossOrigin(exchange) \/ IsConfigured(exchange.page)
    BY <2>3, GateIsConfigured
  <2>5. ExchangeOK' /\ ConfigOK' /\ PreflightedOK' /\ Reads' /\ Reaches'
    BY <2>1, <2>2, <2>4, ReceiveIInv
  <2>6. SharedOK'
    BY <2>1, SharedIInv
  <2>7. Serves'
    BY <2>1, <2>2, ReceiveServes, ResponseOK
  <2> QED
    BY <2>5, <2>6, <2>7 DEF IInv
<1>6. CASE FetchCached
  <2>1. PICK response \in shared :
          /\ "Vary" \in DOMAIN response.headers => response.origin = OriginHeader(exchange)
          /\ Receive(response, FALSE)
    BY <1>6 DEF FetchCached
  <2>2. /\ response.origin \in Pages \union {NoOrigin}
        /\ response.headers = WriteCorsResponse(cors, response.origin, {})
        /\ response.denied \in BOOLEAN
        /\ cors # Disabled /\ AllowedOrigin(cors, response.origin) # Disabled => ~response.denied
    BY DEF IInv, SharedOK
  <2>3. IsReady /\ UNCHANGED <<server, endpoint, shared>>
    BY <1>6 DEF FetchCached
  <2>4. ExchangeOK' /\ ConfigOK' /\ PreflightedOK' /\ Reads' /\ Reaches'
    BY <2>1, <2>2, <2>3, ReceiveIInv
  <2>5. SharedOK'
    BY <2>3, SharedIInv
  <2>6. Serves'
    <3>1. response.origin = OriginHeader(exchange) \/ (cors # Disabled /\ cors.origin = Any)
      BY <2>1, <2>2, ResponseHeaders
    <3> QED
      BY <2>1, <2>2, <2>3, <3>1, ReceiveServes
  <2> QED
    BY <2>4, <2>5, <2>6 DEF IInv
<1> QED
  BY <1>1, <1>2, <1>3, <1>4, <1>5, <1>6 DEF Next

(* What is preflighted is read, from the hub and from the shared cache.      *)
LEMMA PreflightedIsRead ==
  ASSUME IInv, Next, exchange.pc = "preflighted"
  PROVE  exchange'.pc = "read"
<1> DEFINE page == exchange.page
           answer == WriteCorsPreflight(cors, page, {"GET", "DELETE", "OPTIONS"})
<1>1. page \in Pages /\ ConfigOK /\ SharedOK /\ ExchangeOK
  BY DEF IInv, ExchangeOK
<1>2. /\ IsCrossOrigin(exchange) /\ OriginHeader(exchange) = page
      /\ PassesCheck(exchange, Options(page))
  BY DEF IInv, PreflightedOK, PassesPreflight, OriginHeader
<1>3. cors # Disabled /\ Options(page) = answer
  BY <1>2 DEF Options, PassesCheck, Absent
<1>4. /\ AllowedOrigin(cors, page) # Disabled
      /\ AllowedOrigin(cors, page) = page \/ (AllowedOrigin(cors, page) = Any /\ ~exchange.credentials)
      /\ exchange.credentials => cors.credentials
  BY <1>2, <1>3, PreflightHeaders DEF PassesCheck
<1>5. ASSUME NEW o, AllowedOrigin(cors, o) = AllowedOrigin(cors, page)
      PROVE  PassesCheck(exchange, WriteCorsResponse(cors, o, {}))
  BY <1>3, <1>4, <1>5, ResponseHeaders DEF PassesCheck
<1>6. ASSUME NEW response, NEW ran, Receive(response, ran), ~response.denied,
             PassesCheck(exchange, response.headers)
      PROVE  exchange'.pc = "read"
  BY <1>1, <1>6 DEF Receive, ExchangeOK
<1>7. CASE Fetch
  <2>1. /\ Receive(Response(exchange), ~Response(exchange).denied)
        /\ Response(exchange).origin = page /\ ~Response(exchange).denied
        /\ Response(exchange).headers = WriteCorsResponse(cors, page, {})
    BY <1>2, <1>3, <1>4, <1>7, ResponseOK DEF Fetch
  <2> QED
    BY <1>5, <1>6, <2>1
<1>8. CASE FetchCached
  <2>1. PICK response \in shared :
          /\ "Vary" \in DOMAIN response.headers => response.origin = page
          /\ Receive(response, FALSE)
    BY <1>2, <1>8 DEF FetchCached
  <2>2. response.headers = WriteCorsResponse(cors, response.origin, {})
    BY <1>1 DEF SharedOK
  <2>3. response.origin = page \/ cors.origin = Any
    BY <2>1, <2>2, ResponseHeaders
  <2>4. AllowedOrigin(cors, response.origin) = AllowedOrigin(cors, page)
    BY <2>3 DEF AllowedOrigin
  <2>5. ~response.denied
    BY <1>1, <1>3, <1>4, <2>4 DEF SharedOK
  <2>6. PassesCheck(exchange, response.headers)
    BY <1>5, <2>2, <2>4
  <2> QED
    BY <1>6, <2>1, <2>5, <2>6
<1> QED
  BY <1>7, <1>8 DEF Next, Ask, Close, Preflight

-----------------------------------------------------------------------------
(* The inductive invariant. *)
THEOREM Invariant == Spec => []IInv
<1>1. Init => IInv
  BY InitIInv
<1>2. IInv /\ [Next]_vars => IInv'
  BY StepIInv
<1> QED
  BY <1>1, <1>2, PTL DEF Spec

(* No page on a foreign origin reads a response, whatever is configured, and *)
(* whatever a shared cache does with the responses to others.                *)
THEOREM ReadSafe == Spec => []ForeignersReadNothing
<1>1. IInv => ForeignersReadNothing
  BY DEF IInv, Reads
<1> QED
  BY <1>1, Invariant, PTL

(* None makes a handler run, in a browser that sends Sec-Fetch-Site.         *)
THEOREM ReachSafe == Spec => []ForeignersReachNothing
<1>1. IInv => ForeignersReachNothing
  BY DEF IInv, Reaches
<1> QED
  BY <1>1, Invariant, PTL

(* The pages that are configured are served, and the types are right: the    *)
(* checks of resolveCors leave no configuration that browsers refuse.        *)
THEOREM ConfiguredServed == Spec => []ConfiguredAreServed
<1>1. IInv => ConfiguredAreServed
  <2> SUFFICES ASSUME IInv PROVE ConfiguredAreServed
    OBVIOUS
  <2>1. cors # Disabled =>
          {cors.credentials, cors.trustSameOrigin} \subseteq BOOLEAN /\ cors.maxAge \in Nat
    <3> SUFFICES ASSUME cors # Disabled
                 PROVE  {cors.credentials, cors.trustSameOrigin} \subseteq BOOLEAN /\ cors.maxAge \in Nat
      OBVIOUS
    <3>1. Config # Disabled /\ cors = Resolved(Config)
      BY DEF cors, ResolveCors, Config
    <3>2. HasTypes(Config)
      BY <3>1 DEF IInv, ConfigOK, MayStart, Config, IsValidConfig
    <3> DEFINE credentials == Get(Config, "credentials", FALSE)
               trust == Get(Config, "trustSameOrigin", TRUE)
               maxAge == Get(Config, "maxAge", 3600)
    <3>3. credentials \in BOOLEAN /\ trust \in BOOLEAN /\ maxAge \in Nat
      BY <3>2, ZenonT(60) DEF HasTypes, Get
    <3>4. cors = [origin |-> Config["origin"], credentials |-> credentials,
                  trustSameOrigin |-> trust,
                  allowHeaders |-> Get(Config, "allowHeaders", {"Content-Type", "Authorization"}),
                  exposeHeaders |-> Get(Config, "exposeHeaders", {}), maxAge |-> maxAge]
      BY <3>1 DEF Resolved
    <3> HIDE DEF credentials, trust, maxAge
    <3>5. cors.credentials = credentials /\ cors.trustSameOrigin = trust /\ cors.maxAge = maxAge
      BY <3>4
    <3> QED
      BY <3>3, <3>5
  <2>2. TypeOK
    BY <2>1 DEF IInv, ExchangeOK, SharedOK, ConfigOK, TypeOK
  <2>3. exchange.pc = "blocked" /\ IsConfigured(exchange.page) /\ IsCrossOrigin(exchange)
          => Overreaches(exchange)
    BY DEF IInv, Serves
  <2> QED
    BY <2>2, <2>3 DEF ConfiguredAreServed, Overreaches
<1> QED
  BY <1>1, Invariant, PTL

(* A page whose preflight passes reads its response.                         *)
THEOREM PreflightSafe == Spec => PreflightIsHonoured
<1>1. IInv /\ [Next]_vars => [exchange.pc = "preflighted" => exchange'.pc = "read"]_vars
  BY PreflightedIsRead
<1> QED
  BY <1>1, Invariant, PTL DEF Spec, PreflightIsHonoured
=============================================================================
