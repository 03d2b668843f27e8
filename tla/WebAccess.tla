----------------------------- MODULE WebAccess -----------------------------
(***************************************************************************)
(* The gate in front of the daemon's HTTP surface and the scopes its       *)
(* handlers ask for (webauth/config.py, verify.py, middleware.py,          *)
(* scopes.py; the routes of server/rest.py, orders_write.py and            *)
(* stream_ws.py): which request reaches which handler, and as whom.        *)
(*                                                                         *)
(* A request is decided by its own contents, the provider files read at    *)
(* startup and the key sets the provider served, so the module has         *)
(* operators and no state.  A path is the part of the surface it falls in  *)
(* once normalised; a key, a subject or an address is an opaque value.     *)
(***************************************************************************)
EXTENDS Integers

CONSTANTS
    Loopback,       \* addresses ipaddress calls loopback
    HttpsText,      \* texts that start with https://
    PlainIssuers,   \* those of them with a host and no userinfo
    Text,           \* non-empty texts
    Discover,       \* jwks_uri not given: ask the issuer
    AllowedAlgorithms,
    MaxClockSkew    \* _MAX_CLOCK_SKEW_S

-----------------------------------------------------------------------------
(* Scopes: `order:main` is <<"order", "main">>; a flat scope has no name,    *)
(* and one with a colon has one that is not empty.                           *)
Flat(domain) == <<domain, "">>
OrderOf(profile) == <<"order", profile>>

scope_satisfied(granted, required) ==
    \/ required \in granted
    \/ required[2] # "" /\ <<required[1], "*">> \in granted

-----------------------------------------------------------------------------
(* Provider files.  raw maps each file, by its rank in the sorted listing,  *)
(* to what is in it; allowed_subjects is a function from subjects to the     *)
(* scopes they are granted, a plain list granting none.                      *)
Wildcard(p) == "*" \in DOMAIN p.allowed_subjects

WellFormed(p) ==
    /\ p.issuer \in PlainIssuers
    /\ p.audience \in Text
    /\ p.algorithms # {} /\ p.algorithms \subseteq AllowedAlgorithms
    /\ p.jwks_uri \in HttpsText \cup {Discover}
    /\ p.scope_claim \in Text
    /\ p.clock_skew_s \in 0 .. MaxClockSkew
    /\ DOMAIN p.allowed_subjects \subseteq Text
    /\ Wildcard(p) => DOMAIN p.allowed_subjects = {"*"}
    /\ p.name \in Text

Objects(raw) == {f \in DOMAIN raw : raw[f].json = "object"}
Disabled(raw) == {f \in Objects(raw) : raw[f].enabled = FALSE}
Parsed(raw) == {f \in Objects(raw) \ Disabled(raw) : WellFormed(raw[f])}

\* Two files that claim one issuer are both dropped.
Surviving(raw) ==
    {f \in Parsed(raw) : \A g \in Parsed(raw) : raw[g].issuer = raw[f].issuer => g = f}

\* paths[name]: the last file read under that name.
PathOf(raw, name) ==
    CHOOSE f \in Parsed(raw) : /\ raw[f].name = name
                               /\ \A g \in Parsed(raw) : raw[g].name = name => g <= f

\* The files an error is reported for.
Errors(raw) ==
    (DOMAIN raw \ (Disabled(raw) \cup Parsed(raw)))
        \cup {PathOf(raw, raw[f].name) : f \in Parsed(raw) \ Surviving(raw)}

Providers(raw) == {raw[f] : f \in Surviving(raw)}

-----------------------------------------------------------------------------
(* JwksKeyResolver: what a lookup sees, in order: the cache, the cache       *)
(* again, a fetched key set, the cache (another thread may have filled it),  *)
(* a second fetch.  A fetch that failed ends the lookup.                     *)
Finds(looks, kid, key) ==
    \E i \in DOMAIN looks :
        /\ looks[i].ok /\ kid \in DOMAIN looks[i].keys /\ looks[i].keys[kid] = key
        /\ \A j \in DOMAIN looks :
              j < i => looks[j].ok /\ kid \notin DOMAIN looks[j].keys

(* jwt.decode with the options verify() gives it (PyJWT).                   *)
Decodes(p, token, key, now) ==
    /\ token.alg \in p.algorithms
    /\ token.signer = key
    /\ token.iss = p.issuer
    /\ p.audience \in token.aud
    /\ token.exp > now - p.clock_skew_s
    /\ token.nbf <= now + p.clock_skew_s
    /\ token.iat <= now + p.clock_skew_s

Listed(p, token) ==
    \/ Wildcard(p)
    \/ token.sub \in DOMAIN p.allowed_subjects
    \/ token.email \in DOMAIN p.allowed_subjects

_static_scopes(p, token) ==
    p.allowed_subjects[IF Wildcard(p) THEN "*"
                       ELSE IF token.sub \in DOMAIN p.allowed_subjects THEN token.sub
                       ELSE token.email]

Principal(p, token) ==
    [authenticated |-> TRUE, provider |-> p.name, subject |-> token.sub, email |-> token.email,
     scopes |-> token.scopes[p.scope_claim] \cup _static_scopes(p, token)]

\* The principals verify() may return; there is none when it raises.
verify(raw, token, looks, now) ==
    {Principal(p, token) : p \in
        {q \in Providers(raw) :
            /\ token.wellformed
            /\ q.issuer = token.iss
            /\ Finds(looks, token.kid, token.signer)
            /\ Decodes(q, token, token.signer, now)
            /\ Listed(q, token)}}

-----------------------------------------------------------------------------
(* The two-tier gate.  gate.raw are the provider files, gate.allow the       *)
(* networks of web.allow, gate.mcp whether web.resource_url is set.          *)
has_providers(gate) == Surviving(gate.raw) # {}

_is_loopback(peer) == peer.known /\ peer.address \in Loopback

_peer_allowed(gate, peer) ==
    \/ _is_loopback(peer)
    \/ peer.known /\ \E network \in gate.allow : peer.address \in network

Verified(gate, r) ==
    IF r.has_token THEN verify(gate.raw, r.token, r.looks, r.now) ELSE {}

\* PRM, which the gate answers itself, only while the connector is published.
ServesPRM(gate, r) == gate.mcp /\ r.surface = "prm" /\ _peer_allowed(gate, r.peer)

\* The surfaces a token opens to a peer of web.allow.
Public(gate, r) ==
    \/ r.surface = "api"
    \/ r.surface = "mcp" /\ gate.mcp /\ ~_is_loopback(r.peer)

\* Requests that need no token.
Unauthenticated(gate, r) ==
    \/ /\ r.surface \in {"mcp", "internal"} \cup (IF gate.mcp THEN {} ELSE {"prm"})
       /\ _is_loopback(r.peer)
    \/ /\ r.surface \in {"api", "health"}
       /\ ~has_providers(gate)
       /\ _is_loopback(r.peer)
    \/ /\ r.surface = "health"
       /\ has_providers(gate)
       /\ _peer_allowed(gate, r.peer)

\* What the gate hands on: the request as nobody, or as a principal.
Nobody == [authenticated |-> FALSE]

Passes(gate, r) ==
    (IF Unauthenticated(gate, r) THEN {Nobody} ELSE {})
        \cup (IF Public(gate, r) /\ _peer_allowed(gate, r.peer) /\ has_providers(gate)
              THEN Verified(gate, r) ELSE {})

-----------------------------------------------------------------------------
(* The handlers.                                                            *)
Grant(who, required) == ~who.authenticated \/ scope_satisfied(who.scopes, required)

RouteScope ==
    [quote |-> "marketdata", chain |-> "marketdata", history |-> "marketdata",
     vol |-> "marketdata", skew |-> "marketdata", greeks |-> "marketdata",
     dividends |-> "marketdata", fundamentals |-> "marketdata",
     accounts |-> "accounts", account |-> "accounts",
     positions |-> "positions", transactions |-> "transactions",
     list_orders |-> "orders", get_order |-> "orders",
     dataset_status |-> "dataset", dataset_history |-> "dataset",
     dataset_iv_rank |-> "dataset", stream |-> "streaming"]

\* What a subscription on an open stream asks for besides.
SubscribeScope == "marketdata"

MayRead(who, route) == Grant(who, Flat(RouteScope[route]))
MaySubscribe(who) == MayRead(who, "stream") /\ Grant(who, Flat(SubscribeScope))
MayPlace(who, profile) == Grant(who, OrderOf(profile))
MayCancel(who) == ~who.authenticated \/ \E s \in who.scopes : s[1] = "order" /\ s # Flat("order")
=============================================================================
