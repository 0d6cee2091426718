------------------------------- MODULE Gateway -------------------------------
(***************************************************************************)
(* The gateway (gateway/router, gateway/middleware) in front of the auth   *)
(* service and of an upstream that trusts the identity it is handed (the   *)
(* orders service's createOrder and getOrder).  A client has one request   *)
(* at a time; the middlewares of a request are steps of their own, between *)
(* which other requests run and time passes.                               *)
(*                                                                         *)
(* A connection comes from an address that clients may share: a NAT, or    *)
(* the load balancer of deploy/nginx.conf, behind which they all do.       *)
(*                                                                         *)
(* The limiter is the Redis token bucket that main builds, one bucket per  *)
(* key.  As in module RedisTokenBucket the ts it stores is rounded to      *)
(* Grain; the clock is not set back here (that module has it, and the      *)
(* expiry of a key, which a bucket that is full again survives).           *)
(***************************************************************************)
EXTENDS Auth, FiniteSets

CONSTANTS
    Accounts,      \* the users table at the start
    Addresses,     \* where connections come from ...
    Address,       \* ... and each client's
    Limit,         \* tokens in a bucket ...
    Window,        \* ... refilled in this many ticks
    Grain,         \* ticks to which tostring rounds a time in seconds
    FailOpen,      \* RateLimitConfig.FailOpen, which main leaves FALSE
    MaxTime,       \* bound: the last tick
    MaxRequests    \* bound: requests the clients send

ASSUME GatewayAssumption ==
    /\ Accounts \in [Emails -> Clients \cup {"none"}]
    /\ Address \in [Clients -> Addresses]
    /\ Limit \in Nat \ {0}
    /\ Window \in Nat \ {0}
    /\ Grain \in Nat \ {0}
    /\ FailOpen \in BOOLEAN
    /\ MaxTime \in Nat
    /\ MaxRequests \in Nat

VARIABLES
    request,       \* each client's request and how far it has come
    received,      \* how many requests have been sent
    bucket,        \* the limiter's hash of a key: tokens and ts
    owner,         \* user_id of the order, "none" while there is no order
    wallet,        \* the token a client was given last
    acknowledged,  \* history: the client that was told 201 for an address
    through,       \* history: budget used by each principal, at each tick
    early,         \* history: by how much calls of a tick stored a ts before it
    stalled,       \* history: ticks ahead of which a call stored its ts
    promised       \* history: when a key was refused and when its Retry-After
                   \* is over, until the key is used again

upstreamVars == <<users, owner>>
bucketVars == <<bucket, early, stalled>>
limiterVars == <<bucketVars, through, promised>>
vars == <<upstreamVars, now, request, received, limiterVars, wallet, acknowledged>>

Public == {"signup", "login", "me"}
Protected == {"create", "read"}

\* Who a budget belongs to: the account on protected routes, else the address
\* the connection comes from.
Principals == ({"user"} \X Emails) \cup ({"ip"} \X Addresses)

Idle == [pc |-> "idle", route |-> "none", email |-> "none", form |-> "plain",
         token |-> NoToken, subject |-> "none", checked |-> 0]

\* A token is Window units, so that a tick refills Limit units.
Full == Limit * Window

\* Some clients have signed up before, and one may have ordered.
Init ==
    /\ users = Accounts
    /\ acknowledged = Accounts
    /\ owner \in {e \in Emails : Accounts[e] # "none"} \cup {"none"}
    /\ now = 0
    /\ request = [c \in Clients |-> Idle]
    /\ received = 0
    /\ bucket = [k \in Principals |-> [tokens |-> Full, ts |-> 0]]
    /\ wallet = [c \in Clients |-> NoToken]
    /\ through = [k \in Principals |-> [t \in 0..MaxTime |-> 0]]
    /\ early = [k \in Principals |-> [t \in 0..MaxTime |-> 0]]
    /\ stalled = [k \in Principals |-> {}]
    /\ promised = [k \in Principals |-> {}]

-----------------------------------------------------------------------------
Principal(c) ==
    IF request[c].route \in Protected THEN <<"user", request[c].subject>> ELSE <<"ip", Address[c]>>

\* The request has its answer, whose status the caller of Done names.
Done(c) == request' = [request EXCEPT ![c] = Idle]

Forward(c) == request' = [request EXCEPT ![c].pc = "forward"]

\* Mutant of stripUntrustedHeaders: the client's X-User-ID is left in place.
KeepHeader(claimed) == claimed

\* stripUntrustedHeaders: whatever X-User-ID the client claims.
stripUntrustedHeaders(claimed) == "none"

\* A request enters: headers are stripped, then the route decides what follows.
Receive(c, route, e, form, token, claimed) ==
    /\ request[c].pc = "idle"
    /\ received < MaxRequests
    /\ received' = received + 1
    /\ request' = [request EXCEPT ![c] =
          [pc |-> IF route \in Protected THEN "jwt" ELSE "limit", route |-> route,
           email |-> e, form |-> form, token |-> token,
           subject |-> stripUntrustedHeaders(claimed), checked |-> 0]]
    /\ UNCHANGED <<upstreamVars, now, limiterVars, wallet, acknowledged>>

\* RequireJWT: the subject of a valid token becomes the trusted header, else 401.
RequireJWT(c) ==
    /\ request[c].pc = "jwt"
    /\ IF ValidToken(request[c].token)
       THEN request' = [request EXCEPT ![c].pc = "limit", ![c].checked = now, ![c].token = NoToken,
                                       ![c].subject = request[c].token.sub]
       ELSE Done(c)
    /\ UNCHANGED <<upstreamVars, now, received, limiterVars, wallet, acknowledged>>

-----------------------------------------------------------------------------
\* Mutant of Key: every request by the address it comes from.
KeyByIP(c) == <<"ip", Address[c]>>

\* KeyBySubjectOrIP: the claims that RequireJWT put on the context, if it ran,
\* else ClientIP, the connection's address whatever X-Forwarded-For says.
Key(c) ==
    IF request[c].route \in Protected THEN <<"user", request[c].subject>> ELSE <<"ip", Address[c]>>

\* tokenbucket.lua: the tokens of a key at this moment.
Tokens(k) ==
    LET elapsed == now - bucket[k].ts
        more == bucket[k].tokens + elapsed * Limit
    IN  IF elapsed <= 0 THEN bucket[k].tokens ELSE IF more > Full THEN Full ELSE more

\* tostring(now), to the nearest multiple of Grain.
Stored(t) == ((t + Grain \div 2) \div Grain) * Grain

\* secondsCeil, of the time in which this much of a token is refilled.
secondsCeil(wait) == (wait + Limit * Second - 1) \div (Limit * Second)

\* Mutant of retryAfterSeconds: the whole seconds of the duration.
truncatedSeconds(k) == (Window - Tokens(k)) \div (Limit * Second)

\* retryAfterSeconds of the script's (1 - tokens) / rate.
retryAfterSeconds(k) ==
    LET s == secondsCeil(Window - Tokens(k))
    IN  IF s < 1 THEN 1 ELSE s

\* The script stores the refilled bucket, less the token if there is one.
Script(k) ==
    /\ bucket' = [bucket EXCEPT ![k] =
          [tokens |-> IF Tokens(k) >= Window THEN Tokens(k) - Window ELSE Tokens(k),
           ts |-> Stored(now)]]
    /\ early' = [early EXCEPT ![k][now] = IF now > Stored(now) THEN @ + (now - Stored(now)) ELSE @]
    /\ stalled' = [stalled EXCEPT ![k] = @ \cup ((now + 1)..Stored(now))]

Spend(k) == through' = [through EXCEPT ![k][now] = @ + 1]

Allowed(c) ==
    /\ request[c].pc = "limit"
    /\ Tokens(Key(c)) >= Window
    /\ Script(Key(c))
    /\ Spend(Principal(c))
    /\ promised' = [promised EXCEPT ![Key(c)] = {}]
    /\ Forward(c)
    /\ UNCHANGED <<upstreamVars, now, received, wallet, acknowledged>>

\* 429 with Retry-After.
Refused(c) ==
    LET k == Key(c)
    IN  /\ request[c].pc = "limit"
        /\ Tokens(k) < Window
        /\ Script(k)
        /\ promised' = [promised EXCEPT ![k] =
              @ \cup {[at |-> now, over |-> now + retryAfterSeconds(k) * Second]}]
        /\ Done(c)
        /\ UNCHANGED <<upstreamVars, now, received, through, wallet, acknowledged>>

\* Mutant of WithoutLimiter: a limiter error lets the request through.
PassWithoutLimiter(c) == Forward(c)

\* Allow returned an error: 503, or the next handler if configured to fail open.
WithoutLimiter(c) == IF FailOpen THEN Forward(c) ELSE Done(c)

\* Redis is unreachable, before the script ran or once it has taken its token
\* or found none.
LimiterFails(c) ==
    LET k == Key(c)
    IN  /\ request[c].pc = "limit"
        /\ WithoutLimiter(c)
        /\ \/ /\ IF request'[c].pc = "forward" THEN Spend(Principal(c)) ELSE UNCHANGED through
              /\ UNCHANGED promised
              /\ UNCHANGED bucketVars \/ (Tokens(k) < Window /\ Script(k))
           \/ /\ Tokens(k) >= Window
              /\ Script(k)
              /\ Spend(Principal(c))
              /\ promised' = [promised EXCEPT ![k] = {}]
        /\ UNCHANGED <<upstreamVars, now, received, wallet, acknowledged>>

-----------------------------------------------------------------------------
\* getOrder: another user's order is not found.  One order is followed.
ReadOrder(subject) == Reply(IF owner # "none" /\ owner = subject THEN 200 ELSE 404, NoToken)

\* What the service behind the route replies.
Served(c) ==
    LET r == request[c]
    IN  CASE r.route = "signup" -> Signup(c, r.email, r.form)
          [] r.route = "login" -> Login(c, r.email, r.form)
          [] r.route = "me" -> Me(r.subject)
          [] r.route = "create" -> Reply(201, NoToken)
          [] r.route = "read" -> ReadOrder(r.subject)

\* What the service behind the route does to its tables.
Serve(c) ==
    LET r == request[c]
    IN  /\ r.pc = "forward"
        /\ users' = IF r.route = "signup" /\ r.form # "malformed"
                    THEN CreateUser(c, r.email) ELSE users
        /\ owner' = IF r.route = "create" /\ owner = "none" THEN r.subject ELSE owner

\* The proxy relays the reply, and the client keeps a token it contains.
Proxied(c) ==
    LET r == request[c]
        reply == Served(c)
    IN  /\ Serve(c)
        /\ Done(c)
        /\ wallet' = IF reply.token.signed THEN [wallet EXCEPT ![c] = reply.token] ELSE wallet
        /\ acknowledged' = IF r.route = "signup" /\ reply.code = 201
                           THEN [acknowledged EXCEPT ![r.email] = c] ELSE acknowledged
        /\ UNCHANGED <<now, received, limiterVars>>

\* The upstream does not answer: it is down, or it did the work and its reply
\* was lost or too late for ResponseHeaderTimeout.  The client is told 502, or
\* nothing when WriteTimeout, just as long and started earlier, has closed the
\* connection.
UpstreamFails(c) ==
    /\ request[c].pc = "forward"
    /\ Serve(c) \/ UNCHANGED upstreamVars
    /\ Done(c)
    /\ UNCHANGED <<now, received, limiterVars, wallet, acknowledged>>

Tick ==
    /\ now < MaxTime
    /\ now' = now + 1
    /\ UNCHANGED <<upstreamVars, request, received, limiterVars, wallet, acknowledged>>

\* The bearer token of a request: the one the client was given, or none or one
\* it cannot have signed.
Bearer(c) == {NoToken, wallet[c]}

Next ==
    \/ \E c \in Clients, e, claimed \in Emails, form \in Forms, route \in {"signup", "login"} :
          Receive(c, route, e, form, NoToken, claimed)
    \/ \E c \in Clients, claimed \in Emails, route \in Protected \cup {"me"} :
          \E token \in Bearer(c) : Receive(c, route, "none", "plain", token, claimed)
    \/ \E c \in Clients : RequireJWT(c) \/ Allowed(c) \/ Refused(c) \/ LimiterFails(c)
    \/ \E c \in Clients : Proxied(c) \/ UpstreamFails(c)
    \/ Tick

Spec == Init /\ [][Next]_vars

-----------------------------------------------------------------------------
\* A request reaches a service in a user's name only for the client that knows
\* the user's password, and only while its token lives: no header, token or
\* route lends it another identity, and the order it is shown is its own.
IdentityIsProven ==
    \A c \in Clients :
        /\ request[c].subject # "none" =>
              /\ users[request[c].subject] = c
              /\ request[c].checked < wallet[c].nbf + Second + TTL
        /\ request[c].pc = "forward" /\ request[c].route = "read" /\ Served(c).code = 200 =>
              users[owner] = c

\* A signup answered with 201 has the address for good: later or concurrent
\* signups, also ones whose answer was lost, never take the account over, and
\* its owner's login that reaches the service with the address plainly spelled is
\* answered 200.
AccountsLast ==
    /\ \A e \in Emails : acknowledged[e] # "none" => users[e] = acknowledged[e]
    /\ \A c \in Clients :
          LET r == request[c]
          IN  r.pc = "forward" /\ r.route = "login" /\ r.form = "plain" /\ acknowledged[r.email] = c =>
                 Served(c).code = 200

\* What a history of the principal counts from tick s to now, one element per
\* unit: requests let through, ticks by which a stored ts was too early.
Since(count, s) == UNION {{i} \X (1..count[i]) : i \in s..now}

\* Ticks from s to now in which the bucket of k was not refilled.
Stalled(k, s) == stalled[k] \cap (s..now)

\* A request is refused for what its account, or on the public routes its
\* address with every client behind it, has itself used within the last Window:
\* Limit requests, or fewer only by what did not refill while ts was ahead of
\* the clock.  No other account, no other address and no rejected token spends
\* its budget, and what clients do under one address spends no account's.
RefusedForOwnTraffic ==
    \A c \in Clients : request[c].pc = "limit" /\ Tokens(Key(c)) < Window =>
        LET k == Principal(c)
            from == IF now < Window THEN 0 ELSE now - Window + 1
        IN  Cardinality(Since(through[k], from)) * Window
                + Cardinality(Stalled(k, from)) * Limit > Full - Window

\* The services behind the gateway are shielded from every principal: in any
\* span of time no more than a full bucket and its refill comes through, while
\* the limiter is unreachable too; but time by which the stored ts was too
\* early, after a refused request too, refills again.
ShieldedFromBursts ==
    \A k \in Principals, s \in 0..now :
        Cardinality(Since(through[k], s)) * Window <=
            Full + (now - s + Cardinality(Since(early[k], s))) * Limit

\* A client that waits as long as Retry-After said, and for as many ticks more as
\* did not refill the bucket since because a call stored its ts ahead of the
\* clock, is let through, unless the key was used in between.
RetryAfterIsEnough ==
    \A k \in Principals : \A p \in promised[k] :
        now >= p.over + Cardinality(Stalled(k, p.at + 1)) => Tokens(k) >= Window

\* What ADR 0001 says of Retry-After: a client that obeys it exactly is never
\* denied twice for the same reason.
ObeyedRetryIsServed ==
    \A k \in Principals : \A p \in promised[k] : now >= p.over => Tokens(k) >= Window
=============================================================================
