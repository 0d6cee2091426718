---------------------------- MODULE GatewayProofs ----------------------------
(***************************************************************************)
(* Proofs about the gateway, the auth service and the token bucket that    *)
(* shields them, for every set of clients and addresses, every limit,      *)
(* window and token lifetime, and every interleaving of requests, lost     *)
(* replies and limiter errors.                                             *)
(***************************************************************************)
EXTENDS Gateway, FiniteSetTheorems, TLAPS

TokenRecords == [sub : Emails \cup {"none"}, nbf : Nat, exp : Nat, signed : BOOLEAN]

Steps == {"idle", "jwt", "limit", "forward"}

Routes == Public \cup Protected \cup {"none"}

RequestRecords ==
    [pc : Steps, route : Routes, email : Emails \cup {"none"}, form : Forms,
     token : TokenRecords, subject : Emails \cup {"none"}, checked : Nat]

Types ==
    /\ users \in [Emails -> Clients \cup {"none"}]
    /\ acknowledged \in [Emails -> Clients \cup {"none"}]
    /\ owner \in Emails \cup {"none"}
    /\ now \in 0..MaxTime
    /\ request \in [Clients -> RequestRecords]
    /\ wallet \in [Clients -> TokenRecords]

(* A token a client holds is of an account it has the password of, and lives   *)
(* no longer than TTL and the rounding of its first second.                    *)
WalletKnows(c) ==
    wallet[c].signed =>
        /\ wallet[c].sub # "none" /\ users[wallet[c].sub] = c
        /\ wallet[c].exp <= wallet[c].nbf + Second + TTL

(* What a request under way carries: the client's own token until RequireJWT   *)
(* has checked it, the token's subject from then on.                           *)
RequestKnows(c) ==
    LET r == request[c]
    IN  /\ r.pc = "jwt" => r.token \in {NoToken, wallet[c]}
        /\ r.subject # "none" =>
              users[r.subject] = c /\ r.checked < wallet[c].nbf + Second + TTL
        /\ r.pc \in {"limit", "forward"} /\ r.route \in Protected => r.subject # "none"
        /\ r.pc # "idle" => r.route # "none"
        /\ r.pc # "idle" /\ r.route \in {"signup", "login"} => r.email # "none"

(* The inductive invariant behind the properties of identities. *)
IdentityInv ==
    /\ Types
    /\ \A c \in Clients : WalletKnows(c) /\ RequestKnows(c)
    /\ \A e \in Emails : acknowledged[e] # "none" => users[e] = acknowledged[e]

LEMMA NoTokenTyped == NoToken \in TokenRecords /\ ~NoToken.signed
BY DEF NoToken, TokenRecords

LEMMA IdleTyped ==
    /\ Idle \in RequestRecords /\ Idle.pc = "idle" /\ Idle.subject = "none"
BY NoTokenTyped DEF Idle, RequestRecords, Steps, Routes, Forms

(* At the start everybody is idle and nobody has a token. *)
LEMMA IdentityStart == Init => IdentityInv
<1> SUFFICES ASSUME Init PROVE IdentityInv
  OBVIOUS
<1>1. Types
  BY NoTokenTyped, IdleTyped, GatewayAssumption DEF Init, Types
<1>2. ASSUME NEW c \in Clients PROVE WalletKnows(c) /\ RequestKnows(c)
  <2>1. wallet[c] = NoToken /\ request[c] = Idle
    BY DEF Init
  <2>2. WalletKnows(c)
    BY <2>1, NoTokenTyped DEF WalletKnows
  <2>3. RequestKnows(c)
    BY <2>1, IdleTyped DEF RequestKnows
  <2> QED
    BY <2>2, <2>3
<1> QED
  BY <1>1, <1>2 DEF IdentityInv, Init

(* An account once taken keeps its owner. *)
AccountsKept == \A e \in Emails : users[e] # "none" => users'[e] = users[e]

(* A step of one client's request keeps the invariant if what it leaves that   *)
(* client with is true.                                                        *)
LEMMA ClientKeeps ==
    ASSUME IdentityInv, NEW c \in Clients, NEW r \in RequestRecords, NEW t \in TokenRecords,
           request' = [request EXCEPT ![c] = r], wallet' = [wallet EXCEPT ![c] = t],
           now' \in 0..MaxTime,
           users' \in [Emails -> Clients \cup {"none"}], AccountsKept,
           acknowledged' \in [Emails -> Clients \cup {"none"}],
           \A e \in Emails : acknowledged'[e] # "none" => users'[e] = acknowledged'[e],
           owner' \in Emails \cup {"none"},
           WalletKnows(c)', RequestKnows(c)'
    PROVE  IdentityInv'
<1>1. Types'
  BY DEF IdentityInv, Types
<1>2. ASSUME NEW d \in Clients, d # c PROVE WalletKnows(d)' /\ RequestKnows(d)'
  <2>1. wallet'[d] = wallet[d] /\ request'[d] = request[d]
    BY <1>2 DEF IdentityInv, Types
  <2>2. wallet[d] \in TokenRecords /\ request[d] \in RequestRecords
    BY DEF IdentityInv, Types
  <2>3. wallet[d].sub \in Emails \cup {"none"} /\ request[d].subject \in Emails \cup {"none"} /\ d # "none"
    BY <2>2, AuthAssumption DEF TokenRecords, RequestRecords
  <2>4. WalletKnows(d)'
    BY <2>1, <2>3 DEF IdentityInv, WalletKnows, AccountsKept
  <2>5. RequestKnows(d)'
    BY <2>1, <2>3 DEF IdentityInv, RequestKnows, AccountsKept
  <2> QED
    BY <2>4, <2>5
<1> QED
  BY <1>1, <1>2 DEF IdentityInv

(* A request that ends, its client's wallet kept, leaves nothing to know. *)
LEMMA DoneKeeps ==
    ASSUME IdentityInv, NEW c \in Clients, Done(c), NEW t \in TokenRecords,
           wallet' = [wallet EXCEPT ![c] = t], WalletKnows(c)', now' \in 0..MaxTime,
           users' \in [Emails -> Clients \cup {"none"}], AccountsKept,
           acknowledged' \in [Emails -> Clients \cup {"none"}],
           \A e \in Emails : acknowledged'[e] # "none" => users'[e] = acknowledged'[e],
           owner' \in Emails \cup {"none"}
    PROVE  IdentityInv'
<1>1. request' = [request EXCEPT ![c] = Idle] /\ request'[c] = Idle
  BY DEF Done, IdentityInv, Types
<1>2. RequestKnows(c)'
  BY <1>1, IdleTyped DEF RequestKnows
<1> QED
  BY <1>1, <1>2, IdleTyped, ClientKeeps
-----------------------------------------------------------------------------
(* A quotient is rounded down by less than its divisor. *)
LEMMA Floor ==
    ASSUME NEW a \in Nat, NEW d \in Nat \ {0}
    PROVE  /\ a \div d \in Nat
           /\ (a \div d) * d \in Nat
           /\ (a \div d) * d <= a /\ a < (a \div d) * d + d
<1>1. (a \div d) * d <= a /\ a < (a \div d) * d + d
  OBVIOUS
<1>2. a \div d \in Nat
  OBVIOUS
<1> QED
  BY <1>1, <1>2

(* A token issued lives at most TTL and the second its nbf is rounded down in. *)
LEMMA TokenLives ==
    ASSUME Types, NEW e \in Emails
    PROVE  /\ Token(e) \in TokenRecords
           /\ Token(e).signed /\ Token(e).sub = e
           /\ Token(e).exp <= Token(e).nbf + Second + TTL
<1>1. now \in Nat /\ now + TTL \in Nat /\ Second \in Nat \ {0} /\ TTL \in Nat
  BY AuthAssumption, GatewayAssumption DEF Types
<1>2. /\ NumericDate(now) \in Nat
      /\ now < NumericDate(now) + Second
  BY <1>1, Floor DEF NumericDate
<1>3. /\ NumericDate(now + TTL) \in Nat
      /\ NumericDate(now + TTL) <= now + TTL
  BY <1>1, Floor DEF NumericDate
<1>4. NumericDate(now + TTL) <= NumericDate(now) + Second + TTL
  BY <1>1, <1>2, <1>3
<1> QED
  BY <1>2, <1>3, <1>4 DEF Token, TokenRecords

(* What holds of one client. *)
LEMMA ClientTyped ==
    ASSUME IdentityInv, NEW c \in Clients
    PROVE  /\ request[c] \in RequestRecords /\ wallet[c] \in TokenRecords
           /\ wallet = [wallet EXCEPT ![c] = wallet[c]]
           /\ WalletKnows(c) /\ RequestKnows(c)
BY DEF IdentityInv, Types

(* A request enters without an identity, its token as yet unchecked. *)
LEMMA ReceiveKeepsIdentity ==
    ASSUME IdentityInv, NEW c \in Clients, NEW route \in Public \cup Protected,
           NEW e \in Emails \cup {"none"}, NEW form \in Forms,
           NEW token \in {NoToken, wallet[c]}, NEW claimed,
           route \in {"signup", "login"} => e # "none",
           Receive(c, route, e, form, token, claimed)
    PROVE  IdentityInv'
<1>0. wallet[c] \in TokenRecords /\ wallet = [wallet EXCEPT ![c] = wallet[c]] /\ WalletKnows(c)
  BY ClientTyped
<1>1. token \in TokenRecords
  BY <1>0, NoTokenTyped
<1>2. PICK r : /\ r.pc = IF route \in Protected THEN "jwt" ELSE "limit"
               /\ r.route = route /\ r.email = e /\ r.token = token /\ r.subject = "none"
               /\ r \in RequestRecords
               /\ request' = [request EXCEPT ![c] = r]
  <2> DEFINE s == [pc |-> IF route \in Protected THEN "jwt" ELSE "limit", route |-> route,
                   email |-> e, form |-> form, token |-> token, subject |-> "none", checked |-> 0]
  <2>1. s \in RequestRecords
    BY <1>1 DEF RequestRecords, Steps, Routes
  <2>2. request' = [request EXCEPT ![c] = s]
    BY DEF Receive, stripUntrustedHeaders
  <2> QED
    BY <2>1, <2>2
<1>3. /\ wallet' = wallet /\ users' = users /\ now' = now
      /\ owner' = owner /\ acknowledged' = acknowledged
  BY DEF Receive, upstreamVars
<1>4. request'[c] = r
  BY <1>2 DEF IdentityInv, Types
<1>5. RequestKnows(c)'
  BY <1>2, <1>3, <1>4 DEF RequestKnows, Public, Protected
<1>6. WalletKnows(c)'
  BY <1>0, <1>3 DEF WalletKnows
<1> QED
  BY <1>0, <1>2, <1>3, <1>5, <1>6, ClientKeeps DEF IdentityInv, Types, AccountsKept

(* RequireJWT hands on the subject of a token the client was given. *)
LEMMA RequireJWTKeepsIdentity ==
    ASSUME IdentityInv, NEW c \in Clients, RequireJWT(c)
    PROVE  IdentityInv'
<1>0. /\ request[c] \in RequestRecords /\ wallet[c] \in TokenRecords
      /\ wallet = [wallet EXCEPT ![c] = wallet[c]] /\ WalletKnows(c) /\ RequestKnows(c)
  BY ClientTyped
<1>1. /\ wallet' = wallet /\ users' = users /\ now' = now
      /\ owner' = owner /\ acknowledged' = acknowledged
  BY DEF RequireJWT, upstreamVars
<1>2. WalletKnows(c)'
  BY <1>0, <1>1 DEF WalletKnows
<1>3. CASE ~ValidToken(request[c].token)
  BY <1>0, <1>1, <1>2, <1>3, DoneKeeps DEF RequireJWT, IdentityInv, Types, AccountsKept
<1>4. CASE ValidToken(request[c].token)
  <2>1. request[c].token = wallet[c]
    BY <1>0, <1>4, NoTokenTyped DEF RequireJWT, RequestKnows, ValidToken
  <2>2. wallet[c].signed /\ now < wallet[c].exp
    BY <1>4, <2>1 DEF ValidToken
  <2>3. now \in Nat
    BY GatewayAssumption DEF IdentityInv, Types
  <2>4. wallet[c].nbf \in Nat /\ wallet[c].exp \in Nat /\ wallet[c].sub \in Emails \cup {"none"}
    BY <1>0 DEF TokenRecords
  <2>5. now < wallet[c].nbf + Second + TTL
    BY <1>0, <2>2, <2>3, <2>4, AuthAssumption DEF WalletKnows
  <2>6. PICK r : /\ r.pc = "limit" /\ r.subject = wallet[c].sub /\ r.checked = now
                 /\ r.route = request[c].route /\ r.email = request[c].email
                 /\ r \in RequestRecords
                 /\ request' = [request EXCEPT ![c] = r]
    <3> DEFINE s == [request[c] EXCEPT !.pc = "limit", !.checked = now, !.token = NoToken,
                                       !.subject = request[c].token.sub]
    <3>1. s \in RequestRecords
      BY <1>0, <2>1, <2>3, <2>4, NoTokenTyped DEF RequestRecords, Steps
    <3>2. s.pc = "limit" /\ s.subject = wallet[c].sub /\ s.checked = now
          /\ s.route = request[c].route /\ s.email = request[c].email
      BY <1>0, <2>1 DEF RequestRecords
    <3>3. request' = [request EXCEPT ![c] = s]
      BY <1>4 DEF RequireJWT, IdentityInv, Types
    <3> QED
      BY <3>1, <3>2, <3>3
  <2>7. request'[c] = r
    BY <2>6 DEF IdentityInv, Types
  <2>8. RequestKnows(c)'
    BY <1>0, <1>1, <2>2, <2>5, <2>6, <2>7 DEF RequestKnows, WalletKnows, RequireJWT
  <2> QED
    BY <1>0, <1>1, <1>2, <2>6, <2>8, ClientKeeps DEF IdentityInv, Types, AccountsKept
<1> QED
  BY <1>3, <1>4
(* A request that is let through carries what it carried. *)
LEMMA ForwardKeepsIdentity ==
    ASSUME IdentityInv, NEW c \in Clients, request[c].pc = "limit", Forward(c),
           UNCHANGED <<upstreamVars, now, wallet, acknowledged>>
    PROVE  IdentityInv'
<1>0. /\ request[c] \in RequestRecords /\ wallet[c] \in TokenRecords
      /\ wallet = [wallet EXCEPT ![c] = wallet[c]] /\ WalletKnows(c) /\ RequestKnows(c)
  BY ClientTyped
<1>1. users' = users /\ owner' = owner /\ wallet' = wallet
  BY DEF upstreamVars
<1>2. PICK r : /\ r.pc = "forward" /\ r.subject = request[c].subject
               /\ r.checked = request[c].checked
               /\ r.route = request[c].route /\ r.email = request[c].email
               /\ r \in RequestRecords
               /\ request' = [request EXCEPT ![c] = r]
  <2> DEFINE s == [request[c] EXCEPT !.pc = "forward"]
  <2>1. s \in RequestRecords
    BY <1>0 DEF RequestRecords, Steps
  <2>2. /\ s.pc = "forward" /\ s.subject = request[c].subject
        /\ s.checked = request[c].checked
        /\ s.route = request[c].route /\ s.email = request[c].email
    BY <1>0 DEF RequestRecords
  <2>3. request' = [request EXCEPT ![c] = s]
    BY DEF Forward, IdentityInv, Types
  <2> QED
    BY <2>1, <2>2, <2>3
<1>3. request'[c] = r
  BY <1>2 DEF IdentityInv, Types
<1>4. RequestKnows(c)'
  BY <1>0, <1>1, <1>2, <1>3 DEF RequestKnows
<1>5. WalletKnows(c)'
  BY <1>0, <1>1 DEF WalletKnows
<1> QED
  BY <1>0, <1>1, <1>2, <1>4, <1>5, ClientKeeps DEF IdentityInv, Types, AccountsKept

(* A request that is answered by the gateway itself changes no table. *)
LEMMA AnswerKeepsIdentity ==
    ASSUME IdentityInv, NEW c \in Clients, Done(c),
           UNCHANGED <<upstreamVars, now, wallet, acknowledged>>
    PROVE  IdentityInv'
<1>0. /\ wallet[c] \in TokenRecords
      /\ wallet = [wallet EXCEPT ![c] = wallet[c]] /\ WalletKnows(c)
  BY ClientTyped
<1>1. users' = users /\ owner' = owner /\ wallet' = wallet
  BY DEF upstreamVars
<1>2. WalletKnows(c)'
  BY <1>0, <1>1 DEF WalletKnows
<1> QED
  BY <1>0, <1>1, <1>2, DoneKeeps DEF IdentityInv, Types, AccountsKept

(* The services take no account from its owner. *)
LEMMA ServeKeepsAccounts ==
    ASSUME IdentityInv, NEW c \in Clients, Serve(c)
    PROVE  /\ users' \in [Emails -> Clients \cup {"none"}] /\ AccountsKept
           /\ owner' \in Emails \cup {"none"}
           /\ \A e \in Emails : acknowledged[e] # "none" => users'[e] = acknowledged[e]
<1>0. request[c] \in RequestRecords /\ RequestKnows(c)
  BY ClientTyped
<1>1. request[c].subject \in Emails \cup {"none"} /\ request[c].email \in Emails \cup {"none"}
  BY <1>0 DEF RequestRecords
<1>2. owner' \in Emails \cup {"none"}
  BY <1>1 DEF Serve, IdentityInv, Types
<1>3. users \in [Emails -> Clients \cup {"none"}] /\ "none" \notin Clients
  BY AuthAssumption DEF IdentityInv, Types
<1>4. users' = users \/ users' = CreateUser(c, request[c].email)
  BY DEF Serve
<1>5. users' \in [Emails -> Clients \cup {"none"}] /\ AccountsKept
  BY <1>3, <1>4 DEF CreateUser, AccountsKept
<1> QED
  BY <1>2, <1>5, <1>3, AuthAssumption DEF IdentityInv, AccountsKept

(* A token in a reply is the caller's: it is issued for an account that is or  *)
(* has just become the caller's.                                               *)
LEMMA ReplyIsOwn ==
    ASSUME IdentityInv, NEW c \in Clients, Serve(c)
    PROVE  /\ Served(c).token.signed =>
                 /\ Served(c).token \in TokenRecords
                 /\ Served(c).token.sub # "none" /\ users'[Served(c).token.sub] = c
                 /\ Served(c).token.exp <= Served(c).token.nbf + Second + TTL
           /\ request[c].route = "signup" /\ Served(c).code = 201 =>
                 request[c].email \in Emails /\ users'[request[c].email] = c
<1>0. request[c] \in RequestRecords /\ RequestKnows(c)
  BY ClientTyped
<1>1. request[c].email \in Emails \cup {"none"} /\ request[c].form \in Forms
  BY <1>0 DEF RequestRecords
<1>2. users \in [Emails -> Clients \cup {"none"}] /\ c # "none" /\ "none" \notin Emails
  BY AuthAssumption DEF IdentityInv, Types
<1>3. CASE request[c].route = "signup"
  <2>1. request[c].email \in Emails
    BY <1>0, <1>1, <1>3 DEF RequestKnows, Serve
  <2>2. Served(c) = Signup(c, request[c].email, request[c].form)
    BY <1>3 DEF Served
  <2>3. CASE Served(c) = Reply(201, Token(request[c].email)) /\ request[c].form # "malformed"
             /\ CreateUser(c, request[c].email) # users
    <3>1. users'[request[c].email] = c
      BY <1>2, <1>3, <2>1, <2>3 DEF Serve, CreateUser
    <3>2. Served(c).token = Token(request[c].email)
      BY <2>3 DEF Reply
    <3> QED
      BY <1>2, <2>1, <3>1, <3>2, TokenLives DEF IdentityInv
  <2>4. CASE Served(c) \in {Reply(400, NoToken), Reply(409, NoToken)}
    BY <2>4, NoTokenTyped DEF Reply
  <2> QED
    BY <2>2, <2>3, <2>4 DEF Signup
<1>4. CASE request[c].route = "login"
  <2>1. request[c].email \in Emails
    BY <1>0, <1>1, <1>4 DEF RequestKnows, Serve
  <2>2. Served(c) = Login(c, request[c].email, request[c].form)
    BY <1>4 DEF Served
  <2>3. users' = users
    BY <1>4 DEF Serve
  <2>4. CASE Served(c) = Reply(200, Token(request[c].email)) /\ users[request[c].email] = c
    <3>1. Served(c).token = Token(request[c].email)
      BY <2>4 DEF Reply
    <3> QED
      BY <1>2, <1>4, <2>1, <2>3, <2>4, <3>1, TokenLives DEF IdentityInv
  <2>5. CASE Served(c) = Reply(401, NoToken)
    BY <1>4, <2>5, NoTokenTyped DEF Reply
  <2> QED
    BY <1>2, <2>2, <2>4, <2>5 DEF Login, UserByEmail
<1>5. CASE request[c].route \in {"me", "create", "read"}
  <2>1. Served(c).token = NoToken
    BY <1>5 DEF Served, Me, ReadOrder, Reply
  <2> QED
    BY <1>5, <2>1, NoTokenTyped
<1>6. request[c].route # "none"
  BY <1>0 DEF RequestKnows, Serve
<1> QED
  BY <1>0, <1>3, <1>4, <1>5, <1>6 DEF RequestRecords, Routes, Public, Protected
(* A reply that arrives: the account acknowledged is the caller's, and so is   *)
(* the token it keeps.                                                         *)
LEMMA ProxiedKeepsIdentity ==
    ASSUME IdentityInv, NEW c \in Clients, Proxied(c)
    PROVE  IdentityInv'
<1>0. /\ wallet[c] \in TokenRecords
      /\ wallet = [wallet EXCEPT ![c] = wallet[c]] /\ WalletKnows(c)
  BY ClientTyped
<1>1. Serve(c) /\ Done(c) /\ now' = now
  BY DEF Proxied
<1>2. /\ users' \in [Emails -> Clients \cup {"none"}] /\ AccountsKept
      /\ owner' \in Emails \cup {"none"}
      /\ \A e \in Emails : acknowledged[e] # "none" => users'[e] = acknowledged[e]
  BY <1>1, ServeKeepsAccounts
<1>3. /\ Served(c).token.signed =>
            /\ Served(c).token \in TokenRecords
            /\ Served(c).token.sub # "none" /\ users'[Served(c).token.sub] = c
            /\ Served(c).token.exp <= Served(c).token.nbf + Second + TTL
      /\ request[c].route = "signup" /\ Served(c).code = 201 =>
            request[c].email \in Emails /\ users'[request[c].email] = c
  BY <1>1, ReplyIsOwn
<1>4. /\ acknowledged' \in [Emails -> Clients \cup {"none"}]
      /\ \A e \in Emails : acknowledged'[e] # "none" => users'[e] = acknowledged'[e]
  BY <1>2, <1>3 DEF Proxied, IdentityInv, Types
<1>5. PICK t \in TokenRecords :
         /\ wallet' = [wallet EXCEPT ![c] = t]
         /\ t.signed => /\ t.sub # "none" /\ users'[t.sub] = c
                        /\ t.exp <= t.nbf + Second + TTL
  <2>1. CASE Served(c).token.signed
    BY <1>3, <2>1 DEF Proxied
  <2>2. CASE ~Served(c).token.signed
    <3>1. wallet' = wallet
      BY <2>2 DEF Proxied
    <3>2. wallet[c].sub \in Emails \cup {"none"}
      BY <1>0 DEF TokenRecords
    <3>3. wallet[c].signed => /\ wallet[c].sub # "none" /\ users'[wallet[c].sub] = c
                              /\ wallet[c].exp <= wallet[c].nbf + Second + TTL
      BY <1>0, <1>2, <3>2, AuthAssumption DEF WalletKnows, AccountsKept
    <3> QED
      BY <1>0, <3>1, <3>3
  <2> QED
    BY <2>1, <2>2
<1>6. WalletKnows(c)'
  <2>1. wallet'[c] = t
    BY <1>5 DEF IdentityInv, Types
  <2> QED
    BY <1>5, <2>1 DEF WalletKnows
<1> QED
  BY <1>1, <1>2, <1>4, <1>5, <1>6, DoneKeeps DEF IdentityInv, Types

(* A reply that is lost may have taken an account, which is never somebody's. *)
LEMMA UpstreamFailsKeepsIdentity ==
    ASSUME IdentityInv, NEW c \in Clients, UpstreamFails(c)
    PROVE  IdentityInv'
<1>0. /\ wallet[c] \in TokenRecords
      /\ wallet = [wallet EXCEPT ![c] = wallet[c]] /\ WalletKnows(c)
  BY ClientTyped
<1>1. Done(c) /\ now' = now /\ wallet' = wallet /\ acknowledged' = acknowledged
  BY DEF UpstreamFails
<1>2. CASE Serve(c)
  <2>1. /\ users' \in [Emails -> Clients \cup {"none"}] /\ AccountsKept
        /\ owner' \in Emails \cup {"none"}
        /\ \A e \in Emails : acknowledged[e] # "none" => users'[e] = acknowledged[e]
    BY <1>2, ServeKeepsAccounts
  <2>2. wallet[c].sub \in Emails \cup {"none"}
    BY <1>0 DEF TokenRecords
  <2>3. WalletKnows(c)'
    BY <1>0, <1>1, <2>1, <2>2, AuthAssumption DEF WalletKnows, AccountsKept
  <2> QED
    BY <1>0, <1>1, <2>1, <2>3, DoneKeeps DEF IdentityInv, Types
<1>3. CASE UNCHANGED upstreamVars
  BY <1>1, <1>3, AnswerKeepsIdentity
<1> QED
  BY <1>2, <1>3 DEF UpstreamFails

(* Time passes, and nothing the invariant says mentions it. *)
LEMMA StillKeepsIdentity ==
    ASSUME IdentityInv, now' \in 0..MaxTime,
           UNCHANGED <<upstreamVars, request, wallet, acknowledged>>
    PROVE  IdentityInv'
BY DEF IdentityInv, Types, WalletKnows, RequestKnows, upstreamVars

LEMMA IdentityStep == IdentityInv /\ [Next]_vars => IdentityInv'
<1> SUFFICES ASSUME IdentityInv, [Next]_vars PROVE IdentityInv'
  OBVIOUS
<1>1. ASSUME NEW c \in Clients, NEW e \in Emails, NEW claimed \in Emails, NEW form \in Forms,
             NEW route \in {"signup", "login"},
             Receive(c, route, e, form, NoToken, claimed)
      PROVE  IdentityInv'
  BY <1>1, ReceiveKeepsIdentity, AuthAssumption DEF Public
<1>2. ASSUME NEW c \in Clients, NEW claimed \in Emails, NEW route \in Protected \cup {"me"},
             NEW token \in Bearer(c), Receive(c, route, "none", "plain", token, claimed)
      PROVE  IdentityInv'
  BY <1>2, ReceiveKeepsIdentity DEF Public, Protected, Bearer, Forms
<1>3. ASSUME NEW c \in Clients, RequireJWT(c) PROVE IdentityInv'
  BY <1>3, RequireJWTKeepsIdentity
<1>4. ASSUME NEW c \in Clients, Allowed(c) PROVE IdentityInv'
  BY <1>4, ForwardKeepsIdentity DEF Allowed
<1>5. ASSUME NEW c \in Clients, Refused(c) PROVE IdentityInv'
  BY <1>5, AnswerKeepsIdentity DEF Refused
<1>6. ASSUME NEW c \in Clients, LimiterFails(c) PROVE IdentityInv'
  BY <1>6, ForwardKeepsIdentity, AnswerKeepsIdentity DEF LimiterFails, WithoutLimiter
<1>7. ASSUME NEW c \in Clients, Proxied(c) PROVE IdentityInv'
  BY <1>7, ProxiedKeepsIdentity
<1>8. ASSUME NEW c \in Clients, UpstreamFails(c) PROVE IdentityInv'
  BY <1>8, UpstreamFailsKeepsIdentity
<1>9. CASE Tick
  BY <1>9, StillKeepsIdentity, GatewayAssumption DEF Tick, IdentityInv, Types
<1>10. CASE UNCHANGED vars
  BY <1>10, StillKeepsIdentity DEF vars, IdentityInv, Types
<1> QED
  BY <1>1, <1>2, <1>3, <1>4, <1>5, <1>6, <1>7, <1>8, <1>9, <1>10 DEF Next

LEMMA IdentityHolds == Spec => []IdentityInv
BY IdentityStart, IdentityStep, PTL DEF Spec

(* RequireJWT, stripUntrustedHeaders and getOrder: for any clients, addresses  *)
(* and token lifetime a request acts in a user's name only for the client that *)
(* knows the password, on a token that lives, and is shown its own order only. *)
THEOREM GatewayProvesIdentity == Spec => []IdentityIsProven
<1>1. IdentityInv => IdentityIsProven
  <2> SUFFICES ASSUME IdentityInv, NEW c \in Clients
               PROVE  /\ request[c].subject # "none" =>
                            /\ users[request[c].subject] = c
                            /\ request[c].checked < wallet[c].nbf + Second + TTL
                      /\ request[c].pc = "forward" /\ request[c].route = "read"
                            /\ Served(c).code = 200 => users[owner] = c
    BY DEF IdentityIsProven
  <2>1. RequestKnows(c)
    BY ClientTyped
  <2>2. ASSUME request[c].pc = "forward", request[c].route = "read", Served(c).code = 200
        PROVE  owner # "none" /\ owner = request[c].subject
    BY <2>2 DEF Served, ReadOrder, Reply
  <2> QED
    BY <2>1, <2>2 DEF RequestKnows
<1> QED
  BY <1>1, IdentityHolds, PTL

(* signup, CreateUser and login: an account acknowledged with 201 stays with   *)
(* the client it was acknowledged to, whichever signups race it or lose their  *)
(* reply, and its login is answered 200.                                       *)
THEOREM GatewayAccountsLast == Spec => []AccountsLast
<1>1. IdentityInv => AccountsLast
  <2> SUFFICES ASSUME IdentityInv PROVE AccountsLast
    OBVIOUS
  <2>1. ASSUME NEW c \in Clients, request[c].pc = "forward", request[c].route = "login",
               request[c].form = "plain", acknowledged[request[c].email] = c
        PROVE  Served(c).code = 200
    <3>1. request[c] \in RequestRecords /\ RequestKnows(c) /\ c # "none"
      BY ClientTyped, AuthAssumption
    <3>2. request[c].email \in Emails
      BY <2>1, <3>1 DEF RequestRecords, RequestKnows
    <3>3. users[request[c].email] = c
      BY <2>1, <3>1, <3>2 DEF IdentityInv
    <3> QED
      BY <2>1, <3>3 DEF Served, Login, UserByEmail, Reply
  <2> QED
    BY <2>1 DEF AccountsLast, IdentityInv
<1> QED
  BY <1>1, IdentityHolds, PTL
-----------------------------------------------------------------------------
(* The limiter, one key at a time: b is the key's bucket, f what its principal *)
(* used at each tick, e by how much its calls stored a ts too early, S the     *)
(* ticks without refill, P the waits it was promised, n the time.              *)

Level(b, n) ==
    LET elapsed == n - b.ts
        more == b.tokens + elapsed * Limit
    IN  IF elapsed <= 0 THEN b.tokens ELSE IF more > Full THEN Full ELSE more

LEMMA LimitTyped ==
    /\ Limit \in Nat /\ Limit >= 1 /\ Window \in Nat /\ Window >= 1 /\ MaxTime \in Nat
    /\ Full \in Nat /\ Full >= Window /\ Full >= Limit
BY GatewayAssumption DEF Full

(* What a count f of units at each tick amounts to from s up to time n. *)

Spent(f, s, n) == UNION {{i} \X (1..f[i]) : i \in s..n}

Count(f, s, n) == Cardinality(Spent(f, s, n))

Tallied(f, n) ==
    /\ n \in 0..MaxTime
    /\ f \in [0..MaxTime -> Nat]
    /\ \A i \in 0..MaxTime : i > n => f[i] = 0
    /\ \A s \in 0..(n + 1) : IsFiniteSet(Spent(f, s, n))

(* k units more now. *)
More(f, n, k) == [f EXCEPT ![n] = @ + k]

(* They are k more in every span up to now. *)
LEMMA SpentMore ==
    ASSUME NEW n \in 0..MaxTime, NEW f \in [0..MaxTime -> Nat], NEW s \in 0..n, NEW k \in Nat,
           IsFiniteSet(Spent(f, s, n)), NEW g, g = More(f, n, k)
    PROVE  /\ IsFiniteSet(Spent(g, s, n))
           /\ Cardinality(Spent(g, s, n)) = Cardinality(Spent(f, s, n)) + k
<1> DEFINE I == (f[n] + 1)..(f[n] + k)
           N == {n} \X I
<1>1. g \in [0..MaxTime -> Nat] /\ g[n] = f[n] + k /\ f[n] \in Nat /\ n \in Nat
  BY LimitTyped DEF More
<1>2. \A i \in s..n : i # n => g[i] = f[i]
  BY LimitTyped DEF More
<1>3. \A x : x \in Spent(f, s, n) <=> \E i \in s..n : \E j \in 1..f[i] : x = <<i, j>>
  BY DEF Spent
<1>4. \A x : x \in Spent(g, s, n) <=> \E i \in s..n : \E j \in 1..g[i] : x = <<i, j>>
  BY DEF Spent
<1>5. \A x : x \in N <=> \E j \in I : x = <<n, j>>
  OBVIOUS
<1>6. n \in s..n /\ \A j : j \in 1..g[n] <=> j \in 1..f[n] \/ j \in I
  BY <1>1
<1>7. \A j \in I : j \notin 1..f[n]
  BY <1>1
<1> HIDE DEF I, N
<1>8. Spent(f, s, n) \cap N = {}
  BY <1>3, <1>5, <1>7
<1>9. ASSUME NEW x \in Spent(g, s, n) PROVE x \in Spent(f, s, n) \cup N
  <2>0. PICK i \in s..n : \E j \in 1..g[i] : x = <<i, j>>
    BY <1>4
  <2>1. PICK j \in 1..g[i] : x = <<i, j>>
    BY <2>0
  <2>2. CASE i # n
    BY <1>2, <1>3, <2>0, <2>1, <2>2
  <2>3. CASE i = n
    BY <1>3, <1>5, <1>6, <2>0, <2>1, <2>3
  <2> QED
    BY <2>2, <2>3
<1>10. ASSUME NEW x \in Spent(f, s, n) PROVE x \in Spent(g, s, n)
  <2>0. PICK i \in s..n : \E j \in 1..f[i] : x = <<i, j>>
    BY <1>3
  <2>1. PICK j \in 1..f[i] : x = <<i, j>>
    BY <2>0
  <2>2. j \in 1..g[i]
    BY <1>2, <1>6, <2>0, <2>1
  <2> QED
    BY <1>4, <2>0, <2>1, <2>2
<1>11. N \subseteq Spent(g, s, n)
  BY <1>4, <1>5, <1>6
<1>12. Spent(g, s, n) = Spent(f, s, n) \cup N
  BY <1>9, <1>10, <1>11
<1>13. IsFiniteSet(N) /\ Cardinality(N) = k
  <2>1. IsFiniteSet(I) /\ Cardinality(I) = k
    <3>1. PICK a \in Int, b \in Int : a = f[n] + 1 /\ b = f[n] + k
      BY <1>1
    <3>2. (IF a > b THEN 0 ELSE b - a + 1) = k
      BY <1>1, <3>1
    <3> QED
      BY <3>1, <3>2, FS_Interval DEF I
  <2>2. IsFiniteSet({n}) /\ Cardinality({n}) = 1
    BY FS_Singleton
  <2>3. 1 * k = k
    OBVIOUS
  <2> QED
    BY <2>1, <2>2, <2>3, FS_Product DEF N
<1>14. PICK S : S = Spent(f, s, n)
  OBVIOUS
<1>15. IsFiniteSet(S) /\ S \cap N = {} /\ Spent(g, s, n) = S \cup N /\ Cardinality(S) \in Nat
  BY <1>8, <1>12, <1>14, FS_CardinalityType
<1>16. IsFiniteSet(S \cup N) /\ Cardinality(S \cup N) = Cardinality(S) + k - Cardinality({})
  BY <1>13, <1>15, FS_Union
<1>17. Cardinality(S) + k - Cardinality({}) = Cardinality(S) + k
  <2>1. Cardinality({}) = 0
    BY FS_EmptySet
  <2>2. PICK c \in Nat : c = Cardinality(S)
    BY <1>15
  <2> QED
    BY <2>1, <2>2
<1> QED
  BY <1>14, <1>15, <1>16, <1>17

(* A tick at which nothing has come through adds nothing. *)
LEMMA SpentLater ==
    ASSUME NEW n \in Nat, NEW f, f[n + 1] = 0, NEW s \in 0..(n + 1)
    PROVE  Spent(f, s, n + 1) = Spent(f, s, n)
<1>1. s..(n + 1) = (s..n) \cup {n + 1}
  OBVIOUS
<1>2. {n + 1} \X (1..f[n + 1]) = {}
  OBVIOUS
<1> QED
  BY <1>1, <1>2 DEF Spent

LEMMA SpentNothing ==
    ASSUME NEW n \in Nat, NEW f
    PROVE  Spent(f, n + 1, n) = {} /\ IsFiniteSet(Spent(f, n + 1, n)) /\ Cardinality(Spent(f, n + 1, n)) = 0
<1>1. (n + 1)..n = {}
  OBVIOUS
<1>2. Spent(f, n + 1, n) = {}
  BY <1>1 DEF Spent
<1> QED
  BY <1>2, FS_EmptySet

LEMMA CountTyped ==
    ASSUME NEW f, NEW n, Tallied(f, n), NEW s \in 0..(n + 1)
    PROVE  Count(f, s, n) \in Nat
BY FS_CardinalityType DEF Tallied, Count

LEMMA TallyMore ==
    ASSUME NEW f, NEW n, Tallied(f, n), NEW k \in Nat
    PROVE  /\ Tallied(More(f, n, k), n)
           /\ \A s \in 0..n : Count(More(f, n, k), s, n) = Count(f, s, n) + k
           /\ Count(More(f, n, k), n + 1, n) = 0
<1>0. PICK g : g = More(f, n, k)
  OBVIOUS
<1>1. n \in 0..MaxTime /\ n \in Nat /\ f \in [0..MaxTime -> Nat]
  BY LimitTyped DEF Tallied
<1>2. ASSUME NEW s \in 0..n
      PROVE  IsFiniteSet(Spent(g, s, n)) /\ Count(g, s, n) = Count(f, s, n) + k
  <2>1. s \in 0..(n + 1) /\ IsFiniteSet(Spent(f, s, n))
    BY <1>1 DEF Tallied
  <2> QED
    BY <1>0, <1>1, <2>1, SpentMore DEF Count
<1>3. IsFiniteSet(Spent(g, n + 1, n)) /\ Count(g, n + 1, n) = 0
  BY <1>1, SpentNothing DEF Count
<1>4. ASSUME NEW s \in 0..(n + 1) PROVE IsFiniteSet(Spent(g, s, n))
  <2>1. s \in 0..n \/ s = n + 1
    BY <1>1
  <2> QED
    BY <1>2, <1>3, <2>1
<1>5. g \in [0..MaxTime -> Nat] /\ \A i \in 0..MaxTime : i > n => g[i] = 0
  BY <1>0, <1>1 DEF Tallied, More
<1> QED
  BY <1>0, <1>1, <1>2, <1>3, <1>4, <1>5 DEF Tallied

(* A tick. *)
LEMMA TallyTicks ==
    ASSUME NEW f, NEW n, Tallied(f, n), n < MaxTime
    PROVE  /\ Tallied(f, n + 1)
           /\ \A s \in 0..(n + 1) : Count(f, s, n + 1) = Count(f, s, n)
           /\ Count(f, n + 2, n + 1) = 0
<1>1. n \in Nat /\ n + 1 \in 0..MaxTime /\ f[n + 1] = 0
  BY LimitTyped DEF Tallied
<1>2. ASSUME NEW s \in 0..(n + 1) PROVE Spent(f, s, n + 1) = Spent(f, s, n)
  BY <1>1, SpentLater
<1>3. PICK m \in Nat : m = n + 1
  BY <1>1
<1>4. IsFiniteSet(Spent(f, m + 1, m)) /\ Count(f, m + 1, m) = 0
  BY SpentNothing DEF Count
<1>5. ASSUME NEW s \in 0..(m + 1) PROVE IsFiniteSet(Spent(f, s, m))
  <2>1. s \in 0..(n + 1) \/ s = m + 1
    BY <1>1, <1>3
  <2>2. CASE s \in 0..(n + 1)
    BY <1>2, <1>3, <2>2 DEF Tallied
  <2> QED
    BY <1>4, <2>1, <2>2
<1>6. Tallied(f, m)
  BY <1>1, <1>3, <1>5 DEF Tallied
<1>7. m + 1 = n + 2
  BY <1>1, <1>3
<1>8. Count(f, n + 2, n + 1) = 0
  BY <1>3, <1>4, <1>7
<1> QED
  BY <1>2, <1>3, <1>6, <1>8 DEF Count

LEMMA TallyStarts ==
    ASSUME NEW f, f = [t \in 0..MaxTime |-> 0]
    PROVE  Tallied(f, 0) /\ \A s \in 0..1 : Count(f, s, 0) = 0
<1>1. ASSUME NEW s \in 0..1 PROVE Spent(f, s, 0) = {}
  <2>1. \A i \in s..0 : i \in 0..MaxTime
    BY LimitTyped
  <2>2. \A i \in s..0 : {i} \X (1..f[i]) = {}
    BY <2>1
  <2> QED
    BY <2>2 DEF Spent
<1>2. \A s \in 0..1 : IsFiniteSet(Spent(f, s, 0)) /\ Count(f, s, 0) = 0
  BY <1>1, FS_EmptySet DEF Count
<1> QED
  BY <1>2, LimitTyped DEF Tallied
-----------------------------------------------------------------------------
(* Ticks of S from s up to time n. *)
Missed(S, s, n) == Cardinality(S \cap (s..n))

LEMMA MissedTyped ==
    ASSUME NEW S, NEW s \in Nat, NEW n \in Nat
    PROVE  Missed(S, s, n) \in Nat /\ IsFiniteSet(S \cap (s..n))
<1>1. IsFiniteSet(s..n)
  BY FS_Interval
<1>2. IsFiniteSet(S \cap (s..n))
  BY <1>1, FS_Intersection
<1> QED
  BY <1>2, FS_CardinalityType DEF Missed

LEMMA MissedNothing ==
    ASSUME NEW S, NEW n \in Nat
    PROVE  Missed(S, n + 1, n) = 0
<1>1. S \cap ((n + 1)..n) = {}
  OBVIOUS
<1> QED
  BY <1>1, FS_EmptySet DEF Missed

(* A tick adds itself, if it is one of S. *)
LEMMA MissedTicks ==
    ASSUME NEW S, NEW n \in Nat, NEW s \in 0..(n + 1)
    PROVE  Missed(S, s, n + 1) = IF n + 1 \in S THEN Missed(S, s, n) + 1 ELSE Missed(S, s, n)
<1>0. s \in Nat /\ IsFiniteSet(S \cap (s..n))
  BY MissedTyped
<1>1. PICK T : T = S \cap (s..n) /\ IsFiniteSet(T)
  BY <1>0
<1>2. n + 1 \notin T
  BY <1>1
<1>3. s..(n + 1) = (s..n) \cup {n + 1}
  OBVIOUS
<1>4. CASE n + 1 \in S
  <2>1. S \cap (s..(n + 1)) = T \cup {n + 1}
    BY <1>1, <1>3, <1>4
  <2>2. Cardinality(T \cup {n + 1}) = Cardinality(T) + 1
    BY <1>1, <1>2, FS_AddElement
  <2> QED
    BY <1>1, <1>4, <2>1, <2>2 DEF Missed
<1>5. CASE n + 1 \notin S
  <2>1. S \cap (s..(n + 1)) = T
    BY <1>1, <1>3, <1>5
  <2> QED
    BY <1>1, <1>5, <2>1 DEF Missed
<1> QED
  BY <1>4, <1>5

(* Ticks to come are not missed yet. *)
LEMMA MissedAhead ==
    ASSUME NEW S, NEW n \in Nat, NEW t \in Nat, NEW s \in Nat
    PROVE  Missed(S \cup ((n + 1)..t), s, n) = Missed(S, s, n)
<1>1. (S \cup ((n + 1)..t)) \cap (s..n) = S \cap (s..n)
  OBVIOUS
<1> QED
  BY <1>1 DEF Missed
-----------------------------------------------------------------------------
Buckets == [tokens : Nat, ts : Nat]

LEMMA Products ==
    ASSUME NEW d \in Int
    PROVE  /\ d * Limit \in Int /\ (d >= 0 => d * Limit \in Nat)
           /\ (d + 1) * Limit = d * Limit + Limit
           /\ d <= 0 => d * Limit <= 0
<1>1. d * Limit \in Int /\ (d + 1) * Limit = d * Limit + Limit
  BY LimitTyped
<1>2. d >= 0 => d * Limit \in Nat
  BY LimitTyped
<1>3. ASSUME d <= 0 PROVE d * Limit <= 0
  <2>1. PICK k \in Nat : d = 0 - k
    <3>1. 0 - d \in Nat /\ d = 0 - (0 - d)
      BY <1>3
    <3> QED
      BY <3>1
  <2>2. (0 - k) * Limit = 0 - k * Limit /\ k * Limit \in Nat
    BY LimitTyped
  <2> QED
    BY <2>1, <2>2
<1> QED
  BY <1>1, <1>2, <1>3

LEMMA LevelTyped ==
    ASSUME NEW n \in Nat, NEW b \in Buckets, b.tokens <= Full
    PROVE  Level(b, n) \in Nat /\ Level(b, n) <= Full
<1>1. PICK x \in Nat, t \in Nat : x = b.tokens /\ t = b.ts
  BY DEF Buckets
<1>2. CASE n - t <= 0
  BY <1>1, <1>2 DEF Level
<1>3. CASE n - t > 0
  <2>1. PICK m \in Nat : m = (n - t) * Limit
    BY <1>3, Products
  <2>2. Level(b, n) = IF x + m > Full THEN Full ELSE x + m
    BY <1>1, <1>3, <2>1 DEF Level
  <2> QED
    BY <2>1, <2>2, LimitTyped
<1> QED
  BY <1>2, <1>3

(* A tick refills Limit units, or as much as the bucket still holds, or        *)
(* nothing while ts is ahead.                                                  *)
LEMMA LevelTicks ==
    ASSUME NEW n \in Nat, NEW b \in Buckets, b.tokens <= Full
    PROVE  \/ Level(b, n + 1) = Full /\ Level(b, n) + Limit >= Full
           \/ Level(b, n + 1) = Level(b, n) + Limit
           \/ n + 1 <= b.ts /\ Level(b, n + 1) = Level(b, n)
<1>1. PICK x \in Nat, t \in Nat : x = b.tokens /\ t = b.ts
  BY DEF Buckets
<1>2. PICK d \in Int : d = n - t /\ n + 1 - t = d + 1
  OBVIOUS
<1>3. PICK m \in Int : /\ m = d * Limit /\ (d + 1) * Limit = m + Limit
                       /\ d >= 0 => m >= 0
                       /\ d <= 0 => m <= 0
  BY Products
<1>4. CASE d < 0
  BY <1>1, <1>2, <1>4 DEF Level
<1>5. CASE d = 0
  <2>1. Level(b, n) = x /\ m = 0
    BY <1>1, <1>2, <1>3, <1>5 DEF Level
  <2>2. Level(b, n + 1) = IF x + (m + Limit) > Full THEN Full ELSE x + (m + Limit)
    BY <1>1, <1>2, <1>3, <1>5 DEF Level
  <2> QED
    BY <2>1, <2>2, LimitTyped
<1>6. CASE d > 0
  <2>1. Level(b, n) = IF x + m > Full THEN Full ELSE x + m
    BY <1>1, <1>2, <1>3, <1>6 DEF Level
  <2>2. Level(b, n + 1) = IF x + (m + Limit) > Full THEN Full ELSE x + (m + Limit)
    BY <1>1, <1>2, <1>3, <1>6 DEF Level
  <2> QED
    BY <1>3, <2>1, <2>2, LimitTyped
<1> QED
  BY <1>4, <1>5, <1>6

(* tokens x stored with a ts t: nothing is lost now, and no more is credited   *)
(* again than t is too early.                                                  *)
LEMMA LevelStored ==
    ASSUME NEW n \in Nat, NEW t \in Nat, NEW x \in Nat, x <= Full,
           NEW k, k = IF n > t THEN n - t ELSE 0
    PROVE  /\ k \in Nat
           /\ Level([tokens |-> x, ts |-> t], n) >= x
           /\ Level([tokens |-> x, ts |-> t], n) <= x + k * Limit
<1>1. CASE n > t
  <2>1. PICK m \in Nat : m = (n - t) * Limit
    BY <1>1, Products
  <2>2. Level([tokens |-> x, ts |-> t], n) = IF x + m > Full THEN Full ELSE x + m
    BY <1>1, <2>1 DEF Level
  <2> QED
    BY <1>1, <2>1, <2>2, LimitTyped
<1>2. CASE ~(n > t)
  <2>1. k = 0 /\ k * Limit = 0
    BY <1>2, LimitTyped
  <2>2. Level([tokens |-> x, ts |-> t], n) = x
    BY <1>2 DEF Level
  <2> QED
    BY <2>1, <2>2
<1> QED
  BY <1>1, <1>2
-----------------------------------------------------------------------------
(* What came through since s and the level l are at most a full bucket, the    *)
(* refill since s and what was stored too early since s.                       *)
AtMost(l, f, e, n) ==
    \A s \in 0..n : Count(f, s, n) * Window + l <= Full + (n - s + Count(e, s, n)) * Limit

(* They, and what did not refill since s, are at least a full bucket, or the   *)
(* refill since the tick before s: what a bucket lacks, its principal has used *)
(* or lost.                                                                    *)
AtLeast(l, f, S, n) ==
    \A s \in 0..(n + 1) :
        LET had == l + Count(f, s, n) * Window + Missed(S, s, n) * Limit
        IN  had >= Full \/ (s > 0 /\ had >= (n - s + 1) * Limit)

(* Once as many ticks as were promised have refilled it, the bucket has a token. *)
Kept(l, S, P, n) ==
    \A p \in P : l >= Window \/ l + (p.over - n + Missed(S, p.at + 1, n)) * Limit >= Window

LEMMA AtMostTicks ==
    ASSUME NEW l \in Nat, NEW m \in Nat, m <= l + Limit, m <= Full,
           NEW f, NEW e, NEW n, Tallied(f, n), Tallied(e, n), n < MaxTime, AtMost(l, f, e, n)
    PROVE  AtMost(m, f, e, n + 1)
<1>0. n \in Nat
  BY LimitTyped DEF Tallied
<1>a. PICK o \in Nat : o = n + 1
  BY <1>0
<1> SUFFICES ASSUME NEW s \in 0..o
             PROVE  Count(f, s, o) * Window + m <= Full + (o - s + Count(e, s, o)) * Limit
  <2>1. AtMost(m, f, e, o)
    BY Zenon DEF AtMost
  <2> QED
    BY <1>a, <2>1
<1>1. PICK j \in Nat, k \in Nat : /\ j = Count(f, s, n) /\ k = Count(e, s, n)
                                  /\ Count(f, s, o) = j /\ Count(e, s, o) = k
  <2>1. s \in 0..(n + 1)
    BY <1>a
  <2>2. /\ Count(f, s, n) \in Nat /\ Count(e, s, n) \in Nat
        /\ Count(f, s, n + 1) = Count(f, s, n) /\ Count(e, s, n + 1) = Count(e, s, n)
    BY <2>1, CountTyped, TallyTicks
  <2> QED
    BY <1>a, <2>2
<1>2. CASE s \in 0..n
  <2>1. PICK d \in Nat : d = n - s + k
    BY <1>0, <1>2
  <2>2. o - s + k = d + 1
    BY <1>0, <1>2, <1>a, <2>1
  <2>3. (d + 1) * Limit = d * Limit + Limit /\ d * Limit \in Nat /\ j * Window \in Nat
    BY LimitTyped
  <2>4. j * Window + l <= Full + d * Limit
    BY <1>1, <1>2, <2>1 DEF AtMost
  <2>5. j * Window + m <= Full + (d + 1) * Limit
    BY <2>3, <2>4, LimitTyped
  <2> QED
    BY <1>1, <2>2, <2>5
<1>3. CASE s = o
  <2>1. j = 0 /\ o - s + k = k
    <3>1. Count(f, n + 1, n) = 0
      BY <1>0, SpentNothing DEF Count
    <3> QED
      BY <1>0, <1>1, <1>3, <1>a, <3>1
  <2>2. 0 * Window = 0 /\ k * Limit \in Nat
    BY LimitTyped
  <2>3. 0 * Window + m <= Full + k * Limit
    BY <2>2, LimitTyped
  <2> QED
    BY <1>1, <2>1, <2>3
<1> QED
  BY <1>0, <1>2, <1>3, <1>a

(* a requests come through for a tokens less, and k ticks are credited again. *)
LEMMA AtMostRuns ==
    ASSUME NEW l \in Nat, NEW m \in Nat, NEW a \in {0, 1}, NEW k \in Nat,
           m + a * Window <= l + k * Limit,
           NEW f, NEW e, NEW n, Tallied(f, n), Tallied(e, n), AtMost(l, f, e, n),
           NEW g, \A s \in 0..n : Count(g, s, n) = Count(f, s, n) + a,
           NEW h, \A s \in 0..n : Count(h, s, n) = Count(e, s, n) + k
    PROVE  AtMost(m, g, h, n)
<1>0. n \in Nat
  BY LimitTyped DEF Tallied
<1> SUFFICES ASSUME NEW s \in 0..n
             PROVE  Count(g, s, n) * Window + m <= Full + (n - s + Count(h, s, n)) * Limit
  BY DEF AtMost
<1>1. s \in 0..(n + 1)
  BY <1>0
<1>2. PICK j \in Nat, i \in Nat : j = Count(f, s, n) /\ i = Count(e, s, n)
  BY <1>1, CountTyped
<1>3. Count(g, s, n) = j + a /\ Count(h, s, n) = i + k
  BY <1>2
<1>4. PICK d \in Nat : d = n - s + i /\ n - s + (i + k) = d + k
  BY <1>0
<1>5. (j + a) * Window = j * Window + a * Window /\ j * Window \in Nat /\ a * Window \in Nat
  BY LimitTyped
<1>6. (d + k) * Limit = d * Limit + k * Limit /\ d * Limit \in Nat /\ k * Limit \in Nat
  BY LimitTyped
<1>7. j * Window + l <= Full + d * Limit
  BY <1>2, <1>4 DEF AtMost
<1>8. (j + a) * Window + m <= Full + (d + k) * Limit
  BY <1>5, <1>6, <1>7, LimitTyped
<1> QED
  BY <1>3, <1>4, <1>8

LEMMA AtLeastTicks ==
    ASSUME NEW l \in Nat, NEW m \in Nat, NEW f, NEW S, NEW n, Tallied(f, n), n < MaxTime,
           m = Full \/ m = l + Limit \/ (n + 1 \in S /\ m = l),
           AtLeast(l, f, S, n)
    PROVE  AtLeast(m, f, S, n + 1)
<1>0. n \in Nat
  BY LimitTyped DEF Tallied
<1>a. PICK o \in Nat : o = n + 1
  BY <1>0
<1> SUFFICES ASSUME NEW s \in 0..(o + 1),
                    NEW had, had = m + Count(f, s, o) * Window + Missed(S, s, o) * Limit
             PROVE  had >= Full \/ (s > 0 /\ had >= (o - s + 1) * Limit)
  <2>1. AtLeast(m, f, S, o)
    BY Zenon DEF AtLeast
  <2> QED
    BY <1>a, <2>1
<1>1. CASE s \in 0..(n + 1)
  <2>1. PICK j \in Nat : j = Count(f, s, n) * Window /\ Count(f, s, o) * Window = j
    <3>1. PICK c \in Nat : c = Count(f, s, n) /\ Count(f, s, o) = c
      BY <1>1, <1>a, CountTyped, TallyTicks
    <3>2. c * Window \in Nat
      BY LimitTyped
    <3> QED
      BY <3>1, <3>2
  <2>2. PICK i \in Nat : i = Missed(S, s, n)
    <3>1. s \in Nat
      BY <1>1
    <3> QED
      BY <1>0, <3>1, MissedTyped
  <2>3. Missed(S, s, o) = IF o \in S THEN i + 1 ELSE i
    BY <1>0, <1>1, <1>a, <2>2, MissedTicks
  <2>4. i * Limit \in Nat /\ (i + 1) * Limit = i * Limit + Limit
    BY Products
  <2>5. PICK v \in Nat : v = i * Limit
    BY <2>4
  <2>6. l + j + v >= Full \/ (s > 0 /\ l + j + v >= (n - s + 1) * Limit)
    BY <1>1, <2>1, <2>2, <2>5 DEF AtLeast
  <2>7. PICK r \in Int : r = (n - s + 1) * Limit /\ (o - s + 1) * Limit = r + Limit
    <3>1. PICK d \in Int : d = n - s + 1 /\ o - s + 1 = d + 1
      BY <1>0, <1>a
    <3> QED
      BY <3>1, Products
  <2>8. m + j + v >= Full \/ had >= l + j + v + Limit
    <3>1. CASE o \in S
      <4>1. had = m + j + (v + Limit)
        BY <2>1, <2>3, <2>4, <2>5, <3>1
      <4> QED
        BY <1>a, <4>1, LimitTyped
    <3>2. CASE o \notin S
      <4>1. had = m + j + v
        BY <2>1, <2>3, <2>5, <3>2
      <4> QED
        BY <1>a, <3>2, <4>1, LimitTyped
    <3> QED
      BY <3>1, <3>2
  <2>9. had \in Nat /\ had >= m + j + v
    <3>1. had = m + j + v \/ had = m + j + (v + Limit)
      BY <2>1, <2>3, <2>4, <2>5
    <3> QED
      BY <3>1, LimitTyped
  <2> QED
    BY <2>6, <2>7, <2>8, <2>9, LimitTyped
<1>2. CASE s = o + 1
  <2>1. Count(f, s, o) = 0 /\ Missed(S, s, o) = 0
    BY <1>2, SpentNothing, MissedNothing DEF Count
  <2>2. 0 * Window = 0 /\ 0 * Limit = 0 /\ o - s + 1 = 0
    BY <1>2, LimitTyped
  <2>3. had = m
    BY <2>1, <2>2
  <2> QED
    BY <1>2, <2>2, <2>3
<1> QED
  BY <1>1, <1>2, <1>a

(* a requests come through for no more than a tokens less. *)
LEMMA AtLeastRuns ==
    ASSUME NEW l \in Nat, NEW m \in Nat, NEW a \in {0, 1}, m + a * Window >= l,
           NEW f, NEW n, Tallied(f, n), NEW S, NEW T, AtLeast(l, f, S, n),
           NEW g, \A s \in 0..n : Count(g, s, n) = Count(f, s, n) + a,
           \A s \in 0..n : Missed(T, s, n) = Missed(S, s, n)
    PROVE  AtLeast(m, g, T, n)
<1>0. n \in Nat
  BY LimitTyped DEF Tallied
<1> SUFFICES ASSUME NEW s \in 0..(n + 1),
                    NEW had, had = m + Count(g, s, n) * Window + Missed(T, s, n) * Limit
             PROVE  had >= Full \/ (s > 0 /\ had >= (n - s + 1) * Limit)
  BY Zenon DEF AtLeast
<1>1. CASE s \in 0..n
  <2>1. PICK j \in Nat : j = Count(f, s, n)
    BY <1>0, <1>1, CountTyped
  <2>2. j * Window \in Nat /\ a * Window \in Nat /\ (j + a) * Window = j * Window + a * Window
    BY LimitTyped
  <2>3. PICK v \in Nat : v = Missed(S, s, n) * Limit
    <3>0. s \in Nat
      BY <1>1
    <3>1. Missed(S, s, n) \in Nat
      BY <1>0, <3>0, MissedTyped
    <3> QED
      BY <3>1, LimitTyped
  <2>4. l + j * Window + v >= Full \/ (s > 0 /\ l + j * Window + v >= (n - s + 1) * Limit)
    BY <1>0, <1>1, <2>1, <2>3 DEF AtLeast
  <2>5. had = m + (j * Window + a * Window) + v
    BY <1>1, <2>1, <2>2, <2>3
  <2>6. (n - s + 1) * Limit \in Int
    BY <1>0, LimitTyped
  <2> QED
    BY <2>2, <2>4, <2>5, <2>6, LimitTyped
<1>2. CASE s = n + 1
  <2>1. Count(g, s, n) = 0 /\ Missed(T, s, n) = 0
    BY <1>0, <1>2, SpentNothing, MissedNothing DEF Count
  <2>2. 0 * Window = 0 /\ 0 * Limit = 0 /\ n - s + 1 = 0
    BY <1>0, <1>2, LimitTyped
  <2>3. had = m
    BY <2>1, <2>2
  <2> QED
    BY <1>0, <1>2, <2>2, <2>3
<1> QED
  BY <1>0, <1>1, <1>2

Promises == [at : Nat, over : Nat]

LEMMA KeptTicks ==
    ASSUME NEW l \in Nat, NEW m \in Nat, NEW S, NEW n \in Nat,
           NEW P \in SUBSET Promises, \A p \in P : p.at <= n,
           m = Full \/ m = l + Limit \/ (n + 1 \in S /\ m = l),
           Kept(l, S, P, n)
    PROVE  Kept(m, S, P, n + 1)
<1>a. PICK o \in Nat : o = n + 1
  OBVIOUS
<1> SUFFICES ASSUME NEW p \in P
             PROVE  m >= Window \/ m + (p.over - o + Missed(S, p.at + 1, o)) * Limit >= Window
  <2>1. Kept(m, S, P, o)
    BY Zenon DEF Kept
  <2> QED
    BY <1>a, <2>1
<1>1. PICK v \in Nat, s \in 0..(n + 1) : v = p.over /\ s = p.at + 1
  BY DEF Promises
<1>2. PICK i \in Nat : i = Missed(S, s, n)
  <2>1. s \in Nat
    OBVIOUS
  <2> QED
    BY <2>1, MissedTyped
<1>3. Missed(S, s, o) = IF o \in S THEN i + 1 ELSE i
  BY <1>2, <1>a, MissedTicks
<1>4. PICK d \in Int : d = v - n + i
  OBVIOUS
<1>5. PICK x \in Int : x = d * Limit /\ (d + 1) * Limit = x + Limit
  BY Products
<1>6. l >= Window \/ l + x >= Window
  BY <1>1, <1>2, <1>4, <1>5 DEF Kept
<1>7. CASE o \in S
  <2>1. v - o + Missed(S, s, o) = d
    BY <1>3, <1>4, <1>7, <1>a
  <2> QED
    BY <1>1, <1>5, <1>6, <2>1, LimitTyped
<1>8. CASE o \notin S
  <2>1. PICK c \in Int : c = v - o + Missed(S, s, o) /\ d = c + 1
    BY <1>3, <1>4, <1>8, <1>a
  <2>2. c * Limit \in Int /\ x = c * Limit + Limit
    BY <1>5, <2>1, Products
  <2>3. m = Full \/ m = l + Limit
    BY <1>8, <1>a
  <2> QED
    BY <1>1, <1>6, <2>1, <2>2, <2>3, LimitTyped
<1> QED
  BY <1>7, <1>8

LEMMA KeptRuns ==
    ASSUME NEW l \in Nat, NEW m \in Nat, m >= l, NEW S, NEW T, NEW n \in Nat,
           NEW P \in SUBSET Promises, Kept(l, S, P, n),
           \A s \in Nat : Missed(T, s, n) = Missed(S, s, n)
    PROVE  Kept(m, T, P, n)
<1> SUFFICES ASSUME NEW p \in P
             PROVE  m >= Window \/ m + (p.over - n + Missed(T, p.at + 1, n)) * Limit >= Window
  BY DEF Kept
<1>1. PICK v \in Nat, s \in Nat : v = p.over /\ s = p.at + 1
  BY DEF Promises
<1>2. PICK i \in Nat : i = Missed(S, s, n) /\ i = Missed(T, s, n)
  BY MissedTyped
<1>3. PICK x \in Int : x = (v - n + i) * Limit
  BY LimitTyped
<1>4. l >= Window \/ l + x >= Window
  BY <1>1, <1>2, <1>3 DEF Kept
<1> QED
  BY <1>1, <1>2, <1>3, <1>4, LimitTyped

(* secondsCeil: so many seconds refill at least what was missing. *)
LEMMA WaitCovers ==
    ASSUME NEW w \in Nat, w > 0
    PROVE  /\ secondsCeil(w) \in Nat /\ secondsCeil(w) >= 1
           /\ secondsCeil(w) * Second \in Nat
           /\ (secondsCeil(w) * Second) * Limit >= w
<1>1. Second \in Nat /\ Second >= 1
  BY AuthAssumption
<1>2. PICK d \in Nat \ {0} : d = Limit * Second
  BY <1>1, LimitTyped
<1>3. PICK a \in Nat : a = w + d - 1
  BY <1>2
<1>4. PICK q \in Nat : q = a \div d /\ q * d \in Nat /\ a < q * d + d
  BY Floor
<1>5. q * d >= w
  BY <1>3, <1>4
<1>6. secondsCeil(w) = q
  BY <1>2, <1>3, <1>4 DEF secondsCeil
<1>7. (q * Second) * Limit = q * d /\ q * Second \in Nat
  BY <1>1, <1>2, LimitTyped
<1>8. q >= 1
  <2>1. q = 0 => q * d = 0
    OBVIOUS
  <2> QED
    BY <1>4, <1>5, <2>1
<1> QED
  BY <1>5, <1>6, <1>7, <1>8

(* A refusal promises a wait in which a token is refilled. *)
LEMMA KeptPromise ==
    ASSUME NEW l \in Nat, l < Window, NEW m \in Nat, m >= l, NEW T, NEW n \in Nat,
           NEW q, q = [at |-> n, over |-> n + secondsCeil(Window - l) * Second]
    PROVE  q \in Promises /\ Kept(m, T, {q}, n)
<1>1. PICK w \in Nat : w = Window - l /\ w > 0
  BY LimitTyped
<1>2. PICK y \in Nat : y = secondsCeil(w) * Second /\ y * Limit >= w
  BY <1>1, WaitCovers
<1>3. q \in Promises /\ q.at = n /\ q.over = n + y
  BY <1>1, <1>2 DEF Promises
<1>4. Missed(T, n + 1, n) = 0
  BY MissedNothing
<1>5. q.over - n + Missed(T, q.at + 1, n) = y
  BY <1>3, <1>4
<1>6. y * Limit \in Nat
  BY LimitTyped
<1>7. m + y * Limit >= Window
  BY <1>1, <1>2, <1>6, LimitTyped
<1> QED
  BY <1>3, <1>5, <1>7 DEF Kept

LEMMA KeptIsEnough ==
    ASSUME NEW l \in Nat, NEW S, NEW n \in Nat, NEW P \in SUBSET Promises, Kept(l, S, P, n),
           NEW p \in P, n >= p.over + Missed(S, p.at + 1, n)
    PROVE  l >= Window
<1>1. PICK v \in Nat, s \in Nat : v = p.over /\ s = p.at + 1
  BY DEF Promises
<1>2. PICK i \in Nat : i = Missed(S, s, n)
  BY MissedTyped
<1>3. PICK d \in Int : d = v - n + i /\ d <= 0
  BY <1>1, <1>2
<1>4. d * Limit \in Int /\ d * Limit <= 0
  BY <1>3, Products
<1>5. l >= Window \/ l + d * Limit >= Window
  BY <1>1, <1>2, <1>3 DEF Kept
<1> QED
  BY <1>4, <1>5, LimitTyped
-----------------------------------------------------------------------------
(* The invariant of a key.  While ts is ahead of the clock, the ticks up to it *)
(* are known not to refill.                                                    *)
KeyTyped(b, f, e, S, P, n) ==
    /\ b \in Buckets /\ b.tokens <= Full
    /\ Tallied(f, n) /\ Tallied(e, n)
    /\ \A i \in (n + 1)..b.ts : i \in S
    /\ P \in SUBSET Promises /\ \A p \in P : p.at <= n

KeyInv(b, f, e, S, P, n) ==
    /\ KeyTyped(b, f, e, S, P, n)
    /\ FailOpen \/ AtMost(Level(b, n), f, e, n)
    /\ AtLeast(Level(b, n), f, S, n)
    /\ Kept(Level(b, n), S, P, n)

(* A key that has not been used: a full bucket. *)
LEMMA KeyStarts ==
    ASSUME NEW b, NEW f, b = [tokens |-> Full, ts |-> 0], f = [t \in 0..MaxTime |-> 0]
    PROVE  KeyInv(b, f, f, {}, {}, 0)
<1>1. Tallied(f, 0) /\ \A s \in 0..1 : Count(f, s, 0) = 0
  BY TallyStarts
<1>2. Level(b, 0) = Full
  BY LimitTyped DEF Level
<1>3. KeyTyped(b, f, f, {}, {}, 0)
  <2>1. b \in Buckets /\ b.tokens <= Full /\ b.ts = 0
    BY LimitTyped DEF Buckets
  <2>2. \A i \in (0 + 1)..b.ts : i \in {}
    BY <2>1
  <2> QED
    BY <1>1, <2>1, <2>2 DEF KeyTyped
<1>4. AtMost(Full, f, f, 0)
  <2> SUFFICES ASSUME NEW s \in 0..0
               PROVE  Count(f, s, 0) * Window + Full <= Full + (0 - s + Count(f, s, 0)) * Limit
    BY DEF AtMost
  <2>1. s = 0 /\ Count(f, s, 0) = 0
    BY <1>1
  <2>2. 0 * Window = 0 /\ (0 - 0 + 0) * Limit = 0
    BY LimitTyped
  <2> QED
    BY <2>1, <2>2, LimitTyped
<1>5. AtLeast(Full, f, {}, 0)
  <2> SUFFICES ASSUME NEW s \in 0..(0 + 1)
               PROVE  Full + Count(f, s, 0) * Window + Missed({}, s, 0) * Limit >= Full
    BY Zenon DEF AtLeast
  <2>1. Count(f, s, 0) = 0 /\ Missed({}, s, 0) \in Nat
    <3>1. s \in Nat /\ 0 \in Nat /\ s \in 0..1
      OBVIOUS
    <3>2. Missed({}, s, 0) \in Nat
      BY <3>1, MissedTyped
    <3> QED
      BY <1>1, <3>1, <3>2
  <2>2. 0 * Window = 0 /\ Missed({}, s, 0) * Limit \in Nat
    BY <2>1, LimitTyped
  <2> QED
    BY <2>1, <2>2, LimitTyped
<1>6. Kept(Full, {}, {}, 0)
  BY DEF Kept
<1> QED
  BY <1>2, <1>3, <1>4, <1>5, <1>6 DEF KeyInv

(* A call: a requests come through, k ticks are credited again, c is the       *)
(* bucket it leaves and Q what is promised then.                               *)
LEMMA KeyRuns ==
    ASSUME NEW b, NEW f, NEW e, NEW S, NEW P, NEW n, KeyInv(b, f, e, S, P, n),
           NEW a \in {0, 1}, NEW k \in Nat, NEW t \in Nat,
           NEW c \in Buckets, c.tokens <= Full,
           NEW T, \/ T = S /\ c = b
                  \/ T = S \cup ((n + 1)..t) /\ c.ts = t,
           FailOpen \/ Level(c, n) + a * Window <= Level(b, n) + k * Limit,
           Level(c, n) + a * Window >= Level(b, n),
           NEW Q \in SUBSET Promises, \A p \in Q : p.at <= n,
           Kept(Level(c, n), T, Q, n)
    PROVE  KeyInv(c, More(f, n, a), More(e, n, k), T, Q, n)
<1>1. KeyTyped(b, f, e, S, P, n) /\ n \in Nat /\ Tallied(f, n) /\ Tallied(e, n)
  <2>1. KeyTyped(b, f, e, S, P, n)
    BY DEF KeyInv
  <2>2. Tallied(f, n) /\ Tallied(e, n)
    BY <2>1 DEF KeyTyped
  <2>3. n \in Nat
    BY <2>2, LimitTyped DEF Tallied
  <2> QED
    BY <2>1, <2>2, <2>3
<1>2. PICK l \in Nat : l = Level(b, n)
  BY <1>1, LevelTyped DEF KeyTyped
<1>3. PICK m \in Nat : m = Level(c, n)
  BY <1>1, LevelTyped
<1>4. a \in Nat
  OBVIOUS
<1>5. PICK g : /\ g = More(f, n, a) /\ Tallied(g, n)
               /\ \A s \in 0..n : Count(g, s, n) = Count(f, s, n) + a
  <2>1. /\ Tallied(More(f, n, a), n)
        /\ \A s \in 0..n : Count(More(f, n, a), s, n) = Count(f, s, n) + a
    BY <1>1, <1>4, TallyMore
  <2> QED
    BY <2>1
<1>6. PICK h : /\ h = More(e, n, k) /\ Tallied(h, n)
               /\ \A s \in 0..n : Count(h, s, n) = Count(e, s, n) + k
  <2>1. /\ Tallied(More(e, n, k), n)
        /\ \A s \in 0..n : Count(More(e, n, k), s, n) = Count(e, s, n) + k
    BY <1>1, TallyMore
  <2> QED
    BY <2>1
<1>7. ASSUME NEW s \in Nat PROVE Missed(T, s, n) = Missed(S, s, n)
  BY <1>1, MissedAhead
<1>8. \A i \in (n + 1)..c.ts : i \in T
  BY <1>1 DEF KeyTyped
<1>9. KeyTyped(c, g, h, T, Q, n)
  BY <1>5, <1>6, <1>8 DEF KeyTyped
<1>10. ASSUME AtMost(l, f, e, n), m + a * Window <= l + k * Limit PROVE AtMost(m, g, h, n)
  BY <1>1, <1>5, <1>6, <1>10, AtMostRuns
<1>11. FailOpen \/ AtMost(m, g, h, n)
  BY <1>2, <1>3, <1>10 DEF KeyInv
<1>12. AtLeast(m, g, T, n)
  <2>1. \A s \in 0..n : Missed(T, s, n) = Missed(S, s, n)
    BY <1>7
  <2>2. m + a * Window >= l
    BY <1>2, <1>3
  <2>3. AtLeast(l, f, S, n)
    BY <1>2 DEF KeyInv
  <2> QED
    BY <1>1, <1>5, <2>1, <2>2, <2>3, AtLeastRuns
<1>13. Kept(m, T, Q, n)
  BY <1>3
<1> QED
  BY <1>3, <1>5, <1>6, <1>9, <1>11, <1>12, <1>13 DEF KeyInv

(* A tick refills the bucket or not, and every span up to now is a tick longer. *)
LEMMA KeyTicks ==
    ASSUME NEW b, NEW f, NEW e, NEW S, NEW P, NEW n, KeyInv(b, f, e, S, P, n), n < MaxTime
    PROVE  KeyInv(b, f, e, S, P, n + 1)
<1>1. /\ n \in Nat /\ Tallied(f, n) /\ Tallied(e, n) /\ b \in Buckets /\ b.tokens <= Full
      /\ \A i \in (n + 1)..b.ts : i \in S
      /\ P \in SUBSET Promises /\ \A p \in P : p.at <= n
  BY LimitTyped DEF KeyInv, KeyTyped, Tallied
<1>2. PICK l \in Nat : l = Level(b, n) /\ l <= Full
  BY <1>1, LevelTyped
<1>3. PICK m \in Nat : m = Level(b, n + 1) /\ m <= Full
  BY <1>1, LevelTyped
<1>4. /\ m <= l + Limit
      /\ m = Full \/ m = l + Limit \/ (n + 1 \in S /\ m = l)
  <2>1. \/ m = Full /\ l + Limit >= Full
        \/ m = l + Limit
        \/ n + 1 <= b.ts /\ m = l
    BY <1>1, <1>2, <1>3, LevelTicks
  <2>2. b.ts \in Nat
    BY <1>1 DEF Buckets
  <2>3. n + 1 <= b.ts => n + 1 \in S
    BY <1>1, <2>2
  <2> QED
    BY <2>1, <2>3, LimitTyped
<1>5. KeyTyped(b, f, e, S, P, n + 1)
  <2>1. Tallied(f, n + 1) /\ Tallied(e, n + 1)
    BY <1>1, TallyTicks
  <2>2. \A i \in (n + 1 + 1)..b.ts : i \in S
    <3>1. b.ts \in Nat
      BY <1>1 DEF Buckets
    <3> QED
      BY <1>1, <3>1
  <2>3. \A p \in P : p.at <= n + 1
    <3>1. \A p \in P : p.at \in Nat
      BY <1>1 DEF Promises
    <3> QED
      BY <1>1, <3>1
  <2> QED
    BY <1>1, <2>1, <2>2, <2>3 DEF KeyTyped
<1>6. FailOpen \/ AtMost(m, f, e, n + 1)
  BY <1>1, <1>2, <1>3, <1>4, AtMostTicks DEF KeyInv
<1>7. AtLeast(m, f, S, n + 1)
  BY <1>1, <1>2, <1>4, AtLeastTicks DEF KeyInv
<1>8. Kept(m, S, P, n + 1)
  BY <1>1, <1>2, <1>4, KeptTicks DEF KeyInv
<1> QED
  BY <1>3, <1>5, <1>6, <1>7, <1>8 DEF KeyInv
-----------------------------------------------------------------------------
(* The inductive invariant behind the properties of the limiter: what is true  *)
(* of a key is true of every key.                                              *)
BudgetInv ==
    /\ bucket \in [Principals -> Buckets]
    /\ through \in [Principals -> [0..MaxTime -> Nat]]
    /\ early \in [Principals -> [0..MaxTime -> Nat]]
    /\ stalled \in [Principals -> SUBSET Nat]
    /\ promised \in [Principals -> SUBSET Promises]
    /\ now \in Nat
    /\ \A k \in Principals : KeyInv(bucket[k], through[k], early[k], stalled[k], promised[k], now)

LEMMA TokensIsLevel == \A k : Tokens(k) = Level(bucket[k], now)
BY DEF Tokens, Level

(* KeyBySubjectOrIP: behind RequireJWT there is a subject, so the budget that  *)
(* a request uses is its principal's.                                          *)
LEMMA KeyIsPrincipal ==
    ASSUME IdentityInv, NEW c \in Clients, request[c].pc = "limit"
    PROVE  Key(c) \in Principals /\ Principal(c) = Key(c)
<1>1. request[c] \in RequestRecords /\ RequestKnows(c)
  BY ClientTyped
<1>2. request[c].route \in Protected => request[c].subject \in Emails
  BY <1>1 DEF RequestRecords, RequestKnows
<1>3. Address[c] \in Addresses
  BY GatewayAssumption
<1> QED
  BY <1>2, <1>3 DEF Key, Principal, Principals

LEMMA BudgetStart == Init => BudgetInv
<1> SUFFICES ASSUME Init PROVE BudgetInv
  OBVIOUS
<1>1. /\ bucket \in [Principals -> Buckets]
      /\ through \in [Principals -> [0..MaxTime -> Nat]]
      /\ early \in [Principals -> [0..MaxTime -> Nat]]
      /\ stalled \in [Principals -> SUBSET Nat]
      /\ promised \in [Principals -> SUBSET Promises]
      /\ now \in Nat
  BY LimitTyped DEF Init, Buckets
<1>2. ASSUME NEW k \in Principals
      PROVE  KeyInv(bucket[k], through[k], early[k], stalled[k], promised[k], now)
  <2>1. /\ bucket[k] = [tokens |-> Full, ts |-> 0]
        /\ through[k] = [t \in 0..MaxTime |-> 0] /\ early[k] = [t \in 0..MaxTime |-> 0]
        /\ stalled[k] = {} /\ promised[k] = {} /\ now = 0
    BY DEF Init
  <2> QED
    BY <2>1, KeyStarts
<1> QED
  BY <1>1, <1>2 DEF BudgetInv

(* A step that leaves every other key alone keeps the invariant if it keeps    *)
(* the one key's.                                                              *)
LEMMA OneKeyKeeps ==
    ASSUME BudgetInv, NEW k \in Principals, now' = now,
           NEW b, NEW f, NEW e, NEW S \in SUBSET Nat, NEW P,
           bucket' = [bucket EXCEPT ![k] = b], through' = [through EXCEPT ![k] = f],
           early' = [early EXCEPT ![k] = e], stalled' = [stalled EXCEPT ![k] = S],
           promised' = [promised EXCEPT ![k] = P],
           KeyInv(b, f, e, S, P, now)
    PROVE  BudgetInv'
<1>1. /\ b \in Buckets /\ P \in SUBSET Promises
      /\ f \in [0..MaxTime -> Nat] /\ e \in [0..MaxTime -> Nat]
  BY DEF KeyInv, KeyTyped, Tallied
<1>2. /\ bucket' \in [Principals -> Buckets]
      /\ through' \in [Principals -> [0..MaxTime -> Nat]]
      /\ early' \in [Principals -> [0..MaxTime -> Nat]]
      /\ stalled' \in [Principals -> SUBSET Nat]
      /\ promised' \in [Principals -> SUBSET Promises]
      /\ now' \in Nat
  BY <1>1 DEF BudgetInv
<1>3. ASSUME NEW h \in Principals
      PROVE  KeyInv(bucket'[h], through'[h], early'[h], stalled'[h], promised'[h], now')
  <2>1. CASE h = k
    BY <2>1 DEF BudgetInv
  <2>2. CASE h # k
    <3>1. /\ bucket'[h] = bucket[h] /\ through'[h] = through[h] /\ early'[h] = early[h]
          /\ stalled'[h] = stalled[h] /\ promised'[h] = promised[h]
      BY <2>2 DEF BudgetInv
    <3> QED
      BY <3>1 DEF BudgetInv
  <2> QED
    BY <2>1, <2>2
<1> QED
  BY <1>2, <1>3 DEF BudgetInv

(* tostring rounds to a time. *)
LEMMA StoredTyped ==
    ASSUME NEW n \in Nat
    PROVE  Stored(n) \in Nat
<1>1. Grain \in Nat \ {0} /\ 2 \in Nat \ {0}
  BY GatewayAssumption
<1>2. PICK h \in Nat : h = Grain \div 2
  BY <1>1, Floor
<1>3. PICK y \in Nat : y = n + h
  OBVIOUS
<1>4. (y \div Grain) * Grain \in Nat
  BY <1>1, Floor
<1> QED
  BY <1>2, <1>3, <1>4 DEF Stored

(* The script: the token it takes is the only thing the bucket loses, and it   *)
(* gains no more than the ticks by which its ts is too early.                  *)
LEMMA ScriptStores ==
    ASSUME BudgetInv, NEW k \in Principals, Script(k)
    PROVE  \E c \in Buckets, t \in Nat, d \in Nat, x \in Nat :
               /\ x = IF Tokens(k) >= Window THEN Tokens(k) - Window ELSE Tokens(k)
               /\ c.tokens <= Full /\ c.ts = t
               /\ Level(c, now) >= x /\ Level(c, now) <= x + d * Limit
               /\ bucket' = [bucket EXCEPT ![k] = c]
               /\ early' = [early EXCEPT ![k] = More(early[k], now, d)]
               /\ stalled' = [stalled EXCEPT ![k] = stalled[k] \cup ((now + 1)..t)]
<1>1. PICK n \in Nat, t \in Nat : n = now /\ t = Stored(n)
  BY StoredTyped DEF BudgetInv
<1>2. PICK l \in Nat : l = Tokens(k) /\ l <= Full
  <2>1. PICK b \in Buckets : b = bucket[k] /\ b.tokens <= Full
    BY DEF BudgetInv, KeyInv, KeyTyped
  <2> QED
    BY <1>1, <2>1, LevelTyped, TokensIsLevel
<1>3. PICK x \in Nat : x = (IF l >= Window THEN l - Window ELSE l) /\ x <= Full
  <2>1. (IF l >= Window THEN l - Window ELSE l) \in Nat
    BY <1>2, LimitTyped
  <2> QED
    BY <1>2, <2>1, LimitTyped
<1>4. PICK c : c = [tokens |-> x, ts |-> t]
  OBVIOUS
<1>5. PICK d : d = IF n > t THEN n - t ELSE 0
  OBVIOUS
<1>6. d \in Nat /\ Level(c, n) >= x /\ Level(c, n) <= x + d * Limit
  BY <1>3, <1>4, <1>5, LevelStored
<1>7. c \in Buckets /\ c.tokens <= Full /\ c.ts = t
  BY <1>3, <1>4 DEF Buckets
<1>8. bucket' = [bucket EXCEPT ![k] = c]
  BY <1>1, <1>2, <1>3, <1>4 DEF Script
<1>9. early' = [early EXCEPT ![k] = More(early[k], now, d)]
  <2>1. PICK f \in [0..MaxTime -> Nat] : f = early[k]
    BY DEF BudgetInv
  <2>2. n \in 0..MaxTime
    BY <1>1 DEF BudgetInv, KeyInv, KeyTyped, Tallied
  <2>3. early' = [early EXCEPT ![k] = [f EXCEPT ![n] = IF n > t THEN f[n] + (n - t) ELSE f[n]]]
    BY <1>1, <2>1 DEF Script, BudgetInv
  <2>4. f[n] \in Nat
    BY <2>1, <2>2
  <2>5. (IF n > t THEN f[n] + (n - t) ELSE f[n]) = f[n] + d
    BY <1>5, <2>4
  <2>6. early' = [early EXCEPT ![k] = [f EXCEPT ![n] = f[n] + d]]
    BY <2>3, <2>5
  <2> QED
    BY <1>1, <2>1, <2>6 DEF More
<1>10. stalled' = [stalled EXCEPT ![k] = stalled[k] \cup ((now + 1)..t)]
  BY <1>1 DEF Script, BudgetInv
<1> QED
  BY <1>1, <1>2, <1>3, <1>6, <1>7, <1>8, <1>9, <1>10

LEMMA SpendIsMore ==
    ASSUME BudgetInv, NEW k \in Principals, Spend(k)
    PROVE  through' = [through EXCEPT ![k] = More(through[k], now, 1)]
BY DEF Spend, More, BudgetInv

LEMMA SpendNothing ==
    ASSUME BudgetInv, NEW k \in Principals, UNCHANGED through
    PROVE  through' = [through EXCEPT ![k] = More(through[k], now, 0)]
<1>1. PICK f \in [0..MaxTime -> Nat] : f = through[k]
  BY DEF BudgetInv
<1>2. PICK n \in 0..MaxTime : n = now
  BY DEF BudgetInv, KeyInv, KeyTyped, Tallied
<1>3. f[n] \in Nat
  BY <1>1, <1>2
<1>4. f[n] + 0 = f[n]
  BY <1>3
<1>5. More(f, n, 0) = f
  BY <1>1, <1>4 DEF More
<1> QED
  BY <1>1, <1>2, <1>5 DEF BudgetInv

(* The script takes a token for one request. *)
LEMMA TakeKeepsBudget ==
    ASSUME BudgetInv, NEW k \in Principals, Tokens(k) >= Window, Script(k), Spend(k),
           promised' = [promised EXCEPT ![k] = {}], now' = now
    PROVE  BudgetInv'
<1>1. PICK n, b, f, e, S, P :
         /\ n \in Nat /\ S \in SUBSET Nat
         /\ n = now /\ b = bucket[k] /\ f = through[k] /\ e = early[k]
         /\ S = stalled[k] /\ P = promised[k] /\ KeyInv(b, f, e, S, P, n)
  BY DEF BudgetInv
<1>2. PICK l \in Nat : l = Level(b, n) /\ l = Tokens(k)
  BY <1>1, LevelTyped, TokensIsLevel DEF KeyInv, KeyTyped
<1>3. PICK c \in Buckets, t \in Nat, d \in Nat, x \in Nat :
         /\ x = IF Tokens(k) >= Window THEN Tokens(k) - Window ELSE Tokens(k)
         /\ c.tokens <= Full /\ c.ts = t
         /\ Level(c, now) >= x /\ Level(c, now) <= x + d * Limit
         /\ bucket' = [bucket EXCEPT ![k] = c]
         /\ early' = [early EXCEPT ![k] = More(early[k], now, d)]
         /\ stalled' = [stalled EXCEPT ![k] = stalled[k] \cup ((now + 1)..t)]
  BY ScriptStores
<1>4. PICK m \in Nat : m = Level(c, n)
  BY <1>1, <1>3, LevelTyped
<1>5. PICK T \in SUBSET Nat : T = S \cup ((n + 1)..t)
  <2>1. S \cup ((n + 1)..t) \in SUBSET Nat
    BY <1>1
  <2> QED
    BY <2>1
<1>6. d * Limit \in Nat /\ x + Window = l
  BY <1>2, <1>3, LimitTyped
<1>7. m + 1 * Window <= l + d * Limit /\ m + 1 * Window >= l
  BY <1>1, <1>3, <1>4, <1>6, LimitTyped
<1>8. Kept(m, T, {}, n)
  BY DEF Kept
<1>9. KeyInv(c, More(f, n, 1), More(e, n, d), T, {}, n)
  <2>1. {} \in SUBSET Promises /\ \A p \in {} : p.at <= n
    OBVIOUS
  <2> QED
    BY <1>1, <1>2, <1>3, <1>4, <1>5, <1>7, <1>8, <2>1, KeyRuns
<1>10. through' = [through EXCEPT ![k] = More(f, n, 1)]
  BY <1>1, SpendIsMore
<1> QED
  BY <1>1, <1>3, <1>5, <1>9, <1>10, OneKeyKeeps

(* The script finds no token.  Only a limiter configured to fail open lets a   *)
(* request through all the same (a = 1), when the answer is lost.              *)
LEMMA DenialKeepsBudget ==
    ASSUME BudgetInv, NEW k \in Principals, Tokens(k) < Window, Script(k), now' = now,
           NEW a \in {0, 1}, a = 0 \/ FailOpen,
           through' = [through EXCEPT ![k] = More(through[k], now, a)],
           NEW Q, promised' = [promised EXCEPT ![k] = Q],
           \/ Q = promised[k]
           \/ Q = promised[k] \cup
                     {[at |-> now, over |-> now + secondsCeil(Window - Tokens(k)) * Second]}
    PROVE  BudgetInv'
<1>1. PICK n, b, f, e, S, P :
         /\ n \in Nat /\ S \in SUBSET Nat /\ P \in SUBSET Promises
         /\ n = now /\ b = bucket[k] /\ f = through[k] /\ e = early[k]
         /\ S = stalled[k] /\ P = promised[k] /\ KeyInv(b, f, e, S, P, n)
  BY DEF BudgetInv
<1>2. PICK l \in Nat : l = Level(b, n) /\ l = Tokens(k)
  BY <1>1, LevelTyped, TokensIsLevel DEF KeyInv, KeyTyped
<1>3. PICK c \in Buckets, t \in Nat, d \in Nat, x \in Nat :
         /\ x = IF Tokens(k) >= Window THEN Tokens(k) - Window ELSE Tokens(k)
         /\ c.tokens <= Full /\ c.ts = t
         /\ Level(c, now) >= x /\ Level(c, now) <= x + d * Limit
         /\ bucket' = [bucket EXCEPT ![k] = c]
         /\ early' = [early EXCEPT ![k] = More(early[k], now, d)]
         /\ stalled' = [stalled EXCEPT ![k] = stalled[k] \cup ((now + 1)..t)]
  BY ScriptStores
<1>4. PICK m \in Nat : m = Level(c, n)
  BY <1>1, <1>3, LevelTyped
<1>5. PICK T \in SUBSET Nat : T = S \cup ((n + 1)..t)
  <2>1. S \cup ((n + 1)..t) \in SUBSET Nat
    BY <1>1
  <2> QED
    BY <2>1
<1>6. x = l
  BY <1>2, <1>3, LimitTyped
<1>7. PICK v \in Nat : v = d * Limit
  BY LimitTyped
<1>8. m >= l /\ m <= l + v
  BY <1>1, <1>3, <1>4, <1>6, <1>7
<1>9. 0 * Window = 0 /\ 1 * Window = Window
  BY LimitTyped
<1>10. /\ FailOpen \/ m + a * Window <= l + d * Limit
       /\ m + a * Window >= l
  BY <1>7, <1>8, <1>9, LimitTyped
<1>11. Q \in SUBSET Promises /\ (\A p \in Q : p.at <= n) /\ Kept(m, T, Q, n)
  <2>1. \A s \in Nat : Missed(T, s, n) = Missed(S, s, n)
    BY <1>1, <1>5, MissedAhead
  <2>2. Kept(m, T, P, n)
    BY <1>1, <1>2, <1>8, <2>1, KeptRuns DEF KeyInv
  <2>3. \A p \in P : p.at <= n
    BY <1>1 DEF KeyInv, KeyTyped
  <2>4. PICK q : q = [at |-> n, over |-> n + secondsCeil(Window - l) * Second]
    OBVIOUS
  <2>5. q \in Promises /\ Kept(m, T, {q}, n)
    <3>1. l < Window
      BY <1>2
    <3> QED
      BY <1>1, <1>8, <2>4, <3>1, KeptPromise
  <2>6. q.at <= n
    BY <1>1, <2>4
  <2>7. Kept(m, T, P \cup {q}, n)
    BY <2>2, <2>5 DEF Kept
  <2>8. Q = P \/ Q = P \cup {q}
    BY <1>1, <1>2, <2>4
  <2> QED
    BY <1>1, <2>2, <2>3, <2>5, <2>6, <2>7, <2>8
<1>12. KeyInv(c, More(f, n, a), More(e, n, d), T, Q, n)
  <2>1. \/ T = S /\ c = b
        \/ T = S \cup ((n + 1)..t) /\ c.ts = t
    BY <1>3, <1>5
  <2>2. /\ FailOpen \/ Level(c, n) + a * Window <= Level(b, n) + d * Limit
        /\ Level(c, n) + a * Window >= Level(b, n)
    BY <1>2, <1>4, <1>10
  <2>3. Kept(Level(c, n), T, Q, n)
    BY <1>4, <1>11
  <2>4. KeyInv(b, f, e, S, P, n) /\ c.tokens <= Full
    BY <1>1, <1>3
  <2> QED
    BY <1>11, <2>1, <2>2, <2>3, <2>4, KeyRuns
<1> QED
  BY <1>1, <1>3, <1>5, <1>12, OneKeyKeeps

(* The script did not run. *)
LEMMA PassKeepsBudget ==
    ASSUME BudgetInv, NEW k \in Principals, UNCHANGED bucketVars, UNCHANGED promised, now' = now,
           NEW a \in {0, 1}, a = 0 \/ FailOpen,
           through' = [through EXCEPT ![k] = More(through[k], now, a)]
    PROVE  BudgetInv'
<1>1. PICK n, b, f, e, S, P :
         /\ n \in Nat /\ S \in SUBSET Nat /\ P \in SUBSET Promises
         /\ n = now /\ b = bucket[k] /\ f = through[k] /\ e = early[k]
         /\ S = stalled[k] /\ P = promised[k] /\ KeyInv(b, f, e, S, P, n)
  BY DEF BudgetInv
<1>2. b \in Buckets /\ b.tokens <= Full /\ (\A p \in P : p.at <= n)
  BY <1>1 DEF KeyInv, KeyTyped
<1>3. PICK l \in Nat : l = Level(b, n)
  BY <1>1, <1>2, LevelTyped
<1>4. 0 * Window = 0 /\ 1 * Window = Window /\ 0 * Limit = 0
  BY LimitTyped
<1>5. (FailOpen \/ l + a * Window <= l + 0 * Limit) /\ l + a * Window >= l
  BY <1>4, LimitTyped
<1>6. KeyInv(b, More(f, n, a), More(e, n, 0), S, P, n)
  <2>1. Kept(l, S, P, n)
    BY <1>1, <1>3 DEF KeyInv
  <2>2. 0 \in Nat
    OBVIOUS
  <2> QED
    BY <1>1, <1>2, <1>3, <1>5, <2>1, <2>2, KeyRuns
<1>7. More(e, n, 0) = e
  <2>1. e \in [0..MaxTime -> Nat] /\ n \in 0..MaxTime
    BY <1>1 DEF KeyInv, KeyTyped, Tallied
  <2>2. e[n] + 0 = e[n]
    BY <2>1
  <2> QED
    BY <2>1, <2>2 DEF More
<1>8. /\ bucket' = [bucket EXCEPT ![k] = b] /\ early' = [early EXCEPT ![k] = e]
      /\ stalled' = [stalled EXCEPT ![k] = S] /\ promised' = [promised EXCEPT ![k] = P]
  BY <1>1 DEF BudgetInv, bucketVars
<1> QED
  BY <1>1, <1>6, <1>7, <1>8, OneKeyKeeps

LEMMA RefusedKeepsBudget ==
    ASSUME IdentityInv, BudgetInv, NEW c \in Clients, Refused(c)
    PROVE  BudgetInv'
<1>0. request[c].pc = "limit" /\ now' = now /\ through' = through
  BY DEF Refused
<1>1. PICK k \in Principals : k = Key(c)
  BY <1>0, KeyIsPrincipal
<1>2. Tokens(k) < Window /\ Script(k)
  BY <1>1 DEF Refused
<1>3. PICK w \in Nat : w = Window - Tokens(k) /\ w > 0
  <2>1. PICK b \in Buckets : b = bucket[k] /\ b.tokens <= Full
    BY DEF BudgetInv, KeyInv, KeyTyped
  <2>2. PICK l \in Nat : l = Tokens(k)
    BY <2>1, LevelTyped, TokensIsLevel DEF BudgetInv
  <2> QED
    BY <1>2, <2>2, LimitTyped
<1>4. retryAfterSeconds(k) = secondsCeil(w)
  BY <1>3, WaitCovers DEF retryAfterSeconds
<1>5. PICK q : /\ q = [at |-> now, over |-> now + secondsCeil(Window - Tokens(k)) * Second]
               /\ promised' = [promised EXCEPT ![k] = promised[k] \cup {q}]
  BY <1>1, <1>3, <1>4 DEF Refused, BudgetInv
<1>6. through' = [through EXCEPT ![k] = More(through[k], now, 0)]
  BY <1>0, SpendNothing
<1> QED
  BY <1>0, <1>2, <1>5, <1>6, DenialKeepsBudget

LEMMA LimiterFailsKeepsBudget ==
    ASSUME IdentityInv, BudgetInv, NEW c \in Clients, LimiterFails(c)
    PROVE  BudgetInv'
<1>0. request[c].pc = "limit" /\ now' = now
  BY DEF LimiterFails
<1>1. PICK k \in Principals : k = Key(c) /\ k = Principal(c)
  BY <1>0, KeyIsPrincipal
<1>2. CASE /\ Tokens(k) >= Window
           /\ Script(k)
           /\ Spend(k)
           /\ promised' = [promised EXCEPT ![k] = {}]
  BY <1>0, <1>2, TakeKeepsBudget
<1>3. CASE /\ IF request'[c].pc = "forward" THEN Spend(k) ELSE UNCHANGED through
           /\ UNCHANGED promised
           /\ UNCHANGED bucketVars \/ (Tokens(k) < Window /\ Script(k))
  <2>1. PICK a \in {0, 1} : /\ a = 0 \/ FailOpen
                            /\ through' = [through EXCEPT ![k] = More(through[k], now, a)]
    <3>1. CASE FailOpen
      <4>1. CASE Spend(k)
        BY <3>1, <4>1, SpendIsMore
      <4>2. CASE UNCHANGED through
        BY <4>2, SpendNothing
      <4> QED
        BY <1>3, <4>1, <4>2
    <3>2. CASE ~FailOpen
      <4>1. request'[c] = Idle
        BY <3>2 DEF LimiterFails, WithoutLimiter, Done, IdentityInv, Types
      <4>2. request'[c].pc # "forward"
        BY <4>1, IdleTyped
      <4> QED
        BY <1>3, <4>2, SpendNothing
    <3> QED
      BY <3>1, <3>2
  <2>2. CASE UNCHANGED bucketVars
    BY <1>0, <1>3, <2>1, <2>2, PassKeepsBudget
  <2>3. CASE Tokens(k) < Window /\ Script(k)
    <3>1. promised' = [promised EXCEPT ![k] = promised[k]]
      BY <1>3 DEF BudgetInv
    <3> QED
      BY <1>0, <2>1, <2>3, <3>1, DenialKeepsBudget
  <2> QED
    BY <1>3, <2>2, <2>3
<1> QED
  BY <1>1, <1>2, <1>3 DEF LimiterFails

LEMMA BudgetStep == IdentityInv /\ BudgetInv /\ [Next]_vars => BudgetInv'
<1> SUFFICES ASSUME IdentityInv, BudgetInv, [Next]_vars PROVE BudgetInv'
  OBVIOUS
<1>1. CASE UNCHANGED <<limiterVars, now>>
  BY <1>1 DEF BudgetInv, limiterVars, bucketVars
<1>2. ASSUME NEW c \in Clients, Allowed(c) PROVE BudgetInv'
  <2>0. request[c].pc = "limit" /\ now' = now
    BY <1>2 DEF Allowed
  <2>1. PICK k \in Principals : k = Key(c) /\ k = Principal(c)
    BY <2>0, KeyIsPrincipal
  <2> QED
    BY <1>2, <2>0, <2>1, TakeKeepsBudget DEF Allowed
<1>3. ASSUME NEW c \in Clients, Refused(c) PROVE BudgetInv'
  BY <1>3, RefusedKeepsBudget
<1>4. ASSUME NEW c \in Clients, LimiterFails(c) PROVE BudgetInv'
  BY <1>4, LimiterFailsKeepsBudget
<1>5. CASE Tick
  <2>1. /\ now' = now + 1 /\ now < MaxTime /\ bucket' = bucket /\ through' = through
        /\ early' = early /\ stalled' = stalled /\ promised' = promised
    BY <1>5 DEF Tick, limiterVars, bucketVars
  <2>2. ASSUME NEW k \in Principals
        PROVE  KeyInv(bucket[k], through[k], early[k], stalled[k], promised[k], now + 1)
    BY <2>1, KeyTicks DEF BudgetInv
  <2> QED
    BY <2>1, <2>2 DEF BudgetInv
<1>6. ASSUME NEW c \in Clients, NEW route, NEW e, NEW form, NEW token, NEW claimed,
             Receive(c, route, e, form, token, claimed)
      PROVE  BudgetInv'
  BY <1>1, <1>6 DEF Receive
<1>7. ASSUME NEW c \in Clients, RequireJWT(c) \/ Proxied(c) \/ UpstreamFails(c) PROVE BudgetInv'
  BY <1>1, <1>7 DEF RequireJWT, Proxied, UpstreamFails
<1>8. CASE UNCHANGED vars
  BY <1>1, <1>8 DEF vars
<1> QED
  BY <1>2, <1>3, <1>4, <1>5, <1>6, <1>7, <1>8 DEF Next

LEMMA BudgetHolds == Spec => [](IdentityInv /\ BudgetInv)
<1>1. Init => IdentityInv /\ BudgetInv
  BY IdentityStart, BudgetStart
<1>2. IdentityInv /\ BudgetInv /\ [Next]_vars => (IdentityInv /\ BudgetInv)'
  BY IdentityStep, BudgetStep
<1> QED
  BY <1>1, <1>2, PTL DEF Spec

LEMMA HistoriesAre ==
    /\ \A f, s : Since(f, s) = Spent(f, s, now)
    /\ \A k, s : Cardinality(Stalled(k, s)) = Missed(stalled[k], s, now)
BY DEF Since, Spent, Stalled, Missed

(* What is known of one key. *)
LEMMA KeyKnown ==
    ASSUME BudgetInv, NEW k \in Principals
    PROVE  \E l \in Nat :
               /\ l = Tokens(k) /\ now \in Nat
               /\ Tallied(through[k], now) /\ Tallied(early[k], now)
               /\ FailOpen \/ AtMost(l, through[k], early[k], now)
               /\ AtLeast(l, through[k], stalled[k], now)
               /\ promised[k] \in SUBSET Promises /\ Kept(l, stalled[k], promised[k], now)
<1>1. PICK b \in Buckets : /\ b = bucket[k] /\ b.tokens <= Full
                           /\ KeyInv(b, through[k], early[k], stalled[k], promised[k], now)
  BY DEF BudgetInv, KeyInv, KeyTyped
<1>2. PICK l \in Nat : l = Level(b, now) /\ l = Tokens(k)
  BY <1>1, LevelTyped, TokensIsLevel DEF BudgetInv
<1> QED
  BY <1>1, <1>2 DEF BudgetInv, KeyInv, KeyTyped

(* Retry-After, rounded up by secondsCeil: for any limit, window, length of a  *)
(* second and rounding of ts a client finds a token once it has waited as long *)
(* as it was told and the ticks that ts was ahead of, unless the key was used  *)
(* in between.                                                                 *)
THEOREM GatewayRetryAfterIsEnough == Spec => []RetryAfterIsEnough
<1>1. BudgetInv => RetryAfterIsEnough
  <2> SUFFICES ASSUME BudgetInv, NEW k \in Principals, NEW p \in promised[k],
                      now >= p.over + Cardinality(Stalled(k, p.at + 1))
               PROVE  Tokens(k) >= Window
    BY DEF RetryAfterIsEnough
  <2>1. PICK l \in Nat :
           /\ l = Tokens(k) /\ now \in Nat
           /\ promised[k] \in SUBSET Promises /\ Kept(l, stalled[k], promised[k], now)
    BY KeyKnown
  <2>2. now >= p.over + Missed(stalled[k], p.at + 1, now)
    BY HistoriesAre
  <2> QED
    BY <2>1, <2>2, KeptIsEnough
<1> QED
  BY <1>1, BudgetHolds, PTL

(* RateLimit with FailOpen off, as main leaves it: in any span of time no      *)
(* principal gets more past the limiter than a full bucket, its refill and     *)
(* what the rounding of ts refills again, whatever errors the limiter returns. *)
THEOREM GatewayShieldsFromBursts ==
    ASSUME ~FailOpen
    PROVE  Spec => []ShieldedFromBursts
<1>1. IdentityInv /\ BudgetInv => ShieldedFromBursts
  <2> SUFFICES ASSUME BudgetInv, NEW k \in Principals, NEW s \in 0..now
               PROVE  Cardinality(Since(through[k], s)) * Window <=
                          Full + (now - s + Cardinality(Since(early[k], s))) * Limit
    BY DEF ShieldedFromBursts
  <2>1. PICK n, f, e : n = now /\ f = through[k] /\ e = early[k]
    OBVIOUS
  <2>2. PICK l \in Nat : n \in Nat /\ Tallied(f, n) /\ Tallied(e, n) /\ AtMost(l, f, e, n)
    BY <2>1, KeyKnown
  <2>3. s \in 0..n /\ s \in 0..(n + 1)
    BY <2>1, <2>2
  <2>4. PICK j \in Nat, i \in Nat : j = Count(f, s, n) /\ i = Count(e, s, n)
    BY <2>2, <2>3, CountTyped
  <2>5. PICK u \in Nat : u = j * Window
    BY LimitTyped
  <2>6. PICK r \in Int : r = (n - s + i) * Limit
    BY <2>2, <2>3, LimitTyped
  <2>7. u + l <= Full + r
    BY <2>2, <2>3, <2>4, <2>5, <2>6 DEF AtMost
  <2>8. u <= Full + r
    BY <2>7, LimitTyped
  <2> QED
    BY <2>1, <2>4, <2>5, <2>6, <2>8, HistoriesAre DEF Count
<1> QED
  BY <1>1, BudgetHolds, PTL

(* KeyBySubjectOrIP, ClientIP and the script: whoever is refused has used      *)
(* Limit requests within the last Window under its own account or address, or  *)
(* fewer by what did not refill, however clients share addresses and whoever   *)
(* else is served, refused or failed.                                          *)
THEOREM GatewayRefusesOwnTraffic == Spec => []RefusedForOwnTraffic
<1>1. IdentityInv /\ BudgetInv => RefusedForOwnTraffic
  <2> SUFFICES ASSUME IdentityInv, BudgetInv, NEW c \in Clients, request[c].pc = "limit",
                      Tokens(Key(c)) < Window,
                      NEW k, k = Principal(c),
                      NEW from, from = IF now < Window THEN 0 ELSE now - Window + 1
               PROVE  Cardinality(Since(through[k], from)) * Window
                         + Cardinality(Stalled(k, from)) * Limit > Full - Window
    BY DEF RefusedForOwnTraffic
  <2>1. k \in Principals /\ k = Key(c)
    BY KeyIsPrincipal
  <2>2. PICK n, f, S : n = now /\ f = through[k] /\ S = stalled[k]
    OBVIOUS
  <2>3. PICK l \in Nat : l < Window /\ n \in Nat /\ Tallied(f, n) /\ AtLeast(l, f, S, n)
    <3>1. PICK l \in Nat : l = Tokens(k) /\ n \in Nat /\ Tallied(f, n) /\ AtLeast(l, f, S, n)
      BY <2>1, <2>2, KeyKnown
    <3> QED
      BY <2>1, <3>1
  <2>4. PICK s \in 0..(n + 1) : /\ s = from
                                /\ s > 0 => n - s + 1 = Window
    BY <2>2, <2>3, LimitTyped
  <2>5. PICK u \in Nat : u = Count(f, s, n) * Window
    <3>1. Count(f, s, n) \in Nat
      BY <2>3, CountTyped
    <3> QED
      BY <3>1, LimitTyped
  <2>6. PICK v \in Nat : v = Missed(S, s, n) * Limit
    <3>1. s \in Nat
      OBVIOUS
    <3>2. Missed(S, s, n) \in Nat
      BY <2>3, <3>1, MissedTyped
    <3> QED
      BY <3>2, LimitTyped
  <2>7. Window * Limit = Full
    BY LimitTyped DEF Full
  <2>8. l + u + v >= Full \/ (s > 0 /\ l + u + v >= (n - s + 1) * Limit)
    BY <2>3, <2>5, <2>6 DEF AtLeast
  <2>9. u + v > Full - Window
    BY <2>3, <2>4, <2>7, <2>8, LimitTyped
  <2> QED
    BY <2>2, <2>4, <2>5, <2>6, <2>9, HistoriesAre DEF Count
<1> QED
  BY <1>1, BudgetHolds, PTL
=============================================================================
