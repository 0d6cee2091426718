-------------------------------- MODULE Auth --------------------------------
(***************************************************************************)
(* The auth service (services/auth): the users table and the tokens that   *)
(* signup and login issue.  The unique index on lower(email) lets one      *)
(* address have one row, so an account is its address; the random id of    *)
(* the row, the token's subject, stands for the same account.  Clients     *)
(* have a password each that no other client knows, so a password hash is  *)
(* the client whose password it matches.                                   *)
(***************************************************************************)
EXTENDS Integers

CONSTANTS
    Clients,
    Emails,     \* addresses
    Second,     \* ticks in a second
    TTL         \* lifetime of a token, in ticks

ASSUME AuthAssumption ==
    /\ Second \in Nat \ {0}
    /\ TTL \in Nat \ {0}
    /\ "none" \notin Clients \cup Emails

VARIABLES
    users,      \* password of the account with this address
    now

\* How a request may spell an address: in any letter case, as a mailbox with a
\* display name, or as something ParseAddress refuses.
Forms == {"plain", "named", "malformed"}

-----------------------------------------------------------------------------
\* NumericDate has whole seconds.
NumericDate(t) == (t \div Second) * Second

NoToken == [sub |-> "none", nbf |-> 0, exp |-> 0, signed |-> FALSE]

\* respondWithToken.
Token(e) == [sub |-> e, nbf |-> NumericDate(now), exp |-> NumericDate(now + TTL), signed |-> TRUE]

Reply(code, token) == [code |-> code, token |-> token]

\* Mutant of CreateUser: ON CONFLICT DO UPDATE.
UpsertUser(c, e) == [users EXCEPT ![e] = c]

\* The INSERT: an address that is taken violates the index and changes nothing.
CreateUser(c, e) == IF users[e] = "none" THEN [users EXCEPT ![e] = c] ELSE users

\* signup: normalizeEmail keeps the address of a mailbox.
Signup(c, e, form) ==
    IF form = "malformed"
    THEN Reply(400, NoToken)
    ELSE IF CreateUser(c, e) # users
         THEN Reply(201, Token(e))
         ELSE Reply(409, NoToken)

\* UserByEmail compares what it is given, trimmed and in lower case, and so
\* finds no account by the spelling with a display name.
UserByEmail(e, form) == IF form = "plain" THEN users[e] ELSE "none"

\* login: the hash, or a dummy, is compared in any case.
Login(c, e, form) ==
    IF UserByEmail(e, form) = c THEN Reply(200, Token(e)) ELSE Reply(401, NoToken)

\* me: the account of the trusted header.
Me(subject) ==
    IF subject = "none" THEN Reply(401, NoToken)
    ELSE IF users[subject] = "none" THEN Reply(404, NoToken)
    ELSE Reply(200, NoToken)

-----------------------------------------------------------------------------
\* The gateway's parser: HS256 with the shared secret, not before nbf and
\* before exp.
ValidToken(token) ==
    /\ token.signed
    /\ token.nbf <= now
    /\ now < token.exp
=============================================================================
