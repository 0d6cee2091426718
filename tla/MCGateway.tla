------------------------------ MODULE MCGateway ------------------------------
(* One client has an account already; both may try to take the address that *)
(* is left, or to log in to either.  Both come through nginx, one address.  *)
EXTENDS Gateway, TLC

CONSTANTS c1, c2, a1, a2, nginx

MCClients == {c1, c2}
MCEmails == {a1, a2}
MCAccounts == (a1 :> c1) @@ (a2 :> "none")
MCAddress == (c1 :> nginx) @@ (c2 :> nginx)
=============================================================================
