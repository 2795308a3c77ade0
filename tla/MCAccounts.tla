----------------------------- MODULE MCAccounts -----------------------------
(* Instances of Accounts for TLC. A configuration says how many requests   *)
(* of each kind there are; the requests of a kind are interchangeable.     *)
EXTENDS AccountsInv, TLC

CONSTANTS Logins, Registers, Forgots, Forms, Resets, Pages, Logouts

Kind == [login |-> Logins, register |-> Registers, forgot |-> Forgots, form |-> Forms,
         reset |-> Resets, page |-> Pages, logout |-> Logouts]

MCRequests == UNION {Kind[op] : op \in DOMAIN Kind}
MCWorkload == [r \in MCRequests |-> {op \in DOMAIN Kind : r \in Kind[op]}]

NoRequest == {}
NoCredential == {}
EveryCredential == {"session", "link"} \X MCRequests
EveryLink == {"link"} \X MCRequests

Symmetry ==
  UNION ({Permutations(Kind[op]) : op \in DOMAIN Kind} \cup {Permutations(Passwords)})
=============================================================================
