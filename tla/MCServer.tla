------------------------------ MODULE MCServer ------------------------------
(* Instances of Server for TLC: what each request may be. Every browser    *)
(* logs in to the same account; what the other account owns was there      *)
(* before.                                                                 *)
EXTENDS Server

CONSTANTS Logins, Creates, Deletes, Lists, Homes, Consents, Probes, Me1

Kind == [login |-> Logins, create |-> Creates, delete |-> Deletes, list |-> Lists,
         home |-> Homes, consent |-> Consents, health |-> Probes]

MCUser == [b \in Browsers |-> Me1]

MCWorkload ==
  [r \in Requests |-> [ops |-> {op \in Ops : r \in Kind[op]}, browsers |-> Browsers]]
=============================================================================
