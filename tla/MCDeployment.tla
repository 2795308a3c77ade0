---------------------------- MODULE MCDeployment ----------------------------
(* Instances of Deployment for TLC: what each command may be.              *)
EXTENDS Deployment

CONSTANTS Upgrades, Downgrades, Seeds

MCProcs == Upgrades \cup Downgrades \cup Seeds
Kind == [upgrade |-> Upgrades, downgrade |-> Downgrades, seed |-> Seeds]
MCWorkload == [p \in MCProcs |-> {cmd \in Commands : p \in Kind[cmd]}]
=============================================================================
