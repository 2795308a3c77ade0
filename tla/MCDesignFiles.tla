---------------------------- MODULE MCDesignFiles ----------------------------
(* Instances of DesignFiles for TLC: what each command may be. Two fonts   *)
(* and two libraries, so that a build can stop between them. Commands that *)
(* may be the same are interchangeable.                                    *)
EXTENDS DesignFiles, TLC

CONSTANTS Edits, Inits, Builds, Watches

Kind == [edit |-> Edits, init |-> Inits, build |-> Builds, watch |-> Watches]

MCProcs == UNION {Kind[cmd] : cmd \in Commands}
MCWorkload == [p \in MCProcs |-> {cmd \in Commands : p \in Kind[cmd]}]

Everyone == MCProcs
MCFonts == <<"regular", "bold">>
MCLibs  == <<"gsap", "ScrollTrigger">>

Symmetry == UNION {Permutations(Kind[cmd]) : cmd \in Commands}
=============================================================================
