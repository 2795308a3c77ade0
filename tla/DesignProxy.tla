----------------------------- MODULE DesignProxy -----------------------------
(***************************************************************************)
(* DesignProxy of app/design_engine/runtime.py: the identity every page    *)
(* reads through the `design` global of the templates. One proxy serves    *)
(* every worker thread, without a lock; each read of an attribute calls    *)
(* current(), whose reads and writes of the proxy and of the disk may      *)
(* interleave with another thread's and with the design commands.          *)
(*                                                                         *)
(* design.toml and the folders of fonts and scripts are files with a       *)
(* version, which is what their mtime tells; a version that is in Broken   *)
(* does not parse. What a runtime is made of is the version of each.       *)
(***************************************************************************)
EXTENDS Naturals, FiniteSets

CONSTANTS
  Threads,      \* the worker threads
  Modes,        \* development (TRUE), production or either; bounds the model
  Broken,       \* the versions of design.toml that do not parse
  MaxVersion,   \* bounds the model
  MaxCalls,     \* calls of current() by each thread; bounds the model
  NoStamp, Default

Version == 0..MaxVersion

ASSUME ProxyAssumption ==
  /\ Modes \subseteq BOOLEAN /\ MaxVersion \in Nat /\ MaxCalls \in Nat
  /\ Broken \subseteq Version /\ Default \notin Version

Files       == {"contract", "assets"}
Fingerprint == [Files -> Version]
Runtime     == [contract : Version \cup {Default}, assets : Version \cup {Default}]

ASSUME StampAssumption == NoStamp \notin Fingerprint

VARIABLES
  disk,         \* the version of each file
  _watch, _stamp, _runtime,
  pc, calls,
  stamp, loaded, \* locals of each thread's call
  result,
  began          \* observation only: the disk when the call began

vars == <<disk, _watch, _stamp, _runtime, pc, calls, stamp, loaded, result, began>>

Defaults == [contract |-> Default, assets |-> Default]

TypeOK ==
  /\ disk \in Fingerprint
  /\ _watch \in BOOLEAN
  /\ _stamp \in Fingerprint \cup {NoStamp}
  /\ _runtime \in Runtime
  /\ pc \in [Threads -> {"out", "check", "stat", "stat_folders", "compare", "stamp", "read",
                         "resolve", "store", "return"}]
  /\ calls \in [Threads -> 0..MaxCalls]
  /\ stamp \in [Threads -> Fingerprint]
  /\ loaded \in [Threads -> Runtime]
  /\ result \in [Threads -> Runtime]
  /\ began \in [Threads -> Fingerprint]

Init ==
  /\ disk = [f \in Files |-> 0]
  /\ _watch \in Modes
  /\ _stamp = NoStamp
  /\ _runtime = Defaults
  /\ pc = [t \in Threads |-> "out"]
  /\ calls = [t \in Threads |-> 0]
  /\ stamp = [t \in Threads |-> disk]
  /\ loaded = [t \in Threads |-> Defaults]
  /\ result = [t \in Threads |-> Defaults]
  /\ began = [t \in Threads |-> disk]

(* Mutant: None for a contract that does not parse. *)
ReadingNone(version) == IF version \in Broken THEN NoStamp ELSE version

(* load_contract, and the defaults if what it reads does not parse. *)
Reading(version) == IF version \in Broken THEN Default ELSE version

Goto(t, step) == pc' = [pc EXCEPT ![t] = step]

(* A template reads an attribute of `design`. *)
Call(t) ==
  /\ pc[t] = "out" /\ calls[t] < MaxCalls
  /\ calls' = [calls EXCEPT ![t] = @ + 1]
  /\ began' = [began EXCEPT ![t] = disk]
  /\ Goto(t, "check")
  /\ UNCHANGED <<disk, _watch, _stamp, _runtime, stamp, loaded, result>>

(* Mutant: production looks at the files too. *)
CheckAlways(t) ==
  /\ pc[t] = "check"
  /\ Goto(t, "stat")
  /\ UNCHANGED <<disk, _watch, _stamp, _runtime, calls, stamp, loaded, result, began>>

Check(t) ==
  /\ pc[t] = "check"
  /\ Goto(t, IF _stamp # NoStamp /\ ~_watch THEN "return" ELSE "stat")
  /\ UNCHANGED <<disk, _watch, _stamp, _runtime, calls, stamp, loaded, result, began>>

(* _fingerprint: one stat after another. *)
Stat(t) ==
  /\ pc[t] \in {"stat", "stat_folders"}
  /\ LET file == IF pc[t] = "stat" THEN "contract" ELSE "assets"
     IN  stamp' = [stamp EXCEPT ![t][file] = disk[file]]
  /\ Goto(t, IF pc[t] = "stat" THEN "stat_folders" ELSE "compare")
  /\ UNCHANGED <<disk, _watch, _stamp, _runtime, calls, loaded, result, began>>

Compare(t) ==
  /\ pc[t] = "compare"
  /\ Goto(t, IF stamp[t] # _stamp THEN "stamp" ELSE "return")
  /\ UNCHANGED <<disk, _watch, _stamp, _runtime, calls, stamp, loaded, result, began>>

SetStamp(t) ==
  /\ pc[t] = "stamp"
  /\ _stamp' = stamp[t]
  /\ Goto(t, "read")
  /\ UNCHANGED <<disk, _watch, _runtime, calls, stamp, loaded, result, began>>

(* _load: the contract first, and then the files that exist.               *)
Read(t) ==
  /\ pc[t] = "read"
  /\ loaded' = [loaded EXCEPT ![t].contract = Reading(disk["contract"])]
  /\ Goto(t, "resolve")
  /\ UNCHANGED <<disk, _watch, _stamp, _runtime, calls, stamp, result, began>>

Resolve(t) ==
  /\ pc[t] = "resolve"
  /\ loaded' = [loaded EXCEPT ![t].assets = disk["assets"]]
  /\ Goto(t, "store")
  /\ UNCHANGED <<disk, _watch, _stamp, _runtime, calls, stamp, result, began>>

(* Mutant: the stamp is taken again, after the load. *)
StoreAndStamp(t) ==
  /\ pc[t] = "store"
  /\ _runtime' = loaded[t]
  /\ _stamp' = disk
  /\ Goto(t, "return")
  /\ UNCHANGED <<disk, _watch, calls, stamp, loaded, result, began>>

Store(t) ==
  /\ pc[t] = "store"
  /\ _runtime' = loaded[t]
  /\ Goto(t, "return")
  /\ UNCHANGED <<disk, _watch, _stamp, calls, stamp, loaded, result, began>>

Return(t) ==
  /\ pc[t] = "return"
  /\ result' = [result EXCEPT ![t] = _runtime]
  /\ Goto(t, "out")
  /\ UNCHANGED <<disk, _watch, _stamp, _runtime, calls, stamp, loaded, began>>

(* A design command writes design.toml, or adds a font or a library.       *)
Change ==
  /\ \E file \in Files : disk[file] < MaxVersion /\ disk' = [disk EXCEPT ![file] = @ + 1]
  /\ UNCHANGED <<_watch, _stamp, _runtime, pc, calls, stamp, loaded, result, began>>

Next ==
  \/ \E t \in Threads :
       \/ Call(t) \/ Check(t) \/ Stat(t) \/ Compare(t) \/ SetStamp(t)
       \/ Read(t) \/ Resolve(t) \/ Store(t) \/ Return(t)
  \/ Change

Spec == Init /\ [][Next]_vars
-----------------------------------------------------------------------------
(***************************************************************************)
(* Properties.                                                             *)
(***************************************************************************)
Served(t) == pc[t] = "out" /\ calls[t] > 0

(* app/design_engine/runtime.py:77 "`make design build` shows up on the    *)
(* next request": what a call returns is no older than the files were when *)
(* it began, whenever a command writes them, between any two of its steps. *)
ShowsUpOnNextRequest ==
  _watch => \A t \in Threads : Served(t) =>
    /\ result[t].assets \in began[t]["assets"]..disk["assets"]
    /\ \E version \in began[t]["contract"]..disk["contract"] :
         result[t].contract = Reading(version)

(* "In production it is resolved once" (runtime.py:80): a process that is  *)
(* in production and idle, and has resolved it, never does so again.       *)
ResolvedOnce ==
  \A runtime \in Runtime :
    []( /\ ~_watch /\ _stamp # NoStamp /\ _runtime = runtime
        /\ \A t \in Threads : pc[t] = "out"
        => [](_runtime = runtime))
=============================================================================
