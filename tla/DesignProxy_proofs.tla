------------------------- MODULE DesignProxy_proofs -------------------------
(***************************************************************************)
(* Proofs about DesignProxy, for any versions, any number of changes of    *)
(* the files and of calls: types with any number of threads, and that a    *)
(* build shows up on the next request with one.                            *)
(***************************************************************************)
EXTENDS DesignProxy, TLAPS

(* What was read of the files at some time since they were as in s.        *)
Since(runtime, s) ==
  /\ runtime.assets \in s["assets"]..disk["assets"]
  /\ \E version \in s["contract"]..disk["contract"] : runtime.contract = Reading(version)

Loading == {"read", "resolve", "store"}

(* The fingerprint of a call is taken after the call began...              *)
Stamped(t) ==
  /\ \A f \in Files : began[t][f] <= disk[f]
  /\ pc[t] \in {"stat_folders", "compare", "stamp"} \cup Loading =>
       stamp[t]["contract"] \in began[t]["contract"]..disk["contract"]
  /\ pc[t] \in {"compare", "stamp"} \cup Loading =>
       stamp[t]["assets"] \in began[t]["assets"]..disk["assets"]

(* ...and before the files are read again...                               *)
Loaded(t) ==
  /\ pc[t] \in Loading => _stamp = stamp[t]
  /\ pc[t] \in {"resolve", "store"} =>
       \E version \in stamp[t]["contract"]..disk["contract"] :
         loaded[t].contract = Reading(version)
  /\ pc[t] = "store" => loaded[t].assets \in stamp[t]["assets"]..disk["assets"]

(* ...so the runtime is no older than the stamp beside it, except while    *)
(* the only thread is between setting the one and the other.               *)
Paired == (_stamp # NoStamp /\ \A t \in Threads : pc[t] \notin Loading) => Since(_runtime, _stamp)

Current(t) ==
  _watch => /\ pc[t] = "return" => Since(_runtime, began[t])
            /\ Served(t) => Since(result[t], began[t])

FreshInv == TypeOK /\ Paired /\ \A t \in Threads : Stamped(t) /\ Loaded(t) /\ Current(t)

-----------------------------------------------------------------------------
LEMMA InitTypeOK == Init => TypeOK
BY ProxyAssumption DEF Init, TypeOK, Fingerprint, Version, Runtime, Defaults

LEMMA ReadingType == \A version \in Version : Reading(version) \in Version \cup {Default}
BY DEF Reading

LEMMA NextTypeOK == TypeOK /\ [Next]_vars => TypeOK'
<1> SUFFICES ASSUME TypeOK, [Next]_vars PROVE TypeOK' OBVIOUS
<1> USE ProxyAssumption, StampAssumption DEF TypeOK
<1>1. ASSUME NEW t \in Threads, Call(t) PROVE TypeOK'
  BY <1>1 DEF Call, Goto
<1>2. ASSUME NEW t \in Threads, Check(t) PROVE TypeOK'
  BY <1>2 DEF Check, Goto
<1>3. ASSUME NEW t \in Threads, Stat(t) PROVE TypeOK'
  BY <1>3 DEF Stat, Goto, Fingerprint, Files
<1>4. ASSUME NEW t \in Threads, Compare(t) PROVE TypeOK'
  BY <1>4 DEF Compare, Goto
<1>5. ASSUME NEW t \in Threads, SetStamp(t) PROVE TypeOK'
  BY <1>5 DEF SetStamp, Goto
<1>6. ASSUME NEW t \in Threads, Read(t) PROVE TypeOK'
  BY <1>6, ReadingType DEF Read, Goto, Runtime, Fingerprint, Files
<1>7. ASSUME NEW t \in Threads, Resolve(t) PROVE TypeOK'
  BY <1>7 DEF Resolve, Goto, Runtime, Fingerprint, Files
<1>8. ASSUME NEW t \in Threads, Store(t) PROVE TypeOK'
  BY <1>8 DEF Store, Goto
<1>9. ASSUME NEW t \in Threads, Return(t) PROVE TypeOK'
  BY <1>9 DEF Return, Goto
<1>10. ASSUME Change PROVE TypeOK'
  BY <1>10 DEF Change, Fingerprint, Version
<1>11. CASE UNCHANGED vars
  BY <1>11 DEF vars
<1> QED
  BY <1>1, <1>2, <1>3, <1>4, <1>5, <1>6, <1>7, <1>8, <1>9, <1>10, <1>11 DEF Next

(* Every reachable state of the proxy has its type, for any number of      *)
(* threads that share it.                                                  *)
THEOREM TypeCorrect == Spec => []TypeOK
<1>1. Init => TypeOK BY InitTypeOK
<1>2. TypeOK /\ [Next]_vars => TypeOK' BY NextTypeOK
<1> QED BY <1>1, <1>2, PTL DEF Spec

-----------------------------------------------------------------------------
(* What was read since s was read since any r before s.                    *)
LEMMA SinceEarlier ==
  ASSUME NEW runtime, NEW s \in Fingerprint, NEW r \in Fingerprint, TypeOK,
         \A f \in Files : r[f] <= s[f], Since(runtime, s)
  PROVE  Since(runtime, r)
BY ProxyAssumption DEF Since, Fingerprint, Version, Files, TypeOK

(* The files only get newer.                                               *)
LEMMA DiskGrows ==
  ASSUME FreshInv, Change
  PROVE  FreshInv'
<1> USE ProxyAssumption
<1>1. TypeOK' BY NextTypeOK DEF FreshInv, Next
<1>2. TypeOK /\ \A f \in Files : disk[f] <= disk'[f] /\ disk[f] \in Nat /\ disk'[f] \in Nat
  BY <1>1 DEF FreshInv, TypeOK, Change, Fingerprint, Version, Files
<1>3. ASSUME NEW runtime, NEW s \in Fingerprint, Since(runtime, s)
      PROVE  /\ runtime.assets \in s["assets"]..disk'["assets"]
             /\ \E version \in s["contract"]..disk'["contract"] :
                  runtime.contract = Reading(version)
  BY <1>2, <1>3 DEF Since, Fingerprint, Version, Files
<1>4. Paired'
  BY <1>2, <1>3 DEF FreshInv, Paired, Change, Since, TypeOK
<1>5. ASSUME NEW t \in Threads PROVE Stamped(t)' /\ Loaded(t)' /\ Current(t)'
  <2>1. Stamped(t)'
    BY <1>2 DEF FreshInv, Stamped, Change, TypeOK, Fingerprint, Version, Files
  <2>2. Loaded(t)'
    BY <1>2 DEF FreshInv, Loaded, Change, TypeOK, Fingerprint, Version, Files
  <2>3. Current(t)'
    BY <1>2, <1>3 DEF FreshInv, Current, Since, Served, Change, TypeOK
  <2> QED BY <2>1, <2>2, <2>3
<1> QED BY <1>1, <1>4, <1>5 DEF FreshInv

LEMMA InitFresh == Init => FreshInv
BY InitTypeOK, ProxyAssumption
   DEF Init, FreshInv, Paired, Stamped, Loaded, Current, Served, Loading, Fingerprint, Version,
       Files, Defaults, TypeOK

LEMMA ThreadStep ==
  ASSUME \A t, u \in Threads : t = u, FreshInv, NEW t \in Threads,
         \/ Call(t) \/ Check(t) \/ Stat(t) \/ Compare(t) \/ SetStamp(t)
         \/ Read(t) \/ Resolve(t) \/ Store(t) \/ Return(t)
  PROVE  FreshInv'
<1> USE ProxyAssumption, StampAssumption
<1>1. TypeOK' BY NextTypeOK DEF FreshInv, Next
<1>2. /\ TypeOK /\ Paired /\ Stamped(t) /\ Loaded(t) /\ Current(t)
      /\ Threads = {t}
  BY DEF FreshInv
<1>3. disk' = disk /\ _watch' = _watch
  BY DEF Call, Check, Stat, Compare, SetStamp, Read, Resolve, Store, Return
<1>4. /\ disk["contract"] \in Nat /\ disk["assets"] \in Nat
      /\ began[t]["contract"] \in Nat /\ began[t]["assets"] \in Nat
      /\ stamp[t]["contract"] \in Nat /\ stamp[t]["assets"] \in Nat
  BY <1>2 DEF TypeOK, Fingerprint, Version, Files
<1> SUFFICES Paired' /\ Stamped(t)' /\ Loaded(t)' /\ Current(t)'
  BY <1>1, <1>2 DEF FreshInv
<1>5. CASE Call(t)
  BY <1>2, <1>3, <1>4, <1>5 DEF Call, Goto, Paired, Stamped, Loaded, Current, Since, Served,
       Loading, TypeOK, Files
<1>6. CASE Check(t)
  BY <1>2, <1>3, <1>4, <1>6 DEF Check, Goto, Paired, Stamped, Loaded, Current, Since, Served,
       Loading, TypeOK, Files
<1>7. CASE Stat(t)
  <2>1. CASE pc[t] = "stat"
    <3>1. /\ stamp'[t] = [stamp[t] EXCEPT !["contract"] = disk["contract"]]
          /\ pc'[t] = "stat_folders"
          /\ UNCHANGED <<_stamp, _runtime, began, result, loaded>>
      BY <1>2, <1>7, <2>1 DEF Stat, Goto, TypeOK
    <3> QED
      BY <1>2, <1>3, <1>4, <2>1, <3>1 DEF Paired, Stamped, Loaded, Current, Since, Served,
         Loading, TypeOK, Files, Fingerprint
  <2>2. CASE pc[t] = "stat_folders"
    <3>1. /\ stamp'[t] = [stamp[t] EXCEPT !["assets"] = disk["assets"]]
          /\ pc'[t] = "compare"
          /\ UNCHANGED <<_stamp, _runtime, began, result, loaded>>
      BY <1>2, <1>7, <2>2 DEF Stat, Goto, TypeOK
    <3> QED
      BY <1>2, <1>3, <1>4, <2>2, <3>1 DEF Paired, Stamped, Loaded, Current, Since, Served,
         Loading, TypeOK, Files, Fingerprint
  <2> QED BY <1>7, <2>1, <2>2 DEF Stat
<1>8. CASE Compare(t)
  <2>1. CASE stamp[t] = _stamp
    <3>1. _stamp # NoStamp /\ pc[t] = "compare"
      BY <1>2, <1>8, <2>1 DEF Compare, TypeOK
    <3>2. Since(_runtime, _stamp)
      BY <1>2, <3>1 DEF Paired, Loading
    <3>3. Since(_runtime, began[t])
      BY <1>2, <1>4, <2>1, <3>1, <3>2, SinceEarlier DEF Stamped, TypeOK, Files
    <3> QED
      BY <1>2, <1>3, <1>8, <2>1, <3>2, <3>3 DEF Compare, Goto, Paired, Stamped, Loaded, Current,
         Since, Served, Loading, TypeOK
  <2>2. CASE stamp[t] # _stamp
    BY <1>2, <1>3, <1>8, <2>2 DEF Compare, Goto, Paired, Stamped, Loaded, Current, Since, Served,
       Loading, TypeOK
  <2> QED BY <2>1, <2>2
<1>9. CASE SetStamp(t)
  BY <1>2, <1>3, <1>9 DEF SetStamp, Goto, Paired, Stamped, Loaded, Current, Since, Served,
     Loading, TypeOK
<1>10. CASE Read(t)
  BY <1>2, <1>3, <1>4, <1>10 DEF Read, Goto, Paired, Stamped, Loaded, Current, Since, Served,
     Loading, TypeOK, Runtime
<1>11. CASE Resolve(t)
  BY <1>2, <1>3, <1>4, <1>11 DEF Resolve, Goto, Paired, Stamped, Loaded, Current, Since, Served,
     Loading, TypeOK, Runtime
<1>12. CASE Store(t)
  <2>1. Since(loaded[t], stamp[t]) /\ _stamp = stamp[t] /\ pc[t] = "store"
    BY <1>2, <1>12 DEF Store, Loaded, Since, Loading
  <2>2. Since(loaded[t], began[t])
    BY <1>2, <1>4, <2>1, SinceEarlier DEF Stamped, Loading, TypeOK, Files
  <2> QED
    BY <1>2, <1>3, <1>12, <2>1, <2>2 DEF Store, Goto, Paired, Stamped, Loaded, Current, Since,
       Served, Loading, TypeOK
<1>13. CASE Return(t)
  BY <1>2, <1>3, <1>13 DEF Return, Goto, Paired, Stamped, Loaded, Current, Since, Served,
     Loading, TypeOK
<1> QED BY <1>5, <1>6, <1>7, <1>8, <1>9, <1>10, <1>11, <1>12, <1>13

(* runtime.py:77 "`make design build` shows up on the next request": with  *)
(* one worker thread, whatever the files do between any two steps of a     *)
(* call, what it returns is no older than they were when it began.         *)
THEOREM BuildShowsUp ==
  ASSUME \A t, u \in Threads : t = u
  PROVE  Spec => []ShowsUpOnNextRequest
<1>1. Init => FreshInv
  BY InitFresh
<1>2. FreshInv /\ [Next]_vars => FreshInv'
  <2> SUFFICES ASSUME FreshInv, [Next]_vars PROVE FreshInv' OBVIOUS
  <2>1. CASE UNCHANGED vars
    BY <2>1 DEF vars, FreshInv, TypeOK, Paired, Stamped, Loaded, Current, Since, Served
  <2> QED BY <2>1, DiskGrows, ThreadStep DEF Next
<1>3. FreshInv => ShowsUpOnNextRequest
  BY DEF FreshInv, Current, Since, ShowsUpOnNextRequest
<1> QED BY <1>1, <1>2, <1>3, PTL DEF Spec

-----------------------------------------------------------------------------
(* In production, once resolved: nobody is on the way to the files.        *)
Settled(runtime) ==
  /\ ~_watch /\ _stamp # NoStamp /\ _runtime = runtime
  /\ \A t \in Threads : pc[t] \in {"out", "check", "return"}

LEMMA SettledStep ==
  ASSUME NEW runtime, TypeOK, Settled(runtime), [Next]_vars
  PROVE  Settled(runtime)'
<1> USE DEF Settled, TypeOK
<1>1. ASSUME NEW t \in Threads, Call(t) \/ Check(t) \/ Return(t) PROVE Settled(runtime)'
  BY <1>1 DEF Call, Check, Return, Goto
<1>2. ASSUME NEW t \in Threads PROVE ~ (Stat(t) \/ Compare(t) \/ SetStamp(t) \/ Read(t)
                                        \/ Resolve(t) \/ Store(t))
  BY DEF Stat, Compare, SetStamp, Read, Resolve, Store
<1>3. CASE Change BY <1>3 DEF Change
<1>4. CASE UNCHANGED vars BY <1>4 DEF vars
<1> QED BY <1>1, <1>2, <1>3, <1>4 DEF Next

(* runtime.py:80 "In production it is resolved once": the identity of a    *)
(* process that has resolved it never changes again, whatever happens to   *)
(* the files and however many threads ask (DesignProxy.current).           *)
THEOREM ProductionSettles == Spec => ResolvedOnce
<1>1. ASSUME NEW CONSTANT runtime \in Runtime
      PROVE  Spec => []( /\ ~_watch /\ _stamp # NoStamp /\ _runtime = runtime
                         /\ \A t \in Threads : pc[t] = "out"
                         => [](_runtime = runtime))
  <2>1. TypeOK /\ Settled(runtime) /\ [Next]_vars => Settled(runtime)' BY SettledStep
  <2>2. (/\ ~_watch /\ _stamp # NoStamp /\ _runtime = runtime
         /\ \A t \in Threads : pc[t] = "out") => Settled(runtime)
    BY DEF Settled
  <2>3. Settled(runtime) => _runtime = runtime BY DEF Settled
  <2> QED BY <2>1, <2>2, <2>3, TypeCorrect, PTL DEF Spec
<1> QED BY <1>1 DEF ResolvedOnce
=============================================================================
