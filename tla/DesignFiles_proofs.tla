------------------------- MODULE DesignFiles_proofs -------------------------
(***************************************************************************)
(* Proofs about DesignFiles, for any number of commands, fonts and         *)
(* libraries, and whatever is killed or cut off.                           *)
(***************************************************************************)
EXTENDS DesignFiles, FiniteSetTheorems, SequenceTheorems, TLAPS

(* The names a file goes by, and what may be in it.                        *)
PathsOf(kind)   == {kind, Tmp(kind)}
ContentOf(kind) == IF kind = "toml" THEN Contract \cup {Empty, Torn} ELSE Sheet \cup {Empty, Torn}

NamedBy(i, kind) ==
  \/ \E f \in PathsOf(kind) : link[f] = i
  \/ \E p \in Procs : fd[p] = i /\ target[p] = kind

(* No text of one file ever lands in the other.                            *)
Apart ==
  \A i \in Inodes :
    /\ ~ (NamedBy(i, "toml") /\ NamedBy(i, "css"))
    /\ \A kind \in Files : NamedBy(i, kind) => data[i] \in ContentOf(kind)

Fetching == {"fonts", "truncate", "fill", "libs"}
Writing  == {"open", "write", "replace"}

(* What a command has at hand at each step.                                *)
ProcOK(p) ==
  /\ pc[p] = "write" <=> fd[p] # NoFile
  /\ pc[p] = "edit" => job[p] \in Jobs /\ job[p].cmd = "edit"
  /\ pc[p] = "fonts" => todo[p] \in Seq(Elements(Fonts))
  /\ pc[p] = "libs" => todo[p] \in Seq(Elements(Libs))
  /\ pc[p] \in {"truncate", "fill"} =>
       /\ todo[p] # <<>>
       /\ todo[p] \in Seq(Elements(Fonts)) \cup Seq(Elements(Libs))
  /\ pc[p] \in Fetching => target[p] = "css"
  /\ pc[p] \in Fetching \cup Writing /\ target[p] = "css" => seen[p] # Empty

Base ==
  /\ TypeOK /\ Apart /\ link["css"] # NoFile
  /\ \A p \in Procs : ProcOK(p)

(* The private state of a command that takes no step.                      *)
Still(q) ==
  /\ pc'[q] = pc[q] /\ job'[q] = job[q] /\ contract'[q] = contract[q] /\ target'[q] = target[q]
  /\ seen'[q] = seen[q] /\ fd'[q] = fd[q] /\ todo'[q] = todo[q]

Pcs == {"idle", "edit", "init", "poll", "load", "css", "fonts", "libs",
        "truncate", "fill", "open", "write", "replace"} \cup Over

-----------------------------------------------------------------------------
LEMMA PathFacts ==
  /\ \A kind \in Files : /\ kind \in Paths /\ Tmp(kind) \in Paths /\ kind # Tmp(kind)
                         /\ PathsOf(kind) \subseteq Paths
  /\ \A f \in PathsOf("toml") : f \notin PathsOf("css")
  /\ Paths = PathsOf("toml") \cup PathsOf("css")
BY DEF Files, Paths, Tmp, PathsOf

LEMMA PathCount == IsFiniteSet(Paths) /\ Cardinality(Paths) = 4
<1>1. IsFiniteSet({"toml"}) /\ Cardinality({"toml"}) = 1 BY FS_Singleton
<1>2. IsFiniteSet({"toml"} \cup {"css"}) /\ Cardinality({"toml"} \cup {"css"}) = 2
  BY <1>1, FS_AddElement
<1>3. /\ IsFiniteSet(({"toml"} \cup {"css"}) \cup {"toml.tmp"})
      /\ Cardinality(({"toml"} \cup {"css"}) \cup {"toml.tmp"}) = 3
  BY <1>2, FS_AddElement
<1>4. /\ IsFiniteSet((({"toml"} \cup {"css"}) \cup {"toml.tmp"}) \cup {"css.tmp"})
      /\ Cardinality((({"toml"} \cup {"css"}) \cup {"toml.tmp"}) \cup {"css.tmp"}) = 4
  BY <1>3, FS_AddElement
<1>5. Paths = (({"toml"} \cup {"css"}) \cup {"toml.tmp"}) \cup {"css.tmp"} BY DEF Paths, Files
<1> QED BY <1>4, <1>5

LEMMA InodeFacts ==
  /\ IsFiniteSet(Inodes) /\ Cardinality(Inodes) = 4 + Cardinality(Procs)
  /\ Cardinality(Procs) \in Nat /\ 1 \in Inodes /\ 2 \in Inodes
<1>1. Cardinality(Procs) \in Nat BY FilesAssumption, FS_CardinalityType
<1>2. Inodes = 1 .. (4 + Cardinality(Procs)) BY PathCount DEF Inodes
<1> QED BY <1>1, <1>2, FS_Interval

LEMMA ContractFacts ==
  /\ Default \in Contract /\ Preset \in Contract
  /\ Default \notin {NoFile, Empty, Torn} /\ NoFile \notin Inodes
  /\ Empty # Torn /\ Empty # NoFile /\ Torn # NoFile
  /\ \A c \in Contract \cup Sheet : c # Empty /\ c # Torn /\ c # NoFile
<1>1. Default \in Contract /\ Preset \in Contract BY DEF Default, Preset, Contract, Colors
<1>2. \A c \in Contract \cup Sheet : c # Empty /\ c # Torn /\ c # NoFile
  BY AbsentAssumption DEF Content
<1>3. Empty # Torn /\ Empty # NoFile /\ Torn # NoFile /\ NoFile \notin Inodes
  BY AbsentAssumption DEF Content
<1> QED BY <1>1, <1>2, <1>3

(* What load_contract finds.                                               *)
LEMMA ReadingFacts ==
  ASSUME Base
  PROVE  /\ At("toml") \in Contract \cup {Empty, Torn, NoFile}
         /\ At("css") \in Sheet \cup {Empty, Torn} /\ link["css"] \in Inodes
         /\ \A c \in Readings(At("toml")) : c \in Contract \cup {Torn}
<1> USE ContractFacts
<1>1. TypeOK /\ Apart BY DEF Base
<1>2. link["css"] \in Inodes /\ link["toml"] \in Inodes \cup {NoFile}
  BY <1>1, PathFacts DEF Base, TypeOK, Files
<1>3. At("css") \in Sheet \cup {Empty, Torn}
  <2>1. NamedBy(link["css"], "css") BY DEF NamedBy, PathsOf
  <2> QED BY <1>1, <1>2, <2>1 DEF Apart, At, ContentOf, Files, Base
<1>4. At("toml") \in Contract \cup {Empty, Torn, NoFile}
  <2>1. CASE link["toml"] = NoFile BY <2>1 DEF At
  <2>2. CASE link["toml"] # NoFile
    <3>1. NamedBy(link["toml"], "toml") BY DEF NamedBy, PathsOf
    <3> QED BY <1>1, <1>2, <2>2, <3>1 DEF Apart, At, ContentOf, Files
  <2> QED BY <2>1, <2>2
<1>5. \A c \in Readings(At("toml")) : c \in Contract \cup {Torn}
  BY <1>4 DEF Readings
<1> QED BY <1>2, <1>3, <1>4, <1>5

(* There is always an inode to spare: a path or a command that has a file  *)
(* open names at most one, and the temporary name and the command that is  *)
(* about to open it name none.                                             *)
LEMMA InodeToSpare ==
  ASSUME Base, NEW p \in Procs, fd[p] = NoFile, NEW tmp \in Paths, link[tmp] = NoFile
  PROVE  /\ FreeInode \in Inodes
         /\ \A f \in Paths : link[f] # FreeInode
         /\ \A q \in Procs : fd[q] # FreeInode
<1> DEFINE users == ({0} \X (Paths \ {tmp})) \cup ({1} \X (Procs \ {p}))
           free(i) == /\ \A f \in Paths : link[f] # i
                      /\ \A q \in Procs : fd[q] # i
           uses(i, u) == IF u[1] = 0 THEN link[u[2]] = i ELSE fd[u[2]] = i
<1> SUFFICES \E i \in Inodes : free(i) BY DEF FreeInode
<1> SUFFICES ASSUME \A i \in Inodes : ~ free(i) PROVE FALSE OBVIOUS
<1>1. /\ IsFiniteSet(Inodes) /\ Cardinality(Inodes) = 4 + Cardinality(Procs)
      /\ Cardinality(Procs) \in Nat
  BY InodeFacts
<1>2. \A i \in Inodes : \E u \in users : uses(i, u)
  <2> SUFFICES ASSUME NEW i \in Inodes PROVE \E u \in users : uses(i, u) OBVIOUS
  <2>1. i # NoFile BY ContractFacts
  <2>2. CASE \E f \in Paths : link[f] = i
    <3>1. PICK f \in Paths : link[f] = i BY <2>2
    <3>2. <<0, f>> \in users BY <2>1, <3>1
    <3>3. uses(i, <<0, f>>) BY <3>1
    <3> QED BY <3>2, <3>3
  <2>3. CASE \E q \in Procs : fd[q] = i
    <3>1. PICK q \in Procs : fd[q] = i BY <2>3
    <3>2. <<1, q>> \in users BY <2>1, <3>1
    <3>3. uses(i, <<1, q>>) BY <3>1
    <3> QED BY <3>2, <3>3
  <2> QED BY <2>2, <2>3
<1> DEFINE user == [i \in Inodes |-> CHOOSE u \in users : uses(i, u)]
<1>3. \A i \in Inodes : user[i] \in users /\ uses(i, user[i]) BY <1>2
<1>4. user \in Injection(Inodes, users)
  <2>1. user \in [Inodes -> users] BY <1>3
  <2>2. \A i, j \in Inodes : user[i] = user[j] => i = j
    <3> HIDE DEF user
    <3> QED BY <1>3
  <2> HIDE DEF user, users
  <2> QED BY <2>1, <2>2 DEF Injection, IsInjective
<1>5. IsFiniteSet(users) /\ Cardinality(users) <= 3 + (Cardinality(Procs) - 1)
      /\ Cardinality(users) \in Nat
  <2>1. /\ IsFiniteSet(Paths \ {tmp}) /\ Cardinality(Paths \ {tmp}) = 3
        /\ IsFiniteSet(Procs \ {p}) /\ Cardinality(Procs \ {p}) = Cardinality(Procs) - 1
    BY PathCount, FilesAssumption, FS_RemoveElement
  <2>2. /\ IsFiniteSet({0}) /\ Cardinality({0}) = 1
        /\ IsFiniteSet({1}) /\ Cardinality({1}) = 1
    BY FS_Singleton
  <2>3. /\ IsFiniteSet({0} \X (Paths \ {tmp})) /\ Cardinality({0} \X (Paths \ {tmp})) = 1 * 3
    BY <2>1, <2>2, FS_Product
  <2>4. /\ IsFiniteSet({1} \X (Procs \ {p}))
        /\ Cardinality({1} \X (Procs \ {p})) = 1 * (Cardinality(Procs) - 1)
    BY <2>1, <2>2, FS_Product
  <2> DEFINE both == ({0} \X (Paths \ {tmp})) \cap ({1} \X (Procs \ {p}))
  <2>5. /\ IsFiniteSet(users)
        /\ Cardinality(users) = 3 + (Cardinality(Procs) - 1) - Cardinality(both)
    BY <1>1, <2>3, <2>4, FS_Union
  <2>6. Cardinality(both) \in Nat BY <2>3, FS_Intersection, FS_CardinalityType
  <2>7. Cardinality(users) \in Nat BY <2>5, FS_CardinalityType
  <2> HIDE DEF users, both
  <2> QED BY <1>1, <2>5, <2>6, <2>7
<1>6. Cardinality(Inodes) <= Cardinality(users) BY <1>4, <1>5, FS_Injection
<1> HIDE DEF users
<1> QED BY <1>1, <1>5, <1>6

-----------------------------------------------------------------------------
(***************************************************************************)
(* Types, and that no two names of different files share an inode.         *)
(***************************************************************************)
LEMMA GotoType ==
  ASSUME TypeOK, NEW p \in Procs, NEW step \in Pcs, Goto(p, step)
  PROVE  pc' \in [Procs -> Pcs] /\ pc'[p] = step
BY DEF TypeOK, Goto, Pcs

LEMMA EndsType ==
  ASSUME TypeOK, NEW p \in Procs, NEW outcome \in {"done", "failed"}, Ends(p, outcome)
  PROVE  pc' \in [Procs -> Pcs] /\ pc'[p] \in {"poll", outcome}
<1>1. CASE job[p].cmd = "watch" BY <1>1, GotoType DEF Ends, Pcs, Over
<1>2. CASE job[p].cmd # "watch" BY <1>2, GotoType DEF Ends, Pcs, Over
<1> QED BY <1>1, <1>2

(* A step that names no inode anew and writes none.                        *)
LEMMA SameNames ==
  ASSUME Base, NEW p \in Procs, UNCHANGED <<link, data, fd>>, fd[p] = NoFile,
         \A q \in Procs : q # p => target'[q] = target[q]
  PROVE  Apart'
<1>1. \A i \in Inodes : i # NoFile BY ContractFacts
<1>2. \A i \in Inodes : \A kind \in Files : NamedBy(i, kind)' => NamedBy(i, kind)
  BY <1>1 DEF NamedBy
<1> QED BY <1>2 DEF Base, Apart, Files

(* What a step of p has to show when it leaves the disk alone.             *)
LEMMA LocalStep ==
  ASSUME Base, NEW p \in Procs, UNCHANGED <<link, data, fd>>, TypeOK', ProcOK(p)',
         pc[p] # "write", \A q \in Procs : q # p => Still(q)
  PROVE  Base'
<1>1. Apart' BY SameNames DEF Base, ProcOK, Still
<1>2. \A q \in Procs : q # p => ProcOK(q)' BY DEF Base, ProcOK, Still
<1> QED BY <1>1, <1>2 DEF Base

LEMMA StartStep ==
  ASSUME Base, NEW p \in Procs, Start(p)
  PROVE  Base'
<1>1. TypeOK /\ ProcOK(p) BY DEF Base
<1>2. PICK j \in Jobs : job' = [job EXCEPT ![p] = j] /\ Goto(p, First[j.cmd])
  BY DEF Start
<1>3. /\ j.cmd \in Commands /\ First[j.cmd] \in {"edit", "init", "load", "poll"}
      /\ First[j.cmd] = "edit" => j.cmd = "edit"
  BY DEF Jobs, Commands, First
<1>4. pc' \in [Procs -> Pcs] /\ pc'[p] = First[j.cmd]
  BY <1>1, <1>2, <1>3, GotoType DEF Pcs
<1>5. /\ UNCHANGED <<Disk, Mine, unseen>> /\ pc[p] = "idle"
      /\ \A q \in Procs : q # p => Still(q)
      /\ job'[p] = j /\ job' \in [Procs -> Jobs \cup {NoJob}]
  BY <1>1, <1>2 DEF Start, Goto, TypeOK, Still, Mine
<1>6. TypeOK' BY <1>1, <1>4, <1>5 DEF TypeOK, Pcs, Disk, Mine
<1>7. ProcOK(p)' BY <1>1, <1>3, <1>4, <1>5 DEF ProcOK, Mine, Fetching, Writing
<1> QED BY <1>5, <1>6, <1>7, LocalStep DEF Disk, Mine

LEMMA EditedContract ==
  ASSUME NEW c \in Contract, NEW j \in Jobs, j.cmd = "edit"
  PROVE  [c EXCEPT ![j.key] = j.val] \in Contract
<1>1. \/ j.key = "color" /\ j.val \in Colors
      \/ j.key \in {"font", "motion"} /\ j.val \in BOOLEAN
  BY DEF Jobs
<1>2. CASE j.key = "color" /\ j.val \in Colors BY <1>2 DEF Contract
<1>3. CASE j.key = "font" /\ j.val \in BOOLEAN BY <1>3 DEF Contract
<1>4. CASE j.key = "motion" /\ j.val \in BOOLEAN BY <1>4 DEF Contract
<1> QED BY <1>1, <1>2, <1>3, <1>4

(* A command that made the contract it is to write.                        *)
LEMMA RewriteStep ==
  ASSUME Base, NEW p \in Procs, NEW c \in Contract, Rewrite(p, c), pc[p] \in {"edit", "init"},
         UNCHANGED <<Disk, job, seen, fd, todo, unseen>>
  PROVE  Base'
<1>1. TypeOK /\ ProcOK(p) BY DEF Base
<1>2. pc' \in [Procs -> Pcs] /\ pc'[p] = "open" BY <1>1, GotoType DEF Rewrite, Pcs
<1>3. /\ contract' \in [Procs -> Contract] /\ target' \in [Procs -> Files] /\ target'[p] = "toml"
      /\ \A q \in Procs : q # p => Still(q)
  BY <1>1 DEF Rewrite, Goto, TypeOK, Still, Files
<1>4. TypeOK' BY <1>1, <1>2, <1>3 DEF TypeOK, Pcs, Disk
<1>5. ProcOK(p)' BY <1>1, <1>2, <1>3 DEF ProcOK, Fetching, Writing
<1> QED BY <1>1, <1>3, <1>4, <1>5, LocalStep DEF Disk

(* A command that gives up, or a watch that goes back to waiting.          *)
LEMMA EndsStep ==
  ASSUME Base, NEW p \in Procs, NEW outcome \in {"done", "failed"}, Ends(p, outcome),
         fd[p] = NoFile, UNCHANGED <<Disk, job, Mine, unseen>>
  PROVE  Base'
<1>1. TypeOK /\ ProcOK(p) BY DEF Base
<1>2. pc' \in [Procs -> Pcs] /\ pc'[p] \in {"poll", "done", "failed"} BY <1>1, EndsType
<1>3. \A q \in Procs : q # p => Still(q) BY <1>1 DEF Ends, Goto, TypeOK, Still, Mine
<1>4. TypeOK' BY <1>1, <1>2 DEF TypeOK, Pcs, Disk, Mine
<1>5. ProcOK(p)' BY <1>2 DEF ProcOK, Mine, Fetching, Writing
<1> QED BY <1>1, <1>3, <1>4, <1>5, LocalStep DEF Disk, Mine, ProcOK

LEMMA EditStep ==
  ASSUME Base, NEW p \in Procs, Edit(p)
  PROVE  Base'
<1>1. PICK c \in Readings(At("toml")) :
        \/ /\ c # Torn
           /\ Rewrite(p, [c EXCEPT ![job[p].key] = job[p].val])
        \/ /\ c = Torn
           /\ Ends(p, "failed") /\ UNCHANGED <<contract, target>>
  BY DEF Edit
<1>2. /\ pc[p] = "edit" /\ UNCHANGED <<Disk, job, seen, fd, todo, unseen>> /\ ProcOK(p)
  BY DEF Edit, Base
<1>3. CASE c # Torn /\ Rewrite(p, [c EXCEPT ![job[p].key] = job[p].val])
  <2>1. c \in Contract BY <1>3, ReadingFacts
  <2>2. job[p] \in Jobs /\ job[p].cmd = "edit" BY <1>2 DEF ProcOK
  <2>3. [c EXCEPT ![job[p].key] = job[p].val] \in Contract BY <2>1, <2>2, EditedContract
  <2> QED BY <1>2, <1>3, <2>3, RewriteStep
<1>4. CASE Ends(p, "failed") /\ UNCHANGED <<contract, target>>
  BY <1>2, <1>4, EndsStep DEF ProcOK, Mine
<1> QED BY <1>1, <1>3, <1>4

LEMMA NewStep ==
  ASSUME Base, NEW p \in Procs, New(p)
  PROVE  Base'
<1>1. \/ \E preset \in {Default, Preset} : Rewrite(p, preset)
      \/ Ends(p, "failed") /\ UNCHANGED <<contract, target>>
  BY DEF New
<1>2. /\ pc[p] = "init" /\ UNCHANGED <<Disk, job, seen, fd, todo, unseen>> /\ ProcOK(p)
  BY DEF New, Base
<1>3. CASE \E preset \in {Default, Preset} : Rewrite(p, preset)
  BY <1>2, <1>3, ContractFacts, RewriteStep
<1>4. CASE Ends(p, "failed") /\ UNCHANGED <<contract, target>>
  BY <1>2, <1>4, EndsStep DEF ProcOK, Mine
<1> QED BY <1>1, <1>3, <1>4

LEMMA PollStep ==
  ASSUME Base, NEW p \in Procs, Poll(p)
  PROVE  Base'
<1>1. TypeOK /\ ProcOK(p) BY DEF Base
<1>2. pc' \in [Procs -> Pcs] /\ pc'[p] = "load" BY <1>1, GotoType DEF Poll, Pcs
<1>3. /\ \A q \in Procs : q # p => Still(q)
      /\ unseen' \in [Procs -> BOOLEAN] /\ pc[p] = "poll" /\ UNCHANGED <<Disk, job, Mine>>
  BY <1>1 DEF Poll, Goto, TypeOK, Still, Mine
<1>4. TypeOK' BY <1>1, <1>2, <1>3 DEF TypeOK, Pcs, Disk, Mine
<1>5. ProcOK(p)' BY <1>1, <1>2, <1>3 DEF ProcOK, Mine, Fetching, Writing
<1> QED BY <1>3, <1>4, <1>5, LocalStep DEF Disk, Mine

LEMMA LoadStep ==
  ASSUME Base, NEW p \in Procs, Load(p)
  PROVE  Base'
<1>1. TypeOK /\ ProcOK(p) BY DEF Base
<1>2. pc[p] = "load" /\ UNCHANGED <<Disk, job, target, seen, fd, todo, unseen>> BY DEF Load
<1>3. CASE Ends(p, "failed") /\ UNCHANGED contract
  BY <1>1, <1>2, <1>3, EndsStep DEF ProcOK, Mine
<1>4. ASSUME NEW c \in Readings(At("toml")), c # Torn, Goto(p, "css"),
             contract' = [contract EXCEPT ![p] = c]
      PROVE  Base'
  <2>1. c \in Contract BY <1>4, ReadingFacts
  <2>2. pc' \in [Procs -> Pcs] /\ pc'[p] = "css" BY <1>1, <1>4, GotoType DEF Pcs
  <2>3. /\ \A q \in Procs : q # p => Still(q)
        /\ contract' \in [Procs -> Contract]
    BY <1>1, <1>2, <1>4, <2>1 DEF Goto, TypeOK, Still
  <2>4. TypeOK' BY <1>1, <1>2, <2>2, <2>3 DEF TypeOK, Pcs, Disk
  <2>5. ProcOK(p)' BY <1>1, <1>2, <2>2 DEF ProcOK, Fetching, Writing
  <2> QED BY <1>2, <2>3, <2>4, <2>5, LocalStep DEF Disk
<1> QED BY <1>3, <1>4 DEF Load

LEMMA AssetSeqs ==
  /\ Fonts \in Seq(Elements(Fonts)) /\ Libs \in Seq(Elements(Libs))
  /\ \A new \in {Libs, <<>>} : new \in Seq(Elements(Libs)) /\ new \in Seq(Assets)
  /\ \A s \in Seq(Elements(Fonts)) \cup Seq(Elements(Libs)) :
       /\ s \in Seq(Assets)
       /\ s # <<>> => Head(s) \in Assets
<1>1. Elements(Fonts) \subseteq Assets /\ Elements(Libs) \subseteq Assets BY DEF Assets
<1> HIDE DEF Elements, Assets
<1>2. ASSUME NEW S, NEW s \in Seq(S), S \subseteq Assets
      PROVE  s \in Seq(Assets) /\ (s # <<>> => Head(s) \in Assets)
  BY <1>2
<1>3. \A S : <<>> \in Seq(S) OBVIOUS
<1> QED BY <1>1, <1>2, <1>3, FilesAssumption

LEMMA CompileStep ==
  ASSUME Base, NEW p \in Procs, Compile(p)
  PROVE  Base'
<1>1. TypeOK /\ ProcOK(p) BY DEF Base
<1>2. pc[p] = "css" /\ UNCHANGED <<Disk, job, contract, fd, unseen>> BY DEF Compile
<1>3. CASE Ends(p, "failed") /\ UNCHANGED <<target, seen, todo>>
  BY <1>1, <1>2, <1>3, EndsStep DEF ProcOK, Mine
<1>4. CASE /\ At("css") # Empty
           /\ target' = [target EXCEPT ![p] = "css"]
           /\ seen' = [seen EXCEPT ![p] = At("css")]
           /\ todo' = [todo EXCEPT ![p] = IF contract[p].font THEN Fonts ELSE <<>>]
           /\ Goto(p, "fonts")
  <2>1. At("css") \in Sheet \cup {Empty, Torn} BY ReadingFacts
  <2>2. pc' \in [Procs -> Pcs] /\ pc'[p] = "fonts" BY <1>1, <1>4, GotoType DEF Pcs
  <2>3. \A q \in Procs : q # p => Still(q)
    BY <1>1, <1>2, <1>4 DEF Goto, TypeOK, Still
  <2>4. todo'[p] \in Seq(Elements(Fonts)) /\ todo'[p] \in Seq(Assets)
    BY <1>1, <1>4, AssetSeqs DEF TypeOK
  <2>5. todo' \in [Procs -> Seq(Assets)] BY <1>1, <1>4, <2>4 DEF TypeOK
  <2>6. /\ target' \in [Procs -> Files] /\ target'[p] = "css"
        /\ seen' \in [Procs -> Sheet \cup {Empty, Torn}] /\ seen'[p] # Empty
    BY <1>1, <1>4, <2>1 DEF TypeOK, Files
  <2>7. TypeOK' BY <1>1, <1>2, <2>2, <2>5, <2>6 DEF TypeOK, Pcs, Disk
  <2>8. ProcOK(p)' BY <1>1, <1>2, <2>2, <2>4, <2>6 DEF ProcOK, Fetching, Writing
  <2> QED BY <1>2, <2>3, <2>7, <2>8, LocalStep DEF Disk
<1> QED BY <1>3, <1>4 DEF Compile

(* Visit, Truncate and Fill touch no file but a font or a library.         *)
LEMMA VisitStep ==
  ASSUME Base, NEW p \in Procs, Visit(p)
  PROVE  Base'
<1>1. TypeOK /\ ProcOK(p) BY DEF Base
<1>2. /\ pc[p] \in {"fonts", "libs"} /\ todo[p] # <<>>
      /\ UNCHANGED <<Disk, job, contract, target, seen, fd, unseen>>
  BY DEF Visit
<1>3. todo[p] \in Seq(Elements(Fonts)) \cup Seq(Elements(Libs)) BY <1>1, <1>2 DEF ProcOK
<1>4. CASE todo' = [todo EXCEPT ![p] = Tail(@)] /\ UNCHANGED pc
  <2>1. /\ \A S : todo[p] \in Seq(S) => Tail(todo[p]) \in Seq(S)
        /\ todo'[p] = Tail(todo[p])
    BY <1>1, <1>2, <1>4 DEF TypeOK
  <2>2. todo' \in [Procs -> Seq(Assets)] BY <1>1, <1>4, <2>1 DEF TypeOK
  <2>3. TypeOK' BY <1>1, <1>2, <1>4, <2>2 DEF TypeOK, Disk
  <2>4. ProcOK(p)' BY <1>1, <1>2, <1>4, <2>1 DEF ProcOK, Fetching, Writing
  <2>5. \A q \in Procs : q # p => Still(q) BY <1>1, <1>2, <1>4 DEF TypeOK, Still
  <2> QED BY <1>2, <2>3, <2>4, <2>5, LocalStep DEF Disk
<1>5. CASE Goto(p, "truncate") /\ UNCHANGED todo
  <2>1. pc' \in [Procs -> Pcs] /\ pc'[p] = "truncate" BY <1>1, <1>5, GotoType DEF Pcs
  <2>2. \A q \in Procs : q # p => Still(q) BY <1>1, <1>2, <1>5 DEF Goto, TypeOK, Still
  <2>3. TypeOK' BY <1>1, <1>2, <1>5, <2>1 DEF TypeOK, Pcs, Disk
  <2>4. ProcOK(p)' BY <1>1, <1>2, <1>3, <1>5, <2>1 DEF ProcOK, Fetching, Writing
  <2> QED BY <1>2, <2>2, <2>3, <2>4, LocalStep DEF Disk
<1>6. CASE Ends(p, "failed") /\ UNCHANGED todo
  BY <1>1, <1>2, <1>6, EndsStep DEF ProcOK, Mine
<1> QED BY <1>4, <1>5, <1>6 DEF Visit

LEMMA TruncateStep ==
  ASSUME Base, NEW p \in Procs, Truncate(p)
  PROVE  Base'
<1>1. TypeOK /\ ProcOK(p) BY DEF Base
<1>2. pc[p] = "truncate" /\ UNCHANGED <<link, data, job, Mine, unseen>> BY DEF Truncate
<1>3. pc' \in [Procs -> Pcs] /\ pc'[p] = "fill" BY <1>1, GotoType DEF Truncate, Pcs
<1>4. /\ \A q \in Procs : q # p => Still(q)
      /\ asset' \in [Assets -> {"absent", "partial", "whole"}]
  BY <1>1 DEF Truncate, Goto, TypeOK, Still, Mine
<1>5. TypeOK' BY <1>1, <1>2, <1>3, <1>4 DEF TypeOK, Pcs, Mine
<1>6. ProcOK(p)' BY <1>1, <1>2, <1>3 DEF ProcOK, Mine, Fetching, Writing
<1> QED BY <1>2, <1>4, <1>5, <1>6, LocalStep DEF Mine

LEMMA FillStep ==
  ASSUME Base, NEW p \in Procs, Fill(p)
  PROVE  Base'
<1>1. TypeOK /\ ProcOK(p) BY DEF Base
<1>2. /\ pc[p] = "fill" /\ UNCHANGED <<link, data, job, contract, target, seen, fd, unseen>>
      /\ Goto(p, IF Head(todo[p]) \in Elements(Fonts) THEN "fonts" ELSE "libs")
  BY DEF Fill
<1>3. /\ todo[p] # <<>> /\ todo[p] \in Seq(Elements(Fonts)) \cup Seq(Elements(Libs))
      /\ target[p] = "css"
  BY <1>1, <1>2 DEF ProcOK, Fetching
<1>4. /\ pc' \in [Procs -> Pcs]
      /\ pc'[p] = IF Head(todo[p]) \in Elements(Fonts) THEN "fonts" ELSE "libs"
  BY <1>1, <1>2, GotoType DEF Pcs
<1>5. /\ \A q \in Procs : q # p => Still(q) /\ todo'[q] = todo[q]
      /\ asset' \in [Assets -> {"absent", "partial", "whole"}]
      /\ todo'[p] = Tail(todo[p]) /\ todo' = [todo EXCEPT ![p] = Tail(todo[p])]
  BY <1>1 DEF Fill, Goto, TypeOK, Still
<1>6. \A S : todo[p] \in Seq(S) => Tail(todo[p]) \in Seq(S) /\ Head(todo[p]) \in S
  BY <1>3
<1>7. IF Head(todo[p]) \in Elements(Fonts) THEN todo[p] \in Seq(Elements(Fonts))
                                           ELSE todo[p] \in Seq(Elements(Libs))
  BY <1>3, <1>6, FilesAssumption
<1>8. TypeOK'
  <2>1. Tail(todo[p]) \in Seq(Assets) BY <1>1, <1>6 DEF TypeOK
  <2>2. todo' \in [Procs -> Seq(Assets)] BY <1>1, <1>5, <2>1 DEF TypeOK
  <2> QED BY <1>1, <1>2, <1>4, <1>5, <2>2 DEF TypeOK, Pcs
<1>9. ProcOK(p)' BY <1>1, <1>2, <1>3, <1>4, <1>5, <1>6, <1>7 DEF ProcOK, Fetching, Writing
<1> QED BY <1>2, <1>5, <1>8, <1>9, LocalStep

LEMMA FontsReadyStep ==
  ASSUME Base, NEW p \in Procs, FontsReady(p)
  PROVE  Base'
<1>1. TypeOK /\ ProcOK(p) BY DEF Base
<1>2. /\ pc[p] = "fonts" /\ UNCHANGED <<Disk, job, contract, target, seen, fd, unseen>>
      /\ Goto(p, "libs")
      /\ \E new \in {Libs, <<>>} : todo' = [todo EXCEPT ![p] = new]
  BY DEF FontsReady
<1>3. pc' \in [Procs -> Pcs] /\ pc'[p] = "libs" BY <1>1, <1>2, GotoType DEF Pcs
<1>4. /\ todo'[p] \in Seq(Elements(Libs)) /\ todo' \in [Procs -> Seq(Assets)]
      /\ \A q \in Procs : q # p => Still(q)
  <2>1. PICK new \in {Libs, <<>>} : todo' = [todo EXCEPT ![p] = new] BY <1>2
  <2>2. new \in Seq(Elements(Libs)) /\ new \in Seq(Assets) BY AssetSeqs
  <2>3. todo'[p] = new BY <1>1, <2>1 DEF TypeOK
  <2>4. todo' \in [Procs -> Seq(Assets)] BY <1>1, <2>1, <2>2 DEF TypeOK
  <2>5. \A q \in Procs : q # p => Still(q) BY <1>1, <1>2, <2>1 DEF TypeOK, Goto, Still
  <2> QED BY <2>2, <2>3, <2>4, <2>5
<1>5. TypeOK' BY <1>1, <1>2, <1>3, <1>4 DEF TypeOK, Pcs, Disk
<1>6. ProcOK(p)' BY <1>1, <1>2, <1>3, <1>4 DEF ProcOK, Fetching, Writing
<1> QED BY <1>2, <1>4, <1>5, <1>6, LocalStep DEF Disk

LEMMA CompareStep ==
  ASSUME Base, NEW p \in Procs, Compare(p)
  PROVE  Base'
<1>1. TypeOK /\ ProcOK(p) BY DEF Base
<1>2. pc[p] = "libs" /\ UNCHANGED <<Disk, job, Mine, unseen>> BY DEF Compare
<1>3. CASE Ends(p, "done") BY <1>1, <1>2, <1>3, EndsStep DEF ProcOK
<1>4. CASE Goto(p, "open")
  <2>1. pc' \in [Procs -> Pcs] /\ pc'[p] = "open" BY <1>1, <1>4, GotoType DEF Pcs
  <2>2. \A q \in Procs : q # p => Still(q) BY <1>1, <1>2, <1>4 DEF Goto, TypeOK, Still, Mine
  <2>3. TypeOK' BY <1>1, <1>2, <2>1 DEF TypeOK, Pcs, Disk, Mine
  <2>4. ProcOK(p)' BY <1>1, <1>2, <2>1 DEF ProcOK, Mine, Fetching, Writing
  <2> QED BY <1>2, <2>2, <2>3, <2>4, LocalStep DEF Disk, Mine
<1> QED BY <1>3, <1>4 DEF Compare

(***************************************************************************)
(* write_atomically.                                                       *)
(***************************************************************************)
(* The inode p is about to write: the one its temporary name already has,  *)
(* or one that nobody names.                                               *)
OpenInode(p) ==
  IF link[Tmp(target[p])] = NoFile THEN FreeInode ELSE link[Tmp(target[p])]

LEMMA OpenInodeFacts ==
  ASSUME Base, NEW p \in Procs, pc[p] = "open"
  PROVE  /\ OpenInode(p) \in Inodes
         /\ \A kind \in Files : NamedBy(OpenInode(p), kind) => kind = target[p]
         /\ link[Tmp(target[p])] = NoFile => /\ \A f \in Paths : link[f] # OpenInode(p)
                                             /\ \A q \in Procs : fd[q] # OpenInode(p)
<1>1. TypeOK /\ Apart /\ fd[p] = NoFile /\ target[p] \in Files
  BY DEF Base, ProcOK, TypeOK
<1>2. Tmp(target[p]) \in Paths BY <1>1, PathFacts
<1>3. CASE link[Tmp(target[p])] = NoFile
  <2>1. /\ FreeInode \in Inodes
        /\ \A f \in Paths : link[f] # FreeInode
        /\ \A q \in Procs : fd[q] # FreeInode
    BY <1>1, <1>2, <1>3, InodeToSpare
  <2>2. OpenInode(p) = FreeInode BY <1>3 DEF OpenInode
  <2>3. \A kind \in Files : ~ NamedBy(OpenInode(p), kind)
    BY <2>1, <2>2, PathFacts DEF NamedBy
  <2> QED BY <2>1, <2>2, <2>3
<1>4. CASE link[Tmp(target[p])] # NoFile
  <2>1. OpenInode(p) = link[Tmp(target[p])] /\ OpenInode(p) \in Inodes
    BY <1>1, <1>2, <1>4 DEF OpenInode, TypeOK
  <2>2. NamedBy(OpenInode(p), target[p]) BY <2>1 DEF NamedBy, PathsOf
  <2>3. \A kind \in Files : NamedBy(OpenInode(p), kind) => kind = target[p]
    BY <1>1, <2>1, <2>2 DEF Apart, Files
  <2> QED BY <1>4, <2>1, <2>3
<1> QED BY <1>3, <1>4

(* What a step does to the names of an inode: only opening gives new ones. *)
LEMMA OpenNames ==
  ASSUME Base, NEW p \in Procs, Open(p), NEW x \in Inodes, NEW kind \in Files, NamedBy(x, kind)'
  PROVE  NamedBy(x, kind) \/ (x = OpenInode(p) /\ kind = target[p])
<1>1. TypeOK /\ target[p] \in Files /\ Tmp(target[p]) \in Paths
  BY PathFacts DEF Base, TypeOK
<1>2. /\ link' = [link EXCEPT ![Tmp(target[p])] = OpenInode(p)]
      /\ fd' = [fd EXCEPT ![p] = OpenInode(p)] /\ target' = target
  BY DEF Open, OpenInode
<1>3. CASE \E f \in PathsOf(kind) : link'[f] = x
  <2>1. PICK f \in PathsOf(kind) : link'[f] = x BY <1>3
  <2>2. f \in Paths BY <2>1, PathFacts
  <2>3. CASE f = Tmp(target[p])
    <3>1. x = OpenInode(p) BY <1>1, <1>2, <2>1, <2>3 DEF TypeOK
    <3>2. kind = target[p] BY <1>1, <2>1, <2>3 DEF Files, PathsOf, Tmp
    <3> QED BY <3>1, <3>2
  <2>4. CASE f # Tmp(target[p])
    BY <1>1, <1>2, <2>1, <2>2, <2>4 DEF TypeOK, NamedBy
  <2> QED BY <2>3, <2>4
<1>4. CASE \E q \in Procs : fd'[q] = x /\ target'[q] = kind
  BY <1>1, <1>2, <1>4 DEF TypeOK, NamedBy
<1> QED BY <1>3, <1>4 DEF NamedBy

LEMMA ReplaceNames ==
  ASSUME Base, NEW p \in Procs, Replace(p), NEW x \in Inodes, NEW kind \in Files, NamedBy(x, kind)'
  PROVE  NamedBy(x, kind)
<1>1. /\ TypeOK /\ target[p] \in Files /\ target[p] \in Paths /\ Tmp(target[p]) \in Paths
      /\ target[p] # Tmp(target[p]) /\ x # NoFile
  BY PathFacts, ContractFacts DEF Base, TypeOK
<1>2. UNCHANGED <<fd, target>> BY DEF Replace, Mine
<1>3. CASE link' = link BY <1>2, <1>3 DEF NamedBy
<1>4. CASE link' = [link EXCEPT ![target[p]] = link[Tmp(target[p])], ![Tmp(target[p])] = NoFile]
  <2> SUFFICES ASSUME \E f \in PathsOf(kind) : link'[f] = x
               PROVE  \E f \in PathsOf(kind) : link[f] = x
    BY <1>2 DEF NamedBy
  <2>1. PICK f \in PathsOf(kind) : link'[f] = x OBVIOUS
  <2>2. f \in Paths BY <2>1, PathFacts
  <2>3. CASE f = target[p]
    <3>1. link[Tmp(target[p])] = x /\ kind = target[p]
      BY <1>1, <1>4, <2>1, <2>3 DEF TypeOK, PathsOf, Files, Tmp
    <3> QED BY <3>1 DEF PathsOf
  <2>4. CASE f # target[p] BY <1>1, <1>4, <2>1, <2>2, <2>4 DEF TypeOK
  <2> QED BY <2>3, <2>4
<1> QED BY <1>3, <1>4 DEF Replace

LEMMA OpenStep ==
  ASSUME Base, NEW p \in Procs, Open(p)
  PROVE  Base'
<1> DEFINE i == OpenInode(p)
<1>1. TypeOK /\ ProcOK(p) /\ Apart BY DEF Base
<1>2. /\ pc[p] = "open" /\ UNCHANGED <<asset, job, contract, target, seen, todo, unseen>>
      /\ link' = [link EXCEPT ![Tmp(target[p])] = i]
      /\ data' = [data EXCEPT ![i] = Empty] /\ fd' = [fd EXCEPT ![p] = i]
  BY DEF Open, OpenInode
<1>3. /\ i \in Inodes /\ i # NoFile
      /\ \A kind \in Files : NamedBy(i, kind) => kind = target[p]
  BY <1>2, OpenInodeFacts, ContractFacts
<1> HIDE DEF i
<1>4. target[p] \in Files /\ Tmp(target[p]) \in Paths /\ "css" # Tmp(target[p])
  BY <1>1, PathFacts DEF TypeOK, Tmp
<1>5. pc' \in [Procs -> Pcs] /\ pc'[p] = "write" BY <1>1, GotoType DEF Open, Pcs
<1>6. \A q \in Procs : q # p => Still(q) BY <1>1, <1>2 DEF Open, Goto, TypeOK, Still
<1>7. TypeOK'
  <2>1. link' \in [Paths -> Inodes \cup {NoFile}] BY <1>1, <1>2, <1>3 DEF TypeOK
  <2>2. data' \in [Inodes -> Content] BY <1>1, <1>2 DEF TypeOK, Content
  <2>3. fd' \in [Procs -> Inodes \cup {NoFile}] BY <1>1, <1>2, <1>3 DEF TypeOK
  <2> QED BY <1>1, <1>2, <1>5, <2>1, <2>2, <2>3 DEF TypeOK, Pcs
<1>8. ProcOK(p)' BY <1>1, <1>2, <1>3, <1>5 DEF ProcOK, TypeOK, Fetching, Writing
<1>9. Apart'
  <2>1. ASSUME NEW x \in Inodes, NEW kind \in Files, NamedBy(x, kind)'
        PROVE  NamedBy(x, kind) \/ (x = i /\ kind = target[p])
    BY <2>1, OpenNames DEF i
  <2>2. \A x \in Inodes : ~ (NamedBy(x, "toml")' /\ NamedBy(x, "css")')
    BY <1>1, <1>3, <1>4, <2>1 DEF Apart, Files
  <2>3. \A x \in Inodes : \A kind \in Files : NamedBy(x, kind)' => data'[x] \in ContentOf(kind)
    <3> SUFFICES ASSUME NEW x \in Inodes, NEW kind \in Files, NamedBy(x, kind)'
                 PROVE  data'[x] \in ContentOf(kind)
      OBVIOUS
    <3>1. CASE x = i BY <1>1, <1>2, <1>3, <3>1 DEF TypeOK, ContentOf
    <3>2. CASE x # i BY <1>1, <1>2, <2>1, <3>2 DEF Apart, TypeOK
    <3> QED BY <3>1, <3>2
  <2> QED BY <2>2, <2>3 DEF Apart
<1>10. link'["css"] # NoFile
  BY <1>1, <1>2, <1>4 DEF Base, TypeOK, Paths, Files
<1> QED BY <1>6, <1>7, <1>8, <1>9, <1>10 DEF Base, ProcOK, Still

LEMMA TextFacts ==
  ASSUME Base, NEW p \in Procs, pc[p] \in Writing \cup Fetching
  PROVE  /\ Text(p) \in ContentOf(target[p]) /\ Text(p) \in Content /\ Text(p) # Empty
         /\ target[p] = "toml" => Text(p) = contract[p]
         /\ target[p] = "css" /\ seen[p] # Torn =>
              /\ seen[p] \in Sheet
              /\ Text(p) = [of |-> contract[p], user |-> seen[p].user] /\ Text(p) \in Sheet
<1> USE ContractFacts
<1>1. TypeOK /\ ProcOK(p) BY DEF Base
<1>2. target[p] \in Files /\ contract[p] \in Contract /\ seen[p] \in Sheet \cup {Empty, Torn}
  BY <1>1 DEF TypeOK
<1>3. CASE target[p] = "toml" BY <1>2, <1>3 DEF Text, ContentOf, Content
<1>4. CASE target[p] = "css" /\ seen[p] = Torn BY <1>4 DEF Text, ContentOf, Content
<1>5. CASE target[p] = "css" /\ seen[p] # Torn
  <2>1. seen[p] \in Sheet BY <1>1, <1>2, <1>5 DEF ProcOK
  <2>2. [of |-> contract[p], user |-> seen[p].user] \in Sheet BY <1>2, <2>1 DEF Sheet
  <2>3. Text(p) = [of |-> contract[p], user |-> seen[p].user] BY <1>5 DEF Text
  <2> QED BY <1>5, <2>1, <2>2, <2>3 DEF ContentOf, Content
<1> QED BY <1>2, <1>3, <1>4, <1>5 DEF Files

LEMMA WriteStep ==
  ASSUME Base, NEW p \in Procs, Write(p)
  PROVE  Base'
<1>1. TypeOK /\ ProcOK(p) /\ Apart BY DEF Base
<1>2. /\ pc[p] = "write" /\ UNCHANGED <<link, asset, job, contract, target, seen, todo>>
      /\ fd' = [fd EXCEPT ![p] = NoFile]
  BY DEF Write
<1>3. PICK new \in {Text(p), Torn} : data' = [data EXCEPT ![fd[p]] = new] BY DEF Write
<1>4. /\ fd[p] \in Inodes /\ target[p] \in Files /\ NamedBy(fd[p], target[p])
  BY <1>1, <1>2 DEF TypeOK, ProcOK, NamedBy
<1>5. new \in ContentOf(target[p]) /\ new \in Content
  BY <1>2, <1>4, TextFacts DEF ContentOf, Content, Writing
<1>6. pc' \in [Procs -> Pcs] /\ pc'[p] = "replace" BY <1>1, GotoType DEF Write, Pcs
<1>7. \A q \in Procs : q # p => Still(q) BY <1>1, <1>2 DEF Write, Goto, TypeOK, Still
<1>8. TypeOK'
  <2>1. data' \in [Inodes -> Content] BY <1>1, <1>3, <1>5 DEF TypeOK
  <2>2. unseen' \in [Procs -> BOOLEAN] BY <1>1 DEF Write, Touched, TypeOK
  <2>3. fd' \in [Procs -> Inodes \cup {NoFile}] BY <1>1, <1>2 DEF TypeOK
  <2> QED BY <1>1, <1>2, <1>6, <2>1, <2>2, <2>3 DEF TypeOK, Pcs
<1>9. ProcOK(p)' BY <1>1, <1>2, <1>6 DEF ProcOK, TypeOK, Fetching, Writing
<1>10. Apart'
  <2>1. \A x \in Inodes : \A kind \in Files : NamedBy(x, kind)' => NamedBy(x, kind)
    BY <1>1, <1>2, ContractFacts DEF NamedBy, TypeOK
  <2>2. \A x \in Inodes : \A kind \in Files : NamedBy(x, kind)' => data'[x] \in ContentOf(kind)
    <3> SUFFICES ASSUME NEW x \in Inodes, NEW kind \in Files, NamedBy(x, kind)
                 PROVE  data'[x] \in ContentOf(kind)
      BY <2>1
    <3>1. CASE x = fd[p]
      <4>1. kind = target[p] BY <1>1, <1>4, <3>1 DEF Apart, Files
      <4> QED BY <1>1, <1>3, <1>4, <1>5, <3>1, <4>1 DEF TypeOK
    <3>2. CASE x # fd[p] BY <1>1, <1>3, <3>2 DEF Apart, TypeOK
    <3> QED BY <3>1, <3>2
  <2> QED BY <1>1, <2>1, <2>2 DEF Apart, Files
<1> QED BY <1>2, <1>7, <1>8, <1>9, <1>10 DEF Base, ProcOK, Still

LEMMA ReplaceStep ==
  ASSUME Base, NEW p \in Procs, Replace(p)
  PROVE  Base'
<1>1. TypeOK /\ ProcOK(p) /\ Apart BY DEF Base
<1>2. pc[p] = "replace" /\ UNCHANGED <<data, asset, job, Mine>> /\ fd[p] = NoFile
  BY <1>1 DEF Replace, ProcOK
<1>3. CASE link[Tmp(target[p])] = NoFile
  BY <1>2, <1>3, EndsStep DEF Replace, Disk
<1>4. CASE link[Tmp(target[p])] # NoFile
  <2>1. link' = [link EXCEPT ![target[p]] = link[Tmp(target[p])], ![Tmp(target[p])] = NoFile]
    BY <1>4 DEF Replace
  <2>2. target[p] \in Files /\ target[p] \in Paths /\ Tmp(target[p]) \in Paths
        /\ "css" # Tmp(target[p]) /\ target[p] # Tmp(target[p])
    BY <1>1, PathFacts DEF TypeOK, Tmp
  <2>3. pc' \in [Procs -> Pcs] /\ pc'[p] \in {"load", "done", "poll"}
    <3>1. CASE Goto(p, "load") BY <1>1, <3>1, GotoType DEF Pcs
    <3>2. CASE Ends(p, "done") BY <1>1, <3>2, EndsType
    <3> QED BY <1>4, <3>1, <3>2 DEF Replace
  <2>4. \A q \in Procs : q # p => Still(q)
    BY <1>1, <1>2, <1>4 DEF Replace, Ends, Goto, TypeOK, Still, Mine
  <2>5. TypeOK'
    <3>1. link' \in [Paths -> Inodes \cup {NoFile}] BY <1>1, <2>1, <2>2 DEF TypeOK
    <3>2. unseen' \in [Procs -> BOOLEAN] BY <1>1, <1>4 DEF Replace, Touched, TypeOK
    <3> QED BY <1>1, <1>2, <2>3, <3>1, <3>2 DEF TypeOK, Pcs, Mine
  <2>6. ProcOK(p)' BY <1>2, <2>3 DEF ProcOK, Mine, Fetching, Writing
  <2>7. Apart'
    <3>1. \A x \in Inodes : \A kind \in Files : NamedBy(x, kind)' => NamedBy(x, kind)
      BY ReplaceNames
    <3> QED BY <1>1, <1>2, <3>1 DEF Apart, Files
  <2>8. link'["css"] # NoFile
    <3>1. link["css"] # NoFile /\ "css" \in Paths BY DEF Base, Paths, Files
    <3> QED BY <1>1, <1>4, <2>1, <2>2, <3>1 DEF TypeOK
  <2> QED BY <2>4, <2>5, <2>6, <2>7, <2>8 DEF Base, ProcOK, Still
<1> QED BY <1>3, <1>4

LEMMA KillStep ==
  ASSUME Base, NEW p \in Procs, Kill(p)
  PROVE  Base'
<1>1. TypeOK /\ ProcOK(p) /\ Apart BY DEF Base
<1>2. /\ UNCHANGED <<Disk, job, contract, target, seen, todo, unseen>>
      /\ fd' = [fd EXCEPT ![p] = NoFile]
  BY DEF Kill
<1>3. pc' \in [Procs -> Pcs] /\ pc'[p] = "killed" BY <1>1, GotoType DEF Kill, Pcs, Over
<1>4. \A q \in Procs : q # p => Still(q) BY <1>1, <1>2 DEF Kill, Goto, TypeOK, Still
<1>5. TypeOK' BY <1>1, <1>2, <1>3 DEF TypeOK, Pcs, Disk
<1>6. ProcOK(p)' BY <1>1, <1>2, <1>3 DEF ProcOK, TypeOK, Fetching, Writing
<1>7. Apart'
  <2>1. \A x \in Inodes : \A kind \in Files : NamedBy(x, kind)' => NamedBy(x, kind)
    BY <1>1, <1>2, ContractFacts DEF NamedBy, TypeOK, Disk
  <2> QED BY <1>1, <1>2, <2>1 DEF Apart, Files, Disk
<1> QED BY <1>2, <1>4, <1>5, <1>6, <1>7 DEF Base, ProcOK, Still, Disk

LEMMA SaveStep ==
  ASSUME Base, Save
  PROVE  Base'
<1> DEFINE i == link["css"]
           sheet == [data[i] EXCEPT !.user = @ + 1]
<1>1. TypeOK /\ Apart BY DEF Base
<1>2. /\ At("css") \in Sheet /\ At("css").user < MaxSaves /\ i \in Inodes /\ data[i] = At("css")
  BY ReadingFacts DEF Save, At, Base
<1>3. UNCHANGED <<link, asset, pc, job, Mine, unseen>> /\ data' = [data EXCEPT ![i] = sheet]
  BY DEF Save
<1>4. sheet \in Sheet /\ sheet.of = At("css").of
  BY <1>2, WorkloadAssumption DEF Sheet
<1> HIDE DEF sheet
<1>5. TypeOK'
  <2>1. data' \in [Inodes -> Content] BY <1>1, <1>3, <1>4 DEF TypeOK, Content
  <2> QED BY <1>1, <1>3, <2>1 DEF TypeOK, Mine
<1>6. Apart'
  <2>1. \A x \in Inodes : \A kind \in Files : NamedBy(x, kind)' <=> NamedBy(x, kind)
    BY <1>3 DEF NamedBy, Mine
  <2>2. NamedBy(i, "css") BY DEF NamedBy, PathsOf
  <2>3. \A x \in Inodes : \A kind \in Files : NamedBy(x, kind) => data'[x] \in ContentOf(kind)
    <3> SUFFICES ASSUME NEW x \in Inodes, NEW kind \in Files, NamedBy(x, kind)
                 PROVE  data'[x] \in ContentOf(kind)
      OBVIOUS
    <3>1. CASE x = i
      <4>1. kind = "css" BY <1>1, <1>2, <2>2, <3>1 DEF Apart, Files
      <4> QED BY <1>1, <1>2, <1>3, <1>4, <3>1, <4>1 DEF TypeOK, ContentOf
    <3>2. CASE x # i BY <1>1, <1>3, <3>2 DEF Apart, TypeOK
    <3> QED BY <3>1, <3>2
  <2> QED BY <1>1, <2>1, <2>3 DEF Apart, Files
<1> QED BY <1>3, <1>5, <1>6 DEF Base, ProcOK, Mine

LEMMA BaseInit == Init => Base
<1> SUFFICES ASSUME Init PROVE Base OBVIOUS
<1>1. 1 \in Inodes /\ 2 \in Inodes BY InodeFacts
<1>2. PICK toml \in {2, NoFile} :
        link = [f \in Paths |-> CASE f = "css" -> 1 [] f = "toml" -> toml [] OTHER -> NoFile]
  BY DEF Init
<1>3. link \in [Paths -> Inodes \cup {NoFile}]
  <2>1. \A f \in Paths : (CASE f = "css" -> 1 [] f = "toml" -> toml [] OTHER -> NoFile)
                            \in Inodes \cup {NoFile}
    BY <1>1, <1>2
  <2> QED BY <1>2, <2>1
<1>4. [of |-> Default, user |-> 0] \in Sheet BY ContractFacts, WorkloadAssumption DEF Sheet
<1>5. data \in [Inodes -> Content] BY <1>4, ContractFacts DEF Init, Content
<1>6. <<>> \in Seq(Assets) OBVIOUS
<1>7. TypeOK
  <2>1. "css" \in Files /\ "idle" \in Pcs BY DEF Files, Pcs
  <2> QED BY <1>3, <1>5, <1>6, <2>1, ContractFacts DEF Init, TypeOK, Pcs
<1>8. link["css"] = 1 /\ link["toml"] \in {2, NoFile} /\ link["css.tmp"] = NoFile
      /\ link["toml.tmp"] = NoFile
  BY <1>2 DEF Paths, Files
<1>9. Apart
  <2>1. ASSUME NEW i \in Inodes
        PROVE  (NamedBy(i, "toml") => i = 2) /\ (NamedBy(i, "css") => i = 1)
    BY <1>8, ContractFacts DEF Init, NamedBy, PathsOf, Tmp
  <2>2. data[1] = [of |-> Default, user |-> 0] /\ data[2] = Default
    BY <1>1 DEF Init
  <2> QED BY <1>4, <2>1, <2>2, ContractFacts DEF Apart, Files, ContentOf
<1>10. \A p \in Procs : ProcOK(p) BY DEF Init, ProcOK, Fetching, Writing
<1>11. link["css"] # NoFile BY <1>1, <1>8, ContractFacts
<1> QED BY <1>7, <1>9, <1>10, <1>11 DEF Base

LEMMA BaseStutter == Base /\ UNCHANGED vars => Base'
BY DEF vars, Mine, Base, TypeOK, Apart, NamedBy, ProcOK

LEMMA BaseStep == Base /\ [Next]_vars => Base'
<1> SUFFICES ASSUME Base, [Next]_vars PROVE Base' OBVIOUS
<1>1. ASSUME NEW p \in Procs, Start(p) \/ Step(p) \/ Kill(p) PROVE Base'
  <2>1. ASSUME Step(p) PROVE Base'
    BY <2>1, EditStep, NewStep, PollStep, OpenStep, WriteStep, ReplaceStep, LoadStep, CompileStep,
       VisitStep, TruncateStep, FillStep, FontsReadyStep, CompareStep DEF Step
  <2> QED BY <1>1, <2>1, StartStep, KillStep
<1> QED BY <1>1, SaveStep, BaseStutter DEF Next

(* The inductive invariant of the files: what each command holds and that  *)
(* the two files never share an inode (write_atomically).                  *)
THEOREM BaseInvariant == Spec => []Base
BY BaseInit, BaseStep, PTL DEF Spec

(* Every variable keeps its type; in particular a temporary file always    *)
(* finds an inode (the commands of scripts/design.py and of its neighbours)*)
THEOREM TypeCorrect == Spec => []TypeOK
<1>1. Base => TypeOK BY DEF Base
<1> QED BY <1>1, BaseInvariant, PTL

-----------------------------------------------------------------------------
(***************************************************************************)
(* The fonts. Bad is a set of states of a file that no font may be in once *)
(* a style sheet names it: absent, or, if nobody else writes it, partial.  *)
(***************************************************************************)
Shipping(p) == pc[p] \in Fetching \/ (pc[p] \in Writing /\ target[p] = "css")

(* What is bad is still on the list of whoever is about to ship it.        *)
FontsDue(p, Bad) ==
  Shipping(p) /\ contract[p].font =>
    \A file \in Elements(Fonts) : asset[file] \in Bad =>
      pc[p] \in {"fonts", "truncate", "fill"} /\ file \in Elements(todo[p])

SheetsSound(Bad) ==
  \A i \in Inodes : NamedBy(i, "css") /\ data[i] \in Sheet /\ data[i].of.font =>
    \A file \in Elements(Fonts) : asset[file] \notin Bad

FontsSound(Bad) == SheetsSound(Bad) /\ \A p \in Procs : FontsDue(p, Bad)

NoWorse(Bad) == \A file \in Assets : asset'[file] \in Bad => asset[file] \in Bad

LEMMA ElementsFacts ==
  ASSUME NEW S, NEW s \in Seq(S), s # <<>>
  PROVE  /\ Elements(s) \subseteq S /\ Head(s) \in Elements(s)
         /\ \A e \in Elements(s) : e = Head(s) \/ e \in Elements(Tail(s))
         /\ Elements(Tail(s)) \subseteq Elements(s)
<1>1. Len(s) \in Nat \ {0} /\ DOMAIN s = 1..Len(s) /\ \A i \in 1..Len(s) : s[i] \in S OBVIOUS
<1>2. /\ Tail(s) \in Seq(S) /\ Len(Tail(s)) = Len(s) - 1
      /\ \A i \in 1..(Len(s) - 1) : Tail(s)[i] = s[i + 1]
  OBVIOUS
<1>3. Elements(s) \subseteq S /\ Head(s) \in Elements(s) BY <1>1 DEF Elements
<1>4. ASSUME NEW e \in Elements(s), e # Head(s) PROVE e \in Elements(Tail(s))
  <2>1. PICK i \in 1..Len(s) : s[i] = e BY <1>1, <1>4 DEF Elements
  <2>2. i # 1 BY <1>4, <2>1
  <2>3. i - 1 \in 1..(Len(s) - 1) BY <1>1, <2>1, <2>2
  <2>4. Tail(s)[i - 1] = e BY <1>2, <2>1, <2>3
  <2>5. i - 1 \in DOMAIN Tail(s) BY <1>1, <1>2, <2>3
  <2> QED BY <2>4, <2>5 DEF Elements
<1>5. Elements(Tail(s)) \subseteq Elements(s)
  <2> SUFFICES ASSUME NEW i \in DOMAIN Tail(s) PROVE Tail(s)[i] \in Elements(s) BY DEF Elements
  <2>1. i \in 1..(Len(s) - 1) BY <1>1, <1>2
  <2>2. i + 1 \in DOMAIN s /\ Tail(s)[i] = s[i + 1] BY <1>1, <1>2, <2>1
  <2> QED BY <2>2 DEF Elements
<1> QED BY <1>3, <1>4, <1>5

LEMMA OthersFonts ==
  ASSUME NEW Bad, FontsSound(Bad), NoWorse(Bad), NEW q \in Procs, Still(q)
  PROVE  FontsDue(q, Bad)'
BY DEF FontsSound, NoWorse, FontsDue, Shipping, Still, Assets

(* A step that gives no name and writes no style sheet.                    *)
LEMMA LocalFonts ==
  ASSUME Base, NEW Bad, FontsSound(Bad), NoWorse(Bad), NEW p \in Procs, data' = data,
         \A i \in Inodes : NamedBy(i, "css")' => NamedBy(i, "css"),
         \A q \in Procs : q # p => Still(q),
         FontsDue(p, Bad)'
  PROVE  FontsSound(Bad)'
<1>1. SheetsSound(Bad)' BY DEF FontsSound, SheetsSound, NoWorse, Assets
<1> QED BY <1>1, OthersFonts DEF FontsSound

LEMMA KeptNames ==
  ASSUME Base, NEW p \in Procs, UNCHANGED <<link, fd>>, fd[p] = NoFile,
         \A q \in Procs : q # p => Still(q)
  PROVE  \A i \in Inodes : NamedBy(i, "css")' => NamedBy(i, "css")
<1>1. \A i \in Inodes : i # NoFile BY ContractFacts
<1> QED BY <1>1 DEF NamedBy, Still

LEMMA QuietFonts ==
  ASSUME Base, NEW Bad, FontsSound(Bad), NoWorse(Bad), NEW p \in Procs,
         UNCHANGED <<link, data, fd>>, fd[p] = NoFile, \A q \in Procs : q # p => Still(q),
         FontsDue(p, Bad)'
  PROVE  FontsSound(Bad)'
BY KeptNames, LocalFonts

LEMMA OthersStill ==
  ASSUME Base, NEW p \in Procs, Start(p) \/ Step(p) \/ Kill(p)
  PROVE  \A q \in Procs : q # p => Still(q)
<1> USE DEF Goto, Still, Mine
<1>1. TypeOK BY DEF Base
<1>2. CASE Start(p) BY <1>1, <1>2 DEF Start, TypeOK
<1>3. CASE Edit(p) BY <1>1, <1>3 DEF Edit, Rewrite, Ends, TypeOK
<1>4. CASE New(p) BY <1>1, <1>4 DEF New, Rewrite, Ends, TypeOK
<1>5. CASE Poll(p) BY <1>1, <1>5 DEF Poll, TypeOK
<1>6. CASE Open(p) BY <1>1, <1>6 DEF Open, TypeOK
<1>7. CASE Write(p) BY <1>1, <1>7 DEF Write, TypeOK
<1>8. CASE Replace(p) BY <1>1, <1>8 DEF Replace, Ends, TypeOK
<1>9. CASE Load(p) BY <1>1, <1>9 DEF Load, Ends, TypeOK
<1>10. CASE Compile(p) BY <1>1, <1>10 DEF Compile, Ends, TypeOK
<1>11. CASE Visit(p) BY <1>1, <1>11 DEF Visit, Ends, TypeOK
<1>12. CASE Truncate(p) BY <1>1, <1>12 DEF Truncate, TypeOK
<1>13. CASE Fill(p) BY <1>1, <1>13 DEF Fill, TypeOK
<1>14. CASE FontsReady(p) BY <1>1, <1>14 DEF FontsReady, TypeOK
<1>15. CASE Compare(p) BY <1>1, <1>15 DEF Compare, Ends, TypeOK
<1>16. CASE Kill(p) BY <1>1, <1>16 DEF Kill, TypeOK
<1> QED BY <1>2, <1>3, <1>4, <1>5, <1>6, <1>7, <1>8, <1>9, <1>10, <1>11, <1>12, <1>13, <1>14,
           <1>15, <1>16 DEF Step

(* A command that stops, waits or goes to design.toml ships nothing.       *)
LEMMA NotShipping ==
  ASSUME Base, NEW Bad, FontsSound(Bad), NoWorse(Bad), NEW p \in Procs, ~ Shipping(p)',
         UNCHANGED <<link, data, fd>>, fd[p] = NoFile, \A q \in Procs : q # p => Still(q)
  PROVE  FontsSound(Bad)'
<1>1. FontsDue(p, Bad)' BY DEF FontsDue
<1> QED BY <1>1, QuietFonts

LEMMA EndsFacts ==
  ASSUME Base, NEW p \in Procs, NEW outcome \in {"done", "failed"}, Ends(p, outcome)
  PROVE  pc'[p] \in {"poll", outcome} /\ ~ Shipping(p)'
<1>1. pc'[p] \in {"poll", outcome} BY EndsType DEF Base
<1> QED BY <1>1 DEF Shipping, Fetching, Writing

LEMMA EarlyFonts ==
  ASSUME Base, NEW Bad, FontsSound(Bad), NEW p \in Procs,
         Start(p) \/ Edit(p) \/ New(p) \/ Poll(p) \/ Load(p)
  PROVE  FontsSound(Bad)'
<1>1. \A q \in Procs : q # p => Still(q) BY OthersStill DEF Step
<1>2. /\ UNCHANGED Disk /\ UNCHANGED fd /\ pc[p] \in {"idle", "edit", "init", "poll", "load"}
  BY DEF Start, Edit, New, Poll, Load, Mine
<1>3. ~ Shipping(p)'
  <2>1. TypeOK BY DEF Base
  <2>2. CASE Start(p)
    <3>1. PICK j \in Jobs : Goto(p, First[j.cmd]) BY <2>2 DEF Start
    <3>2. First[j.cmd] \in {"edit", "init", "load", "poll"} BY DEF Jobs, First
    <3> QED BY <2>1, <3>1, <3>2 DEF Goto, TypeOK, Shipping, Fetching, Writing
  <2>3. ASSUME NEW c, Rewrite(p, c) PROVE ~ Shipping(p)'
    BY <2>1, <2>3 DEF Rewrite, Goto, TypeOK, Shipping, Fetching, Writing
  <2>4. CASE Ends(p, "failed") BY <2>4, EndsFacts
  <2>5. CASE Edit(p) BY <2>3, <2>4, <2>5 DEF Edit
  <2>6. CASE New(p) BY <2>3, <2>4, <2>6 DEF New
  <2>7. CASE Poll(p) BY <2>1, <2>7 DEF Poll, Goto, TypeOK, Shipping, Fetching, Writing
  <2>8. CASE Load(p) /\ Goto(p, "css")
    BY <2>1, <2>8 DEF Goto, TypeOK, Shipping, Fetching, Writing
  <2>9. CASE Load(p) BY <2>4, <2>8, <2>9 DEF Load
  <2> QED BY <2>2, <2>5, <2>6, <2>7, <2>9
<1>4. fd[p] = NoFile /\ NoWorse(Bad) BY <1>2 DEF Base, ProcOK, NoWorse, Disk
<1> QED BY <1>1, <1>2, <1>3, <1>4, NotShipping DEF Disk

(* The steps that look at the fonts, or fetch them.                        *)
LEMMA FetchFonts ==
  ASSUME Base, NEW Bad, "whole" \notin Bad, FontsSound(Bad), NoWorse(Bad), NEW p \in Procs,
         \/ Compile(p) \/ Visit(p) \/ Truncate(p) \/ Fill(p) \/ FontsReady(p) \/ Compare(p)
  PROVE  FontsSound(Bad)'
<1>1. \A q \in Procs : q # p => Still(q) BY OthersStill DEF Step
<1>2. /\ UNCHANGED <<link, data, fd>> /\ pc[p] \in {"css", "fonts", "libs", "truncate", "fill"}
  BY DEF Compile, Visit, Truncate, Fill, FontsReady, Compare, Mine, Disk
<1>3. TypeOK /\ ProcOK(p) /\ fd[p] = NoFile /\ FontsDue(p, Bad)
  BY <1>2 DEF Base, ProcOK, FontsSound
<1>4. CASE Ends(p, "failed") \/ Ends(p, "done")
  BY <1>1, <1>2, <1>3, <1>4, EndsFacts, NotShipping
<1>5. FontsDue(p, Bad)' => FontsSound(Bad)' BY <1>1, <1>2, <1>3, QuietFonts
<1>6. CASE Compile(p) /\ Goto(p, "fonts")
  <2>1. pc'[p] = "fonts" /\ contract' = contract /\ asset' = asset
        /\ (contract[p].font => todo'[p] = Fonts)
    BY <1>3, <1>6, EndsFacts DEF Compile, Goto, TypeOK, Disk, Shipping, Fetching
  <2>2. FontsDue(p, Bad)' BY <2>1 DEF FontsDue
  <2> QED BY <1>5, <2>2
<1>7. CASE Visit(p) /\ asset[Head(todo[p])] = "whole"
  <2>1. /\ pc' = pc /\ contract' = contract /\ asset' = asset /\ todo[p] # <<>>
        /\ todo'[p] = Tail(todo[p]) /\ todo[p] \in Seq(Assets) /\ pc[p] \in {"fonts", "libs"}
        /\ target' = target
    BY <1>3, <1>7 DEF Visit, TypeOK, Disk
  <2>2. \A e \in Elements(todo[p]) : e = Head(todo[p]) \/ e \in Elements(todo'[p])
    BY <2>1, ElementsFacts
  <2>3. FontsDue(p, Bad)' BY <1>3, <1>7, <2>1, <2>2 DEF FontsDue, Shipping
  <2> QED BY <1>5, <2>3
<1>8. CASE Visit(p) /\ Goto(p, "truncate")
  <2>1. /\ pc'[p] = "truncate" /\ contract' = contract /\ pc[p] \in {"fonts", "libs"}
        /\ UNCHANGED <<asset, todo>>
    BY <1>3, <1>8 DEF Visit, Goto, TypeOK, Disk
  <2>2. FontsDue(p, Bad)' BY <1>3, <2>1 DEF FontsDue, Shipping, Fetching
  <2> QED BY <1>5, <2>2
<1>9. CASE Truncate(p)
  <2>1. /\ pc[p] = "truncate" /\ pc'[p] = "fill" /\ contract' = contract /\ todo' = todo
    BY <1>3, <1>9 DEF Truncate, Goto, TypeOK, Mine
  <2>2. FontsDue(p, Bad)'
    BY <1>3, <2>1 DEF FontsDue, Shipping, Fetching, NoWorse, Assets
  <2> QED BY <1>5, <2>2
<1>10. CASE Fill(p)
  <2>1. /\ pc[p] = "fill" /\ contract' = contract /\ todo'[p] = Tail(todo[p])
        /\ pc'[p] = IF Head(todo[p]) \in Elements(Fonts) THEN "fonts" ELSE "libs"
        /\ asset' = [asset EXCEPT ![Head(todo[p])] = "whole"]
        /\ todo[p] # <<>> /\ todo[p] \in Seq(Assets)
        /\ todo[p] \in Seq(Elements(Fonts)) \cup Seq(Elements(Libs))
    BY <1>3, <1>10 DEF Fill, Goto, TypeOK, ProcOK
  <2>2. /\ Head(todo[p]) \in Assets /\ asset'[Head(todo[p])] = "whole"
        /\ \A e \in Elements(todo[p]) : e = Head(todo[p]) \/ e \in Elements(todo'[p])
    BY <1>3, <2>1, ElementsFacts DEF TypeOK
  <2>3. Head(todo[p]) \notin Elements(Fonts) => Elements(todo[p]) \cap Elements(Fonts) = {}
    <3>1. CASE todo[p] \in Seq(Elements(Fonts)) BY <2>1, <3>1, ElementsFacts
    <3>2. CASE todo[p] \in Seq(Elements(Libs)) BY <2>1, <3>2, ElementsFacts, FilesAssumption
    <3> QED BY <2>1, <3>1, <3>2
  <2>4. FontsDue(p, Bad)'
    <3> SUFFICES ASSUME contract[p].font, NEW file \in Elements(Fonts), asset'[file] \in Bad
                 PROVE  pc'[p] \in {"fonts", "truncate", "fill"} /\ file \in Elements(todo'[p])
      BY <2>1 DEF FontsDue
    <3>1. asset[file] \in Bad BY DEF NoWorse, Assets
    <3>2. file \in Elements(todo[p]) BY <1>3, <2>1, <3>1 DEF FontsDue, Shipping, Fetching
    <3>3. file # Head(todo[p]) BY <2>2
    <3> QED BY <2>1, <2>2, <2>3, <3>2, <3>3
  <2> QED BY <1>5, <2>4
<1>11. CASE FontsReady(p)
  <2>1. /\ pc[p] = "fonts" /\ todo[p] = <<>> /\ contract' = contract /\ asset' = asset
    BY <1>11 DEF FontsReady, Disk
  <2>2. Elements(todo[p]) = {} BY <2>1 DEF Elements
  <2>3. FontsDue(p, Bad)' BY <1>3, <2>1, <2>2 DEF FontsDue, Shipping, Fetching
  <2> QED BY <1>5, <2>3
<1>12. CASE Compare(p)
  <2>1. pc[p] = "libs" /\ contract' = contract /\ asset' = asset
    BY <1>12 DEF Compare, Mine, Disk
  <2>2. FontsDue(p, Bad)' BY <1>3, <2>1 DEF FontsDue, Shipping, Fetching
  <2> QED BY <1>5, <2>2
<1> QED BY <1>4, <1>6, <1>7, <1>8, <1>9, <1>10, <1>11, <1>12 DEF Compile, Visit

(* The steps that change the files.                                        *)
LEMMA FileFonts ==
  ASSUME Base, NEW Bad, FontsSound(Bad), NEW p \in Procs,
         Open(p) \/ Write(p) \/ Replace(p) \/ Kill(p)
  PROVE  FontsSound(Bad)'
<1>1. \A q \in Procs : q # p => Still(q) BY OthersStill DEF Step
<1>2. TypeOK /\ ProcOK(p) /\ FontsDue(p, Bad) /\ Apart BY DEF Base, FontsSound
<1>3. asset' = asset /\ NoWorse(Bad) BY DEF Open, Write, Replace, Kill, Disk, NoWorse
<1>4. CASE Open(p)
  <2>1. /\ pc[p] = "open" /\ pc'[p] = "write" /\ UNCHANGED <<contract, target>>
        /\ data' = [data EXCEPT ![OpenInode(p)] = Empty]
    BY <1>2, <1>4 DEF Open, OpenInode, Goto, TypeOK
  <2>2. FontsDue(p, Bad)' BY <1>2, <1>3, <2>1 DEF FontsDue, Shipping, Fetching, Writing
  <2>3. SheetsSound(Bad)'
    <3> SUFFICES ASSUME NEW i \in Inodes, NamedBy(i, "css")', data'[i] \in Sheet, data'[i].of.font
                 PROVE  \A file \in Elements(Fonts) : asset[file] \notin Bad
      BY <1>3 DEF SheetsSound
    <3>1. i # OpenInode(p) BY <1>2, <2>1, ContractFacts DEF TypeOK
    <3>2. NamedBy(i, "css") BY <1>4, <3>1, OpenNames DEF Files
    <3>3. data'[i] = data[i] BY <1>2, <2>1, <3>1 DEF TypeOK
    <3> QED BY <3>2, <3>3 DEF FontsSound, SheetsSound
  <2> QED BY <1>1, <1>3, <2>2, <2>3, OthersFonts DEF FontsSound
<1>5. CASE Write(p)
  <2>1. /\ pc[p] = "write" /\ pc'[p] = "replace" /\ UNCHANGED <<link, contract, target>>
        /\ fd' = [fd EXCEPT ![p] = NoFile]
        /\ \E new \in {Text(p), Torn} : data' = [data EXCEPT ![fd[p]] = new]
    BY <1>2, <1>5 DEF Write, Goto, TypeOK
  <2>2. FontsDue(p, Bad)' BY <1>2, <1>3, <2>1 DEF FontsDue, Shipping, Fetching, Writing
  <2>3. SheetsSound(Bad)'
    <3> SUFFICES ASSUME NEW i \in Inodes, NamedBy(i, "css")', data'[i] \in Sheet, data'[i].of.font
                 PROVE  \A file \in Elements(Fonts) : asset[file] \notin Bad
      BY <1>3 DEF SheetsSound
    <3>1. NamedBy(i, "css") BY <1>2, <2>1, ContractFacts DEF NamedBy, TypeOK
    <3>2. CASE i = fd[p]
      <4>1. NamedBy(i, target[p]) BY <3>2 DEF NamedBy
      <4>2. target[p] = "css" BY <1>2, <3>1, <4>1 DEF Apart, Files, TypeOK
      <4>3. data'[i] \in {Text(p), Torn} BY <1>2, <2>1, <3>2 DEF TypeOK
      <4>4. data'[i] = Text(p) BY <4>3, ContractFacts
      <4>5. seen[p] # Torn
        BY <4>2, <4>4, ContractFacts DEF Text
      <4>6. Text(p).of = contract[p] BY <2>1, <4>2, <4>5, TextFacts DEF Writing
      <4> QED BY <1>2, <2>1, <4>2, <4>4, <4>6 DEF FontsDue, Shipping, Writing
    <3>3. CASE i # fd[p]
      <4>1. data'[i] = data[i] BY <1>2, <2>1, <3>3 DEF TypeOK
      <4> QED BY <3>1, <4>1 DEF FontsSound, SheetsSound
    <3> QED BY <3>2, <3>3
  <2> QED BY <1>1, <1>3, <2>2, <2>3, OthersFonts DEF FontsSound
<1>6. CASE Replace(p)
  <2>1. data' = data BY <1>6 DEF Replace
  <2>2. \A i \in Inodes : NamedBy(i, "css")' => NamedBy(i, "css")
    BY <1>6, ReplaceNames DEF Files
  <2>3. ~ Shipping(p)'
    <3>1. CASE Goto(p, "load") BY <1>2, <3>1 DEF Goto, TypeOK, Shipping, Fetching, Writing
    <3>2. CASE Ends(p, "done") \/ Ends(p, "failed") BY <3>2, EndsFacts
    <3> QED BY <1>6, <3>1, <3>2 DEF Replace
  <2>4. FontsDue(p, Bad)' BY <2>3 DEF FontsDue
  <2> QED BY <1>1, <1>3, <2>1, <2>2, <2>4, LocalFonts
<1>7. CASE Kill(p)
  <2>1. /\ UNCHANGED <<link, data, target>> /\ fd' = [fd EXCEPT ![p] = NoFile] /\ pc'[p] = "killed"
    BY <1>2, <1>7 DEF Kill, Disk, Goto, TypeOK
  <2>2. \A i \in Inodes : NamedBy(i, "css")' => NamedBy(i, "css")
    BY <1>2, <2>1, ContractFacts DEF NamedBy, TypeOK
  <2>3. FontsDue(p, Bad)' BY <2>1 DEF FontsDue, Shipping, Fetching, Writing
  <2> QED BY <1>1, <1>3, <2>1, <2>2, <2>3, LocalFonts
<1> QED BY <1>4, <1>5, <1>6, <1>7

LEMMA SaveFonts ==
  ASSUME Base, NEW Bad, FontsSound(Bad), Save
  PROVE  FontsSound(Bad)'
<1>1. /\ UNCHANGED <<link, asset, pc, job, Mine, unseen>> /\ TypeOK
      /\ data' = [data EXCEPT ![link["css"]] = [data[link["css"]] EXCEPT !.user = @ + 1]]
      /\ At("css") \in Sheet /\ At("css") = data[link["css"]] /\ link["css"] \in Inodes
  BY ReadingFacts DEF Save, Base, At
<1>2. NamedBy(link["css"], "css") BY DEF NamedBy, PathsOf
<1>3. \A i \in Inodes : NamedBy(i, "css")' <=> NamedBy(i, "css") BY <1>1 DEF NamedBy, Mine
<1>4. \A i \in Inodes : \/ data'[i] = data[i]
                        \/ i = link["css"] /\ data[i] \in Sheet /\ data'[i].of = data[i].of
  <2>1. At("css") \in Sheet => [At("css") EXCEPT !.user = @ + 1].of = At("css").of BY DEF Sheet
  <2> QED BY <1>1, <2>1 DEF TypeOK
<1>5. SheetsSound(Bad)'
  <2> SUFFICES ASSUME NEW i \in Inodes, NamedBy(i, "css")', data'[i] \in Sheet, data'[i].of.font
               PROVE  \A file \in Elements(Fonts) : asset[file] \notin Bad
    BY <1>1 DEF SheetsSound
  <2> QED BY <1>3, <1>4 DEF FontsSound, SheetsSound
<1> QED BY <1>1, <1>5 DEF FontsSound, FontsDue, Shipping, Mine

LEMMA FontsStep ==
  ASSUME Base, NEW Bad, "whole" \notin Bad, FontsSound(Bad), NoWorse(Bad), [Next]_vars
  PROVE  FontsSound(Bad)'
<1>1. ASSUME NEW p \in Procs, Start(p) \/ Step(p) \/ Kill(p) PROVE FontsSound(Bad)'
  BY <1>1, EarlyFonts, FetchFonts, FileFonts DEF Step
<1>2. CASE UNCHANGED vars
  BY <1>2 DEF vars, Mine, FontsSound, SheetsSound, NamedBy, FontsDue, Shipping
<1> QED BY <1>1, <1>2, SaveFonts DEF Next

-----------------------------------------------------------------------------
(***************************************************************************)
(* Nothing is killed: a partial file is being filled.                      *)
(***************************************************************************)
NoneAbandoned ==
  Crashy = {} =>
    \A file \in Assets : asset[file] = "partial" =>
      \E p \in Procs : pc[p] = "fill" /\ Head(todo[p]) = file

(***************************************************************************)
(* One command after another, and no watch.                                *)
(***************************************************************************)
OneAtATime == Together <= 1 /\ \A p \in Procs : "watch" \notin Workload[p]

Unwhole == {"absent", "partial"}

Current == IF At("toml") = NoFile THEN Default ELSE At("toml")
Keys    == {"color", "font", "motion"}

(* The contract to write is the one on disk but for one value.             *)
EditDue(p) ==
  pc[p] \in Writing /\ target[p] = "toml" /\ job[p].cmd = "edit" =>
    \A key \in Keys \ {job[p].key} : contract[p][key] = Current[key]

(* The fonts are done: a library that is not there is still on the list.   *)
Packing(p) ==
  \/ pc[p] = "libs"
  \/ pc[p] \in {"truncate", "fill"} /\ Head(todo[p]) \in Elements(Libs)
  \/ pc[p] \in Writing /\ target[p] = "css"

LibsDue(p) ==
  Packing(p) /\ contract[p].motion =>
    \A file \in Elements(Libs) : asset[file] = "absent" =>
      pc[p] \in {"libs", "truncate", "fill"} /\ file \in Elements(todo[p])

(* What the running command knows of the disk is still so.                 *)
Own(p) ==
  /\ pc[p] = "init" => job[p].cmd = "init"
  /\ pc[p] = "truncate" => asset[Head(todo[p])] # "whole"
  /\ pc[p] = "fill" => asset[Head(todo[p])] = "partial"
  /\ pc[p] = "write" => fd[p] = link[Tmp(target[p])] /\ data[fd[p]] = Empty
  /\ pc[p] = "replace" => /\ link[Tmp(target[p])] # NoFile
                          /\ data[link[Tmp(target[p])]] = Text(p)
  /\ Shipping(p) => seen[p] \in Sheet /\ seen[p].of = At("css").of
  /\ LibsDue(p) /\ EditDue(p)

Finished(p) ==
  /\ At("css").of = contract[p]
  /\ contract[p].font => AllWhole(Fonts)
  /\ contract[p].motion => \A file \in Elements(Libs) : asset[file] # "absent"

(* The last command that succeeded left what it meant to.                  *)
LastFinished ==
  \A p \in Procs : pc[p] = "done" /\ (\A q \in Procs \ {p} : pc[q] # "done") => Finished(p)

Distinct == \A f, g \in Paths : f # g /\ link[f] = link[g] => link[f] = NoFile

Started == \A p \in Procs : pc[p] # "idle" => job[p] \in Jobs /\ job[p].cmd # "watch"

Sole ==
  /\ Started /\ \A p, q \in Procs : Active(p) /\ Active(q) => p = q
  /\ \A p \in Procs : Own(p)
  /\ Distinct /\ NothingHalfWritten /\ LastFinished
  /\ FontsSound(Unwhole)

SoleInv == OneAtATime => Sole

LEMMA NoneAbandonedStep ==
  ASSUME Base, NoneAbandoned, [Next]_vars
  PROVE  NoneAbandoned'
<1> SUFFICES ASSUME Crashy = {}, NEW file \in Assets, asset'[file] = "partial"
             PROVE  \E p \in Procs : pc'[p] = "fill" /\ Head(todo'[p]) = file
  BY DEF NoneAbandoned
<1> DEFINE filled(q) == pc[q] = "fill" /\ Head(todo[q]) = file
<1>0. TypeOK BY DEF Base
<1>1. asset[file] = "partial" => \E q \in Procs : filled(q) BY DEF NoneAbandoned
<1>2. ASSUME NEW p \in Procs, Start(p) \/ Step(p) \/ Kill(p)
      PROVE  \E q \in Procs : pc'[q] = "fill" /\ Head(todo'[q]) = file
  <2>1. \A q \in Procs : q # p => Still(q) BY <1>2, OthersStill
  <2>2. ~ Kill(p) BY DEF Kill
  <2>3. CASE Truncate(p)
    <3>1. pc'[p] = "fill" /\ todo' = todo /\ asset' = [asset EXCEPT ![Head(todo[p])] = "partial"]
      BY <1>0, <2>3 DEF Truncate, Goto, TypeOK, Mine
    <3>2. CASE Head(todo[p]) = file BY <3>1, <3>2
    <3>3. CASE Head(todo[p]) # file
      <4>1. PICK q \in Procs : filled(q) BY <1>0, <1>1, <3>1, <3>3 DEF TypeOK
      <4>2. q # p BY <2>3, <4>1 DEF Truncate
      <4> QED BY <2>1, <4>1, <4>2 DEF Still
    <3> QED BY <3>2, <3>3
  <2>4. CASE Fill(p)
    <3>1. asset' = [asset EXCEPT ![Head(todo[p])] = "whole"] BY <2>4 DEF Fill
    <3>2. Head(todo[p]) # file BY <1>0, <3>1 DEF TypeOK
    <3>3. PICK q \in Procs : filled(q) BY <1>0, <1>1, <3>1, <3>2 DEF TypeOK
    <3>4. q # p BY <3>2, <3>3
    <3> QED BY <2>1, <3>3, <3>4 DEF Still
  <2>5. CASE ~ Truncate(p) /\ ~ Fill(p)
    <3>1. asset' = asset /\ pc[p] # "fill"
      BY <1>2, <2>2, <2>5 DEF Step, Start, Edit, New, Poll, Open, Write, Replace, Load, Compile,
         Visit, FontsReady, Compare, Disk
    <3>2. PICK q \in Procs : filled(q) BY <1>1, <3>1
    <3> QED BY <2>1, <3>1, <3>2 DEF Still
  <2> QED BY <2>3, <2>4, <2>5
<1>3. CASE Save \/ UNCHANGED vars
  <2>1. UNCHANGED <<asset, pc, todo>> BY <1>3 DEF Save, vars, Mine
  <2> QED BY <1>1, <2>1
<1> QED BY <1>2, <1>3 DEF Next

(* Absent is the one state nothing returns to.                             *)
LEMMA NeverAbsentAgain ==
  ASSUME Base, [Next]_vars
  PROVE  NoWorse({"absent"})
<1>1. TypeOK BY DEF Base
<1>2. ASSUME NEW p \in Procs, Start(p) \/ Step(p) \/ Kill(p) PROVE NoWorse({"absent"})
  <2>1. CASE Truncate(p) BY <1>1, <2>1 DEF Truncate, TypeOK, NoWorse
  <2>2. CASE Fill(p) BY <1>1, <2>2 DEF Fill, TypeOK, NoWorse
  <2>3. CASE ~ Truncate(p) /\ ~ Fill(p)
    BY <1>2, <2>3 DEF Step, Start, Edit, New, Poll, Open, Write, Replace, Load, Compile,
       Visit, FontsReady, Compare, Kill, Disk, NoWorse
  <2> QED BY <2>1, <2>2, <2>3
<1>3. CASE Save \/ UNCHANGED vars BY <1>3 DEF Save, vars, NoWorse
<1> QED BY <1>2, <1>3 DEF Next

LEMMA FontsInit == ASSUME Init, NEW Bad PROVE FontsSound(Bad)
<1>1. Base BY BaseInit
<1>2. \A i \in Inodes : ~ (data[i] \in Sheet /\ data[i].of.font)
  <2> SUFFICES ASSUME NEW i \in Inodes, data[i] \in Sheet PROVE ~ data[i].of.font OBVIOUS
  <2>1. data[i] \in {[of |-> Default, user |-> 0], Default, Empty} BY DEF Init
  <2>2. Empty \notin Sheet BY ContractFacts
  <2>3. Default \notin Sheet
    <3>1. "user" \notin DOMAIN Default BY DEF Default
    <3>2. \A x \in Sheet : "user" \in DOMAIN x BY DEF Sheet
    <3> QED BY <3>1, <3>2
  <2>4. data[i] = [of |-> Default, user |-> 0] BY <2>1, <2>2, <2>3
  <2> QED BY <2>4 DEF Default
<1> QED BY <1>2 DEF Init, FontsSound, SheetsSound, FontsDue, Shipping, Fetching, Writing

(* Both builds may fetch one font: it is whole once neither writes it      *)
(* (ensure_fonts), provided none of them is killed.                        *)
THEOREM FontsRest == Spec => [](Crashy = {} => FontsWholeAtRest)
<1> DEFINE AtRest == Base /\ NoneAbandoned /\ FontsSound({"absent"})
<1>1. Init => AtRest
  BY BaseInit, FontsInit DEF Init, NoneAbandoned
<1>2. AtRest /\ [Next]_vars => AtRest'
  <2> SUFFICES ASSUME Base, NoneAbandoned, FontsSound({"absent"}), [Next]_vars
               PROVE  Base' /\ NoneAbandoned' /\ FontsSound({"absent"})'
    OBVIOUS
  <2>1. "whole" \notin {"absent"} OBVIOUS
  <2> QED BY <2>1, BaseStep, NoneAbandonedStep, NeverAbsentAgain, FontsStep
<1>3. AtRest => (Crashy = {} => FontsWholeAtRest)
  <2> SUFFICES ASSUME AtRest, Crashy = {}, \A p \in Procs : pc[p] # "fill",
                      At("css") \in Sheet, At("css").of.font, NEW file \in Elements(Fonts)
               PROVE  asset[file] = "whole"
    BY DEF FontsWholeAtRest, FontsBeforeCss, AllWhole
  <2>1. file \in Assets BY DEF Assets
  <2>2. asset[file] # "partial" BY <2>1 DEF NoneAbandoned
  <2>3. asset[file] # "absent"
    <3>1. NamedBy(link["css"], "css") BY DEF NamedBy, PathsOf
    <3>2. link["css"] \in Inodes /\ data[link["css"]] = At("css")
      BY ReadingFacts DEF Base, At
    <3> QED BY <3>1, <3>2 DEF FontsSound, SheetsSound
  <2> QED BY <2>1, <2>2, <2>3 DEF Base, TypeOK
<1> QED BY <1>1, <1>2, <1>3, PTL DEF Spec

-----------------------------------------------------------------------------
(***************************************************************************)
(* The steps of one command among others that do not run.                  *)
(***************************************************************************)
LEMMA ActiveFacts ==
  ASSUME Base, NEW p \in Procs
  PROVE  /\ Active(p) <=> pc[p] \notin {"idle", "done", "failed", "killed"}
         /\ ~ Active(p) => Own(p)
BY DEF Active, Over, Own, Shipping, Packing, Fetching, Writing, LibsDue, EditDue

LEMMA ActiveFactsAfter ==
  ASSUME Base', NEW p \in Procs
  PROVE  /\ Active(p)' <=> pc'[p] \notin {"idle", "done", "failed", "killed"}
         /\ ~ Active(p)' => Own(p)'
BY DEF Active, Over, Own, Shipping, Packing, Fetching, Writing, LibsDue, EditDue

Alone(p) == \A q \in Procs : q # p => Still(q) /\ ~ Active(q)

LEMMA StepsAlone ==
  ASSUME Base, Sole, NEW p \in Procs, Step(p) \/ Kill(p)
  PROVE  /\ Active(p) /\ Alone(p) /\ Own(p) /\ job' = job
         /\ job[p] \in Jobs /\ job[p].cmd # "watch"
<1>1. Active(p) /\ job' = job
  BY DEF Step, Kill, Edit, New, Poll, Open, Write, Replace, Load, Compile, Visit, Truncate, Fill,
     FontsReady, Compare, Active, Over
<1>2. \A q \in Procs : q # p => Still(q) BY OthersStill
<1> QED BY <1>1, <1>2 DEF Sole, Started, Alone, Active

(* A command that gives up really ends: it is no watch.                    *)
LEMMA EndsAlone ==
  ASSUME Base, NEW p \in Procs, job[p].cmd # "watch", NEW outcome, Ends(p, outcome)
  PROVE  pc'[p] = outcome
BY DEF Base, TypeOK, Ends, Goto

LEMMA SheetAndContract ==
  ASSUME Base, NothingHalfWritten
  PROVE  /\ At("css") \in Sheet /\ Current \in Contract
         /\ \A c \in Readings(At("toml")) : c = Current
<1>1. At("css") \in Sheet /\ At("toml") \in Contract \cup {NoFile} BY DEF NothingHalfWritten
<1>2. CASE At("toml") = NoFile BY <1>1, <1>2, ContractFacts DEF Current, Readings
<1>3. CASE At("toml") \in Contract BY <1>1, <1>3, ContractFacts DEF Current, Readings
<1> QED BY <1>1, <1>2, <1>3

(* What a step of p has to show.                                           *)
LEMMA AloneStep ==
  ASSUME Base, Base', Sole, NEW p \in Procs, Alone(p),
         pc[p] = "idle" \/ Active(p),
         job'[p] \in Jobs /\ job'[p].cmd # "watch",
         Active(p)' => Own(p)',
         Distinct', NothingHalfWritten', FontsSound(Unwhole)',
         NoWorse(Unwhole), NoWorse({"absent"}),
         pc'[p] # "done" => At("css")'.of = At("css").of,
         pc'[p] = "done" => Finished(p)'
  PROVE  Sole'
<1>1. \A q \in Procs : q # p => (Active(q)' <=> Active(q)) BY DEF Alone, Still, Active
<1>2. \A q, r \in Procs : Active(q)' /\ Active(r)' => q = r BY <1>1 DEF Alone
<1>3. \A q \in Procs : Own(q)' BY <1>1, ActiveFactsAfter DEF Alone
<1>4. Started' BY DEF Sole, Started, Alone, Still
<1>5. LastFinished'
  <2> SUFFICES ASSUME NEW q \in Procs, pc'[q] = "done",
                      \A r \in Procs \ {q} : pc'[r] # "done"
               PROVE  Finished(q)'
    BY DEF LastFinished
  <2>1. CASE q = p BY <2>1
  <2>2. CASE q # p
    <3>1. pc[p] # "done" BY DEF Active, Over
    <3>2. pc[q] = "done" /\ \A r \in Procs \ {q} : pc[r] # "done"
      BY <2>2, <3>1 DEF Alone, Still
    <3>3. Finished(q) /\ contract'[q] = contract[q]
      BY <2>2, <3>2 DEF Sole, LastFinished, Alone, Still
    <3>4. pc'[p] # "done" BY <2>2
    <3>5. At("css")'.of = contract'[q] BY <3>3, <3>4 DEF Finished
    <3>6. \A file \in Assets : asset[file] = "whole" => asset'[file] = "whole"
      BY DEF Base, TypeOK, NoWorse, Unwhole
    <3>7. \A file \in Assets : asset[file] # "absent" => asset'[file] # "absent"
      BY DEF NoWorse
    <3> QED BY <3>3, <3>5, <3>6, <3>7 DEF Finished, AllWhole, Assets
  <2> QED BY <2>1, <2>2
<1> QED BY <1>2, <1>3, <1>4, <1>5 DEF Sole

(* A step that leaves the files and the fonts alone.                       *)
LEMMA SameFiles ==
  ASSUME Base, Sole, UNCHANGED <<link, data>>
  PROVE  /\ Distinct' /\ NothingHalfWritten' /\ Current' = Current
         /\ At("css")' = At("css") /\ At("toml")' = At("toml")
BY DEF Sole, Distinct, NothingHalfWritten, Current, At

LEMMA SameAssets ==
  ASSUME asset' = asset, NEW Bad PROVE NoWorse(Bad)
BY DEF NoWorse

LEMMA AloneLocal ==
  ASSUME Base, Base', Sole, [Next]_vars, NEW p \in Procs, Step(p) \/ Kill(p),
         UNCHANGED <<link, data>>, NoWorse(Unwhole),
         Active(p)' => Own(p)', pc'[p] # "done" \/ Finished(p)'
  PROVE  Sole'
<1>1. "whole" \notin Unwhole BY DEF Unwhole
<1>2. FontsSound(Unwhole)' BY <1>1, FontsStep DEF Sole
<1> QED BY <1>2, StepsAlone, SameFiles, NeverAbsentAgain, AloneStep

LEMMA AloneStart ==
  ASSUME Base, Base', OneAtATime, Sole, [Next]_vars, NEW p \in Procs, Start(p)
  PROVE  Sole'
<1>1. PICK j \in Jobs :
        /\ j.cmd \in Workload[p]
        /\ \/ j.cmd = "watch"
           \/ Cardinality({q \in Procs : Active(q) /\ job[q].cmd # "watch"}) < Together
        /\ job' = [job EXCEPT ![p] = j]
        /\ Goto(p, First[j.cmd])
  BY DEF Start
<1>2. j.cmd # "watch" BY <1>1 DEF OneAtATime
<1>3. \A q \in Procs : ~ Active(q)
  <2> DEFINE running == {q \in Procs : Active(q) /\ job[q].cmd # "watch"}
  <2>1. IsFiniteSet(running) /\ Cardinality(running) \in Nat
    BY FilesAssumption, FS_Subset, FS_CardinalityType
  <2>2. Cardinality(running) = 0
    <3>1. Cardinality(running) < Together BY <1>1, <1>2
    <3> HIDE DEF running
    <3> QED BY <2>1, <3>1, WorkloadAssumption DEF OneAtATime
  <2>3. running = {} BY <2>1, <2>2, FS_EmptySet
  <2> QED BY <2>3 DEF Sole, Started, Active
<1>4. /\ UNCHANGED Disk /\ pc[p] = "idle" /\ job'[p] = j
      /\ pc'[p] = First[j.cmd] /\ contract' = contract
  BY <1>1 DEF Start, Base, TypeOK, Goto, Mine
<1>5. First[j.cmd] \in {"edit", "init", "load"} /\ (First[j.cmd] = "init" => j.cmd = "init")
  BY <1>2 DEF Jobs, First
<1>6. Own(p)'
  BY <1>4, <1>5 DEF Own, Shipping, LibsDue, EditDue, Packing, Fetching, Writing
<1>7. Alone(p) BY <1>3, OthersStill DEF Alone
<1>8. "whole" \notin Unwhole BY DEF Unwhole
<1>9. NoWorse(Unwhole) BY <1>4, SameAssets DEF Disk
<1>10. FontsSound(Unwhole)' BY <1>8, <1>9, FontsStep DEF Sole
<1> QED BY <1>2, <1>4, <1>5, <1>6, <1>7, <1>9, <1>10, SameFiles, NeverAbsentAgain, AloneStep
    DEF Disk

LEMMA AloneEnds ==
  ASSUME Base, Base', Sole, [Next]_vars, NEW p \in Procs, Step(p),
         UNCHANGED <<link, data, asset>>, Ends(p, "failed")
  PROVE  Sole'
<1>1. pc'[p] = "failed" BY StepsAlone, EndsAlone
<1> QED BY <1>1, AloneLocal, SameAssets, ActiveFactsAfter

(* Changing one key of a contract leaves the others.                       *)
LEMMA OtherKeys ==
  ASSUME NEW c \in Contract, NEW j \in Jobs, j.cmd = "edit", NEW key \in Keys \ {j.key}
  PROVE  [c EXCEPT ![j.key] = j.val][key] = c[key]
<1>1. DOMAIN c = Keys BY DEF Contract, Keys
<1> QED BY <1>1

LEMMA AloneEdit ==
  ASSUME Base, Base', Sole, [Next]_vars, NEW p \in Procs, Edit(p)
  PROVE  Sole'
<1>1. Step(p) /\ UNCHANGED Disk BY DEF Step, Edit
<1>2. CASE Ends(p, "failed") BY <1>1, <1>2, AloneEnds DEF Disk
<1>3. CASE Rewrite(p, [Current EXCEPT ![job[p].key] = job[p].val])
  <2>1. /\ pc'[p] = "open" /\ target'[p] = "toml"
        /\ contract'[p] = [Current EXCEPT ![job[p].key] = job[p].val]
    BY <1>3 DEF Rewrite, Goto, Base, TypeOK
  <2>2. job[p] \in Jobs /\ job[p].cmd = "edit" /\ Current \in Contract /\ job' = job
    BY SheetAndContract DEF Base, ProcOK, Edit, Sole
  <2>3. EditDue(p)' BY <1>1, <2>1, <2>2, OtherKeys, SameFiles DEF EditDue, Disk
  <2>4. Own(p)' BY <2>1, <2>3 DEF Own, Shipping, LibsDue, Packing, Fetching, Writing
  <2> QED BY <1>1, <2>1, <2>4, AloneLocal, SameAssets DEF Disk
<1>4. \A c \in Readings(At("toml")) : c = Current BY SheetAndContract DEF Sole
<1> QED BY <1>2, <1>3, <1>4 DEF Edit

LEMMA AloneNew ==
  ASSUME Base, Base', Sole, [Next]_vars, NEW p \in Procs, New(p)
  PROVE  Sole'
<1>1. Step(p) /\ UNCHANGED Disk BY DEF Step, New
<1>2. CASE Ends(p, "failed") BY <1>1, <1>2, AloneEnds DEF Disk
<1>3. ASSUME NEW c, Rewrite(p, c) PROVE Sole'
  <2>1. pc'[p] = "open" /\ target'[p] = "toml" BY <1>3 DEF Rewrite, Goto, Base, TypeOK
  <2>2. job[p].cmd = "init" /\ job' = job BY DEF New, Sole, Own
  <2>3. Own(p)' BY <2>1, <2>2 DEF Own, Shipping, LibsDue, EditDue, Packing, Fetching, Writing
  <2> QED BY <1>1, <2>1, <2>3, AloneLocal, SameAssets DEF Disk
<1> QED BY <1>2, <1>3 DEF New

LEMMA AloneEarly ==
  ASSUME Base, Base', Sole, [Next]_vars, NEW p \in Procs, Poll(p) \/ Load(p) \/ Kill(p)
  PROVE  Sole'
<1>1. (Step(p) \/ Kill(p)) /\ UNCHANGED Disk BY DEF Step, Poll, Load, Kill
<1>2. CASE Load(p) /\ Ends(p, "failed") BY <1>1, <1>2, AloneEnds DEF Disk, Step
<1>3. CASE Goto(p, "load") \/ Goto(p, "css") \/ Goto(p, "killed")
  <2>1. pc'[p] \in {"load", "css", "killed"} BY <1>3 DEF Goto, Base, TypeOK
  <2>2. Own(p)' BY <2>1 DEF Own, Shipping, LibsDue, EditDue, Packing, Fetching, Writing
  <2> QED BY <1>1, <2>1, <2>2, AloneLocal, SameAssets DEF Disk
<1> QED BY <1>2, <1>3 DEF Poll, Load, Kill

(***************************************************************************)
(* The build, from the palette to the comparison.                          *)
(***************************************************************************)
LEMMA AloneCompile ==
  ASSUME Base, Base', Sole, [Next]_vars, NEW p \in Procs, Compile(p)
  PROVE  Sole'
<1>1. Step(p) /\ UNCHANGED Disk BY DEF Step, Compile
<1>2. CASE Ends(p, "failed") BY <1>1, <1>2, AloneEnds DEF Disk
<1>3. CASE seen' = [seen EXCEPT ![p] = At("css")] /\ Goto(p, "fonts")
  <2>1. pc'[p] = "fonts" /\ seen'[p] = At("css") BY <1>3 DEF Goto, Base, TypeOK
  <2>2. At("css") \in Sheet /\ At("css")' = At("css")
    BY <1>1, SheetAndContract, SameFiles DEF Sole, Disk
  <2>3. Own(p)' BY <2>1, <2>2 DEF Own, LibsDue, EditDue, Packing, Writing
  <2> QED BY <1>1, <2>1, <2>3, AloneLocal, SameAssets DEF Disk
<1> QED BY <1>2, <1>3 DEF Compile

LEMMA AloneVisit ==
  ASSUME Base, Base', Sole, [Next]_vars, NEW p \in Procs, Visit(p)
  PROVE  Sole'
<1>1. /\ Step(p) /\ UNCHANGED <<link, data, asset>> /\ UNCHANGED <<job, contract, target, seen>>
      /\ pc[p] \in {"fonts", "libs"} /\ todo[p] # <<>>
  BY DEF Step, Visit, Disk
<1>2. TypeOK /\ ProcOK(p) /\ Own(p) /\ todo[p] \in Seq(Assets) BY DEF Base, Sole, TypeOK
<1>3. At("css")' = At("css") BY <1>1, SameFiles
<1>4. CASE Ends(p, "failed") BY <1>1, <1>4, AloneEnds
<1>5. CASE asset[Head(todo[p])] = "whole" /\ todo' = [todo EXCEPT ![p] = Tail(@)] /\ UNCHANGED pc
  <2>1. todo'[p] = Tail(todo[p]) BY <1>2, <1>5 DEF TypeOK
  <2>2. \A e \in Elements(todo[p]) : e = Head(todo[p]) \/ e \in Elements(todo'[p])
    BY <1>1, <1>2, <2>1, ElementsFacts
  <2>3. LibsDue(p)' BY <1>1, <1>2, <1>5, <2>2 DEF Own, LibsDue, Packing, Writing
  <2>4. Own(p)' BY <1>1, <1>2, <1>3, <1>5, <2>3 DEF Own, Shipping, Fetching, EditDue, Writing
  <2> QED BY <1>1, <1>5, <2>4, AloneLocal, SameAssets
<1>6. CASE asset[Head(todo[p])] # "whole" /\ Goto(p, "truncate") /\ UNCHANGED todo
  <2>1. pc'[p] = "truncate" BY <1>2, <1>6 DEF Goto, TypeOK
  <2>2. pc[p] = "fonts" => Head(todo[p]) \notin Elements(Libs)
    BY <1>1, <1>2, ElementsFacts, FilesAssumption DEF ProcOK
  <2>3. LibsDue(p)' BY <1>1, <1>2, <1>6, <2>1, <2>2 DEF Own, LibsDue, Packing, Writing
  <2>4. Own(p)' BY <1>1, <1>2, <1>3, <1>6, <2>1, <2>3 DEF Own, Shipping, Fetching, EditDue, Writing
  <2> QED BY <1>1, <2>1, <2>4, AloneLocal, SameAssets
<1> QED BY <1>4, <1>5, <1>6 DEF Visit

LEMMA AloneTruncate ==
  ASSUME Base, Base', Sole, [Next]_vars, NEW p \in Procs, Truncate(p)
  PROVE  Sole'
<1>1. /\ Step(p) /\ UNCHANGED <<link, data>> /\ UNCHANGED <<job, contract, target, seen, todo>>
      /\ pc[p] = "truncate" /\ asset' = [asset EXCEPT ![Head(todo[p])] = "partial"]
  BY DEF Step, Truncate, Mine
<1>2. TypeOK /\ ProcOK(p) /\ Own(p) /\ todo[p] \in Seq(Assets) BY DEF Base, Sole, TypeOK
<1>3. At("css")' = At("css") BY <1>1, SameFiles
<1>4. pc'[p] = "fill" BY <1>2 DEF Truncate, Goto, TypeOK
<1>5. Head(todo[p]) \in Assets BY <1>1, <1>2 DEF ProcOK
<1>6. asset'[Head(todo[p])] = "partial" BY <1>1, <1>2, <1>5 DEF TypeOK
<1>7. NoWorse(Unwhole) BY <1>1, <1>2 DEF NoWorse, Unwhole, Own, TypeOK
<1>8. LibsDue(p)'
  BY <1>1, <1>2, <1>4, NeverAbsentAgain DEF Own, LibsDue, Packing, Writing, NoWorse, Assets
<1>9. Own(p)' BY <1>1, <1>2, <1>3, <1>4, <1>6, <1>8 DEF Own, Shipping, Fetching, EditDue, Writing
<1> QED BY <1>1, <1>4, <1>7, <1>9, AloneLocal

LEMMA AloneFill ==
  ASSUME Base, Base', Sole, [Next]_vars, NEW p \in Procs, Fill(p)
  PROVE  Sole'
<1>1. /\ Step(p) /\ UNCHANGED <<link, data>> /\ UNCHANGED <<job, contract, target, seen>>
      /\ pc[p] = "fill" /\ asset' = [asset EXCEPT ![Head(todo[p])] = "whole"]
  BY DEF Step, Fill
<1>2. TypeOK /\ ProcOK(p) /\ Own(p) /\ todo[p] \in Seq(Assets) BY DEF Base, Sole, TypeOK
<1>3. At("css")' = At("css") BY <1>1, SameFiles
<1>4. /\ pc'[p] = IF Head(todo[p]) \in Elements(Fonts) THEN "fonts" ELSE "libs"
      /\ todo'[p] = Tail(todo[p])
  BY <1>2 DEF Fill, Goto, TypeOK
<1>5. /\ todo[p] # <<>> /\ Head(todo[p]) \in Assets
      /\ \A e \in Elements(todo[p]) : e = Head(todo[p]) \/ e \in Elements(todo'[p])
  BY <1>1, <1>2, <1>4, ElementsFacts DEF ProcOK
<1>6. asset'[Head(todo[p])] = "whole" BY <1>1, <1>2, <1>5 DEF TypeOK
<1>7. NoWorse(Unwhole) BY <1>1, <1>2 DEF NoWorse, Unwhole, TypeOK
<1>8. LibsDue(p)'
  <2>1. Head(todo[p]) \notin Elements(Fonts) => Head(todo[p]) \in Elements(Libs)
    BY <1>5 DEF Assets
  <2> SUFFICES ASSUME Packing(p)', contract[p].motion, NEW file \in Elements(Libs),
                      asset'[file] = "absent"
               PROVE  pc'[p] = "libs" /\ file \in Elements(todo'[p])
    BY <1>1 DEF LibsDue
  <2>2. pc'[p] = "libs" /\ Head(todo[p]) \in Elements(Libs)
    BY <1>4, <2>1 DEF Packing, Writing
  <2>3. asset[file] = "absent" BY NeverAbsentAgain DEF NoWorse, Assets
  <2>4. file \in Elements(todo[p]) BY <1>1, <1>2, <2>2, <2>3 DEF Own, LibsDue, Packing
  <2>5. file # Head(todo[p]) BY <1>6
  <2> QED BY <1>5, <2>2, <2>4, <2>5
<1>9. Own(p)' BY <1>1, <1>2, <1>3, <1>4, <1>8 DEF Own, Shipping, Fetching, EditDue, Writing
<1> QED BY <1>1, <1>4, <1>7, <1>9, AloneLocal

LEMMA AloneFontsReady ==
  ASSUME Base, Base', Sole, [Next]_vars, NEW p \in Procs, FontsReady(p)
  PROVE  Sole'
<1>1. /\ Step(p) /\ UNCHANGED <<link, data, asset>> /\ UNCHANGED <<job, contract, target, seen>>
      /\ pc[p] = "fonts"
  BY DEF Step, FontsReady, Disk
<1>2. TypeOK /\ Own(p) BY DEF Base, Sole
<1>3. At("css")' = At("css") BY <1>1, SameFiles
<1>4. /\ pc'[p] = "libs"
      /\ todo'[p] = IF contract[p].motion /\ \E file \in Elements(Libs) : asset[file] = "absent"
                      THEN Libs ELSE <<>>
  BY <1>2 DEF FontsReady, Goto, TypeOK
<1>5. LibsDue(p)' BY <1>1, <1>4 DEF LibsDue
<1>6. Own(p)' BY <1>1, <1>2, <1>3, <1>4, <1>5 DEF Own, Shipping, Fetching, EditDue, Writing
<1> QED BY <1>1, <1>4, <1>6, AloneLocal, SameAssets

(* Nothing is left to fetch when the style sheet is at hand.               *)
LEMMA NothingMissing ==
  ASSUME Base, NEW p \in Procs, Own(p), FontsDue(p, Unwhole), Shipping(p),
         pc[p] \notin {"fonts", "truncate", "fill"}, pc[p] = "libs" => todo[p] = <<>>
  PROVE  /\ contract[p].font => AllWhole(Fonts)
         /\ contract[p].motion => \A file \in Elements(Libs) : asset[file] # "absent"
<1>1. pc[p] = "libs" => Elements(todo[p]) = {} BY DEF Elements
<1>2. contract[p].font => AllWhole(Fonts)
  BY DEF FontsDue, AllWhole, Base, TypeOK, Unwhole, Assets
<1>3. Packing(p) BY DEF Shipping, Packing, Fetching
<1> QED BY <1>1, <1>2, <1>3 DEF Own, LibsDue

LEMMA AloneCompare ==
  ASSUME Base, Base', Sole, [Next]_vars, NEW p \in Procs, Compare(p)
  PROVE  Sole'
<1>1. /\ Step(p) /\ UNCHANGED <<link, data, asset>> /\ UNCHANGED <<job, contract, target, seen, todo>>
      /\ pc[p] = "libs" /\ todo[p] = <<>>
  BY DEF Step, Compare, Disk, Mine
<1>2. TypeOK /\ ProcOK(p) /\ Own(p) /\ FontsDue(p, Unwhole) BY DEF Base, Sole, FontsSound
<1>3. At("css")' = At("css") BY <1>1, SameFiles
<1>4. /\ contract[p].font => AllWhole(Fonts)
      /\ contract[p].motion => \A file \in Elements(Libs) : asset[file] # "absent"
      /\ seen[p] \in Sheet /\ seen[p].of = At("css").of
  BY <1>1, <1>2, NothingMissing DEF Own, Shipping, Fetching
<1>5. CASE Text(p) = seen[p] /\ Ends(p, "done")
  <2>1. pc'[p] = "done" BY <1>1, <1>5, StepsAlone, EndsAlone
  <2>2. Text(p).of = contract[p]
    <3>1. target[p] = "css" /\ seen[p] # Torn BY <1>1, <1>2, <1>4, ContractFacts DEF ProcOK, Fetching
    <3> QED BY <1>1, <3>1, TextFacts DEF Fetching
  <2>3. Finished(p)' BY <1>1, <1>3, <1>4, <1>5, <2>2 DEF Finished, AllWhole
  <2> QED BY <1>1, <2>1, <2>3, AloneLocal, SameAssets, ActiveFactsAfter
<1>6. CASE Goto(p, "open")
  <2>1. pc'[p] = "open" /\ target[p] = "css" BY <1>1, <1>2, <1>6 DEF Goto, TypeOK, ProcOK, Fetching
  <2>2. Own(p)'
    BY <1>1, <1>3, <1>4, <2>1 DEF Own, Shipping, LibsDue, EditDue, Packing
  <2> QED BY <1>1, <2>1, <2>2, AloneLocal, SameAssets
<1> QED BY <1>5, <1>6 DEF Compare

(***************************************************************************)
(* write_atomically, with nobody else about.                               *)
(***************************************************************************)
LEMMA LinkFacts ==
  ASSUME Base, Sole
  PROVE  /\ "toml" \in Paths /\ "css" \in Paths
         /\ link["css"] \in Inodes /\ data[link["css"]] = At("css") /\ At("css") \in Sheet
         /\ link["toml"] # NoFile => link["toml"] \in Inodes /\ data[link["toml"]] = At("toml")
         /\ link["toml"] # link["css"]
         /\ \A p \in Procs :
              /\ target[p] \in Files /\ target[p] \in Paths
              /\ Tmp(target[p]) \in Paths /\ Tmp(target[p]) \notin {"toml", "css"}
              /\ target[p] # Tmp(target[p])
              /\ link[Tmp(target[p])] # NoFile => /\ link[Tmp(target[p])] # link["toml"]
                                                  /\ link[Tmp(target[p])] # link["css"]
                                                  /\ link[Tmp(target[p])] \in Inodes
<1>1. "toml" \in Paths /\ "css" \in Paths BY DEF Paths, Files
<1>2. link["css"] \in Inodes /\ data[link["css"]] = At("css") /\ At("css") \in Sheet
  BY ReadingFacts DEF Base, At, Sole, NothingHalfWritten
<1>3. link["toml"] # NoFile => link["toml"] \in Inodes /\ data[link["toml"]] = At("toml")
  BY <1>1 DEF Base, TypeOK, At
<1>4. link["toml"] # link["css"] BY <1>1 DEF Sole, Distinct, Base
<1>5. ASSUME NEW p \in Procs
      PROVE  /\ target[p] \in Files /\ target[p] \in Paths
             /\ Tmp(target[p]) \in Paths /\ Tmp(target[p]) \notin {"toml", "css"}
             /\ target[p] # Tmp(target[p])
  BY DEF Base, TypeOK, Files, Paths, Tmp
<1>6. ASSUME NEW p \in Procs, link[Tmp(target[p])] # NoFile
      PROVE  /\ link[Tmp(target[p])] # link["toml"] /\ link[Tmp(target[p])] # link["css"]
             /\ link[Tmp(target[p])] \in Inodes
  BY <1>1, <1>5, <1>6 DEF Sole, Distinct, Base, TypeOK
<1> QED BY <1>1, <1>2, <1>3, <1>4, <1>5, <1>6

(* A step that writes only where no name that is read leads.               *)
LEMMA SameTexts ==
  ASSUME Base, Sole, NEW i \in Inodes, i # link["toml"], i # link["css"], NEW x,
         data' = [data EXCEPT ![i] = x], link'["toml"] = link["toml"], link'["css"] = link["css"]
  PROVE  /\ At("css")' = At("css") /\ At("toml")' = At("toml")
         /\ Current' = Current /\ NothingHalfWritten'
<1>1. At("css")' = At("css") BY LinkFacts DEF At, Base, TypeOK
<1>2. At("toml")' = At("toml") BY LinkFacts DEF At, Base, TypeOK
<1> QED BY <1>1, <1>2 DEF Current, NothingHalfWritten, Sole

LEMMA AloneOpen ==
  ASSUME Base, Base', Sole, [Next]_vars, NEW p \in Procs, Open(p)
  PROVE  Sole'
<1> DEFINE i == OpenInode(p)
           tmp == Tmp(target[p])
<1>1. /\ Step(p) /\ UNCHANGED <<asset, job, contract, target, seen, todo>> /\ pc[p] = "open"
      /\ link' = [link EXCEPT ![tmp] = i] /\ data' = [data EXCEPT ![i] = Empty]
      /\ fd' = [fd EXCEPT ![p] = i]
  BY DEF Step, Open, OpenInode
<1>2. TypeOK /\ Own(p) /\ Distinct BY DEF Base, Sole
<1>3. /\ i \in Inodes /\ i # NoFile
      /\ link[tmp] # NoFile => i = link[tmp]
      /\ link[tmp] = NoFile => \A f \in Paths : link[f] # i
  BY <1>1, OpenInodeFacts, ContractFacts DEF OpenInode
<1> HIDE DEF i
<1>4. /\ tmp \in Paths /\ tmp \notin {"toml", "css"} /\ i # link["toml"] /\ i # link["css"]
  BY <1>3, LinkFacts
<1> HIDE DEF tmp
<1>5. link'["toml"] = link["toml"] /\ link'["css"] = link["css"]
  BY <1>1, <1>2, <1>4, LinkFacts DEF TypeOK
<1>6. /\ At("css")' = At("css") /\ At("toml")' = At("toml")
      /\ Current' = Current /\ NothingHalfWritten'
  BY <1>1, <1>3, <1>4, <1>5, SameTexts
<1>7. Distinct'
  <2> SUFFICES ASSUME NEW f \in Paths, NEW g \in Paths, f # g, link'[f] = link'[g]
               PROVE  link'[f] = NoFile
    BY DEF Distinct
  <2>1. \A h \in Paths : h # tmp => link[h] # i
    BY <1>2, <1>3, <1>4 DEF Distinct
  <2>2. \A h \in Paths : link'[h] = IF h = tmp THEN i ELSE link[h]
    BY <1>1, <1>2 DEF TypeOK
  <2> QED BY <1>2, <2>1, <2>2 DEF Distinct
<1>8. pc'[p] = "write" BY <1>2 DEF Open, Goto, TypeOK
<1>9. Own(p)'
  <2>1. fd'[p] = i /\ link'[Tmp(target'[p])] = i /\ data'[i] = Empty
    BY <1>1, <1>2, <1>3, <1>4 DEF TypeOK, tmp
  <2> QED BY <1>1, <1>2, <1>6, <1>8, <2>1 DEF Own, Shipping, LibsDue, EditDue, Packing, Fetching, Writing
<1>10. "whole" \notin Unwhole /\ NoWorse(Unwhole) BY <1>1, SameAssets DEF Unwhole
<1>11. FontsSound(Unwhole)' BY <1>10, FontsStep DEF Sole
<1> QED BY <1>1, <1>6, <1>7, <1>8, <1>9, <1>10, <1>11, StepsAlone, NeverAbsentAgain, AloneStep

LEMMA AloneWrite ==
  ASSUME Base, Base', Sole, [Next]_vars, NEW p \in Procs, Write(p)
  PROVE  Sole'
<1> DEFINE tmp == Tmp(target[p])
<1>1. /\ Step(p) /\ UNCHANGED <<link, asset, job, contract, target, seen, todo>> /\ pc[p] = "write"
  BY DEF Step, Write
<1>2. TypeOK /\ ProcOK(p) /\ Own(p) BY DEF Base, Sole
<1>3. fd[p] = link[tmp] /\ data[fd[p]] = Empty /\ link[tmp] # NoFile
  BY <1>1, <1>2 DEF Own, ProcOK
<1>4. data' = [data EXCEPT ![link[tmp]] = Text(p)] BY <1>3 DEF Write
<1>5. /\ link[tmp] \in Inodes /\ link[tmp] # link["toml"] /\ link[tmp] # link["css"]
  BY <1>3, LinkFacts
<1>6. /\ At("css")' = At("css") /\ Current' = Current /\ NothingHalfWritten'
  BY <1>1, <1>4, <1>5, SameTexts
<1>7. Distinct' BY <1>1 DEF Distinct, Sole
<1>8. pc'[p] = "replace" BY <1>2 DEF Write, Goto, TypeOK
<1>9. Own(p)'
  <2>1. link'[Tmp(target'[p])] # NoFile /\ data'[link'[Tmp(target'[p])]] = Text(p)
    BY <1>1, <1>2, <1>3, <1>4, <1>5 DEF TypeOK
  <2>2. Text(p)' = Text(p) BY <1>1 DEF Text
  <2> QED BY <1>1, <1>2, <1>6, <1>8, <2>1, <2>2
          DEF Own, Shipping, LibsDue, EditDue, Packing, Fetching, Writing
<1>10. "whole" \notin Unwhole /\ NoWorse(Unwhole) BY <1>1, SameAssets DEF Unwhole
<1>11. FontsSound(Unwhole)' BY <1>10, FontsStep DEF Sole
<1> QED BY <1>1, <1>6, <1>7, <1>8, <1>9, <1>10, <1>11, StepsAlone, NeverAbsentAgain, AloneStep

(* The text that moves is the one that was written.                        *)
LEMMA ReplaceFacts ==
  ASSUME Base, Sole, NEW p \in Procs, Replace(p)
  PROVE  /\ link' = [link EXCEPT ![target[p]] = link[Tmp(target[p])], ![Tmp(target[p])] = NoFile]
         /\ UNCHANGED <<data, asset, job, contract, target, seen, todo>>
         /\ At(target[p])' = Text(p)
         /\ target[p] = "toml" => /\ pc'[p] = "load" /\ At("css")' = At("css")
         /\ target[p] = "css" => /\ pc'[p] = "done" /\ At("toml")' = At("toml")
<1> DEFINE tmp == Tmp(target[p])
<1>1. TypeOK /\ Own(p) /\ pc[p] = "replace" /\ Step(p) BY DEF Base, Sole, Replace, Step
<1>2. link[tmp] # NoFile /\ data[link[tmp]] = Text(p) BY <1>1 DEF Own
<1>3. /\ link' = [link EXCEPT ![target[p]] = link[tmp], ![tmp] = NoFile]
      /\ UNCHANGED <<data, asset, job, contract, target, seen, todo>>
      /\ IF target[p] = "toml" THEN Goto(p, "load") ELSE Ends(p, "done")
  BY <1>2 DEF Replace, Mine
<1>4. /\ target[p] \in Files /\ target[p] \in Paths /\ tmp \in Paths /\ tmp \notin {"toml", "css"}
      /\ target[p] # tmp
  BY LinkFacts
<1> HIDE DEF tmp
<1>5. \A f \in Paths : link'[f] = IF f = tmp THEN NoFile
                                  ELSE IF f = target[p] THEN link[tmp] ELSE link[f]
  BY <1>1, <1>3, <1>4 DEF TypeOK
<1>6. At(target[p])' = Text(p)
  <2>1. link'[target'[p]] = link[tmp] BY <1>3, <1>4, <1>5
  <2> QED BY <1>2, <1>3, <2>1 DEF At
<1>7. CASE target[p] = "toml"
  <2>1. link'["css"] = link["css"] BY <1>4, <1>5, <1>7, LinkFacts
  <2>2. pc'[p] = "load" BY <1>1, <1>3, <1>7 DEF Goto, TypeOK
  <2> QED BY <1>3, <1>6, <1>7, <2>1, <2>2 DEF At, tmp
<1>8. CASE target[p] = "css"
  <2>1. link'["toml"] = link["toml"] BY <1>4, <1>5, <1>8, LinkFacts
  <2>2. pc'[p] = "done" BY <1>1, <1>3, <1>8, StepsAlone, EndsAlone
  <2> QED BY <1>3, <1>6, <1>8, <2>1, <2>2 DEF At, tmp
<1> QED BY <1>4, <1>7, <1>8 DEF Files

LEMMA AloneReplace ==
  ASSUME Base, Base', Sole, [Next]_vars, NEW p \in Procs, Replace(p)
  PROVE  Sole'
<1>1. /\ link' = [link EXCEPT ![target[p]] = link[Tmp(target[p])], ![Tmp(target[p])] = NoFile]
      /\ UNCHANGED <<data, asset, job, contract, target, seen, todo>>
      /\ pc[p] = "replace" /\ Step(p)
  BY ReplaceFacts DEF Replace, Step
<1>2. TypeOK /\ ProcOK(p) /\ Own(p) /\ FontsDue(p, Unwhole) /\ Distinct /\ NothingHalfWritten
  BY DEF Base, Sole, FontsSound
<1>3. Distinct'
  <2> SUFFICES ASSUME NEW f \in Paths, NEW g \in Paths, f # g, link'[f] = link'[g]
               PROVE  link'[f] = NoFile
    BY DEF Distinct
  <2>1. target[p] \in Paths /\ Tmp(target[p]) \in Paths /\ target[p] # Tmp(target[p])
    BY LinkFacts
  <2>2. \A h \in Paths : link'[h] = IF h = Tmp(target[p]) THEN NoFile
                                    ELSE IF h = target[p] THEN link[Tmp(target[p])] ELSE link[h]
    BY <1>1, <1>2, <2>1 DEF TypeOK
  <2> QED BY <1>2, <2>1, <2>2 DEF Distinct
<1>4. "whole" \notin Unwhole /\ NoWorse(Unwhole) BY <1>1, SameAssets DEF Unwhole
<1>5. FontsSound(Unwhole)' BY <1>4, FontsStep DEF Sole
<1>6. CASE target[p] = "toml"
  <2>1. At("toml")' = contract[p] /\ contract[p] \in Contract
    BY <1>1, <1>2, <1>6, ReplaceFacts, TextFacts DEF Writing, TypeOK
  <2>2. At("css")' = At("css") /\ pc'[p] = "load" BY <1>6, ReplaceFacts
  <2>3. NothingHalfWritten' BY <1>2, <2>1, <2>2 DEF NothingHalfWritten
  <2>4. Own(p)' BY <2>2 DEF Own, Shipping, LibsDue, EditDue, Packing, Fetching, Writing
  <2> QED BY <1>1, <1>3, <1>4, <1>5, <2>2, <2>3, <2>4, StepsAlone, NeverAbsentAgain, AloneStep
<1>7. CASE target[p] = "css"
  <2>1. seen[p] \in Sheet /\ seen[p] # Torn /\ Shipping(p)
    BY <1>1, <1>2, <1>7, ContractFacts DEF Own, Shipping, Writing
  <2>2. Text(p) \in Sheet /\ Text(p).of = contract[p]
    BY <1>1, <1>7, <2>1, TextFacts DEF Writing
  <2>3. At("css")' = Text(p) /\ At("toml")' = At("toml") /\ pc'[p] = "done"
    BY <1>1, <1>7, ReplaceFacts
  <2>4. NothingHalfWritten' BY <1>2, <2>2, <2>3 DEF NothingHalfWritten
  <2>5. /\ contract[p].font => AllWhole(Fonts)
        /\ contract[p].motion => \A file \in Elements(Libs) : asset[file] # "absent"
    BY <1>1, <1>2, <2>1, NothingMissing
  <2>6. Finished(p)' BY <1>1, <2>2, <2>3, <2>5 DEF Finished, AllWhole
  <2> QED BY <1>1, <1>3, <1>4, <1>5, <2>3, <2>4, <2>6, StepsAlone, NeverAbsentAgain, AloneStep,
          ActiveFactsAfter
<1>8. target[p] \in Files BY LinkFacts
<1> QED BY <1>6, <1>7, <1>8 DEF Files

(* What is saved by hand is outside the markers.                           *)
LEMMA AloneSave ==
  ASSUME Base, Base', Sole, [Next]_vars, Save
  PROVE  Sole'
<1> DEFINE new == [data[link["css"]] EXCEPT !.user = @ + 1]
<1>1. /\ UNCHANGED <<link, asset, pc, job, contract, target, seen, fd, todo>> /\ TypeOK
      /\ data' = [data EXCEPT ![link["css"]] = new] /\ At("css").user < MaxSaves
  BY DEF Save, Base, Mine
<1>2. /\ link["css"] \in Inodes /\ link["css"] # NoFile /\ data[link["css"]] = At("css")
      /\ At("css") \in Sheet
  BY LinkFacts, ContractFacts
<1>3. new \in Sheet /\ new.of = At("css").of BY <1>1, <1>2, WorkloadAssumption DEF Sheet
<1> HIDE DEF new
<1>4. At("css")' = new BY <1>1, <1>2 DEF At, TypeOK
<1>5. At("toml")' = At("toml") BY <1>1, LinkFacts DEF At, TypeOK
<1>6. Current' = Current /\ NothingHalfWritten' /\ Distinct' /\ Started'
  BY <1>1, <1>3, <1>4, <1>5 DEF Current, NothingHalfWritten, Distinct, Started, Sole
<1>7. ASSUME NEW p \in Procs PROVE Own(p)'
  <2>1. Own(p) /\ ProcOK(p) BY DEF Sole, Base
  <2>2. link[Tmp(target[p])] # NoFile =>
          data'[link[Tmp(target[p])]] = data[link[Tmp(target[p])]]
    BY <1>1, LinkFacts DEF TypeOK
  <2>3. pc[p] = "write" => data'[fd[p]] = Empty
    BY <2>1, <2>2 DEF Own, ProcOK
  <2>4. pc[p] = "replace" => data'[link[Tmp(target[p])]] = Text(p)' /\ link[Tmp(target[p])] # NoFile
    BY <1>1, <2>1, <2>2 DEF Own, Text
  <2>5. EditDue(p)' /\ LibsDue(p)' /\ (Shipping(p)' <=> Shipping(p))
    BY <1>1, <1>6, <2>1 DEF Own, EditDue, LibsDue, Packing, Shipping
  <2> QED BY <1>1, <1>3, <1>4, <2>1, <2>3, <2>4, <2>5 DEF Own
<1>8. LastFinished'
  BY <1>1, <1>3, <1>4 DEF LastFinished, Finished, AllWhole, Sole
<1>9. FontsSound(Unwhole)'
  BY SaveFonts DEF Sole
<1>10. \A p, q \in Procs : Active(p)' /\ Active(q)' => p = q BY <1>1 DEF Active, Sole
<1> QED BY <1>6, <1>7, <1>8, <1>9, <1>10 DEF Sole

LEMMA SoleStep ==
  ASSUME Base, Base', OneAtATime, Sole, [Next]_vars
  PROVE  Sole'
<1>1. ASSUME NEW p \in Procs, Start(p) \/ Step(p) \/ Kill(p) PROVE Sole'
  BY <1>1, AloneStart, AloneEdit, AloneNew, AloneEarly, AloneOpen, AloneWrite, AloneReplace,
     AloneCompile, AloneVisit, AloneTruncate, AloneFill, AloneFontsReady, AloneCompare DEF Step
<1>2. CASE UNCHANGED vars
  BY <1>2 DEF vars, Mine, Sole, Started, Active, Own, Shipping, LibsDue, EditDue, Packing, Current,
     At, Text, Distinct, NothingHalfWritten, LastFinished, Finished, AllWhole, FontsSound,
     SheetsSound, NamedBy, FontsDue
<1> QED BY <1>1, <1>2, AloneSave DEF Next

LEMMA SoleInit == Init => Sole
<1> SUFFICES ASSUME Init PROVE Sole OBVIOUS
<1>1. Base BY BaseInit
<1>2. \A p \in Procs : pc[p] = "idle" BY DEF Init
<1>3. \A p \in Procs : ~ Active(p) /\ Own(p) BY <1>1, <1>2, ActiveFacts
<1>4. 1 \in Inodes /\ 2 \in Inodes /\ NoFile \notin {1, 2} BY InodeFacts, ContractFacts
<1>5. PICK toml \in {2, NoFile} :
        link = [f \in Paths |-> CASE f = "css" -> 1 [] f = "toml" -> toml [] OTHER -> NoFile]
  BY DEF Init
<1>6. link["css"] = 1 /\ link["toml"] \in {2, NoFile} /\ link["css.tmp"] = NoFile
      /\ link["toml.tmp"] = NoFile
  BY <1>5 DEF Paths, Files
<1>7. Distinct BY <1>4, <1>6 DEF Distinct, Paths, Files
<1>8. NothingHalfWritten
  <2>1. data[1] = [of |-> Default, user |-> 0] /\ data[2] = Default BY <1>4 DEF Init
  <2>2. [of |-> Default, user |-> 0] \in Sheet BY ContractFacts, WorkloadAssumption DEF Sheet
  <2> QED BY <1>4, <1>6, <2>1, <2>2, ContractFacts DEF NothingHalfWritten, At
<1> QED BY <1>2, <1>3, <1>7, <1>8, FontsInit DEF Sole, Started, LastFinished

(* Alone, what a command knows of the disk stays true until it is done, and*)
(* what the one before it was killed over does not mislead it (the commands*)
(* of scripts/design.py and its neighbours, one after another).            *)
THEOREM SoleInvariant == Spec => [](OneAtATime => Sole)
<1>1. Init => Base /\ SoleInv BY BaseInit, SoleInit DEF SoleInv
<1>2. Base /\ SoleInv /\ [Next]_vars => Base' /\ SoleInv'
  <2> SUFFICES ASSUME Base, SoleInv, [Next]_vars PROVE Base' /\ SoleInv' OBVIOUS
  <2>1. Base' BY BaseStep
  <2>2. OneAtATime' <=> OneAtATime BY DEF OneAtATime
  <2>3. CASE OneAtATime BY <2>1, <2>2, <2>3, SoleStep DEF SoleInv
  <2>4. CASE ~ OneAtATime BY <2>1, <2>2, <2>4 DEF SoleInv
  <2> QED BY <2>3, <2>4
<1>3. SoleInv => (OneAtATime => Sole) BY DEF SoleInv
<1> QED BY <1>1, <1>2, <1>3, PTL DEF Spec

(* One command after another, and whichever of them is killed: design.toml *)
(* and input.css are complete texts (write_atomically).                    *)
THEOREM FilesComplete == Spec => [](OneAtATime => NothingHalfWritten)
<1>1. Sole => NothingHalfWritten BY DEF Sole
<1> QED BY <1>1, SoleInvariant, PTL

(* And input.css names no font that is not on disk, whole (build,          *)
(* ensure_fonts): a download that fails, or a build that is killed, leaves *)
(* the style sheet as it was.                                              *)
THEOREM FontsFirst == Spec => [](OneAtATime => FontsBeforeCss)
<1>1. Base /\ Sole => FontsBeforeCss
  <2> SUFFICES ASSUME Base, Sole, At("css") \in Sheet, At("css").of.font,
                      NEW file \in Elements(Fonts)
               PROVE  asset[file] = "whole"
    BY DEF FontsBeforeCss, AllWhole
  <2>1. link["css"] \in Inodes /\ data[link["css"]] = At("css") BY LinkFacts
  <2>2. NamedBy(link["css"], "css") BY DEF NamedBy, PathsOf
  <2>3. asset[file] \notin Unwhole BY <2>1, <2>2 DEF Sole, FontsSound, SheetsSound
  <2>4. file \in Assets BY DEF Assets
  <2> QED BY <2>3, <2>4 DEF Base, TypeOK, Unwhole
<1> QED BY <1>1, BaseInvariant, SoleInvariant, PTL

(* A build that reports success has shipped the contract it read, with     *)
(* whole fonts and the libraries it needs (build, ensure_fonts,            *)
(* ensure_motion).                                                         *)
THEOREM SuccessComplete == Spec => [](OneAtATime => SuccessIsComplete)
<1>1. Sole => SuccessIsComplete
  <2> SUFFICES ASSUME Sole, NEW p \in Procs, pc[p] = "done",
                      \A q \in Procs \ {p} : pc[q] \in {"idle", "killed"}
               PROVE  Finished(p)
    BY DEF SuccessIsComplete, Finished
  <2>1. \A q \in Procs \ {p} : pc[q] # "done" OBVIOUS
  <2> QED BY <2>1 DEF Sole, LastFinished
<1> QED BY <1>1, SoleInvariant, PTL

(* While p is about to move the contract it edited, a step changes         *)
(* design.toml in one way only.                                            *)
LEMMA TomlMoves ==
  ASSUME Base, Base', Sole, [Next]_vars, NEW p \in Procs, pc[p] = "replace", target[p] = "toml"
  PROVE  At("toml")' = At("toml") \/ At("toml")' = contract[p]
<1>1. Active(p) BY DEF Active, Over
<1>2. CASE Replace(p)
  <2>1. At("toml")' = Text(p) BY <1>2, ReplaceFacts
  <2>2. Text(p) = contract[p] BY TextFacts DEF Writing
  <2> QED BY <2>1, <2>2
<1>3. CASE Kill(p) BY <1>3 DEF Kill, Disk, At
<1>4. ASSUME NEW q \in Procs, Start(q) PROVE At("toml")' = At("toml")
  BY <1>4 DEF Start, Disk, At
<1>5. ASSUME NEW q \in Procs, Step(q) \/ Kill(q) PROVE q = p
  BY <1>1, <1>5, StepsAlone DEF Sole
<1>6. Step(p) => Replace(p)
  BY DEF Step, Edit, New, Poll, Open, Write, Load, Compile, Visit, Truncate, Fill, FontsReady, Compare
<1>7. CASE Save
  <2>1. link' = link /\ \A i \in Inodes : i # link["css"] => data'[i] = data[i]
    BY <1>7 DEF Save, Base, TypeOK
  <2> QED BY <2>1, LinkFacts DEF At
<1>8. CASE UNCHANGED vars BY <1>8 DEF vars, At
<1> QED BY <1>2, <1>3, <1>4, <1>5, <1>6, <1>7, <1>8 DEF Next

(* Changing one value of design.toml changes no other: the contract that is*)
(* written back is the one that was read, and nothing came between         *)
(* (set_values, set_colors, add_font).                                     *)
THEOREM EditsKeepTheRest == Spec => (OneAtATime => EditsOneValue)
<1>1. Base /\ Base' /\ SoleInv /\ OneAtATime /\ [Next]_vars =>
        [\A p \in Procs : pc[p] = "replace" /\ target[p] = "toml" /\ job[p].cmd = "edit" =>
           LET before == IF At("toml") = NoFile THEN Default ELSE At("toml")
               after  == IF At("toml")' = NoFile THEN Default ELSE At("toml")'
           IN  \A key \in {"color", "font", "motion"} \ {job[p].key} : after[key] = before[key]]_vars
  <2> SUFFICES ASSUME Base, Base', SoleInv, OneAtATime, [Next]_vars,
                      NEW p \in Procs, pc[p] = "replace", target[p] = "toml", job[p].cmd = "edit"
               PROVE  \A key \in Keys \ {job[p].key} : Current'[key] = Current[key]
    BY DEF Current, Keys
  <2>1. Sole BY DEF SoleInv
  <2>2. \A key \in Keys \ {job[p].key} : contract[p][key] = Current[key]
    BY <2>1 DEF Sole, Own, EditDue, Writing
  <2>3. contract[p] # NoFile BY ContractFacts DEF Base, TypeOK
  <2>4. CASE At("toml")' = At("toml") BY <2>4 DEF Current
  <2>5. CASE At("toml")' = contract[p] BY <2>2, <2>3, <2>5 DEF Current
  <2> QED BY <2>1, <2>4, <2>5, TomlMoves
<1>2. OneAtATime => OneAtATime' BY DEF OneAtATime
<1>3. (OneAtATime => Sole) => SoleInv BY DEF SoleInv
<1> QED BY <1>1, <1>2, <1>3, BaseInvariant, SoleInvariant, PTL DEF Spec, EditsOneValue
=============================================================================
