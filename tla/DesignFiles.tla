---------------------------- MODULE DesignFiles ----------------------------
(***************************************************************************)
(* The commands of scripts/design.py, scripts/font.py, scripts/brand.py    *)
(* and scripts/motion.py over the files they share: design.toml, input.css,*)
(* the fonts and the motion libraries. A command edits the contract        *)
(* (design set, font, brand-colors), starts a new one (design init),       *)
(* builds, or watches design.toml and rebuilds. Two terminals may run two  *)
(* commands at once, a download may fail, and a command may be killed      *)
(* between any two of its system calls.                                    *)
(*                                                                         *)
(* A path names an inode: an open file stays writable after its temporary  *)
(* name was moved over another file. Fonts and libraries are written in    *)
(* place. The compiled style sheet is the pair of the contract it was      *)
(* compiled from and the text outside the markers.                         *)
(***************************************************************************)
EXTENDS Naturals, FiniteSets, Sequences

CONSTANTS
  Procs,        \* the commands of a behaviour; bounds the model
  Workload,     \* what each may be; bounds the model
  Crashy,       \* those that may be killed; bounds the model
  Offline,      \* those whose downloads may fail; bounds the model
  Together,     \* how many run at once, besides watches; bounds the model
  MaxSaves,     \* how often the style sheet is edited by hand; bounds the model
  Fonts, Libs,  \* the files a contract with a font, or with motion, needs, in order
  NoFile, Empty, Torn

Commands == {"edit", "init", "build", "watch"}

ASSUME WorkloadAssumption ==
  /\ Workload \in [Procs -> SUBSET Commands]
  /\ Crashy \subseteq Procs /\ Offline \subseteq Procs
  /\ Together \in Nat /\ MaxSaves \in Nat

(* What the properties tell apart of a contract: a colour, whether any font*)
(* is declared and whether the motion level needs a library. A colour may  *)
(* be one the compiler refuses because its text cannot be read.            *)
Colors   == {"neutral", "brand", "unreadable"}
Contract == [color : Colors, font : BOOLEAN, motion : BOOLEAN]
Default  == [color |-> "neutral", font |-> FALSE, motion |-> FALSE]

(* Mutant: a style whose colour is no colour. *)
MisspeltPreset == [color |-> "brnad", font |-> TRUE, motion |-> FALSE]

Preset == [color |-> "brand", font |-> TRUE, motion |-> FALSE]

Jobs  == [cmd : {"edit"}, key : {"color"}, val : Colors]
         \cup [cmd : {"edit"}, key : {"font", "motion"}, val : BOOLEAN]
         \cup [cmd : {"init"}, force : BOOLEAN]
         \cup [cmd : {"build", "watch"}]
NoJob == [cmd |-> "none"]

Files   == {"toml", "css"}
Paths   == Files \cup {"toml.tmp", "css.tmp"}
Inodes  == 1..(Cardinality(Paths) + Cardinality(Procs))
Sheet   == [of : Contract, user : 0..MaxSaves]
Content == Contract \cup Sheet \cup {Empty, Torn}

Elements(s) == {s[i] : i \in DOMAIN s}
Assets == Elements(Fonts) \cup Elements(Libs)

(* The files of fonts.py and those of motion.py live in directories of     *)
(* their own.                                                              *)
ASSUME FilesAssumption ==
  /\ IsFiniteSet(Procs)
  /\ Fonts \in Seq(Elements(Fonts)) /\ Libs \in Seq(Elements(Libs))
  /\ Elements(Fonts) \cap Elements(Libs) = {}

ASSUME AbsentAssumption ==
  /\ NoFile \notin Inodes \cup Content
  /\ Empty \notin Contract \cup Sheet /\ Torn \notin Contract \cup Sheet /\ Empty # Torn

VARIABLES
  link,     \* the inode each path names
  data,     \* the content of each inode
  asset,    \* the state of each font and library
  pc, job,
  contract, \* the contract each command loaded or made
  target,   \* the file it is replacing
  seen,     \* input.css as it read it
  fd,       \* the inode it has open
  todo,     \* the assets it has yet to look at
  unseen    \* design.toml changed since the command, a watch, last looked

vars == <<link, data, asset, pc, job, contract, target, seen, fd, todo, unseen>>
Mine == <<contract, target, seen, fd, todo>>
Disk == <<link, data, asset>>

At(f)    == IF link[f] = NoFile THEN NoFile ELSE data[link[f]]
Over     == {"done", "failed", "killed"}
Active(p) == pc[p] \notin {"idle"} \cup Over

TypeOK ==
  /\ link \in [Paths -> Inodes \cup {NoFile}]
  /\ data \in [Inodes -> Content]
  /\ asset \in [Assets -> {"absent", "partial", "whole"}]
  /\ pc \in [Procs -> {"idle", "edit", "init", "poll", "load", "css", "fonts", "libs",
                       "truncate", "fill", "open", "write", "replace"} \cup Over]
  /\ job \in [Procs -> Jobs \cup {NoJob}]
  /\ contract \in [Procs -> Contract]
  /\ target \in [Procs -> Files]
  /\ seen \in [Procs -> Sheet \cup {Empty, Torn}]
  /\ fd \in [Procs -> Inodes \cup {NoFile}]
  /\ todo \in [Procs -> Seq(Assets)]
  /\ unseen \in [Procs -> BOOLEAN]

(* A project as setup.sh leaves it, with or without a contract of its own; *)
(* nothing has been downloaded.                                            *)
Init ==
  /\ link \in {[f \in Paths |-> CASE f = "css" -> 1 [] f = "toml" -> toml [] OTHER -> NoFile] :
                 toml \in {2, NoFile}}
  /\ data = [i \in Inodes |-> IF i = 1 THEN [of |-> Default, user |-> 0]
                              ELSE IF i = 2 THEN Default ELSE Empty]
  /\ asset = [a \in Assets |-> "absent"]
  /\ pc = [p \in Procs |-> "idle"]
  /\ job = [p \in Procs |-> NoJob]
  /\ contract = [p \in Procs |-> Default]
  /\ target = [p \in Procs |-> "css"]
  /\ seen = [p \in Procs |-> Empty]
  /\ fd = [p \in Procs |-> NoFile]
  /\ todo = [p \in Procs |-> <<>>]
  /\ unseen = [p \in Procs |-> link["toml"] # NoFile]

Goto(p, step) == pc' = [pc EXCEPT ![p] = step]

(* An error ends a command; watch prints it and goes on watching.          *)
Ends(p, outcome) == Goto(p, IF job[p].cmd = "watch" THEN "poll" ELSE outcome)

Touched == unseen' = [p \in Procs |-> TRUE]

(* load_contract: a missing or an empty file means the defaults, a torn one*)
(* is an error unless what is left of it happens to parse.                 *)
Readings(content) ==
  CASE content \in {NoFile, Empty} -> {Default}
    [] content = Torn -> {Default, Torn}
    [] OTHER -> {content}

(***************************************************************************)
(* The commands.                                                           *)
(***************************************************************************)
First == [edit |-> "edit", init |-> "init", build |-> "load", watch |-> "poll"]

Start(p) ==
  /\ pc[p] = "idle"
  /\ \E j \in Jobs :
       /\ j.cmd \in Workload[p]
       /\ \/ j.cmd = "watch"
          \/ Cardinality({q \in Procs : Active(q) /\ job[q].cmd # "watch"}) < Together
       /\ job' = [job EXCEPT ![p] = j]
       /\ Goto(p, First[j.cmd])
  /\ UNCHANGED <<Disk, Mine, unseen>>

(* The contract to write is c: on to write_atomically(design.toml).        *)
Rewrite(p, c) ==
  /\ contract' = [contract EXCEPT ![p] = c]
  /\ target' = [target EXCEPT ![p] = "toml"]
  /\ Goto(p, "open")

(* Mutant: the values not mentioned fall back to the defaults. *)
EditFromDefaults(p) ==
  /\ pc[p] = "edit"
  /\ Rewrite(p, [Default EXCEPT ![job[p].key] = job[p].val])
  /\ UNCHANGED <<Disk, job, seen, fd, todo, unseen>>

(* design set, font and brand-colors: load, change one value, write.       *)
Edit(p) ==
  /\ pc[p] = "edit"
  /\ \E c \in Readings(At("toml")) :
       \/ /\ c # Torn
          /\ Rewrite(p, [c EXCEPT ![job[p].key] = job[p].val])
       \/ /\ c = Torn
          /\ Ends(p, "failed") /\ UNCHANGED <<contract, target>>
  /\ UNCHANGED <<Disk, job, seen, fd, todo, unseen>>

(* design init refuses to overwrite a contract with an identity of its own.*)
New(p) ==
  /\ pc[p] = "init"
  /\ \E c \in IF job[p].force THEN {Default} ELSE Readings(At("toml")) :
       \/ /\ c = Default
          /\ \E preset \in {Default, Preset} : Rewrite(p, preset)
       \/ /\ c # Default
          /\ Ends(p, "failed") /\ UNCHANGED <<contract, target>>
  /\ UNCHANGED <<Disk, job, seen, fd, todo, unseen>>

Poll(p) ==
  /\ pc[p] = "poll" /\ unseen[p]
  /\ unseen' = [unseen EXCEPT ![p] = FALSE]
  /\ Goto(p, "load")
  /\ UNCHANGED <<Disk, job, Mine>>

(***************************************************************************)
(* write_atomically: write under a temporary name, then move it.           *)
(***************************************************************************)
FreeInode ==
  CHOOSE i \in Inodes : /\ \A f \in Paths : link[f] # i
                        /\ \A p \in Procs : fd[p] # i

(* Mutant: path.write_text, without the temporary name. *)
TmpInPlace(f) == f

Tmp(f) == IF f = "toml" THEN "toml.tmp" ELSE "css.tmp"

(* What p is about to write. *)
Text(p) ==
  CASE target[p] = "toml" -> contract[p]
    [] target[p] = "css" /\ seen[p] = Torn -> Torn
    [] OTHER -> [of |-> contract[p], user |-> seen[p].user]

Open(p) ==
  /\ pc[p] = "open"
  /\ LET tmp == Tmp(target[p])
         i   == IF link[tmp] = NoFile THEN FreeInode ELSE link[tmp]
     IN  /\ link' = [link EXCEPT ![tmp] = i]
         /\ data' = [data EXCEPT ![i] = Empty]
         /\ fd' = [fd EXCEPT ![p] = i]
  /\ Goto(p, "write")
  /\ UNCHANGED <<asset, job, contract, target, seen, todo, unseen>>

(* Over the text of another command, of another length, it leaves a mixture*)
Write(p) ==
  /\ pc[p] = "write"
  /\ \E new \in IF data[fd[p]] \in {Empty, Text(p)} THEN {Text(p)} ELSE {Text(p), Torn} :
       data' = [data EXCEPT ![fd[p]] = new]
  /\ IF fd[p] = link["toml"] THEN Touched ELSE UNCHANGED unseen
  /\ fd' = [fd EXCEPT ![p] = NoFile]
  /\ Goto(p, "replace")
  /\ UNCHANGED <<link, asset, job, contract, target, seen, todo>>

(* FileNotFoundError if another command has already moved the name.        *)
Replace(p) ==
  /\ pc[p] = "replace"
  /\ LET tmp == Tmp(target[p])
     IN  IF link[tmp] = NoFile
           THEN Ends(p, "failed") /\ UNCHANGED <<link, unseen>>
           ELSE /\ link' = [link EXCEPT ![target[p]] = link[tmp], ![tmp] = NoFile]
                /\ IF target[p] = "toml"
                     THEN Goto(p, "load") /\ Touched
                     ELSE Ends(p, "done") /\ UNCHANGED unseen
  /\ UNCHANGED <<data, asset, job, Mine>>

(***************************************************************************)
(* build: everything that can fail goes before the write.                  *)
(***************************************************************************)
Load(p) ==
  /\ pc[p] = "load"
  /\ \/ /\ link["toml"] = NoFile
        /\ Ends(p, "failed") /\ UNCHANGED contract
     \/ /\ link["toml"] # NoFile
        /\ \E c \in Readings(At("toml")) :
             \/ c = Torn /\ Ends(p, "failed") /\ UNCHANGED contract
             \/ c # Torn /\ Goto(p, "css") /\ contract' = [contract EXCEPT ![p] = c]
  /\ UNCHANGED <<Disk, job, target, seen, fd, todo, unseen>>

(* Mutant: the style sheet is written first, and the fonts are for later. *)
CompileAndWrite(p) ==
  /\ pc[p] = "css" /\ contract[p].color # "unreadable" /\ At("css") \in Sheet
  /\ target' = [target EXCEPT ![p] = "css"]
  /\ seen' = [seen EXCEPT ![p] = At("css")]
  /\ Goto(p, "open")
  /\ UNCHANGED <<Disk, job, contract, fd, todo, unseen>>

(* compile_contract refuses a palette that cannot be read, and a style     *)
(* sheet that lost its anchors; what it does not own it copies.            *)
Compile(p) ==
  /\ pc[p] = "css"
  /\ LET css == At("css")
     IN  \/ /\ contract[p].color = "unreadable" \/ css \in {Empty, Torn}
            /\ Ends(p, "failed") /\ UNCHANGED <<target, seen, todo>>
         \/ /\ contract[p].color # "unreadable" /\ css # Empty
            /\ target' = [target EXCEPT ![p] = "css"]
            /\ seen' = [seen EXCEPT ![p] = css]
            /\ todo' = [todo EXCEPT ![p] = IF contract[p].font THEN Fonts ELSE <<>>]
            /\ Goto(p, "fonts")
  /\ UNCHANGED <<Disk, job, contract, fd, unseen>>

(* ensure_fonts and vendor_library visit their files in order, and fetch   *)
(* those that are missing or not what they should be.                      *)
Visit(p) ==
  /\ pc[p] \in {"fonts", "libs"} /\ todo[p] # <<>>
  /\ LET file == Head(todo[p])
     IN  \/ /\ asset[file] = "whole"
            /\ todo' = [todo EXCEPT ![p] = Tail(@)]
            /\ UNCHANGED pc
         \/ /\ asset[file] # "whole"
            /\ Goto(p, "truncate") \/ (p \in Offline /\ Ends(p, "failed"))
            /\ UNCHANGED todo
  /\ UNCHANGED <<Disk, job, contract, target, seen, fd, unseen>>

(* target.write_bytes(data) *)
Truncate(p) ==
  /\ pc[p] = "truncate"
  /\ asset' = [asset EXCEPT ![Head(todo[p])] = "partial"]
  /\ Goto(p, "fill")
  /\ UNCHANGED <<link, data, job, Mine, unseen>>

Fill(p) ==
  /\ pc[p] = "fill"
  /\ asset' = [asset EXCEPT ![Head(todo[p])] = "whole"]
  /\ Goto(p, IF Head(todo[p]) \in Elements(Fonts) THEN "fonts" ELSE "libs")
  /\ todo' = [todo EXCEPT ![p] = Tail(@)]
  /\ UNCHANGED <<link, data, job, contract, target, seen, fd, unseen>>

(* Mutant: the libraries are fetched when none of them is there. *)
FontsReadyIfNone(p) ==
  /\ pc[p] = "fonts" /\ todo[p] = <<>>
  /\ LET missing == contract[p].motion /\ \A file \in Elements(Libs) : asset[file] = "absent"
     IN  todo' = [todo EXCEPT ![p] = IF missing THEN Libs ELSE <<>>]
  /\ Goto(p, "libs")
  /\ UNCHANGED <<Disk, job, contract, target, seen, fd, unseen>>

(* ensure_motion only calls vendor_library when a file is missing.         *)
FontsReady(p) ==
  /\ pc[p] = "fonts" /\ todo[p] = <<>>
  /\ LET missing == contract[p].motion /\ \E file \in Elements(Libs) : asset[file] = "absent"
     IN  todo' = [todo EXCEPT ![p] = IF missing THEN Libs ELSE <<>>]
  /\ Goto(p, "libs")
  /\ UNCHANGED <<Disk, job, contract, target, seen, fd, unseen>>

(* Mutant: the time stamp is taken after the build. *)
CompareThenStamp(p) ==
  /\ pc[p] = "libs" /\ todo[p] = <<>>
  /\ IF Text(p) = seen[p] THEN Ends(p, "done") ELSE Goto(p, "open")
  /\ unseen' = [unseen EXCEPT ![p] = FALSE]
  /\ UNCHANGED <<Disk, job, Mine>>

Compare(p) ==
  /\ pc[p] = "libs" /\ todo[p] = <<>>
  /\ IF Text(p) = seen[p] THEN Ends(p, "done") ELSE Goto(p, "open")
  /\ UNCHANGED <<Disk, job, Mine, unseen>>

(***************************************************************************)
(* The rest of the world.                                                  *)
(***************************************************************************)
Kill(p) ==
  /\ p \in Crashy /\ Active(p)
  /\ Goto(p, "killed")
  /\ fd' = [fd EXCEPT ![p] = NoFile]
  /\ UNCHANGED <<Disk, job, contract, target, seen, todo, unseen>>

(* Somebody edits the style sheet outside the markers and saves it.        *)
Save ==
  /\ At("css") \in Sheet /\ At("css").user < MaxSaves
  /\ data' = [data EXCEPT ![link["css"]].user = @ + 1]
  /\ UNCHANGED <<link, asset, pc, job, Mine, unseen>>

Step(p) ==
  \/ Edit(p) \/ New(p) \/ Poll(p) \/ Open(p) \/ Write(p) \/ Replace(p)
  \/ Load(p) \/ Compile(p) \/ Visit(p) \/ Truncate(p) \/ Fill(p) \/ FontsReady(p) \/ Compare(p)

Next ==
  \/ \E p \in Procs : Start(p) \/ Step(p) \/ Kill(p)
  \/ Save

Spec == Init /\ [][Next]_vars

(* A command that was started runs.                                        *)
FairSpec == Spec /\ \A p \in Procs : WF_vars(Step(p))
-----------------------------------------------------------------------------
(***************************************************************************)
(* Properties.                                                             *)
(***************************************************************************)
AllWhole(files) == \A file \in Elements(files) : asset[file] = "whole"

(* input.css never names a font that is not on disk, whole: not when a     *)
(* download fails, not when a build is killed at any point and the next    *)
(* one starts from what it left (build, ensure_fonts).                     *)
FontsBeforeCss == At("css") \in Sheet /\ At("css").of.font => AllWhole(Fonts)

(* Whatever is killed, design.toml and input.css are complete texts        *)
(* (write_atomically).                                                     *)
NothingHalfWritten == At("css") \in Sheet /\ At("toml") \in Contract \cup {NoFile}

(* A build that reports success left the style sheet of the contract it    *)
(* read, with whole fonts and with the libraries it needs, whatever earlier*)
(* builds left half-way (build, ensure_fonts, ensure_motion).              *)
SuccessIsComplete ==
  \A p \in Procs : pc[p] = "done" /\ (\A q \in Procs \ {p} : pc[q] \in {"idle", "killed"}) =>
    /\ At("css").of = contract[p]
    /\ contract[p].font => AllWhole(Fonts)
    /\ contract[p].motion => \A file \in Elements(Libs) : asset[file] # "absent"

(* Changing one value of design.toml changes no other (set_values,         *)
(* set_colors, add_font read and write the whole file).                    *)
EditsOneValue ==
  [][\A p \in Procs : pc[p] = "replace" /\ target[p] = "toml" /\ job[p].cmd = "edit" =>
       LET before == IF At("toml") = NoFile THEN Default ELSE At("toml")
           after  == IF At("toml")' = NoFile THEN Default ELSE At("toml")'
       IN  \A key \in {"color", "font", "motion"} \ {job[p].key} : after[key] = before[key]]_vars

(* A font file that two builds fetch at once is whole once neither writes  *)
(* it, so the fonts of the style sheet are whole whenever all is quiet.    *)
FontsWholeAtRest ==
  (\A p \in Procs : pc[p] # "fill") => FontsBeforeCss

(* With a watch running and commands that follow one another beside it,    *)
(* the style sheet ends up as the contract says, whatever stale build came *)
(* last, unless the contract does not compile or the two wrote one         *)
(* temporary file at once, which can tear the style sheet.                 *)
WatchCatchesUp ==
  (\E p \in Procs : job[p].cmd = "watch")
    ~> \/ At("toml") \notin Contract \/ At("toml").color = "unreadable"
       \/ At("css") \notin Sheet
       \/ At("css").of = At("toml")

(* app/design_engine/blocks.py:5 "anything you write *outside* the markers *)
(* is left alone".                                                         *)
OutsideLeftAlone ==
  [][At("css") \in Sheet /\ At("css")' \in Sheet => At("css")'.user >= At("css").user]_vars

=============================================================================
