------------------------------ MODULE Project ------------------------------
(***************************************************************************)
(* The files of a project and the commands of scripts/ over them, one      *)
(* command at a time: what each writes, where it stops when a download     *)
(* fails, and what `make design-check` says of the result. Between         *)
(* commands a person edits, loses or breaks the same files. DesignFiles    *)
(* has the interleavings of commands and their crashes.                    *)
(***************************************************************************)
EXTENDS Naturals, Sequences, SequencesExt, Palette

CONSTANTS
  Contracts,    \* the identities people choose; bounds the model
  Preset,       \* the one of a style
  CssEdits,     \* what they do to input.css; bounds the model
  MaxEdits,     \* how often they edit or lose something; bounds the model
  NoFile, Invalid

Blocks == INSTANCE Blocks

(***************************************************************************)
(* The contract.                                                           *)
(***************************************************************************)
DEFAULT_PRIMARY == 205   \* #171717
Contract == [primary : Lightness, surface : Surfaces, theme : {"vega", "nova"},
             fonts : SUBSET {"display", "body", "mono"}, level : 1..10,
             header : {"sticky-blur", "floating-pill"}]
Default  == [primary |-> DEFAULT_PRIMARY, surface |-> "light", theme |-> "vega", fonts |-> {},
             level |-> 3, header |-> "sticky-blur"]

ASSUME ContractsAssumption ==
  /\ \A c \in Contracts : c \in Contract
  /\ {Default, Preset} \subseteq Contracts /\ Contracts \cap {NoFile, Invalid} = {}
  /\ CssEdits \subseteq {"words", "drop", "theme", "anchor"} /\ MaxEdits \in Nat

(* What is at stake in them.                                               *)
Themes  == {c.theme : c \in Contracts}
Roles   == UNION {c.fonts : c \in Contracts}
Headers == {c.header : c \in Contracts}

(* The roles in the order of their downloads.                              *)
faces == <<"display", "body", "mono">>

(***************************************************************************)
(* Motion: what each level needs (motion.py) and where it comes from.      *)
(***************************************************************************)
CORE_SCRIPT == "motion.js"

engine_for(level) ==
  CASE level >= 9 -> "gsap" [] level \in 7..8 -> "motion" [] level \in 4..6 -> "core" [] OTHER -> "css"

Vendored(engine) ==
  CASE engine = "motion" -> <<"motion.min.js">>
    [] engine = "gsap"   -> <<"gsap.min.js", "ScrollTrigger.min.js">>
    [] OTHER             -> <<>>

Adapter(engine) ==
  CASE engine = "motion" -> {"motion-lib.js"} [] engine = "gsap" -> {"motion-gsap.js"}
    [] OTHER -> {}

OwnFiles(engine) == IF engine = "css" THEN {} ELSE {CORE_SCRIPT} \cup Adapter(engine)

Libraries == {"motion", "gsap"}
OwnScripts == UNION {OwnFiles(lib) : lib \in Libraries}
Libs    == UNION {ToSet(Vendored(lib)) : lib \in Libraries}
Scripts == OwnScripts \cup Libs

VARIABLES
  toml,    \* design.toml
  css,     \* input.css
  font,    \* the font file of each role
  script,  \* the scripts on disk
  headers, \* the header partials on disk
  themes,  \* the themes of Basecoat on disk, one style sheet each
  notice,  \* the libraries NOTICE.md speaks of
  last,    \* observation: the last thing done, a build that succeeded by itself
  edits    \* how often people edited or lost something

vars == <<toml, css, font, script, headers, themes, notice, last, edits>>

missing_files(level, present) ==
  (OwnFiles(engine_for(level)) \cup ToSet(Vendored(engine_for(level)))) \ present

(* An adapter without its library is left out, and the reverse.            *)
scripts_for(level, present) ==
  LET engine == engine_for(level)
      libs == ToSet(Vendored(engine)) \cup Adapter(engine)
  IN  IF engine = "css" THEN {}
      ELSE ({CORE_SCRIPT} \cap present) \cup (IF libs \subseteq present THEN libs ELSE {})

(***************************************************************************)
(* The compiler.                                                           *)
(***************************************************************************)
Names == <<"theme", "brand", "fonts">>

(* Whether the palette of a contract builds: looked up in a table.         *)
ReadableTable ==
  [c \in Contracts |->
     Failures([primary |-> c.primary, secondary |-> None, surface |-> c.surface]) = {}]
Readable(c) == ReadableTable[c]

render_palette_block(c) == Blocks!render_block("brand", <<"root", c.primary, c.surface>>)
render_fonts_block(c)   == Blocks!render_block("fonts", <<"faces", c.fonts>>)

(* Mutant: the fonts block stays when no font is declared. *)
CompileKeepsFonts(c, text) ==
  IF ~Readable(c) THEN {}
  ELSE LET themed  == Blocks!apply_theme_block(text, c.theme, Themes)
           branded == UNION {Blocks!apply_block(t, "brand", render_palette_block(c)) : t \in themed}
       IN  IF c.fonts = {} THEN branded
           ELSE UNION {Blocks!apply_block(t, "fonts", render_fonts_block(c)) : t \in branded}

compile_contract(c, text) ==
  IF ~Readable(c) THEN {}
  ELSE LET themed  == Blocks!apply_theme_block(text, c.theme, Themes)
           branded == UNION {Blocks!apply_block(t, "brand", render_palette_block(c)) : t \in themed}
       IN  IF c.fonts = {} THEN {Blocks!remove_block(t, "fonts") : t \in branded}
           ELSE UNION {Blocks!apply_block(t, "fonts", render_fonts_block(c)) : t \in branded}

(* The imports, the anchor of the blocks and what a person wrote below.    *)
Original(theme) ==
  <<Blocks!Import(theme), Blocks!LineEnd, Blocks!SOURCE_ANCHOR, Blocks!LineEnd,
    <<"words", "header">>, Blocks!LineEnd>>

(***************************************************************************)
(* Downloads: every file that is wanted, in order, up to the first that    *)
(* its origin does not serve.                                              *)
(***************************************************************************)
Fetch(files, wanted, served) ==
  LET refused == {i \in DOMAIN files : files[i] \in wanted \ served}
  IN  [got |-> {files[i] : i \in {k \in DOMAIN files : \A j \in refused : k < j}} \cap wanted,
       ok  |-> refused = {}]

Origins == Roles \cup Libs
Served(files) == {Origins} \cup {Origins \ {f} : f \in files}
Downloads(c)  ==
  {role \in c.fonts : font[role] # "valid"} \cup (ToSet(Vendored(engine_for(c.level))) \ script)

Whole(lib, present) == ToSet(Vendored(lib)) \subseteq present

(* Mutant: NOTICE.md is written first. *)
NoticeFirst(lib, present, served) ==
  LET fetched == Fetch(Vendored(lib), Libs \ present, served)
  IN  [script |-> present \cup fetched.got, ok |-> fetched.ok,
       notice |-> {l \in Libraries : Whole(l, present)}]

vendor_library(lib, present, served) ==
  LET fetched == Fetch(Vendored(lib), Libs \ present, served)
      after   == present \cup fetched.got
  IN  [script |-> after, ok |-> fetched.ok,
       notice |-> IF fetched.ok THEN {l \in Libraries : Whole(l, after)} ELSE notice]

(* Mutant: the own scripts are not looked at again. *)
EnsureLibrary(level, served) ==
  IF missing_files(level, script) = {} \/ engine_for(level) \notin Libraries
    THEN [script |-> script, ok |-> TRUE, notice |-> notice]
    ELSE vendor_library(engine_for(level), script, served)

ensure_motion(level, served) ==
  LET library == IF engine_for(level) \in Libraries /\ missing_files(level, script) # {}
                   THEN vendor_library(engine_for(level), script, served)
                   ELSE [script |-> script, ok |-> TRUE, notice |-> notice]
  IN  [library EXCEPT !.ok = @ /\ missing_files(level, library.script) = {}]

ensure_fonts(c, served) == Fetch(faces, {role \in c.fonts : font[role] # "valid"}, served)

(***************************************************************************)
(* make design-check: the kinds of error it reports. What only warns (the  *)
(* templates, DESIGN.md, fonts nobody uses) is left out.                   *)
(***************************************************************************)
pristine(c) == c = Default /\ ~Blocks!HasBlock(css, "brand")

run_checks ==
  IF toml \in {NoFile, Invalid} THEN {"contract"}
  ELSE LET compiled == compile_contract(toml, css)
       IN  UNION
            {IF toml = Default THEN {"defaults"} ELSE {},
             IF compiled = {} THEN {"compile"} ELSE {},
             IF compiled \notin {{}, {css}} /\ ~pristine(toml) THEN {"stale"} ELSE {},
             IF toml.theme \notin themes THEN {"theme"} ELSE {},
             IF \E role \in toml.fonts : font[role] # "valid" THEN {"fonts"} ELSE {},
             IF missing_files(toml.level, script) # {} THEN {"motion"} ELSE {},
             IF toml.header \notin headers THEN {"header"} ELSE {}}

(* The framework as it is cloned; older projects may have no design.toml   *)
(* and another theme.                                                      *)
Init ==
  /\ toml \in {NoFile, Default}
  /\ \E theme \in Themes : css = Original(theme) /\ (toml # NoFile => theme = "vega")
  /\ font = [role \in Roles |-> "absent"]
  /\ script = OwnScripts
  /\ headers = Headers
  /\ themes = Themes
  /\ notice = {}
  /\ last = "person"
  /\ edits = 0

(***************************************************************************)
(* Commands.                                                               *)
(***************************************************************************)
Done(what) == last' = what /\ UNCHANGED edits

(* build() of contract c, while some origins serve: everything that can    *)
(* fail goes before the write. It asks for the header but not for the theme*)
(* that it imports.                                                        *)
Outcome(c, served) ==
  LET compiled == compile_contract(c, css)
      ready    == compiled # {} /\ c.header \in headers
      fonts    == ensure_fonts(c, served)
      motion   == ensure_motion(c.level, served)
      ok       == ready /\ fonts.ok /\ motion.ok
  IN  [font   |-> [role \in Roles |-> IF ready /\ role \in fonts.got THEN "valid" ELSE font[role]],
       script |-> IF ready /\ fonts.ok THEN motion.script ELSE script,
       notice |-> IF ready /\ fonts.ok THEN motion.notice ELSE notice,
       css    |-> IF ok THEN compiled ELSE {css},
       ok     |-> ok]

Build(c) ==
  \E end \in {Outcome(c, served) : served \in Served(Downloads(c))} :
    /\ font' = end.font /\ script' = end.script /\ notice' = end.notice /\ css' \in end.css
    /\ Done(IF end.ok THEN "built" ELSE "command")
    /\ UNCHANGED <<headers, themes>>

load_contract == IF toml = NoFile THEN Default ELSE toml

Refused == Done("command") /\ UNCHANGED <<toml, css, font, script, headers, themes, notice>>

DesignBuild ==
  \/ toml \in {NoFile, Invalid} /\ Refused
  \/ /\ toml \notin {NoFile, Invalid}
     /\ Build(toml)
     /\ UNCHANGED toml

DifferIn(c, d, keys) == \A key \in DOMAIN c \ keys : c[key] = d[key]

(* design set, brand-colors and font.                                      *)
SetsValue(c, d)   == \E key \in {"theme", "level", "header"} : DifferIn(c, d, {key})
SetsColours(c, d) == DifferIn(c, d, {"primary", "surface"})
AddsFont(c, d)    == DifferIn(c, d, {"fonts"}) /\ \E role \in Roles : d.fonts = c.fonts \cup {role}

Edits(c) == {d \in Contracts : SetsValue(c, d) \/ SetsColours(c, d) \/ AddsFont(c, d)}

EditAndBuild ==
  \/ toml = Invalid /\ Refused
  \/ /\ toml # Invalid
     /\ \E c \in Edits(load_contract) : toml' = c /\ Build(c)

(* design init: a style, or the defaults; over an identity only if forced. *)
DesignInit ==
  \/ toml \notin {NoFile, Default} /\ Refused
  \/ \E c \in {Default, Preset} : toml' = c /\ Build(c)

(* make motion: the library by itself.                                     *)
VendorLibrary ==
  \E lib \in Libraries : \E served \in Served(ToSet(Vendored(lib))) :
    LET done == vendor_library(lib, script, served)
    IN  /\ script' = done.script /\ notice' = done.notice
        /\ Done("command")
        /\ UNCHANGED <<toml, css, font, headers, themes>>

(***************************************************************************)
(* People.                                                                 *)
(***************************************************************************)
By == edits < MaxEdits /\ edits' = edits + 1 /\ last' = "person"

EditToml ==
  /\ toml' \in (Contracts \cup {Invalid, NoFile}) \ {toml}
  /\ By /\ UNCHANGED <<css, font, script, headers, themes, notice>>

Insert(text, i, tokens) == SubSeq(text, 1, i) \o tokens \o SubSeq(text, i + 1, Len(text))

Words == <<"words", "mine">>

Edited(edit) ==
  CASE edit = "words"  -> {Insert(css, i, <<Words, Blocks!LineEnd>>) :
                             i \in {k \in DOMAIN css : css[k] = Blocks!LineEnd
                                                      /\ Words \notin ToSet(css)}}
    [] edit = "drop"   -> {Blocks!remove_block(css, n) : n \in {m \in {"brand", "fonts"} : Blocks!HasBlock(css, m)}}
    [] edit = "theme"  -> {[css EXCEPT ![i] = Blocks!Import(theme)] :
                             i \in Blocks!Imports(css, Themes), theme \in Themes}
    [] edit = "anchor" -> {Blocks!Splice(css, i, i, <<>>) : i \in Blocks!Positions(css, Blocks!SOURCE_ANCHOR)}

EditCss ==
  /\ \E edit \in CssEdits : css' \in Edited(edit)
  /\ css' # css
  /\ By /\ UNCHANGED <<toml, font, script, headers, themes, notice>>

(* Files are lost or broken, or come back with an upgrade.                 *)
LoseFont ==
  /\ \E role \in Roles, state \in {"absent", "corrupt"} :
       font[role] = "valid" /\ font' = [font EXCEPT ![role] = state]
  /\ By /\ UNCHANGED <<toml, css, script, headers, themes, notice>>

LoseScript ==
  /\ \E f \in script : script' = script \ {f}
  /\ By /\ UNCHANGED <<toml, css, font, headers, themes, notice>>

Upgrade ==
  /\ script' = script \cup OwnScripts /\ headers' = Headers
  /\ By /\ UNCHANGED <<toml, css, font, themes, notice>>

LoseHeader ==
  /\ \E h \in headers : headers' = headers \ {h}
  /\ By /\ UNCHANGED <<toml, css, font, script, themes, notice>>

LoseTheme ==
  /\ \E theme \in themes : themes' = themes \ {theme}
  /\ By /\ UNCHANGED <<toml, css, font, script, headers, notice>>

(* Basecoat is copied again, by a procedure of its own.                    *)
UpdateBasecoat ==
  /\ themes' = Themes /\ themes # Themes
  /\ By /\ UNCHANGED <<toml, css, font, script, headers, notice>>

Command == DesignBuild \/ EditAndBuild \/ DesignInit \/ VendorLibrary
Person  ==
  \/ EditToml \/ EditCss
  \/ LoseFont \/ LoseScript \/ LoseHeader \/ LoseTheme
  \/ Upgrade \/ UpdateBasecoat

Next == Command \/ Person
Spec == Init /\ [][Next]_vars
-----------------------------------------------------------------------------
(***************************************************************************)
(* Properties.                                                             *)
(***************************************************************************)
(* After a build that succeeded the check can report two things: that the *)
(* identity is still the default, and that the theme is not vendored, which*)
(* build does not look at and no command mends. A second build would change*)
(* nothing (build, run_checks, compile_contract).                          *)
BuildSettles ==
  last = "built" =>
    /\ run_checks \ {"defaults"} = IF toml.theme \in themes THEN {} ELSE {"theme"}
    /\ compile_contract(toml, css) = {css}
    /\ missing_files(toml.level, script) = {}

(* What the browser makes of the files: later declarations win.            *)
Effective(kind) ==
  LET at == {i \in DOMAIN css : css[i][1] = kind}
  IN  IF at = {} THEN <<>> ELSE css[Max(at)]

Shipped(c) ==
  /\ Effective("import") = Blocks!Import(c.theme) /\ c.theme \in themes
  /\ Effective("root") = <<"root", c.primary, c.surface>>
  /\ IF c.fonts = {} THEN Effective("faces") = <<>>
     ELSE Effective("faces") = <<"faces", c.fonts>> /\ \A role \in c.fonts : font[role] = "valid"
  /\ scripts_for(c.level, script)
       = OwnFiles(engine_for(c.level)) \cup ToSet(Vendored(engine_for(c.level)))
  /\ c.header \in headers

(* When the check reports no error, the identity the project declares is   *)
(* the one it ships, whatever was edited, lost or built before             *)
(* (checks.py:1, scripts_for).                                             *)
PassedCheckIsShipped == run_checks = {} => Shipped(toml)

(* No command touches what a person wrote outside the blocks, or its order *)
(* (blocks.py:3).                                                          *)
OwnTextStays ==
  [][last' # "person" /\ css' # css =>
       Blocks!Outside(css', Names, Themes) = Blocks!Outside(css, Names, Themes)]_vars

(* A library the commands installed is in NOTICE.md, with its licence, even*)
(* when downloads failed half way before or files were lost                *)
(* (vendor_library, write_notice).                                         *)
NoticeKeepsUp == \A lib \in Libraries : Whole(lib, script) => lib \in notice
=============================================================================
