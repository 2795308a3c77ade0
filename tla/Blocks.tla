------------------------------- MODULE Blocks -------------------------------
(***************************************************************************)
(* The marked blocks of input.css (app/design_engine/blocks.py and         *)
(* app/branding.py:apply_brand_block). The text is a sequence of what the  *)
(* patterns tell apart: the markers of a block, the @import of a theme,    *)
(* the @source line that blocks hang from, line ends, what a block         *)
(* declares and the words of a person.                                     *)
(*                                                                         *)
(* An operation yields the set of the texts it returns: none when it       *)
(* raises DesignError.                                                     *)
(***************************************************************************)
EXTENDS Naturals, Sequences, FiniteSetsExt, SequencesExt

Start(n) == <<"start", n>>
End(n)   == <<"end", n>>
Import(theme) == <<"import", theme>>
SOURCE_ANCHOR == <<"anchor">>
LineEnd == <<"nl">>

(* A block is found at its first start that an end follows, and reaches to *)
(* the first such end.                                                     *)
Positions(css, token) == {i \in DOMAIN css : css[i] = token}

Openings(css, n) ==
  LET ends == Positions(css, End(n))
  IN  {i \in Positions(css, Start(n)) : \E j \in ends : j > i}

HasBlock(css, n) == Openings(css, n) # {}
Opening(css, n)  == Min(Openings(css, n))
Closing(css, n)  ==
  LET opening == Opening(css, n)
  IN  Min({j \in Positions(css, End(n)) : j > opening})

render_block(n, body) == <<Start(n), body, End(n)>>

Splice(css, first, last, block) ==
  SubSeq(css, 1, first - 1) \o block \o SubSeq(css, last + 1, Len(css))

Replace(css, n, block) == Splice(css, Opening(css, n), Closing(css, n), block)

(* Mutant: the block is found only right after the anchor. *)
AlwaysInsert(css, n, block) ==
  {Splice(css, i, i, <<SOURCE_ANCHOR, LineEnd, LineEnd>> \o block) :
     i \in {Min(Positions(css, SOURCE_ANCHOR) \cup {Len(css) + 1})} \cap DOMAIN css}

apply_block(css, n, block) ==
  IF HasBlock(css, n) THEN {Replace(css, n, block)}
  ELSE IF SOURCE_ANCHOR \in ToSet(css)
    THEN LET i == Min(Positions(css, SOURCE_ANCHOR))
         IN  {Splice(css, i, i, <<SOURCE_ANCHOR, LineEnd, LineEnd>> \o block)}
  ELSE {}

(* Mutant: from the first start to the last end. *)
RemoveGreedily(css, n) ==
  IF ~HasBlock(css, n) THEN css
  ELSE Splice(css, Opening(css, n), Len(css), <<>>)

(* With the line ends above it.                                            *)
remove_block(css, n) ==
  IF ~HasBlock(css, n) THEN css
  ELSE LET words == {i \in 1..(Opening(css, n) - 1) : css[i] # LineEnd}
       IN  Splice(css, Max(words \cup {0}) + 1, Closing(css, n), <<>>)

Imports(css, themes) == {i \in DOMAIN css : \E theme \in themes : css[i] = Import(theme)}

(* The bare import of a project without blocks becomes one.                *)
apply_theme_block(css, theme, themes) ==
  LET block == render_block("theme", Import(theme))
      bare  == Imports(css, themes)
  IN  IF HasBlock(css, "theme") THEN {Replace(css, "theme", block)}
      ELSE IF bare # {} THEN {Splice(css, Min(bare), Min(bare), block)}
      ELSE {}

Without(css, n) == IF HasBlock(css, n) THEN Replace(css, n, <<>>) ELSE css

(* What a person wrote: everything outside the blocks but line ends and a  *)
(* bare import.                                                            *)
Outside(css, names, themes) ==
  SelectSeq(FoldLeft(Without, css, names),
            LAMBDA token : token # LineEnd /\ token \notin {Import(theme) : theme \in themes})
=============================================================================
