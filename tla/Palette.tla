------------------------------ MODULE Palette ------------------------------
(***************************************************************************)
(* The derivation of a palette (app/design_engine/palette.py and the       *)
(* colour half of app/branding.py), for brands whose colours are greys.    *)
(*                                                                         *)
(* A grey is its OKLCH lightness in thousandths, the precision that is     *)
(* written to the style sheet. For chroma 0 the matrices of oklch_to_rgb   *)
(* have rows that sum to 1 and the linear channels are the cube of the     *)
(* lightness; the chroma of the tinted greys, 0.02 at most, moves their    *)
(* luminance by less than half a percent and is left out, and so is the    *)
(* destructive red. Luminances are in millionths, contrast ratios in       *)
(* thousandths, both rounded down.                                         *)
(***************************************************************************)
EXTENDS Integers, FiniteSetsExt

Lightness == 0..1000
None      == -1       \* no colour
Surfaces  == {"light", "cream", "dark"}
Brand     == [primary : Lightness, secondary : Lightness \cup {None}, surface : Surfaces]

AA     == 4500
TARGET == 4600

Luminance(l) == (l * l * l) \div 1000

Contrast(a, b) ==
  LET hi == Luminance(IF a > b THEN a ELSE b)
      lo == Luminance(IF a > b THEN b ELSE a)
  IN  ((hi + 50000) * 1000) \div (lo + 50000)

FOREGROUND_ON_DARK  == 985
FOREGROUND_ON_LIGHT == 145
DARK_BACKGROUND     == 145

(* The better of the two texts, and its contrast.                          *)
ForegroundFor(l) ==
  IF Contrast(l, FOREGROUND_ON_DARK) >= Contrast(l, FOREGROUND_ON_LIGHT)
    THEN FOREGROUND_ON_DARK ELSE FOREGROUND_ON_LIGHT
ForegroundContrast(l) == Contrast(l, ForegroundFor(l))

(***************************************************************************)
(* _solve: from start, in steps of half a hundredth, to the first          *)
(* lightness that reads on every background; None when there is none.      *)
(***************************************************************************)
Reads(l, against) == \A bg \in against : Contrast(l, bg) >= TARGET

Tried(start, darker) == {start + (IF darker THEN -5 ELSE 5) * i : i \in 0..200} \cap Lightness

First(good, darker) == IF good = {} THEN None ELSE IF darker THEN Max(good) ELSE Min(good)

(* Mutant: solved against the page alone. *)
SolveOnPage(start, against, darker) ==
  First({l \in Tried(start, darker) : Reads(l, {IF darker THEN Max(against) ELSE Min(against)})},
        darker)

Solve(start, against, darker) ==
  First({l \in Tried(start, darker) : Reads(l, against)}, darker)

(* brand_tokens: a brand colour in dark mode is at least so light, and     *)
(* lifted until it stands out from the background.                         *)
MinDarkLightness(surface) == IF surface = "dark" THEN 0 ELSE 720
MinDarkContrast(surface)  == IF surface = "dark" THEN 3000 ELSE 0

LiftSteps(start) == {start} \cup {k \in {start + 10 * i : i \in 1..99} \cup {990} : start <= k /\ k <= 990}

(* Mutant: a dark project keeps the colour as it is. *)
NoLift(l, surface) == Max({l, MinDarkLightness(surface)})

Lifted(l, surface) ==
  LET start  == Max({l, MinDarkLightness(surface)})
      enough == {k \in LiftSteps(start) : Contrast(k, DARK_BACKGROUND) >= MinDarkContrast(surface)}
  IN  IF enough = {} THEN 990 ELSE Min(enough)

(* A brand colour of a project in a mode, as a fill: looked up in a table. *)
LiftedOn == [surface \in Surfaces |-> [l \in Lightness |-> Lifted(l, surface)]]
Fill(l, surface, mode) == IF mode = "dark" THEN LiftedOn[surface][l] ELSE l

(***************************************************************************)
(* The palette.                                                            *)
(***************************************************************************)
_LIGHT == [background |-> 1000, foreground |-> 145, card |-> 1000,
           muted |-> 970, accent |-> 960, start |-> 556]
_CREAM == [background |-> 972, foreground |-> 180, card |-> 990,
           muted |-> 940, accent |-> 930, start |-> 500]
_DARK  == [background |-> 145, foreground |-> 985, card |-> 205,
           muted |-> 269, accent |-> 310, start |-> 708]

ModeSpec(surface, mode) == IF mode = "dark" THEN _DARK ELSE IF surface = "cream" THEN _CREAM ELSE _LIGHT
Modes(surface)      == IF surface = "dark" THEN {"dark"} ELSE {"light", "dark"}

MutedForegrounds ==
  [surface \in Surfaces |-> [mode \in {"light", "dark"} |->
     LET spec == ModeSpec(surface, mode)
     IN  Solve(spec.start, {spec.background, spec.card, spec.muted, spec.accent}, mode = "light")]]
MutedForeground(surface, mode) == MutedForegrounds[surface][mode]

Sidebar(surface, mode) ==
  LET spec == ModeSpec(surface, mode)
  IN  IF mode = "dark" THEN spec.card ELSE Max({spec.background - 15, 0})

(* _build_mode.                                                            *)
Tokens(brand, mode) ==
  LET spec == ModeSpec(brand.surface, mode)
      primary == Fill(brand.primary, brand.surface, mode)
      secondary == IF brand.secondary = None THEN spec.muted
                                             ELSE Fill(brand.secondary, brand.surface, mode)
  IN  [background |-> spec.background, foreground |-> spec.foreground,
       card |-> spec.card, popover |-> spec.card, muted |-> spec.muted, accent |-> spec.accent,
       muted_foreground |-> MutedForeground(brand.surface, mode),
       primary |-> primary, primary_foreground |-> ForegroundFor(primary),
       secondary |-> secondary,
       secondary_foreground |-> IF brand.secondary = None THEN spec.foreground
                                                          ELSE ForegroundFor(secondary),
       sidebar |-> Sidebar(brand.surface, mode)]

_REQUIRED ==
  {<<"foreground", "background">>, <<"foreground", "card">>, <<"foreground", "popover">>,
   <<"primary_foreground", "primary">>, <<"secondary_foreground", "secondary">>,
   <<"muted_foreground", "muted">>, <<"muted_foreground", "background">>,
   <<"foreground", "accent">>, <<"foreground", "sidebar">>}

Derivable(brand) == \A mode \in Modes(brand.surface) : MutedForeground(brand.surface, mode) # None

(* _audit: the pairs that stop a build.                                    *)
Failures(brand) ==
  UNION {LET tokens == Tokens(brand, mode)
         IN  {mode} \X {pair \in _REQUIRED : Contrast(tokens[pair[1]], tokens[pair[2]]) < AA} :
           mode \in Modes(brand.surface)}

(* suggest_primary: the closest lightness whose label reads, lighter first.*)
(* It is written as a hex colour, whose 256 greys are up to HexError apart *)
(* in lightness from what was meant.                                       *)
HexError == 3

Near(l, delta) == {l + delta, l - delta} \cap Lightness

SuggestReadable(l, text) ==
  LET deltas == {i \in 0..59 : \E k \in Near(l, 10 * i) : ForegroundContrast(k) >= text}
      delta  == 10 * Min(deltas)
  IN  IF deltas = {} THEN None
      ELSE Max({k \in Near(l, delta) : ForegroundContrast(k) >= text})

(* Mutant: the suggestion needs no margin. *)
SuggestWithoutMargin(l) == SuggestReadable(l, AA)

SuggestPrimary(l) == SuggestReadable(l, TARGET)

AsHex(l) == {k \in Lightness : l - HexError <= k /\ k <= l + HexError}
=============================================================================
