------------------------------ MODULE Branding ------------------------------
(***************************************************************************)
(* Choosing the colours of a brand: a person writes them in design.toml,   *)
(* `make design build` refuses what cannot be read and suggests a colour   *)
(* for each label at fault (compiler.py:_contrast_error), and the person   *)
(* pastes what it suggests.                                                *)
(***************************************************************************)
EXTENDS Palette

CONSTANTS
  Chosen,      \* the lightnesses people write, as primary; bounds the model
  Seconds      \* and as secondary, None included; bounds the model

ASSUME ChosenAssumption == Chosen \subseteq Lightness /\ Seconds \subseteq Lightness \cup {None}

VARIABLES
  brand,    \* the [brand] table
  outcome,  \* of the last build
  failures, \* the pairs of its error
  pasted    \* observation: the fields whose colour an error suggested

vars == <<brand, outcome, failures, pasted>>

(* A field and the pair that its label is in.                              *)
LabelOf == [primary   |-> <<"primary_foreground", "primary">>,
            secondary |-> <<"secondary_foreground", "secondary">>]

AtFault == {field \in DOMAIN LabelOf : \E failure \in failures : failure[2] = LabelOf[field]}

(* _contrast_error.                                                        *)
Suggested ==
  {field \in AtFault : brand[field] # None /\ SuggestPrimary(brand[field]) # None}

Init ==
  /\ brand \in [primary : Chosen, secondary : Seconds, surface : Surfaces]
  /\ outcome = "edited" /\ failures = {} /\ pasted = {}

Build ==
  /\ outcome = "edited"
  /\ failures' = Failures(brand)
  /\ outcome' = IF failures' = {} THEN "built" ELSE "refused"
  /\ UNCHANGED <<brand, pasted>>

(* One suggestion, whichever the person takes.                             *)
Paste ==
  /\ outcome = "refused"
  /\ \E field \in Suggested : \E hex \in AsHex(SuggestPrimary(brand[field])) :
       /\ brand' = [brand EXCEPT ![field] = hex]
       /\ pasted' = pasted \cup {field}
  /\ outcome' = "edited" /\ failures' = {}

Next == Build \/ Paste

Spec == Init /\ [][Next]_vars
-----------------------------------------------------------------------------
(* Whatever the brand colours and the surface, every text on a neutral     *)
(* surface reads: only the labels of the brand colours can stop a build.   *)
(* And a brand colour stands out from the page of a dark project, though   *)
(* the lift stops at 0.99 (_solve, brand_tokens).                          *)
EveryPaletteReads ==
  /\ Derivable(brand)
  /\ \A failure \in failures : failure[2] \in {LabelOf["primary"], LabelOf["secondary"]}
  /\ \A mode \in Modes(brand.surface) \cap {"dark"} :
       Contrast(Fill(brand.primary, brand.surface, mode), DARK_BACKGROUND)
         >= MinDarkContrast(brand.surface)

(* A person who pastes what the errors suggest ends with a palette that    *)
(* builds, on every surface and in both modes, though suggest_primary looks*)
(* at the label in one mode only and the hex it prints is rounded          *)
(* (compiler.py:_contrast_error): no field it suggested fails again.       *)
SuggestionsEnd == outcome = "refused" => /\ AtFault # {} /\ Suggested = AtFault
                                         /\ AtFault \cap pasted = {}
=============================================================================
