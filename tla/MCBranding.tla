----------------------------- MODULE MCBranding -----------------------------
(* An instance of Branding for TLC: every lightness a grey can have, beside *)
(* no second colour and second colours that read and that do not.          *)
EXTENDS Branding

MCChosen  == Lightness
MCSeconds == {None, 0, 250, 500, 540, 566, 590, 720, 900, 1000}
=============================================================================
