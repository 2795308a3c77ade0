----------------------------- MODULE MCProject -----------------------------
(* Instances of Project for TLC.                                           *)
EXTENDS Project

(* 566 is a grey whose label cannot be read, 586 the one that is suggested *)
(* for it.                                                                 *)
Plain    == [Default EXCEPT !.primary = 586]
Lettered == [Plain EXCEPT !.fonts = {"display"}]
MCPreset == [Lettered EXCEPT !.theme = "nova", !.level = 9]

MCContracts == {Default, [Default EXCEPT !.primary = 566], Plain, Lettered, MCPreset}
=============================================================================
