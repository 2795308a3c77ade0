-------------------------- MODULE Branding_proofs --------------------------
(***************************************************************************)
(* Proofs about Branding, for every pair of greys on every surface.        *)
(***************************************************************************)
EXTENDS Branding, WellFoundedInduction, TLAPS

(***************************************************************************)
(* Numbers.                                                                *)
(***************************************************************************)
LEMMA QuotientFacts ==
  ASSUME NEW n \in Nat, NEW d \in Nat, d > 0, NEW c \in Nat
  PROVE  /\ n \div d \in Nat
         /\ n \div d >= c <=> n >= c * d
<1>1. n \div d \in Nat OBVIOUS
<1>2. d * (n \div d) <= n OBVIOUS
<1>3. n < (n \div d + 1) * d OBVIOUS
<1> DEFINE q == n \div d
<1> HIDE DEF q
<1>4. q \in Nat /\ d * q <= n /\ n < (q + 1) * d BY <1>1, <1>2, <1>3 DEF q
<1>5. q >= c => c * d <= n
  <2>1. q >= c => d * c <= d * q BY <1>4
  <2> QED BY <1>4, <2>1
<1>6. q < c => n < c * d
  <2>1. q + 1 <= c => (q + 1) * d <= c * d BY <1>4
  <2> QED BY <1>4, <2>1
<1> QED BY <1>4, <1>5, <1>6 DEF q

(* The lighter of two greys has the greater luminance.                     *)
LEMMA LuminanceFacts ==
  ASSUME NEW a \in Nat, NEW b \in Nat, a <= b
  PROVE  Luminance(a) \in Nat /\ Luminance(b) \in Nat /\ Luminance(a) <= Luminance(b)
<1>1. a * a \in Nat /\ b * b \in Nat /\ a * a <= b * b
  <2>1. a * a <= a * b /\ a * b <= b * b OBVIOUS
  <2> QED BY <2>1
<1> DEFINE s == a * a
           t == b * b
<1>2. s * a \in Nat /\ t * b \in Nat /\ s * a <= t * b
  <2> HIDE DEF s, t
  <2>0. s \in Nat /\ t \in Nat /\ s <= t BY <1>1 DEF s, t
  <2>1. s * a <= t * a BY <2>0
  <2>2. t * a <= t * b BY <2>0
  <2>3. s * a \in Nat /\ t * a \in Nat /\ t * b \in Nat BY <2>0
  <2> QED BY <2>1, <2>2, <2>3
<1> DEFINE x == a * a * a
           y == b * b * b
<1>3. x \in Nat /\ y \in Nat /\ x <= y BY <1>2
<1> HIDE DEF x, y
<1>4. x \div 1000 \in Nat /\ y \div 1000 \in Nat /\ x \div 1000 <= y \div 1000 BY <1>3
<1> QED BY <1>4 DEF Luminance, x, y

LEMMA ContrastFacts ==
  ASSUME NEW a \in Nat, NEW b \in Nat, a <= b, NEW c \in Nat
  PROVE  /\ Contrast(a, b) = Contrast(b, a) /\ Contrast(a, b) \in Nat
         /\ Contrast(a, b) >= c <=> (Luminance(b) + 50000) * 1000 >= c * (Luminance(a) + 50000)
<1> DEFINE n == (Luminance(b) + 50000) * 1000
           d == Luminance(a) + 50000
<1>1. n \in Nat /\ d \in Nat /\ d > 0 BY LuminanceFacts
<1>2. Contrast(a, b) = n \div d /\ Contrast(b, a) = n \div d BY DEF Contrast
<1> HIDE DEF n, d
<1>3. n \div d \in Nat /\ (n \div d >= c <=> n >= c * d) BY <1>1, QuotientFacts
<1> QED BY <1>2, <1>3 DEF n, d

(* Where a text reads: the greys whose contrast is worked out below.       *)
LEMMA Luminances ==
  /\ Luminance(145) = 3048 /\ Luminance(985) = 955671
  /\ Luminance(552) = 168196 /\ Luminance(553) = 169112 /\ Luminance(557) = 172808
  /\ Luminance(574) = 189119 /\ Luminance(578) = 193100 /\ Luminance(579) = 194104
  /\ Luminance(478) = 109215
BY DEF Luminance

(* The least and the greatest of some numbers.                             *)
LEMMA LeastExists ==
  ASSUME NEW S \in SUBSET Nat, S # {}
  PROVE  \E x \in S : \A y \in S : x <= y
<1> DEFINE Less == OpToRel(<, Nat)
<1>1. PICK x \in S : \A y \in S : ~ (<<y, x>> \in Less)
  <2>1. IsWellFoundedOn(Less, Nat) BY NatLessThanWellFounded
  <2> HIDE DEF Less
  <2> QED BY <2>1, WFMin
<1>2. ASSUME NEW y \in S PROVE x <= y
  <2>1. <<y, x>> \notin Less BY <1>1
  <2>2. <<y, x>> \in Nat \X Nat /\ <<y, x>>[1] = y /\ <<y, x>>[2] = x OBVIOUS
  <2>3. ~ (y < x) BY <2>1, <2>2 DEF OpToRel
  <2>4. x \in Nat /\ y \in Nat OBVIOUS
  <2> QED BY <2>3, <2>4
<1> QED BY <1>2

LEMMA MinFacts ==
  ASSUME NEW S \in SUBSET Nat, S # {}
  PROVE  Min(S) \in S /\ \A x \in S : Min(S) <= x
<1>1. \E x \in S : \A y \in S : x <= y BY LeastExists
<1> QED BY <1>1, Zenon DEF Min

LEMMA MaxFacts ==
  ASSUME NEW top \in Nat, NEW S \in SUBSET (0..top), S # {}
  PROVE  Max(S) \in S
<1> DEFINE Below == {top - x : x \in S}
<1>1. Below \in SUBSET Nat /\ Below # {}
  <2>1. \A x \in S : top - x \in Nat OBVIOUS
  <2>2. PICK x \in S : TRUE OBVIOUS
  <2> QED BY <2>1, <2>2
<1>2. PICK b \in Below : \A y \in Below : b <= y
  <2> HIDE DEF Below
  <2> QED BY <1>1, LeastExists
<1>3. PICK k \in S : b = top - k OBVIOUS
<1>4. ASSUME NEW x \in S PROVE k >= x
  <2>1. top - x \in Below OBVIOUS
  <2>2. b <= top - x BY <1>2, <2>1
  <2> QED BY <1>3, <2>2
<1>5. \E x \in S : \A y \in S : x >= y BY <1>4
<1> QED BY <1>5, Zenon DEF Max

LEMMA MaxOfTwo ==
  ASSUME NEW a \in Int, NEW b \in Int
  PROVE  Max({a, b}) = IF a >= b THEN a ELSE b
<1> DEFINE S == {a, b}
<1>1. \E x \in S : \A y \in S : x >= y
  <2>1. a >= b \/ b >= a OBVIOUS
  <2>2. a >= a /\ b >= b OBVIOUS
  <2> QED BY <2>1, <2>2
<1>2. Max(S) \in S /\ \A y \in S : Max(S) >= y BY <1>1, Zenon DEF Max
<1> QED BY <1>2

(***************************************************************************)
(* The labels of brand colours.                                            *)
(***************************************************************************)
LEMMA LightTextFacts ==
  ASSUME NEW l \in Lightness
  PROVE  /\ Contrast(l, 985) \in Nat /\ Contrast(985, l) = Contrast(l, 985)
         /\ Contrast(l, 985) >= 4600 <=> l <= 552
         /\ l <= 557 => Contrast(l, 985) >= 4500
<1>0. l \in Nat /\ l <= 1000 /\ Luminance(1000) = 1000000 BY DEF Lightness, Luminance
<1>1. CASE l <= 985
  <2>1. \A c \in Nat : Contrast(l, 985) >= c <=> (Luminance(985) + 50000) * 1000 >= c * (Luminance(l) + 50000)
    BY <1>0, <1>1, ContrastFacts
  <2>2. Contrast(l, 985) >= 4600 <=> (955671 + 50000) * 1000 >= 4600 * (Luminance(l) + 50000)
    BY <2>1, Luminances
  <2>3. Contrast(l, 985) >= 4500 <=> (955671 + 50000) * 1000 >= 4500 * (Luminance(l) + 50000)
    BY <2>1, Luminances
  <2>4. /\ Luminance(l) \in Nat /\ (l <= 552 => Luminance(l) <= 168196)
        /\ (l <= 557 => Luminance(l) <= 172808) /\ (l >= 553 => Luminance(l) >= 169112)
    BY <1>0, LuminanceFacts, Luminances
  <2>5. Contrast(l, 985) \in Nat /\ Contrast(985, l) = Contrast(l, 985)
    BY <1>0, <1>1, ContrastFacts
  <2> QED BY <1>0, <2>2, <2>3, <2>4, <2>5
<1>2. CASE l > 985
  <2>1. Contrast(985, l) >= 4600 <=> (Luminance(l) + 50000) * 1000 >= 4600 * (Luminance(985) + 50000)
    BY <1>0, <1>2, ContrastFacts
  <2>2. Luminance(l) \in Nat /\ Luminance(l) <= 1000000 BY <1>0, LuminanceFacts
  <2>3. Contrast(985, l) \in Nat /\ Contrast(985, l) = Contrast(l, 985) BY <1>0, <1>2, ContrastFacts
  <2>4. Luminance(985) = 955671 BY Luminances
  <2> QED BY <1>0, <1>2, <2>1, <2>2, <2>3, <2>4
<1> QED BY <1>0, <1>1, <1>2

LEMMA DarkTextFacts ==
  ASSUME NEW l \in Lightness
  PROVE  /\ Contrast(l, 145) \in Nat /\ Contrast(145, l) = Contrast(l, 145)
         /\ Contrast(l, 145) >= 4600 <=> l >= 579
         /\ l >= 574 => Contrast(l, 145) >= 4500
         /\ l >= 478 => Contrast(l, 145) >= 3000
<1>0. l \in Nat BY DEF Lightness
<1>1. CASE l >= 145
  <2>1. \A c \in Nat : Contrast(145, l) >= c <=> (Luminance(l) + 50000) * 1000 >= c * (Luminance(145) + 50000)
    BY <1>0, <1>1, ContrastFacts
  <2>2. Contrast(145, l) >= 4600 <=> (Luminance(l) + 50000) * 1000 >= 4600 * (3048 + 50000)
    BY <2>1, Luminances
  <2>3. Contrast(145, l) >= 4500 <=> (Luminance(l) + 50000) * 1000 >= 4500 * (3048 + 50000)
    BY <2>1, Luminances
  <2>4. Contrast(145, l) >= 3000 <=> (Luminance(l) + 50000) * 1000 >= 3000 * (3048 + 50000)
    BY <2>1, Luminances
  <2>5. /\ Luminance(l) \in Nat /\ (l >= 579 => Luminance(l) >= 194104)
        /\ (l >= 574 => Luminance(l) >= 189119) /\ (l <= 578 => Luminance(l) <= 193100)
        /\ (l >= 478 => Luminance(l) >= 109215)
    BY <1>0, LuminanceFacts, Luminances
  <2>6. Contrast(145, l) \in Nat /\ Contrast(l, 145) = Contrast(145, l) BY <1>0, <1>1, ContrastFacts
  <2> QED BY <1>0, <2>2, <2>3, <2>4, <2>5, <2>6
<1>2. CASE l < 145
  <2>1. Contrast(l, 145) >= 4600 <=> (Luminance(145) + 50000) * 1000 >= 4600 * (Luminance(l) + 50000)
    BY <1>0, <1>2, ContrastFacts
  <2>2. Luminance(l) \in Nat BY <1>0, LuminanceFacts
  <2>3. Contrast(l, 145) \in Nat /\ Contrast(145, l) = Contrast(l, 145) BY <1>0, <1>2, ContrastFacts
  <2>4. Luminance(145) = 3048 BY Luminances
  <2> QED BY <1>0, <1>2, <2>1, <2>2, <2>3, <2>4
<1> QED BY <1>0, <1>1, <1>2

LEMMA LabelFacts ==
  ASSUME NEW l \in Lightness
  PROVE  /\ ForegroundContrast(l) >= TARGET <=> l <= 552 \/ l >= 579
         /\ l <= 557 \/ l >= 574 => ForegroundContrast(l) >= AA
         /\ Contrast(ForegroundFor(l), l) = ForegroundContrast(l)
<1>1. /\ Contrast(l, 985) \in Nat /\ Contrast(985, l) = Contrast(l, 985)
      /\ Contrast(l, 985) >= 4600 <=> l <= 552
      /\ l <= 557 => Contrast(l, 985) >= 4500
  BY LightTextFacts
<1>2. /\ Contrast(l, 145) \in Nat /\ Contrast(145, l) = Contrast(l, 145)
      /\ Contrast(l, 145) >= 4600 <=> l >= 579
      /\ l >= 574 => Contrast(l, 145) >= 4500
  BY DarkTextFacts
<1>3. ForegroundFor(l) = IF Contrast(l, 985) >= Contrast(l, 145) THEN 985 ELSE 145
  BY DEF ForegroundFor, FOREGROUND_ON_DARK, FOREGROUND_ON_LIGHT
<1>4. CASE Contrast(l, 985) >= Contrast(l, 145)
  <2>1. ForegroundContrast(l) = Contrast(l, 985) /\ ForegroundFor(l) = 985
    BY <1>3, <1>4 DEF ForegroundContrast
  <2> QED BY <1>1, <1>2, <1>4, <2>1 DEF TARGET, AA
<1>5. CASE ~ (Contrast(l, 985) >= Contrast(l, 145))
  <2>1. ForegroundContrast(l) = Contrast(l, 145) /\ ForegroundFor(l) = 145
    BY <1>3, <1>5 DEF ForegroundContrast
  <2> QED BY <1>1, <1>2, <1>5, <2>1 DEF TARGET, AA
<1> QED BY <1>4, <1>5

(* A colour of a dark project is lifted to where it stands out, and no     *)
(* further than it must; one beside a light page stays above its label.    *)
LEMMA LiftedFacts ==
  ASSUME NEW l \in Lightness, NEW surface \in Surfaces
  PROVE  /\ Lifted(l, surface) \in Lightness
         /\ Contrast(Lifted(l, surface), 145) >= MinDarkContrast(surface)
         /\ surface # "dark" => Lifted(l, surface) >= 720
         /\ surface = "dark" => Lifted(l, surface) = l \/ Lifted(l, surface) <= 487
<1> DEFINE floor  == MinDarkLightness(surface)
           least  == MinDarkContrast(surface)
           start  == Max({l, floor})
           enough == {k \in LiftSteps(start) : Contrast(k, DARK_BACKGROUND) >= least}
<1>1. l \in Nat /\ l <= 1000 BY DEF Lightness
<1>2. /\ surface = "dark" => floor = 0 /\ least = 3000
      /\ surface # "dark" => floor = 720 /\ least = 0
  BY DEF MinDarkLightness, MinDarkContrast
<1>3. start = IF l >= floor THEN l ELSE floor BY <1>1, <1>2, MaxOfTwo
<1>4. Lifted(l, surface) = IF enough = {} THEN 990 ELSE Min(enough) BY DEF Lifted
<1>5. enough = {k \in LiftSteps(start) : Contrast(k, 145) >= least} BY DEF DARK_BACKGROUND
<1> HIDE DEF floor, least, start, enough
<1>6. start \in Nat /\ l <= start /\ start <= 1000 BY <1>1, <1>2, <1>3
<1>7. /\ start \in LiftSteps(start)
      /\ \A k \in LiftSteps(start) : k \in Nat /\ start <= k /\ k <= 1000
  BY <1>6 DEF LiftSteps
<1>8. \A k \in LiftSteps(start) : k \in Lightness BY <1>7 DEF Lightness
<1>9. \A k \in Lightness : Contrast(k, 145) \in Nat /\ (k >= 478 => Contrast(k, 145) >= 3000)
  BY DarkTextFacts
<1>10. enough \in SUBSET Nat BY <1>5, <1>7
<1>11. \E k \in enough : surface = "dark" => k = l \/ k <= 487
  <2>1. CASE surface # "dark"
    <3>1. start \in enough BY <1>2, <1>5, <1>7, <1>8, <1>9, <2>1
    <3> QED BY <2>1, <3>1
  <2>2. CASE surface = "dark" /\ l >= 478
    <3>1. start = l BY <1>1, <1>2, <1>3, <2>2
    <3>2. start \in enough BY <1>2, <1>5, <1>7, <1>8, <1>9, <2>2, <3>1
    <3> QED BY <3>1, <3>2
  <2>3. CASE surface = "dark" /\ l < 478
    <3>1. start = l BY <1>1, <1>2, <1>3, <2>3
    <3>2. PICK i \in 1..99 : 478 <= l + 10 * i /\ l + 10 * i <= 487
      <4> DEFINE j == (487 - l) \div 10
      <4>1. j \in 1..99 /\ 478 <= l + 10 * j /\ l + 10 * j <= 487 BY <1>1, <2>3
      <4> QED BY <4>1
    <3>3. l + 10 * i \in LiftSteps(start) BY <1>1, <3>1, <3>2 DEF LiftSteps
    <3>4. l + 10 * i \in enough BY <1>2, <1>5, <1>8, <1>9, <2>3, <3>2, <3>3
    <3> QED BY <3>2, <3>4
  <2> QED BY <1>1, <2>1, <2>2, <2>3
<1>12. Min(enough) \in enough /\ \A k \in enough : Min(enough) <= k BY <1>10, <1>11, MinFacts
<1> DEFINE lifted == Lifted(l, surface)
<1>13. lifted \in enough /\ \A k \in enough : lifted <= k BY <1>4, <1>11, <1>12
<1> HIDE DEF lifted
<1>14. /\ lifted \in Nat /\ start <= lifted /\ lifted \in Lightness /\ Contrast(lifted, 145) >= least
  BY <1>5, <1>7, <1>8, <1>13
<1>15. surface # "dark" => lifted >= 720 BY <1>1, <1>2, <1>3, <1>14
<1>16. surface = "dark" => lifted = l \/ lifted <= 487
  <2>1. PICK k \in enough : surface = "dark" => k = l \/ k <= 487 BY <1>11
  <2>2. k \in Nat /\ lifted <= k BY <1>10, <1>13
  <2> QED BY <1>1, <1>6, <1>14, <2>1, <2>2
<1> QED BY <1>14, <1>15, <1>16 DEF lifted, least

LEMMA FillFacts ==
  ASSUME NEW l \in Lightness, NEW surface \in Surfaces, NEW mode
  PROVE  /\ Fill(l, surface, mode) \in Lightness
         /\ Fill(l, surface, mode) = IF mode = "dark" THEN Lifted(l, surface) ELSE l
<1>1. Fill(l, surface, mode) = IF mode = "dark" THEN Lifted(l, surface) ELSE l
  BY DEF Fill, LiftedOn
<1> QED BY <1>1, LiftedFacts

(* What a suggestion can be once it is written as a hex colour: its label  *)
(* reads, in every mode.                                                   *)
Sound == {l \in Lightness : l <= 555 \/ l >= 576}

LEMMA SoundReads ==
  ASSUME NEW l \in Sound, NEW surface \in Surfaces, NEW mode \in Modes(surface)
  PROVE  LET fill == Fill(l, surface, mode)
         IN  Contrast(ForegroundFor(fill), fill) >= AA
<1> DEFINE fill == Fill(l, surface, mode)
<1>1. l \in Lightness /\ l \in Nat /\ (l <= 555 \/ l >= 576) BY DEF Sound, Lightness
<1>2. fill \in Lightness /\ fill = IF mode = "dark" THEN Lifted(l, surface) ELSE l
  BY <1>1, FillFacts
<1>3. /\ surface # "dark" => Lifted(l, surface) >= 720
      /\ surface = "dark" => Lifted(l, surface) = l \/ Lifted(l, surface) <= 487
  BY <1>1, LiftedFacts
<1> HIDE DEF fill
<1>4. fill <= 557 \/ fill >= 574
  <2>1. fill \in Nat BY <1>2 DEF Lightness
  <2> QED BY <1>1, <1>2, <1>3, <2>1
<1>5. Contrast(ForegroundFor(fill), fill) = ForegroundContrast(fill) /\ ForegroundContrast(fill) >= AA
  BY <1>2, <1>4, LabelFacts
<1> QED BY <1>5 DEF fill

(***************************************************************************)
(* Suggestions.                                                            *)
(***************************************************************************)
LEMMA SuggestFacts ==
  ASSUME NEW l \in Lightness
  PROVE  /\ SuggestPrimary(l) \in Lightness
         /\ SuggestPrimary(l) <= 552 \/ SuggestPrimary(l) >= 579
<1> DEFINE deltas == {i \in 0..59 : \E k \in Near(l, 10 * i) : ForegroundContrast(k) >= TARGET}
           delta  == 10 * Min(deltas)
           read   == {k \in Near(l, delta) : ForegroundContrast(k) >= TARGET}
<1>1. SuggestPrimary(l) = IF deltas = {} THEN None ELSE Max(read)
  BY DEF SuggestPrimary, SuggestReadable
<1>2. l \in 0..1000 BY DEF Lightness
<1>3. deltas # {}
  <2>1. CASE l <= 552 \/ l >= 579
    <3>1. l + 10 * 0 = l BY <1>2
    <3>2. l \in Near(l, 10 * 0) BY <3>1 DEF Near
    <3>3. ForegroundContrast(l) >= TARGET BY <2>1, LabelFacts
    <3>4. 0 \in deltas BY <3>2, <3>3
    <3> QED BY <3>4
  <2>2. CASE l > 552 /\ l < 579
    <3> DEFINE k == l - 60
    <3>1. k \in Lightness /\ k <= 552 BY <1>2, <2>2 DEF Lightness
    <3>2. k \in Near(l, 10 * 6) BY <1>2, <3>1 DEF Near
    <3> HIDE DEF k
    <3>3. ForegroundContrast(k) >= TARGET BY <3>1, LabelFacts
    <3>4. 6 \in deltas BY <3>2, <3>3
    <3> QED BY <3>4
  <2> QED BY <1>2, <2>1, <2>2
<1>4. Min(deltas) \in deltas
  <2>1. deltas \in SUBSET Nat OBVIOUS
  <2> HIDE DEF deltas
  <2> QED BY <1>3, <2>1, MinFacts
<1>5. read # {} BY <1>4
<1>6. read \in SUBSET (0..1000) BY DEF Near, Lightness
<1>7. Max(read) \in read
  <2> DEFINE top == 1000
  <2>1. read \in SUBSET (0..top) /\ top \in Nat BY <1>6
  <2> HIDE DEF deltas, delta, read, top
  <2> QED BY <1>5, <2>1, MaxFacts
<1>8. Max(read) \in Lightness /\ ForegroundContrast(Max(read)) >= TARGET BY <1>7 DEF Near
<1> HIDE DEF read, deltas
<1> QED BY <1>1, <1>3, <1>8, LabelFacts

LEMMA PastedIsSound ==
  ASSUME NEW l \in Lightness, NEW hex \in AsHex(SuggestPrimary(l))
  PROVE  hex \in Sound
<1>1. SuggestPrimary(l) \in Lightness /\ (SuggestPrimary(l) <= 552 \/ SuggestPrimary(l) >= 579)
  BY SuggestFacts
<1> QED BY <1>1 DEF AsHex, HexError, Sound, Lightness

(***************************************************************************)
(* The texts of the neutral surfaces.                                      *)
(***************************************************************************)
LEMMA NeutralContrasts ==
  /\ Contrast(145, 1000) >= AA /\ Contrast(145, 960) >= AA /\ Contrast(145, 985) >= AA
  /\ Contrast(145, 970) >= AA
  /\ Contrast(180, 972) >= AA /\ Contrast(180, 990) >= AA /\ Contrast(180, 930) >= AA
  /\ Contrast(180, 957) >= AA /\ Contrast(180, 940) >= AA
  /\ Contrast(985, 145) >= AA /\ Contrast(985, 205) >= AA /\ Contrast(985, 310) >= AA
  /\ Contrast(985, 269) >= AA
BY DEF Contrast, Luminance, AA

(* Lightnesses that _solve tries and that read.                            *)
LEMMA MutedContrasts ==
  /\ Contrast(501, 1000) >= TARGET /\ Contrast(501, 970) >= TARGET /\ Contrast(501, 960) >= TARGET
  /\ Contrast(500, 972) >= TARGET /\ Contrast(500, 990) >= TARGET /\ Contrast(500, 940) >= TARGET
  /\ Contrast(500, 930) >= TARGET
  /\ Contrast(708, 145) >= TARGET /\ Contrast(708, 205) >= TARGET /\ Contrast(708, 269) >= TARGET
  /\ Contrast(708, 310) >= TARGET
BY DEF Contrast, Luminance, TARGET

LEMMA SolveFacts ==
  ASSUME NEW start, NEW against, NEW darker \in BOOLEAN, NEW l \in Tried(start, darker),
         Reads(l, against)
  PROVE  Solve(start, against, darker) \in Lightness /\ Reads(Solve(start, against, darker), against)
<1> DEFINE good == {k \in Tried(start, darker) : Reads(k, against)}
           top  == 1000
<1>1. good # {} /\ good \in SUBSET (0..top) /\ top \in Nat BY DEF Tried, Lightness
<1>2. good \in SUBSET Nat BY <1>1
<1>3. Solve(start, against, darker) = IF darker THEN Max(good) ELSE Min(good)
  BY <1>1 DEF Solve, First
<1>4. Max(good) \in good /\ Min(good) \in good
  <2> HIDE DEF good, top
  <2> QED BY <1>1, <1>2, MaxFacts, MinFacts
<1>5. \A k \in good : k \in Lightness /\ Reads(k, against) BY DEF Tried
<1> HIDE DEF good
<1> QED BY <1>3, <1>4, <1>5

LEMMA MutedFacts ==
  ASSUME NEW surface \in Surfaces, NEW mode \in {"light", "dark"}
  PROVE  LET spec == ModeSpec(surface, mode)
         IN  /\ MutedForeground(surface, mode) \in Lightness
             /\ Contrast(MutedForeground(surface, mode), spec.background) >= TARGET
             /\ Contrast(MutedForeground(surface, mode), spec.muted) >= TARGET
<1> DEFINE spec    == ModeSpec(surface, mode)
           against == {spec.background, spec.card, spec.muted, spec.accent}
           darker  == mode = "light"
           muted   == MutedForeground(surface, mode)
<1>1. muted = Solve(spec.start, against, darker) BY DEF MutedForeground, MutedForegrounds
<1>2. \E l \in Tried(spec.start, darker) : Reads(l, against)
  <2>1. CASE mode = "dark"
    <3>1. spec = _DARK BY <2>1 DEF ModeSpec
    <3>2. spec.start = 708 /\ against = {145, 205, 269, 310} /\ ~ darker BY <2>1, <3>1 DEF _DARK
    <3>3. Reads(708, against) BY <3>2, MutedContrasts DEF Reads
    <3>4. 708 \in Tried(708, FALSE)
      <4>1. 708 = 708 + 5 * 0 /\ 0 \in 0..200 OBVIOUS
      <4> QED BY <4>1 DEF Tried, Lightness
    <3>5. Tried(spec.start, darker) = Tried(708, FALSE) BY <3>2 DEF Tried
    <3> DEFINE tried == 708
    <3>6. tried \in Tried(spec.start, darker) /\ Reads(tried, against) BY <3>3, <3>4, <3>5
    <3> HIDE DEF spec, against, darker, tried
    <3> QED BY <3>6
  <2>2. CASE mode = "light" /\ surface = "cream"
    <3>1. spec = _CREAM BY <2>2 DEF ModeSpec
    <3>2. spec.start = 500 /\ against = {972, 990, 940, 930} /\ darker BY <2>2, <3>1 DEF _CREAM
    <3>3. Reads(500, against) BY <3>2, MutedContrasts DEF Reads
    <3>4. 500 \in Tried(500, TRUE)
      <4>1. 500 = 500 + (-5) * 0 /\ 0 \in 0..200 OBVIOUS
      <4> QED BY <4>1 DEF Tried, Lightness
    <3>5. Tried(spec.start, darker) = Tried(500, TRUE) BY <3>2 DEF Tried
    <3> DEFINE tried == 500
    <3>6. tried \in Tried(spec.start, darker) /\ Reads(tried, against) BY <3>3, <3>4, <3>5
    <3> HIDE DEF spec, against, darker, tried
    <3> QED BY <3>6
  <2>3. CASE mode = "light" /\ surface # "cream"
    <3>1. spec = _LIGHT BY <2>3 DEF ModeSpec
    <3>2. spec.start = 556 /\ against = {1000, 970, 960} /\ darker BY <2>3, <3>1 DEF _LIGHT
    <3>3. Reads(501, against) BY <3>2, MutedContrasts DEF Reads
    <3>4. 501 \in Tried(556, TRUE)
      <4>1. 501 = 556 + (-5) * 11 /\ 11 \in 0..200 OBVIOUS
      <4> QED BY <4>1 DEF Tried, Lightness
    <3>5. Tried(spec.start, darker) = Tried(556, TRUE) BY <3>2 DEF Tried
    <3> DEFINE tried == 501
    <3>6. tried \in Tried(spec.start, darker) /\ Reads(tried, against) BY <3>3, <3>4, <3>5
    <3> HIDE DEF spec, against, darker, tried
    <3> QED BY <3>6
  <2> QED BY <2>1, <2>2, <2>3
<1>3. darker \in BOOLEAN /\ spec.background \in against /\ spec.muted \in against OBVIOUS
<1> HIDE DEF spec, against, darker, muted
<1>4. muted \in Lightness /\ Reads(muted, against) BY <1>1, <1>2, <1>3, SolveFacts
<1>5. Contrast(muted, spec.background) >= TARGET /\ Contrast(muted, spec.muted) >= TARGET
  BY <1>3, <1>4 DEF Reads
<1> QED BY <1>4, <1>5 DEF muted, spec

LEMMA ContrastNat ==
  ASSUME NEW a \in Lightness, NEW b \in Lightness
  PROVE  Contrast(a, b) \in Nat
<1>1. a \in Nat /\ b \in Nat /\ (a <= b \/ b <= a) BY DEF Lightness
<1> QED BY <1>1, ContrastFacts

Labels == {LabelOf["primary"], LabelOf["secondary"]}

(* What is required of them always holds.                                  *)
LEMMA NeutralsRead ==
  ASSUME NEW b \in Brand, NEW mode \in Modes(b.surface), NEW pair \in _REQUIRED, pair \notin Labels
  PROVE  ~ (Contrast(Tokens(b, mode)[pair[1]], Tokens(b, mode)[pair[2]]) < AA)
<1> DEFINE spec    == ModeSpec(b.surface, mode)
           muted   == MutedForeground(b.surface, mode)
           sidebar == Sidebar(b.surface, mode)
           tokens  == Tokens(b, mode)
<1>0. b.surface \in Surfaces /\ mode \in {"light", "dark"} BY DEF Brand, Modes
<1>1. /\ tokens["foreground"] = spec.foreground /\ tokens["background"] = spec.background
      /\ tokens["card"] = spec.card /\ tokens["popover"] = spec.card
      /\ tokens["muted"] = spec.muted /\ tokens["accent"] = spec.accent
      /\ tokens["muted_foreground"] = muted /\ tokens["sidebar"] = sidebar
  BY DEF Tokens
<1>2. pair \in {<<"foreground", "background">>, <<"foreground", "card">>, <<"foreground", "popover">>,
                <<"muted_foreground", "muted">>, <<"muted_foreground", "background">>,
                <<"foreground", "accent">>, <<"foreground", "sidebar">>}
  BY DEF _REQUIRED, Labels, LabelOf
<1>3. /\ muted \in Lightness /\ Contrast(muted, spec.background) >= TARGET
      /\ Contrast(muted, spec.muted) >= TARGET
  BY <1>0, MutedFacts
<1>4. \/ mode = "dark" /\ spec = _DARK /\ sidebar = 205
      \/ spec = _CREAM /\ sidebar = 957
      \/ spec = _LIGHT /\ sidebar = 985
  <2>1. Max({957, 0}) = 957 /\ Max({985, 0}) = 985 BY MaxOfTwo
  <2>2. CASE mode = "dark" BY <2>2 DEF ModeSpec, Sidebar, _DARK
  <2>3. CASE mode # "dark" /\ b.surface = "cream"
    <3>1. spec = _CREAM BY <2>3 DEF ModeSpec
    <3>2. sidebar = Max({972 - 15, 0}) BY <2>3, <3>1 DEF Sidebar, _CREAM
    <3>3. 972 - 15 = 957 OBVIOUS
    <3> QED BY <2>1, <3>1, <3>2, <3>3
  <2>4. CASE mode # "dark" /\ b.surface # "cream"
    <3>1. spec = _LIGHT BY <2>4 DEF ModeSpec
    <3>2. sidebar = Max({1000 - 15, 0}) BY <2>4, <3>1 DEF Sidebar, _LIGHT
    <3>3. 1000 - 15 = 985 OBVIOUS
    <3> QED BY <2>1, <3>1, <3>2, <3>3
  <2> QED BY <2>2, <2>3, <2>4
<1> HIDE DEF spec, muted, sidebar, tokens
<1>5. /\ spec.background \in Lightness /\ spec.card \in Lightness /\ spec.muted \in Lightness
      /\ spec.accent \in Lightness /\ spec.foreground \in Lightness /\ sidebar \in Lightness
  <2>1. CASE spec = _DARK /\ sidebar = 205 BY <2>1 DEF _DARK, Lightness
  <2>2. CASE spec = _CREAM /\ sidebar = 957 BY <2>2 DEF _CREAM, Lightness
  <2>3. CASE spec = _LIGHT /\ sidebar = 985 BY <2>3 DEF _LIGHT, Lightness
  <2> QED BY <1>4, <2>1, <2>2, <2>3
<1>6. /\ Contrast(spec.foreground, spec.background) >= AA /\ Contrast(spec.foreground, spec.card) >= AA
      /\ Contrast(spec.foreground, spec.accent) >= AA /\ Contrast(spec.foreground, sidebar) >= AA
  BY <1>4, NeutralContrasts DEF _DARK, _CREAM, _LIGHT
<1>7. Contrast(muted, spec.background) >= AA /\ Contrast(muted, spec.muted) >= AA
  <2>1. Contrast(muted, spec.background) \in Nat /\ Contrast(muted, spec.muted) \in Nat
    BY <1>3, <1>5, ContrastNat
  <2> QED BY <1>3, <2>1 DEF TARGET, AA
<1>8. /\ tokens[pair[1]] \in Lightness /\ tokens[pair[2]] \in Lightness
      /\ Contrast(tokens[pair[1]], tokens[pair[2]]) >= AA
  BY <1>1, <1>2, <1>3, <1>5, <1>6, <1>7
<1>9. Contrast(tokens[pair[1]], tokens[pair[2]]) \in Nat BY <1>8, ContrastNat
<1> QED BY <1>8, <1>9 DEF AA, tokens

LEMMA FailureIs ==
  ASSUME NEW b \in Brand, NEW failure \in Failures(b)
  PROVE  /\ failure[1] \in Modes(b.surface) /\ failure[2] \in Labels
         /\ LET tokens == Tokens(b, failure[1])
            IN  Contrast(tokens[failure[2][1]], tokens[failure[2][2]]) < AA
<1>1. PICK mode \in Modes(b.surface), pair \in _REQUIRED :
        failure = <<mode, pair>> /\ Contrast(Tokens(b, mode)[pair[1]], Tokens(b, mode)[pair[2]]) < AA
  BY DEF Failures
<1>2. pair \in Labels BY <1>1, NeutralsRead
<1> QED BY <1>1, <1>2

(* A label fails only on a colour that was chosen, and that is not one     *)
(* that was suggested.                                                     *)
LEMMA LabelFailureIs ==
  ASSUME NEW b \in Brand, NEW failure \in Failures(b), NEW field \in {"primary", "secondary"},
         failure[2] = LabelOf[field]
  PROVE  b[field] \in Lightness \ Sound
<1> DEFINE mode   == failure[1]
           tokens == Tokens(b, mode)
           fill   == Fill(b[field], b.surface, mode)
           spec   == ModeSpec(b.surface, mode)
<1>1. /\ mode \in Modes(b.surface)
      /\ Contrast(tokens[failure[2][1]], tokens[failure[2][2]]) < AA
  BY FailureIs
<1>2. b.surface \in Surfaces /\ b.primary \in Lightness /\ b.secondary \in Lightness \cup {None}
  BY DEF Brand
<1>3. b[field] # None
  <2>1. CASE field = "primary"
    <3>1. None \notin Lightness BY DEF None, Lightness
    <3> QED BY <1>2, <2>1, <3>1
  <2>2. CASE field = "secondary" /\ b.secondary = None
    <3>1. failure[2][1] = "secondary_foreground" /\ failure[2][2] = "secondary" BY <2>2 DEF LabelOf
    <3>2. tokens["secondary_foreground"] = spec.foreground /\ tokens["secondary"] = spec.muted
      BY <2>2 DEF Tokens
    <3>3. spec \in {_DARK, _CREAM, _LIGHT} BY DEF ModeSpec
    <3> HIDE DEF spec, tokens
    <3>4. Contrast(spec.foreground, spec.muted) >= AA
      BY <3>3, NeutralContrasts DEF _DARK, _CREAM, _LIGHT
    <3>5. spec.foreground \in Lightness /\ spec.muted \in Lightness
      BY <3>3 DEF _DARK, _CREAM, _LIGHT, Lightness
    <3>6. Contrast(spec.foreground, spec.muted) \in Nat BY <3>5, ContrastNat
    <3> QED BY <1>1, <3>1, <3>2, <3>4, <3>6 DEF AA
  <2> QED BY <2>1, <2>2
<1>4. b[field] \in Lightness BY <1>2, <1>3
<1>5. b[field] \notin Sound
  <2> SUFFICES ASSUME b[field] \in Sound PROVE FALSE OBVIOUS
  <2>1. Contrast(ForegroundFor(fill), fill) >= AA BY <1>1, <1>2, SoundReads
  <2>2. tokens[failure[2][1]] = ForegroundFor(fill) /\ tokens[failure[2][2]] = fill
    <3>1. CASE field = "primary" BY <3>1 DEF Tokens, LabelOf
    <3>2. CASE field = "secondary" BY <1>3, <3>2 DEF Tokens, LabelOf
    <3> QED BY <3>1, <3>2
  <2>3. Contrast(ForegroundFor(fill), fill) \in Nat
    <3>1. fill \in Lightness BY <1>2, <1>4, FillFacts
    <3>2. ForegroundFor(fill) \in Lightness
      BY DEF ForegroundFor, FOREGROUND_ON_DARK, FOREGROUND_ON_LIGHT, Lightness
    <3> QED BY <3>1, <3>2, ContrastNat
  <2> HIDE DEF tokens, fill, mode
  <2> QED BY <1>1, <2>1, <2>2, <2>3 DEF AA
<1> QED BY <1>4, <1>5
-----------------------------------------------------------------------------
(***************************************************************************)
(* The invariant: what was pasted is sound, and a refusal says what the    *)
(* audit of the colours says.                                              *)
(***************************************************************************)
BrandingInv ==
  /\ brand \in Brand
  /\ failures \subseteq Failures(brand)
  /\ outcome = "refused" => failures # {}
  /\ pasted \subseteq {"primary", "secondary"} /\ \A field \in pasted : brand[field] \in Sound

(* A colour that was pasted is sound, and stays until another is pasted    *)
(* (_contrast_error, suggest_primary).                                     *)
THEOREM Invariant == Spec => []BrandingInv
<1>1. Init => BrandingInv
  <2> SUFFICES ASSUME Init PROVE BrandingInv OBVIOUS
  <2>1. brand \in Brand BY ChosenAssumption DEF Init, Brand
  <2> QED BY <2>1 DEF Init, BrandingInv
<1>2. BrandingInv /\ [Next]_vars => BrandingInv'
  <2> SUFFICES ASSUME BrandingInv, [Next]_vars PROVE BrandingInv' OBVIOUS
  <2>1. CASE Build
    <3>1. /\ failures' = Failures(brand) /\ brand' = brand /\ pasted' = pasted
          /\ outcome' = IF failures' = {} THEN "built" ELSE "refused"
      BY <2>1 DEF Build
    <3> QED BY <3>1 DEF BrandingInv
  <2>2. CASE Paste
    <3>1. PICK field \in Suggested : \E hex \in AsHex(SuggestPrimary(brand[field])) :
            /\ brand' = [brand EXCEPT ![field] = hex]
            /\ pasted' = pasted \cup {field}
      BY <2>2 DEF Paste
    <3>2. PICK hex \in AsHex(SuggestPrimary(brand[field])) :
            /\ brand' = [brand EXCEPT ![field] = hex]
            /\ pasted' = pasted \cup {field}
      BY <3>1
    <3>3. field \in {"primary", "secondary"} /\ brand[field] # None
      BY DEF Suggested, AtFault, LabelOf
    <3>4. brand[field] \in Lightness BY <3>3 DEF BrandingInv, Brand
    <3>5. hex \in Sound /\ hex \in Lightness BY <3>4, PastedIsSound DEF Sound
    <3>6. /\ brand' \in Brand /\ brand'[field] = hex
          /\ \A other \in {"primary", "secondary"} \ {field} : brand'[other] = brand[other]
      BY <3>2, <3>3, <3>5 DEF BrandingInv, Brand
    <3>7. failures' = {} /\ outcome' = "edited" BY <2>2 DEF Paste
    <3>8. \A other \in pasted' : other \in {"primary", "secondary"} /\ brand'[other] \in Sound
      BY <3>2, <3>3, <3>5, <3>6 DEF BrandingInv
    <3> QED BY <3>6, <3>7, <3>8 DEF BrandingInv
  <2>3. CASE UNCHANGED vars BY <2>3 DEF vars, BrandingInv
  <2> QED BY <2>1, <2>2, <2>3 DEF Next
<1> QED BY <1>1, <1>2, PTL DEF Spec

(* Whatever the two colours and the surface, every text on a neutral       *)
(* surface reads, and a brand colour stands out from the page of a dark    *)
(* project (_solve, brand_tokens).                                         *)
THEOREM PalettesRead == Spec => []EveryPaletteReads
<1>1. ASSUME BrandingInv PROVE EveryPaletteReads
  <2>1. brand \in Brand /\ brand.surface \in Surfaces /\ brand.primary \in Lightness
    BY <1>1 DEF BrandingInv, Brand
  <2>2. Derivable(brand)
    <3> SUFFICES ASSUME NEW mode \in Modes(brand.surface)
                 PROVE  MutedForeground(brand.surface, mode) # None
      BY DEF Derivable
    <3>1. mode \in {"light", "dark"} BY DEF Modes
    <3>2. MutedForeground(brand.surface, mode) \in Lightness BY <2>1, <3>1, MutedFacts
    <3> QED BY <3>2 DEF Lightness, None
  <2>3. \A failure \in failures : failure[2] \in {LabelOf["primary"], LabelOf["secondary"]}
    BY <1>1, <2>1, FailureIs DEF BrandingInv, Labels
  <2>4. ASSUME NEW mode \in Modes(brand.surface) \cap {"dark"}
        PROVE  Contrast(Fill(brand.primary, brand.surface, mode), DARK_BACKGROUND)
                 >= MinDarkContrast(brand.surface)
    <3>1. Fill(brand.primary, brand.surface, mode) = Lifted(brand.primary, brand.surface)
      BY <2>1, FillFacts
    <3> QED BY <2>1, <3>1, LiftedFacts DEF DARK_BACKGROUND
  <2> QED BY <2>2, <2>3, <2>4 DEF EveryPaletteReads
<1> QED BY <1>1, Invariant, PTL

(* Every refusal names a colour and suggests another, and no colour that   *)
(* was suggested is refused again, on any surface and in both modes        *)
(* (_contrast_error, suggest_primary).                                     *)
THEOREM SuggestionsSettle == Spec => []SuggestionsEnd
<1>1. ASSUME BrandingInv PROVE SuggestionsEnd
  <2> SUFFICES ASSUME outcome = "refused"
               PROVE  AtFault # {} /\ Suggested = AtFault /\ AtFault \cap pasted = {}
    BY DEF SuggestionsEnd
  <2>0. brand \in Brand /\ failures \subseteq Failures(brand) /\ failures # {}
        /\ \A field \in pasted : brand[field] \in Sound
    BY <1>1 DEF BrandingInv
  <2>1. DOMAIN LabelOf = {"primary", "secondary"} BY DEF LabelOf
  <2>2. AtFault # {}
    <3>1. PICK failure \in failures : TRUE BY <2>0
    <3>2. failure[2] \in Labels BY <2>0, FailureIs
    <3> QED BY <2>1, <3>2 DEF AtFault, Labels
  <2>3. ASSUME NEW field \in AtFault
        PROVE  field \in {"primary", "secondary"} /\ brand[field] \in Lightness \ Sound
    <3>1. PICK failure \in failures : failure[2] = LabelOf[field] BY DEF AtFault
    <3>2. field \in {"primary", "secondary"} BY <2>1 DEF AtFault
    <3> QED BY <2>0, <3>1, <3>2, LabelFailureIs
  <2>4. ASSUME NEW field \in AtFault PROVE field \in Suggested
    <3>1. brand[field] \in Lightness BY <2>3
    <3>2. SuggestPrimary(brand[field]) \in Lightness BY <3>1, SuggestFacts
    <3>3. \A l \in Lightness : l # None BY DEF Lightness, None
    <3>4. brand[field] # None /\ SuggestPrimary(brand[field]) # None BY <3>1, <3>2, <3>3
    <3> QED BY <3>4 DEF Suggested
  <2>5. Suggested = AtFault BY <2>4 DEF Suggested
  <2>6. AtFault \cap pasted = {} BY <2>0, <2>3
  <2> QED BY <2>2, <2>5, <2>6
<1> QED BY <1>1, Invariant, PTL
=============================================================================
