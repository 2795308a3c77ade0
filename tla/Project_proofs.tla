--------------------------- MODULE Project_proofs ---------------------------
(***************************************************************************)
(* Proofs about Project, for any contracts and any edits.                  *)
(***************************************************************************)
EXTENDS Project, SequenceTheorems, WellFoundedInduction, TLAPS

Name == {"theme", "brand", "fonts"}

(* What the block of each name declares.                                   *)
ThemeImports == {Blocks!Import(theme) : theme \in Themes}
Roots        == {<<"root", primary, surface>> : primary \in Lightness, surface \in Surfaces}
FaceLists    == {<<"faces", fonts>> : fonts \in SUBSET {"display", "body", "mono"}}
Body(n)      == IF n = "theme" THEN ThemeImports ELSE IF n = "brand" THEN Roots ELSE FaceLists

Token ==
  {Blocks!Start(n) : n \in Name} \cup {Blocks!End(n) : n \in Name}
  \cup ThemeImports \cup Roots \cup FaceLists
  \cup {Blocks!SOURCE_ANCHOR, Blocks!LineEnd, Words, <<"words", "header">>}

(* Every block is whole, and what only a block declares is in one.         *)
Shaped(text) ==
  /\ \A i \in DOMAIN text, n \in Name : text[i] = Blocks!Start(n) =>
       i + 2 \in DOMAIN text /\ text[i + 1] \in Body(n) /\ text[i + 2] = Blocks!End(n)
  /\ \A i \in DOMAIN text, n \in Name : text[i] = Blocks!End(n) =>
       i > 2 /\ text[i - 2] = Blocks!Start(n)
  /\ \A i \in DOMAIN text, n \in {"brand", "fonts"} : text[i] \in Body(n) =>
       i > 1 /\ text[i - 1] = Blocks!Start(n)

Once(text, tokens) ==
  \A i, j \in DOMAIN text : text[i] \in tokens /\ text[j] \in tokens => i = j

Singles == {{Blocks!Start(n)} : n \in Name} \cup {ThemeImports, {Blocks!SOURCE_ANCHOR}}

(* What every style sheet keeps, whoever edits it.                         *)
Tidy(text) ==
  /\ text \in Seq(Token)
  /\ Shaped(text)
  /\ \A tokens \in Singles : Once(text, tokens)
  /\ \E i \in DOMAIN text : text[i] \in ThemeImports

Inv ==
  /\ Tidy(css)
  /\ toml \in Contracts \cup {NoFile, Invalid}
  /\ font \in [Roles -> {"absent", "valid", "corrupt"}]
  /\ headers \subseteq Headers
  /\ NoticeKeepsUp
-----------------------------------------------------------------------------
(***************************************************************************)
(* Tokens and numbers.                                                     *)
(***************************************************************************)
LEMMA TokenFacts ==
  /\ \A n, m \in Name : Blocks!Start(n) = Blocks!Start(m) => n = m
  /\ \A n, m \in Name : Blocks!End(n) = Blocks!End(m) => n = m
  /\ \A n, m \in Name : Blocks!Start(n) # Blocks!End(m)
  /\ \A n, m \in Name : Blocks!Start(n) \notin Body(m) /\ Blocks!End(n) \notin Body(m)
  /\ \A n, m \in Name : n # m => Body(n) \cap Body(m) = {}
<1>1. \A n \in Name : Blocks!Start(n)[1] = "start" /\ Blocks!Start(n)[2] = n
  BY DEF Blocks!Start
<1>2. \A n \in Name : Blocks!End(n)[1] = "end" /\ Blocks!End(n)[2] = n
  BY DEF Blocks!End
<1>3. ASSUME NEW n \in Name, NEW token \in Body(n)
      PROVE  token[1] = IF n = "theme" THEN "import" ELSE IF n = "brand" THEN "root" ELSE "faces"
  BY DEF Body, ThemeImports, Roots, FaceLists, Blocks!Import
<1> QED BY <1>1, <1>2, <1>3 DEF Name

(* Line ends, the anchor and words are none of these.                      *)
LEMMA PlainFacts ==
  ASSUME NEW token \in {Blocks!SOURCE_ANCHOR, Blocks!LineEnd, Words, <<"words", "header">>}
  PROVE  /\ token \in Token
         /\ \A n \in Name : token # Blocks!Start(n) /\ token # Blocks!End(n) /\ token \notin Body(n)
         /\ token = Blocks!SOURCE_ANCHOR <=>
              token \notin {Blocks!LineEnd, Words, <<"words", "header">>}
<1>1. token[1] \in {"anchor", "nl", "words"}
  BY DEF Blocks!SOURCE_ANCHOR, Blocks!LineEnd, Words
<1>2. \A n \in Name : token # Blocks!Start(n) /\ token # Blocks!End(n)
  BY <1>1 DEF Blocks!Start, Blocks!End
<1>3. \A n \in Name : token \notin Body(n)
  BY <1>1 DEF Body, ThemeImports, Roots, FaceLists, Blocks!Import
<1>4. Blocks!SOURCE_ANCHOR \notin {Blocks!LineEnd, Words, <<"words", "header">>}
  <2>1. Blocks!SOURCE_ANCHOR[1] = "anchor" BY DEF Blocks!SOURCE_ANCHOR
  <2>2. Blocks!LineEnd[1] = "nl" /\ Words[1] = "words" /\ <<"words", "header">>[1] = "words"
    BY DEF Blocks!LineEnd, Words
  <2> QED BY <2>1, <2>2
<1> QED BY <1>2, <1>3, <1>4 DEF Token

LEMMA TokensTyped ==
  ASSUME NEW n \in Name
  PROVE  Blocks!Start(n) \in Token /\ Blocks!End(n) \in Token /\ Body(n) \subseteq Token
BY DEF Token, Body

(* The least and the greatest of some numbers.                             *)
LEMMA LeastExists ==
  ASSUME NEW S \in SUBSET Nat, S # {}
  PROVE  \E x \in S : \A y \in S : x <= y
<1> DEFINE Less == OpToRel(<, Nat)
<1>1. PICK x \in S : \A y \in S : ~ (<<y, x>> \in Less)
  <2>1. IsWellFoundedOn(Less, Nat) BY NatLessThanWellFounded
  <2> HIDE DEF Less
  <2> QED BY <2>1, WFMin
<1>2. ASSUME NEW y \in S PROVE x <= y
  <2>1. <<y, x>> \notin Less BY <1>1
  <2>2. <<y, x>> \in Nat \X Nat /\ <<y, x>>[1] = y /\ <<y, x>>[2] = x OBVIOUS
  <2>3. ~ (y < x) BY <2>1, <2>2 DEF OpToRel
  <2>4. x \in Nat /\ y \in Nat OBVIOUS
  <2> QED BY <2>3, <2>4
<1> QED BY <1>2

LEMMA BlocksMinIs ==
  ASSUME NEW S, NEW k \in S, k \in Int, \A x \in S : x \in Int /\ k <= x
  PROVE  Blocks!Min(S) = k
<1>1. \E x \in S : \A y \in S : x =< y OBVIOUS
<1>2. Blocks!Min(S) \in S /\ \A y \in S : Blocks!Min(S) =< y BY <1>1, Zenon DEF Blocks!Min
<1>3. Blocks!Min(S) <= k /\ k <= Blocks!Min(S) /\ Blocks!Min(S) \in Int BY <1>2
<1> QED BY <1>3

LEMMA BlocksMaxFacts ==
  ASSUME NEW top \in Nat, NEW S \in SUBSET (0..top), S # {}
  PROVE  Blocks!Max(S) \in S /\ \A x \in S : x <= Blocks!Max(S)
<1> DEFINE Below == {top - x : x \in S}
<1>1. Below \in SUBSET Nat /\ Below # {}
  <2>1. \A x \in S : top - x \in Nat OBVIOUS
  <2>2. PICK x \in S : TRUE OBVIOUS
  <2> QED BY <2>1, <2>2
<1>2. PICK b \in Below : \A y \in Below : b <= y
  <2> HIDE DEF Below
  <2> QED BY <1>1, LeastExists
<1>3. PICK k \in S : b = top - k OBVIOUS
<1>4. ASSUME NEW x \in S PROVE k >= x
  <2>1. top - x \in Below OBVIOUS
  <2>2. b <= top - x BY <1>2, <2>1
  <2> QED BY <1>3, <2>2
<1>5. \E x \in S : \A y \in S : x >= y BY <1>4
<1>6. Blocks!Max(S) \in S /\ \A y \in S : Blocks!Max(S) >= y BY <1>5, Zenon DEF Blocks!Max
<1>7. ASSUME NEW x \in S PROVE x <= Blocks!Max(S)
  <2>1. \A y \in S : y \in Int OBVIOUS
  <2>2. x \in Int /\ Blocks!Max(S) \in Int BY <1>6, <2>1
  <2>3. Blocks!Max(S) >= x BY <1>6
  <2> QED BY <2>2, <2>3
<1> QED BY <1>6, <1>7

LEMMA MaxIs ==
  ASSUME NEW k \in Int
  PROVE  Max({k}) = k
<1>1. \E x \in {k} : \A y \in {k} : x >= y OBVIOUS
<1> QED BY <1>1, Zenon DEF Max
-----------------------------------------------------------------------------
(***************************************************************************)
(* Splicing.                                                               *)
(***************************************************************************)
LEMMA ConcatFacts ==
  ASSUME NEW T, NEW s \in Seq(T), NEW u \in Seq(T)
  PROVE  /\ s \o u \in Seq(T) /\ Len(s \o u) = Len(s) + Len(u)
         /\ \A i \in 1..Len(s) : (s \o u)[i] = s[i]
         /\ \A i \in 1..Len(u) : (s \o u)[Len(s) + i] = u[i]
<1>1. s \o u \in Seq(T) /\ Len(s \o u) = Len(s) + Len(u) OBVIOUS
<1>2. \A i \in 1..Len(s) : (s \o u)[i] = s[i] OBVIOUS
<1>3. \A i \in 1..Len(u) : (s \o u)[Len(s) + i] = u[i] OBVIOUS
<1> QED BY <1>1, <1>2, <1>3

LEMMA SubSeqFacts ==
  ASSUME NEW T, NEW s \in Seq(T), NEW m \in Int, NEW n \in Int,
         1 <= m, m <= n + 1, n <= Len(s)
  PROVE  /\ SubSeq(s, m, n) \in Seq(T) /\ Len(SubSeq(s, m, n)) = n - m + 1
         /\ \A i \in 1..(n - m + 1) : SubSeq(s, m, n)[i] = s[m - 1 + i]
<1>1. \A i \in m..n : s[i] \in T
  <2>1. \A i \in m..n : i \in 1..Len(s) OBVIOUS
  <2> QED BY <2>1
<1>2. SubSeq(s, m, n) \in Seq(T) BY <1>1
<1>3. Len(SubSeq(s, m, n)) = n - m + 1 OBVIOUS
<1>4. \A i \in 1..(n - m + 1) : SubSeq(s, m, n)[i] = s[m - 1 + i] OBVIOUS
<1> QED BY <1>2, <1>3, <1>4

LEMMA ThreeParts ==
  ASSUME NEW T, NEW a \in Seq(T), NEW b \in Seq(T), NEW c \in Seq(T)
  PROVE  /\ a \o b \o c \in Seq(T) /\ Len(a \o b \o c) = Len(a) + Len(b) + Len(c)
         /\ \A i \in 1..Len(a) : (a \o b \o c)[i] = a[i]
         /\ \A i \in 1..Len(b) : (a \o b \o c)[Len(a) + i] = b[i]
         /\ \A i \in 1..Len(c) : (a \o b \o c)[Len(a) + Len(b) + i] = c[i]
<1>1. /\ a \o b \in Seq(T) /\ Len(a \o b) = Len(a) + Len(b)
      /\ \A i \in 1..Len(a) : (a \o b)[i] = a[i]
      /\ \A i \in 1..Len(b) : (a \o b)[Len(a) + i] = b[i]
  BY ConcatFacts
<1>2. Len(a) \in Nat /\ Len(b) \in Nat /\ Len(c) \in Nat OBVIOUS
<1> DEFINE ab == a \o b
<1>3. /\ ab \o c \in Seq(T) /\ Len(ab \o c) = Len(ab) + Len(c)
      /\ \A i \in 1..Len(ab) : (ab \o c)[i] = ab[i]
      /\ \A i \in 1..Len(c) : (ab \o c)[Len(ab) + i] = c[i]
  <2> HIDE DEF ab
  <2>1. ab \in Seq(T) BY <1>1 DEF ab
  <2> QED BY <2>1, ConcatFacts
<1> HIDE DEF ab
<1>4. Len(ab) = Len(a) + Len(b) BY <1>1 DEF ab
<1>5. ASSUME NEW i \in 1..Len(a) PROVE (ab \o c)[i] = a[i]
  <2>1. i \in 1..Len(ab) BY <1>2, <1>4
  <2> QED BY <1>1, <1>3, <2>1 DEF ab
<1>6. ASSUME NEW i \in 1..Len(b) PROVE (ab \o c)[Len(a) + i] = b[i]
  <2>1. Len(a) + i \in 1..Len(ab) BY <1>2, <1>4
  <2>2. (ab \o c)[Len(a) + i] = ab[Len(a) + i] BY <1>3, <2>1
  <2> QED BY <1>1, <2>2 DEF ab
<1> QED BY <1>3, <1>4, <1>5, <1>6 DEF ab

Shift(first, final, block) == Len(block) - (final - first + 1)

Between(text, first, final) ==
  first \in Int /\ final \in Int /\ 1 <= first /\ first - 1 <= final /\ final <= Len(text)

IsSplice(spliced, text, first, final, block) ==
  /\ spliced \in Seq(Token)
  /\ Len(spliced) = Len(text) + Shift(first, final, block)
  /\ \A i \in 1..(first - 1) : spliced[i] = text[i]
  /\ \A i \in 1..Len(block) : spliced[first - 1 + i] = block[i]
  /\ \A i \in (final + 1)..Len(text) : spliced[i + Shift(first, final, block)] = text[i]

LEMMA SpliceFacts ==
  ASSUME NEW text \in Seq(Token), NEW block \in Seq(Token), NEW first, NEW final,
         Between(text, first, final)
  PROVE  IsSplice(Blocks!Splice(text, first, final, block), text, first, final, block)
<1> DEFINE shift   == Shift(first, final, block)
           spliced == Blocks!Splice(text, first, final, block)
<1>a. shift = Len(block) - (final - first + 1) BY DEF Shift
<1>b. spliced = SubSeq(text, 1, first - 1) \o block \o SubSeq(text, final + 1, Len(text))
  BY DEF Blocks!Splice
<1> HIDE DEF shift, spliced
<1>0. /\ Len(text) \in Nat /\ Len(block) \in Nat /\ shift \in Int /\ first \in Int /\ final \in Int
      /\ 1 <= first /\ first - 1 <= final /\ final <= Len(text)
  BY <1>a DEF Between
<1>1. PICK above : /\ above = SubSeq(text, 1, first - 1)
                   /\ above \in Seq(Token) /\ Len(above) = first - 1
                   /\ \A i \in 1..(first - 1) : above[i] = text[i]
  <2>1. 1 <= (first - 1) + 1 /\ first - 1 <= Len(text) /\ first - 1 \in Int BY <1>0
  <2>2. /\ SubSeq(text, 1, first - 1) \in Seq(Token)
        /\ Len(SubSeq(text, 1, first - 1)) = first - 1 - 1 + 1
        /\ \A i \in 1..(first - 1 - 1 + 1) : SubSeq(text, 1, first - 1)[i] = text[1 - 1 + i]
    BY <2>1, SubSeqFacts
  <2>3. first - 1 - 1 + 1 = first - 1 BY <1>0
  <2>4. \A i \in 1..(first - 1) : SubSeq(text, 1, first - 1)[i] = text[i]
    <3> SUFFICES ASSUME NEW i \in 1..(first - 1)
                 PROVE  SubSeq(text, 1, first - 1)[i] = text[i]
      OBVIOUS
    <3>1. SubSeq(text, 1, first - 1)[i] = text[1 - 1 + i] BY <2>2, <2>3
    <3>2. 1 - 1 + i = i OBVIOUS
    <3> QED BY <3>1, <3>2
  <2> QED BY <2>2, <2>3, <2>4
<1>2. PICK below : /\ below = SubSeq(text, final + 1, Len(text))
                   /\ below \in Seq(Token) /\ Len(below) = Len(text) - final
                   /\ \A i \in 1..(Len(text) - final) : below[i] = text[final + i]
  <2>1. 1 <= final + 1 /\ final + 1 <= Len(text) + 1 /\ final + 1 \in Int BY <1>0
  <2>2. /\ SubSeq(text, final + 1, Len(text)) \in Seq(Token)
        /\ Len(SubSeq(text, final + 1, Len(text))) = Len(text) - (final + 1) + 1
        /\ \A i \in 1..(Len(text) - (final + 1) + 1) :
             SubSeq(text, final + 1, Len(text))[i] = text[(final + 1) - 1 + i]
    BY <1>0, <2>1, SubSeqFacts
  <2>3. Len(text) - (final + 1) + 1 = Len(text) - final /\ (final + 1) - 1 = final BY <1>0
  <2>4. \A i \in 1..(Len(text) - final) : SubSeq(text, final + 1, Len(text))[i] = text[final + i]
    BY <2>2, <2>3
  <2> QED BY <2>2, <2>3, <2>4
<1>3. spliced = above \o block \o below BY <1>1, <1>2, <1>b
<1>4. /\ spliced \in Seq(Token) /\ Len(spliced) = Len(above) + Len(block) + Len(below)
      /\ \A i \in 1..Len(above) : spliced[i] = above[i]
      /\ \A i \in 1..Len(block) : spliced[Len(above) + i] = block[i]
      /\ \A i \in 1..Len(below) : spliced[Len(above) + Len(block) + i] = below[i]
  <2>1. above \in Seq(Token) /\ below \in Seq(Token) BY <1>1, <1>2
  <2> DEFINE whole == above \o block \o below
  <2>2. /\ whole \in Seq(Token) /\ Len(whole) = Len(above) + Len(block) + Len(below)
        /\ \A i \in 1..Len(above) : whole[i] = above[i]
        /\ \A i \in 1..Len(block) : whole[Len(above) + i] = block[i]
        /\ \A i \in 1..Len(below) : whole[Len(above) + Len(block) + i] = below[i]
    BY <2>1, ThreeParts
  <2>3. spliced = whole BY <1>3
  <2> HIDE DEF whole
  <2> QED BY <2>2, <2>3
<1>5. ASSUME NEW i \in (final + 1)..Len(text) PROVE spliced[i + shift] = text[i]
  <2>1. i - final \in 1..Len(below) BY <1>0, <1>2
  <2>2. Len(above) = first - 1 BY <1>1
  <2>3. i + shift = Len(above) + Len(block) + (i - final) /\ final + (i - final) = i
    BY <1>0, <1>a, <2>2
  <2>4. below[i - final] = text[i]
    <3>1. i - final \in 1..(Len(text) - final) BY <1>2, <2>1
    <3> QED BY <1>2, <2>3, <3>1
  <2> QED BY <1>4, <2>1, <2>3, <2>4
<1>6. Len(spliced) = Len(text) + shift BY <1>0, <1>a, <1>1, <1>2, <1>4
<1>7. \A i \in 1..(first - 1) : spliced[i] = text[i] BY <1>1, <1>4
<1>8. \A i \in 1..Len(block) : spliced[first - 1 + i] = block[i] BY <1>1, <1>4
<1> QED BY <1>4, <1>5, <1>6, <1>7, <1>8 DEF IsSplice, shift, spliced

(* Where a position of the new text was.                                   *)
LEMMA SplicePlace ==
  ASSUME NEW text \in Seq(Token), NEW block \in Seq(Token), NEW first, NEW final,
         Between(text, first, final), NEW spliced, IsSplice(spliced, text, first, final, block),
         NEW shift, shift = Shift(first, final, block), NEW i, i \in DOMAIN spliced
  PROVE  \/ i < first /\ i \in DOMAIN text /\ spliced[i] = text[i]
         \/ i - first + 1 \in DOMAIN block /\ spliced[i] = block[i - first + 1]
         \/ i - shift \in DOMAIN text /\ i - shift > final /\ spliced[i] = text[i - shift]
<1>1. /\ spliced \in Seq(Token)
      /\ Len(spliced) = Len(text) + shift
      /\ \A k \in 1..(first - 1) : spliced[k] = text[k]
      /\ \A k \in 1..Len(block) : spliced[first - 1 + k] = block[k]
      /\ \A k \in (final + 1)..Len(text) : spliced[k + shift] = text[k]
  BY DEF IsSplice
<1>2. /\ Len(text) \in Nat /\ Len(block) \in Nat /\ first \in Int /\ final \in Int
      /\ 1 <= first /\ first - 1 <= final /\ final <= Len(text)
      /\ shift = Len(block) - (final - first + 1) /\ shift \in Int
  BY DEF Between, Shift
<1>3. DOMAIN spliced = 1..(Len(text) + shift) /\ DOMAIN text = 1..Len(text) /\ DOMAIN block = 1..Len(block)
  BY <1>1
<1>4. i \in Int /\ 1 <= i /\ i <= Len(text) + shift BY <1>1, <1>2, <1>3
<1>5. CASE i < first
  <2>1. i \in 1..(first - 1) /\ i \in 1..Len(text) BY <1>2, <1>4, <1>5
  <2> QED BY <1>1, <1>3, <1>5, <2>1
<1>6. CASE i >= first /\ i < first + Len(block)
  <2>1. i - first + 1 \in 1..Len(block) BY <1>2, <1>4, <1>6
  <2>2. first - 1 + (i - first + 1) = i BY <1>2, <1>4
  <2> QED BY <1>1, <1>3, <2>1, <2>2
<1>7. CASE i >= first + Len(block)
  <2>1. i - shift > final /\ i - shift \in (final + 1)..Len(text) /\ i - shift \in 1..Len(text)
    BY <1>2, <1>4, <1>7
  <2>2. (i - shift) + shift = i BY <1>2, <1>4
  <2> QED BY <1>1, <1>3, <2>1, <2>2
<1> QED BY <1>2, <1>4, <1>5, <1>6, <1>7

(* The converse: where what is kept goes.                                  *)
LEMMA SpliceKeeps ==
  ASSUME NEW text \in Seq(Token), NEW block \in Seq(Token), NEW first, NEW final,
         Between(text, first, final), NEW spliced, IsSplice(spliced, text, first, final, block),
         NEW shift, shift = Shift(first, final, block), NEW i, i \in DOMAIN text
  PROVE  /\ i < first => i \in DOMAIN spliced /\ spliced[i] = text[i]
         /\ i > final => i + shift \in DOMAIN spliced /\ spliced[i + shift] = text[i]
<1>1. /\ spliced \in Seq(Token)
      /\ Len(spliced) = Len(text) + shift
      /\ \A k \in 1..(first - 1) : spliced[k] = text[k]
      /\ \A k \in (final + 1)..Len(text) : spliced[k + shift] = text[k]
  BY DEF IsSplice
<1>2. /\ Len(text) \in Nat /\ Len(block) \in Nat /\ first \in Int /\ final \in Int
      /\ 1 <= first /\ first - 1 <= final /\ final <= Len(text)
      /\ shift = Len(block) - (final - first + 1) /\ shift \in Int
  BY DEF Between, Shift
<1>3. DOMAIN spliced = 1..(Len(text) + shift) /\ DOMAIN text = 1..Len(text) BY <1>1
<1>4. i \in Int /\ 1 <= i /\ i <= Len(text) BY <1>2, <1>3
<1>5. CASE i < first
  <2>1. i \in 1..(first - 1) /\ i \in 1..(Len(text) + shift) /\ ~ (i > final) BY <1>2, <1>4, <1>5
  <2> QED BY <1>1, <1>3, <2>1
<1>6. CASE i > final
  <2>1. i \in (final + 1)..Len(text) /\ i + shift \in 1..(Len(text) + shift) /\ ~ (i < first)
    BY <1>2, <1>4, <1>6
  <2> QED BY <1>1, <1>3, <2>1
<1> QED BY <1>5, <1>6

(* Nothing else comes in.                                                  *)
LEMMA SpliceBrings ==
  ASSUME NEW text \in Seq(Token), NEW block \in Seq(Token), NEW first, NEW final,
         Between(text, first, final), NEW spliced, IsSplice(spliced, text, first, final, block),
         NEW k \in DOMAIN spliced
  PROVE  \/ \E i \in DOMAIN text : (i < first \/ i > final) /\ text[i] = spliced[k]
         \/ \E i \in DOMAIN block : block[i] = spliced[k]
<1> DEFINE shift == Shift(first, final, block)
<1>1. \A i \in DOMAIN spliced :
         \/ i < first /\ i \in DOMAIN text /\ spliced[i] = text[i]
         \/ i - first + 1 \in DOMAIN block /\ spliced[i] = block[i - first + 1]
         \/ i - shift \in DOMAIN text /\ i - shift > final /\ spliced[i] = text[i - shift]
  BY SplicePlace
<1> HIDE DEF shift
<1> QED BY <1>1

LEMMA SpliceFills ==
  ASSUME NEW text \in Seq(Token), NEW block \in Seq(Token), NEW first, NEW final,
         Between(text, first, final), NEW spliced, IsSplice(spliced, text, first, final, block),
         NEW i, i \in DOMAIN block
  PROVE  first - 1 + i \in DOMAIN spliced /\ spliced[first - 1 + i] = block[i]
<1>1. /\ spliced \in Seq(Token)
      /\ Len(spliced) = Len(text) + Shift(first, final, block)
      /\ \A k \in 1..Len(block) : spliced[first - 1 + k] = block[k]
  BY DEF IsSplice
<1>2. /\ Len(text) \in Nat /\ Len(block) \in Nat /\ first \in Int /\ final \in Int
      /\ 1 <= first /\ first - 1 <= final /\ final <= Len(text)
      /\ Shift(first, final, block) = Len(block) - (final - first + 1)
  BY DEF Between, Shift
<1>3. i \in 1..Len(block) /\ DOMAIN spliced = 1..Len(spliced) BY <1>1
<1>4. first - 1 + i \in 1..Len(spliced) BY <1>1, <1>2, <1>3
<1> QED BY <1>1, <1>3, <1>4

LEMMA BlockAt ==
  ASSUME NEW text \in Seq(Token), Shaped(text), NEW i, i \in DOMAIN text, NEW n \in Name,
         text[i] = Blocks!Start(n)
  PROVE  /\ i \in Int /\ i >= 1 /\ i + 2 <= Len(text)
         /\ i + 1 \in DOMAIN text /\ i + 2 \in DOMAIN text
         /\ text[i + 1] \in Body(n) /\ text[i + 2] = Blocks!End(n)
<1>1. DOMAIN text = 1..Len(text) /\ Len(text) \in Nat OBVIOUS
<1>2. i + 2 \in DOMAIN text /\ text[i + 1] \in Body(n) /\ text[i + 2] = Blocks!End(n) BY DEF Shaped
<1> QED BY <1>1, <1>2

(* No block is cut.                                                        *)
Clear(text, first, final) ==
  \A i \in DOMAIN text, n \in Name : text[i] = Blocks!Start(n) =>
    i + 2 < first \/ i > final \/ (first <= i /\ i + 2 <= final)

LEMMA SpliceShaped ==
  ASSUME NEW text \in Seq(Token), NEW block \in Seq(Token), NEW first, NEW final,
         Between(text, first, final), NEW spliced, IsSplice(spliced, text, first, final, block),
         Shaped(text), Shaped(block), Clear(text, first, final)
  PROVE  Shaped(spliced)
<1> DEFINE shift == Shift(first, final, block)
<1>1. /\ first \in Int /\ final \in Int /\ shift \in Int /\ first - 1 <= final
      /\ DOMAIN text = 1..Len(text) /\ DOMAIN block = 1..Len(block) /\ DOMAIN spliced = 1..Len(spliced)
      /\ Len(text) \in Nat /\ Len(block) \in Nat /\ Len(spliced) \in Nat
  BY DEF Between, Shift, IsSplice
<1>2. \A i \in DOMAIN spliced :
         \/ i < first /\ i \in DOMAIN text /\ spliced[i] = text[i]
         \/ i - first + 1 \in DOMAIN block /\ spliced[i] = block[i - first + 1]
         \/ i - shift \in DOMAIN text /\ i - shift > final /\ spliced[i] = text[i - shift]
  BY SplicePlace
<1>3. \A i \in DOMAIN text :
         /\ i < first => i \in DOMAIN spliced /\ spliced[i] = text[i]
         /\ i > final => i + shift \in DOMAIN spliced /\ spliced[i + shift] = text[i]
  BY SpliceKeeps
<1>4. \A i \in DOMAIN block : first - 1 + i \in DOMAIN spliced /\ spliced[first - 1 + i] = block[i]
  BY SpliceFills
<1> HIDE DEF shift
<1>5. ASSUME NEW i \in DOMAIN spliced, NEW n \in Name, spliced[i] = Blocks!Start(n)
      PROVE  i + 2 \in DOMAIN spliced /\ spliced[i + 1] \in Body(n)
             /\ spliced[i + 2] = Blocks!End(n)
  <2>1. CASE i < first /\ i \in DOMAIN text /\ spliced[i] = text[i]
    <3>1. i + 1 \in DOMAIN text /\ i + 2 \in DOMAIN text /\ text[i + 1] \in Body(n)
          /\ text[i + 2] = Blocks!End(n)
      BY <1>5, <2>1, BlockAt
    <3>2. i + 1 < first /\ i + 2 < first
      <4>1. i + 2 < first \/ i > final \/ (first <= i /\ i + 2 <= final) BY <1>5, <2>1 DEF Clear
      <4> QED BY <1>1, <2>1, <4>1
    <3> QED BY <1>3, <3>1, <3>2
  <2>2. CASE i - first + 1 \in DOMAIN block /\ spliced[i] = block[i - first + 1]
    <3> DEFINE k == i - first + 1
    <3>1. k + 1 \in DOMAIN block /\ k + 2 \in DOMAIN block /\ block[k + 1] \in Body(n)
          /\ block[k + 2] = Blocks!End(n)
      BY <1>5, <2>2, BlockAt
    <3>2. first - 1 + (k + 1) = i + 1 /\ first - 1 + (k + 2) = i + 2 BY <1>1
    <3> QED BY <1>4, <3>1, <3>2
  <2>3. CASE i - shift \in DOMAIN text /\ i - shift > final /\ spliced[i] = text[i - shift]
    <3> DEFINE k == i - shift
    <3>1. k + 1 \in DOMAIN text /\ k + 2 \in DOMAIN text /\ text[k + 1] \in Body(n)
          /\ text[k + 2] = Blocks!End(n)
      BY <1>5, <2>3, BlockAt
    <3>2. k + 1 + shift = i + 1 /\ k + 2 + shift = i + 2 /\ k + 1 > final /\ k + 2 > final
      BY <1>1, <2>3
    <3> QED BY <1>3, <3>1, <3>2
  <2> QED BY <1>2, <2>1, <2>2, <2>3
<1>6. ASSUME NEW i \in DOMAIN spliced, NEW n \in Name, spliced[i] = Blocks!End(n)
      PROVE  i > 2 /\ spliced[i - 2] = Blocks!Start(n)
  <2>1. CASE i < first /\ i \in DOMAIN text /\ spliced[i] = text[i]
    <3>1. i > 2 /\ text[i - 2] = Blocks!Start(n) BY <1>6, <2>1 DEF Shaped
    <3>2. i - 2 \in DOMAIN text /\ i - 2 < first BY <1>1, <2>1, <3>1
    <3> QED BY <1>3, <3>1, <3>2
  <2>2. CASE i - first + 1 \in DOMAIN block /\ spliced[i] = block[i - first + 1]
    <3> DEFINE k == i - first + 1
    <3>1. k > 2 /\ block[k - 2] = Blocks!Start(n) BY <1>6, <2>2 DEF Shaped
    <3>2. k - 2 \in DOMAIN block /\ first - 1 + (k - 2) = i - 2 /\ i > 2
      BY <1>1, <2>2, <3>1 DEF Between
    <3> QED BY <1>4, <3>1, <3>2
  <2>3. CASE i - shift \in DOMAIN text /\ i - shift > final /\ spliced[i] = text[i - shift]
    <3> DEFINE k == i - shift
    <3>1. k > 2 /\ text[k - 2] = Blocks!Start(n) BY <1>6, <2>3 DEF Shaped
    <3>2. k - 2 \in DOMAIN text BY <1>1, <2>3, <3>1
    <3>3. k - 2 > final BY <1>1, <2>3, <3>1, <3>2 DEF Clear
    <3>4. k - 2 + shift = i - 2 /\ i > 2
      <4>1. i - 2 \in DOMAIN spliced BY <1>1, <1>3, <3>2, <3>3
      <4> QED BY <1>1, <4>1 DEF IsSplice
    <3> QED BY <1>3, <3>1, <3>2, <3>3, <3>4
  <2> QED BY <1>2, <2>1, <2>2, <2>3
<1>7. ASSUME NEW i \in DOMAIN spliced, NEW n \in {"brand", "fonts"}, spliced[i] \in Body(n)
      PROVE  i > 1 /\ spliced[i - 1] = Blocks!Start(n)
  <2>0. n \in Name BY DEF Name
  <2>1. CASE i < first /\ i \in DOMAIN text /\ spliced[i] = text[i]
    <3>1. i > 1 /\ text[i - 1] = Blocks!Start(n) BY <1>7, <2>1 DEF Shaped
    <3>2. i - 1 \in DOMAIN text /\ i - 1 < first BY <1>1, <2>1, <3>1
    <3> QED BY <1>3, <3>1, <3>2
  <2>2. CASE i - first + 1 \in DOMAIN block /\ spliced[i] = block[i - first + 1]
    <3> DEFINE k == i - first + 1
    <3>1. k > 1 /\ block[k - 1] = Blocks!Start(n) BY <1>7, <2>2 DEF Shaped
    <3>2. k - 1 \in DOMAIN block /\ first - 1 + (k - 1) = i - 1 /\ i > 1
      BY <1>1, <2>2, <3>1 DEF Between
    <3> QED BY <1>4, <3>1, <3>2
  <2>3. CASE i - shift \in DOMAIN text /\ i - shift > final /\ spliced[i] = text[i - shift]
    <3> DEFINE k == i - shift
    <3>1. k > 1 /\ text[k - 1] = Blocks!Start(n) BY <1>7, <2>3 DEF Shaped
    <3>2. k - 1 \in DOMAIN text BY <1>1, <2>3, <3>1
    <3>3. k - 1 > final BY <1>1, <2>0, <2>3, <3>1, <3>2 DEF Clear
    <3>4. k - 1 + shift = i - 1 /\ i > 1
      <4>1. i - 1 \in DOMAIN spliced BY <1>1, <1>3, <3>2, <3>3
      <4> QED BY <1>1, <4>1 DEF IsSplice
    <3> QED BY <1>3, <3>1, <3>2, <3>3, <3>4
  <2> QED BY <1>2, <2>1, <2>2, <2>3
<1> QED BY <1>5, <1>6, <1>7 DEF Shaped

LEMMA SpliceOnce ==
  ASSUME NEW text \in Seq(Token), NEW block \in Seq(Token), NEW first, NEW final,
         Between(text, first, final), NEW spliced, IsSplice(spliced, text, first, final, block),
         NEW tokens, Once(text, tokens), Once(block, tokens),
         \/ \A i \in DOMAIN block : block[i] \notin tokens
         \/ \A i \in DOMAIN text : text[i] \in tokens => first <= i /\ i <= final
  PROVE  Once(spliced, tokens)
<1> DEFINE shift == Shift(first, final, block)
<1>1. /\ first \in Int /\ final \in Int /\ shift \in Int /\ first - 1 <= final
      /\ DOMAIN text \subseteq Int /\ DOMAIN block \subseteq Int /\ DOMAIN spliced \subseteq Int
  BY DEF Between, Shift, IsSplice
<1>2. \A i \in DOMAIN spliced :
         \/ i < first /\ i \in DOMAIN text /\ spliced[i] = text[i]
         \/ i - first + 1 \in DOMAIN block /\ spliced[i] = block[i - first + 1]
         \/ i - shift \in DOMAIN text /\ i - shift > final /\ spliced[i] = text[i - shift]
  BY SplicePlace
<1> HIDE DEF shift
<1>3. SUFFICES ASSUME NEW i \in DOMAIN spliced, NEW j \in DOMAIN spliced,
                      spliced[i] \in tokens, spliced[j] \in tokens
               PROVE  i = j
  BY DEF Once
<1>4. CASE \A k \in DOMAIN block : block[k] \notin tokens
  <2>1. ASSUME NEW k \in DOMAIN spliced, spliced[k] \in tokens
        PROVE  \/ k < first /\ k \in DOMAIN text /\ text[k] \in tokens
               \/ k - shift \in DOMAIN text /\ k - shift > final /\ text[k - shift] \in tokens
    BY <1>2, <1>4, <2>1
  <2>2. \A a, b \in DOMAIN text : text[a] \in tokens /\ text[b] \in tokens => a = b BY DEF Once
  <2>3. i \in Int /\ j \in Int BY <1>1
  <2> QED BY <1>1, <1>3, <2>1, <2>2, <2>3
<1>5. CASE \A k \in DOMAIN text : text[k] \in tokens => first <= k /\ k <= final
  <2>1. ASSUME NEW k \in DOMAIN spliced, spliced[k] \in tokens
        PROVE  k - first + 1 \in DOMAIN block /\ block[k - first + 1] \in tokens
    <3>1. ~ (k < first /\ k \in DOMAIN text /\ spliced[k] = text[k]) BY <1>1, <1>5, <2>1
    <3>2. ~ (k - shift \in DOMAIN text /\ k - shift > final /\ spliced[k] = text[k - shift])
      BY <1>1, <1>5, <2>1
    <3> QED BY <1>2, <2>1, <3>1, <3>2
  <2>2. i - first + 1 = j - first + 1 BY <1>3, <2>1 DEF Once
  <2>3. i \in Int /\ j \in Int BY <1>1
  <2> QED BY <1>1, <2>2, <2>3
<1> QED BY <1>4, <1>5

LEMMA SpliceTidy ==
  ASSUME NEW text, Tidy(text), NEW block \in Seq(Token), NEW first, NEW final,
         Between(text, first, final), Shaped(block), Clear(text, first, final),
         \A tokens \in Singles :
           /\ Once(block, tokens)
           /\ \/ \A i \in DOMAIN block : block[i] \notin tokens
              \/ \A i \in DOMAIN text : text[i] \in tokens => first <= i /\ i <= final,
         \/ \E i \in DOMAIN text : text[i] \in ThemeImports /\ (i < first \/ i > final)
         \/ \E i \in DOMAIN block : block[i] \in ThemeImports
  PROVE  Tidy(Blocks!Splice(text, first, final, block))
<1>1. text \in Seq(Token) /\ Shaped(text) /\ \A tokens \in Singles : Once(text, tokens)
  BY DEF Tidy
<1> DEFINE spliced == Blocks!Splice(text, first, final, block)
<1>2. IsSplice(spliced, text, first, final, block) BY <1>1, SpliceFacts
<1> HIDE DEF spliced
<1>3. spliced \in Seq(Token) BY <1>2 DEF IsSplice
<1>4. Shaped(spliced) BY <1>1, <1>2, SpliceShaped
<1>5. ASSUME NEW tokens \in Singles PROVE Once(spliced, tokens)
  <2>1. Once(text, tokens) /\ Once(block, tokens) BY <1>1
  <2>2. \/ \A i \in DOMAIN block : block[i] \notin tokens
        \/ \A i \in DOMAIN text : text[i] \in tokens => first <= i /\ i <= final
    OBVIOUS
  <2> QED BY <1>1, <1>2, <2>1, <2>2, SpliceOnce
<1>6. \E i \in DOMAIN spliced : spliced[i] \in ThemeImports
  <2>1. CASE \E i \in DOMAIN text : text[i] \in ThemeImports /\ (i < first \/ i > final)
    <3>1. PICK i \in DOMAIN text : text[i] \in ThemeImports /\ (i < first \/ i > final) BY <2>1
    <3> QED BY <1>1, <1>2, <3>1, SpliceKeeps
  <2>2. CASE \E i \in DOMAIN block : block[i] \in ThemeImports
    <3>1. PICK i \in DOMAIN block : block[i] \in ThemeImports BY <2>2
    <3> QED BY <1>1, <1>2, <3>1, SpliceFills
  <2> QED BY <2>1, <2>2
<1> QED BY <1>3, <1>4, <1>5, <1>6 DEF Tidy, spliced

(* What the block n of a text declares.                                    *)
Holds(text, n, body) ==
  \E i \in DOMAIN text : text[i] = Blocks!Start(n) /\ text[i + 1] = body

LEMMA SpliceHolds ==
  ASSUME NEW text, Tidy(text), NEW block \in Seq(Token), NEW first, NEW final,
         Between(text, first, final), Clear(text, first, final), NEW n \in Name, NEW body,
         Holds(text, n, body),
         \A i \in DOMAIN text : text[i] = Blocks!Start(n) => i < first \/ i > final
  PROVE  Holds(Blocks!Splice(text, first, final, block), n, body)
<1>1. text \in Seq(Token) /\ Shaped(text) BY DEF Tidy
<1> DEFINE spliced == Blocks!Splice(text, first, final, block)
           shift   == Shift(first, final, block)
<1>2. IsSplice(spliced, text, first, final, block) BY <1>1, SpliceFacts
<1> HIDE DEF spliced
<1>3. PICK i \in DOMAIN text : text[i] = Blocks!Start(n) /\ text[i + 1] = body BY DEF Holds
<1>4. i \in Int /\ i + 1 \in DOMAIN text /\ i + 2 \in DOMAIN text BY <1>1, <1>3, BlockAt
<1>5. first \in Int /\ final \in Int /\ shift \in Int /\ first - 1 <= final BY DEF Between, Shift
<1>6. \A k \in DOMAIN text :
         /\ k < first => k \in DOMAIN spliced /\ spliced[k] = text[k]
         /\ k > final => k + shift \in DOMAIN spliced /\ spliced[k + shift] = text[k]
  BY <1>1, <1>2, SpliceKeeps
<1> HIDE DEF shift
<1>7. CASE i < first
  <2>1. i + 2 < first \/ i > final \/ (first <= i /\ i + 2 <= final) BY <1>3 DEF Clear
  <2>2. i + 1 < first BY <1>4, <1>5, <1>7, <2>1
  <2> QED BY <1>3, <1>4, <1>6, <1>7, <2>2 DEF Holds, spliced
<1>8. CASE i > final
  <2>1. i + 1 > final /\ (i + 1) + shift = (i + shift) + 1 BY <1>4, <1>5, <1>8
  <2> QED BY <1>3, <1>4, <1>6, <1>8, <2>1 DEF Holds, spliced
<1> QED BY <1>3, <1>7, <1>8

-----------------------------------------------------------------------------
(***************************************************************************)
(* Blocks.                                                                 *)
(***************************************************************************)
Has(text, n) == \E i \in DOMAIN text : text[i] = Blocks!Start(n)

LEMMA OneStart ==
  ASSUME NEW text, Tidy(text), NEW n \in Name, NEW i \in DOMAIN text, NEW j \in DOMAIN text,
         text[i] = Blocks!Start(n), text[j] = Blocks!Start(n)
  PROVE  i = j
<1>1. {Blocks!Start(n)} \in Singles BY DEF Singles
<1>2. Once(text, {Blocks!Start(n)}) BY <1>1 DEF Tidy
<1> QED BY <1>2 DEF Once

LEMMA BlockFacts ==
  ASSUME NEW text, Tidy(text), NEW n \in Name, NEW i, i \in DOMAIN text,
         text[i] = Blocks!Start(n)
  PROVE  Blocks!HasBlock(text, n) /\ Blocks!Opening(text, n) = i /\ Blocks!Closing(text, n) = i + 2
<1>1. text \in Seq(Token) /\ Shaped(text) BY DEF Tidy
<1>2. i \in Int /\ i + 2 \in DOMAIN text /\ text[i + 2] = Blocks!End(n) BY <1>1, BlockAt
<1>3. Blocks!Positions(text, Blocks!Start(n)) = {i} BY OneStart DEF Blocks!Positions
<1>4. Blocks!Positions(text, Blocks!End(n)) = {i + 2}
  <2>1. ASSUME NEW j \in DOMAIN text, text[j] = Blocks!End(n) PROVE j = i + 2
    <3>1. j > 2 /\ text[j - 2] = Blocks!Start(n) BY <1>1, <2>1 DEF Shaped
    <3>2. j \in Int /\ j - 2 \in DOMAIN text BY <1>1, <3>1
    <3>3. j - 2 = i BY <3>1, <3>2, OneStart
    <3> QED BY <1>2, <3>2, <3>3
  <2> QED BY <1>2, <2>1 DEF Blocks!Positions
<1>5. Blocks!Openings(text, n) = {i}
  <2>1. i + 2 > i BY <1>2
  <2> QED BY <1>3, <1>4, <2>1 DEF Blocks!Openings
<1>6. Blocks!Opening(text, n) = i BY <1>2, <1>5, BlocksMinIs DEF Blocks!Opening
<1>7. Blocks!Closing(text, n) = i + 2
  <2>1. {j \in Blocks!Positions(text, Blocks!End(n)) : j > i} = {i + 2} BY <1>2, <1>4
  <2>2. Blocks!Min({i + 2}) = i + 2 BY <1>2, BlocksMinIs
  <2> QED BY <1>6, <2>1, <2>2 DEF Blocks!Closing
<1> QED BY <1>5, <1>6, <1>7 DEF Blocks!HasBlock

LEMMA HasIsHasBlock ==
  ASSUME NEW text, Tidy(text), NEW n \in Name
  PROVE  Blocks!HasBlock(text, n) <=> Has(text, n)
<1>1. Has(text, n) => Blocks!HasBlock(text, n) BY BlockFacts DEF Has
<1>2. Blocks!HasBlock(text, n) => Has(text, n)
  BY DEF Blocks!HasBlock, Blocks!Openings, Blocks!Positions, Has
<1> QED BY <1>1, <1>2

LEMMA RenderedFacts ==
  ASSUME NEW n \in Name, NEW body \in Body(n)
  PROVE  /\ Blocks!render_block(n, body) \in Seq(Token)
         /\ Blocks!render_block(n, body) = <<Blocks!Start(n), body, Blocks!End(n)>>
<1>1. {Blocks!Start(n), body, Blocks!End(n)} \subseteq Token BY TokensTyped
<1> QED BY <1>1 DEF Blocks!render_block

(* A block that is there is written in its place.                          *)
LEMMA ReplaceIs ==
  ASSUME NEW text, Tidy(text), NEW n \in Name, NEW body \in Body(n), NEW i, i \in DOMAIN text,
         text[i] = Blocks!Start(n)
  PROVE  Blocks!Replace(text, n, Blocks!render_block(n, body)) = [text EXCEPT ![i + 1] = body]
<1>1. text \in Seq(Token) /\ Shaped(text) BY DEF Tidy
<1>2. /\ i \in Int /\ i >= 1 /\ i + 2 <= Len(text)
      /\ i + 1 \in DOMAIN text /\ i + 2 \in DOMAIN text /\ text[i + 2] = Blocks!End(n)
  BY <1>1, BlockAt
<1> DEFINE block   == Blocks!render_block(n, body)
           spliced == Blocks!Splice(text, i, i + 2, block)
           written == [text EXCEPT ![i + 1] = body]
<1>3. Blocks!Replace(text, n, block) = spliced BY BlockFacts DEF Blocks!Replace
<1>4. /\ block \in Seq(Token) /\ Len(block) = 3
      /\ block[1] = Blocks!Start(n) /\ block[2] = body /\ block[3] = Blocks!End(n)
  <2>1. block \in Seq(Token) /\ block = <<Blocks!Start(n), body, Blocks!End(n)>> BY RenderedFacts
  <2> HIDE DEF block
  <2> QED BY <2>1
<1> HIDE DEF block
<1>5. Between(text, i, i + 2) BY <1>2 DEF Between
<1>6. Shift(i, i + 2, block) = 0 BY <1>2, <1>4 DEF Shift
<1>7. IsSplice(spliced, text, i, i + 2, block) BY <1>1, <1>4, <1>5, SpliceFacts
<1> HIDE DEF spliced
<1>8. /\ spliced \in Seq(Token) /\ Len(spliced) = Len(text)
      /\ \A k \in 1..(i - 1) : spliced[k] = text[k]
      /\ \A k \in 1..3 : spliced[i - 1 + k] = block[k]
      /\ \A k \in (i + 2 + 1)..Len(text) : spliced[k + 0] = text[k]
  <2>1. /\ spliced \in Seq(Token) /\ Len(spliced) = Len(text) + 0
        /\ \A k \in 1..(i - 1) : spliced[k] = text[k]
        /\ \A k \in 1..Len(block) : spliced[i - 1 + k] = block[k]
        /\ \A k \in (i + 2 + 1)..Len(text) : spliced[k + 0] = text[k]
    BY <1>6, <1>7, Zenon DEF IsSplice
  <2>2. Len(text) + 0 = Len(text) BY <1>1
  <2> QED BY <1>4, <2>1, <2>2
<1>9. written \in Seq(Token) /\ Len(written) = Len(text)
  <2>1. body \in Token BY TokensTyped
  <2> QED BY <1>1, <1>2, <2>1
<1>10. ASSUME NEW k \in 1..Len(text) PROVE spliced[k] = written[k]
  <2>1. k \in DOMAIN text /\ k \in Int BY <1>1
  <2>2. CASE k < i
    <3>1. k \in 1..(i - 1) BY <1>2, <2>2
    <3> QED BY <1>2, <1>8, <2>1, <2>2, <3>1
  <2>3. CASE k > i + 2
    <3>1. k \in (i + 2 + 1)..Len(text) /\ k + 0 = k BY <1>2, <2>3
    <3>2. spliced[k] = text[k] BY <1>8, <3>1
    <3> QED BY <1>2, <2>1, <2>3, <3>2
  <2>4. CASE k \in i..(i + 2)
    <3>1. spliced[i - 1 + 1] = block[1] /\ spliced[i - 1 + 2] = block[2] /\ spliced[i - 1 + 3] = block[3]
      BY <1>8
    <3>2. i - 1 + 1 = i /\ i - 1 + 2 = i + 1 /\ i - 1 + 3 = i + 2 BY <1>2
    <3>3. k = i \/ k = i + 1 \/ k = i + 2 BY <1>2, <2>4
    <3> QED BY <1>2, <1>4, <3>1, <3>2, <3>3
  <2> QED BY <1>2, <2>1, <2>2, <2>3, <2>4
<1> HIDE DEF written
<1>11. spliced = written BY <1>8, <1>9, <1>10, SeqEqual
<1> QED BY <1>3, <1>11 DEF block, written

LEMMA ExceptTidy ==
  ASSUME NEW text, Tidy(text), NEW n \in Name, NEW i \in DOMAIN text, text[i] \in Body(n),
         NEW body \in Body(n)
  PROVE  Tidy([text EXCEPT ![i] = body])
<1> DEFINE written == [text EXCEPT ![i] = body]
<1>1. /\ text \in Seq(Token) /\ Shaped(text) /\ \A tokens \in Singles : Once(text, tokens)
      /\ \E k \in DOMAIN text : text[k] \in ThemeImports
  BY DEF Tidy
<1>2. body \in Token BY TokensTyped
<1>3. written \in Seq(Token) /\ DOMAIN written = DOMAIN text BY <1>1, <1>2
<1>4. written[i] = body /\ \A k \in DOMAIN text \ {i} : written[k] = text[k] BY <1>1
<1> HIDE DEF written
<1>5. \A m \in Name : \A k \in DOMAIN text :
         /\ written[k] = Blocks!Start(m) <=> text[k] = Blocks!Start(m)
         /\ written[k] = Blocks!End(m) <=> text[k] = Blocks!End(m)
         /\ written[k] \in Body(m) <=> text[k] \in Body(m)
  <2> SUFFICES ASSUME NEW m \in Name, NEW k \in DOMAIN text
               PROVE  /\ written[k] = Blocks!Start(m) <=> text[k] = Blocks!Start(m)
                      /\ written[k] = Blocks!End(m) <=> text[k] = Blocks!End(m)
                      /\ written[k] \in Body(m) <=> text[k] \in Body(m)
    OBVIOUS
  <2>1. CASE k # i BY <1>4, <2>1
  <2>2. CASE k = i
    <3>1. body \in Body(m) <=> m = n BY TokenFacts
    <3>2. text[i] \in Body(m) <=> m = n BY TokenFacts
    <3>3. /\ body # Blocks!Start(m) /\ body # Blocks!End(m)
          /\ text[i] # Blocks!Start(m) /\ text[i] # Blocks!End(m)
      BY TokenFacts
    <3> QED BY <1>4, <2>2, <3>1, <3>2, <3>3
  <2> QED BY <2>1, <2>2
<1>6. ThemeImports = Body("theme") /\ "theme" \in Name BY DEF Body, Name
<1>7. Shaped(written)
  <2>1. ASSUME NEW k \in DOMAIN written, NEW m \in Name, written[k] = Blocks!Start(m)
        PROVE  k + 2 \in DOMAIN written /\ written[k + 1] \in Body(m)
               /\ written[k + 2] = Blocks!End(m)
    <3>1. text[k] = Blocks!Start(m) BY <1>3, <1>5, <2>1
    <3>2. k + 1 \in DOMAIN text /\ k + 2 \in DOMAIN text /\ text[k + 1] \in Body(m)
          /\ text[k + 2] = Blocks!End(m)
      BY <1>1, <1>3, <3>1, BlockAt
    <3> QED BY <1>3, <1>5, <3>2
  <2>2. ASSUME NEW k \in DOMAIN written, NEW m \in Name, written[k] = Blocks!End(m)
        PROVE  k > 2 /\ written[k - 2] = Blocks!Start(m)
    <3>1. text[k] = Blocks!End(m) BY <1>3, <1>5, <2>2
    <3>2. k > 2 /\ text[k - 2] = Blocks!Start(m) BY <1>1, <1>3, <3>1 DEF Shaped
    <3>3. k - 2 \in DOMAIN text BY <1>1, <1>3, <3>2
    <3> QED BY <1>5, <3>2, <3>3
  <2>3. ASSUME NEW k \in DOMAIN written, NEW m \in {"brand", "fonts"}, written[k] \in Body(m)
        PROVE  k > 1 /\ written[k - 1] = Blocks!Start(m)
    <3>0. m \in Name BY DEF Name
    <3>1. text[k] \in Body(m) BY <1>3, <1>5, <2>3, <3>0
    <3>2. k > 1 /\ text[k - 1] = Blocks!Start(m) BY <1>1, <1>3, <3>1 DEF Shaped
    <3>3. k - 1 \in DOMAIN text BY <1>1, <1>3, <3>2
    <3> QED BY <1>5, <3>0, <3>2, <3>3
  <2> QED BY <2>1, <2>2, <2>3 DEF Shaped
<1>8. ASSUME NEW tokens \in Singles PROVE Once(written, tokens)
  <2>1. \A k \in DOMAIN text : written[k] \in tokens <=> text[k] \in tokens
    <3>1. CASE tokens = ThemeImports BY <1>5, <1>6, <3>1
    <3>2. CASE \E m \in Name : tokens = {Blocks!Start(m)} BY <1>5, <3>2
    <3>3. CASE tokens = {Blocks!SOURCE_ANCHOR}
      <4>1. Blocks!SOURCE_ANCHOR \notin Body(n) BY PlainFacts
      <4>2. text[i] # Blocks!SOURCE_ANCHOR /\ body # Blocks!SOURCE_ANCHOR BY <4>1
      <4> QED BY <1>4, <3>3, <4>2
    <3> QED BY <3>1, <3>2, <3>3 DEF Singles
  <2>2. Once(text, tokens) BY <1>1
  <2> QED BY <1>3, <2>1, <2>2 DEF Once
<1>9. \E k \in DOMAIN written : written[k] \in ThemeImports BY <1>1, <1>3, <1>5, <1>6
<1> QED BY <1>3, <1>7, <1>8, <1>9 DEF Tidy, written

(* Writing a block that is there leaves the others as they are.            *)
LEMMA RewriteFacts ==
  ASSUME NEW text, Tidy(text), NEW n \in Name, NEW body \in Body(n), Has(text, n),
         NEW after, after = Blocks!Replace(text, n, Blocks!render_block(n, body))
  PROVE  /\ Tidy(after) /\ Holds(after, n, body)
         /\ \A m \in Name \ {n} : \A b : Holds(text, m, b) => Holds(after, m, b)
         /\ Holds(text, n, body) => after = text
<1>0. text \in Seq(Token) /\ Shaped(text) BY DEF Tidy
<1>1. PICK i \in DOMAIN text : text[i] = Blocks!Start(n) BY DEF Has
<1>2. /\ i \in Int /\ i + 1 \in DOMAIN text /\ text[i + 1] \in Body(n) BY <1>0, <1>1, BlockAt
<1>3. after = [text EXCEPT ![i + 1] = body] BY <1>1, ReplaceIs
<1>4. Tidy(after)
  <2> DEFINE at == i + 1
  <2>1. at \in DOMAIN text /\ text[at] \in Body(n) /\ after = [text EXCEPT ![at] = body]
    BY <1>2, <1>3
  <2> HIDE DEF at
  <2>2. Tidy([text EXCEPT ![at] = body]) BY <2>1, ExceptTidy
  <2> QED BY <2>1, <2>2
<1>5. /\ DOMAIN after = DOMAIN text /\ after[i + 1] = body
      /\ \A k \in DOMAIN text \ {i + 1} : after[k] = text[k]
  <2> DEFINE at == i + 1
  <2>1. at \in DOMAIN text /\ after = [text EXCEPT ![at] = body] BY <1>2, <1>3
  <2> HIDE DEF at
  <2>2. DOMAIN after = DOMAIN text /\ after[at] = body
        /\ \A k \in DOMAIN text \ {at} : after[k] = text[k]
    BY <2>1
  <2> QED BY <2>2 DEF at
<1>6. Holds(after, n, body)
  <2>1. i # i + 1 BY <1>2
  <2> QED BY <1>1, <1>5, <2>1 DEF Holds
<1>7. ASSUME NEW m \in Name \ {n}, NEW b, Holds(text, m, b) PROVE Holds(after, m, b)
  <2>1. PICK k \in DOMAIN text : text[k] = Blocks!Start(m) /\ text[k + 1] = b BY <1>7 DEF Holds
  <2>2. k \in Int /\ k + 1 \in DOMAIN text BY <1>0, <2>1, BlockAt
  <2>3. k # i + 1 BY <1>2, <2>1, TokenFacts
  <2>4. k # i BY <1>1, <2>1, TokenFacts
  <2>5. k + 1 # i + 1 BY <1>2, <2>2, <2>4
  <2> QED BY <1>5, <2>1, <2>2, <2>3, <2>5 DEF Holds
<1>8. ASSUME Holds(text, n, body) PROVE after = text
  <2>1. PICK k \in DOMAIN text : text[k] = Blocks!Start(n) /\ text[k + 1] = body BY <1>8 DEF Holds
  <2>2. k = i BY <1>1, <2>1, OneStart
  <2> QED BY <1>0, <1>2, <1>3, <2>1, <2>2
<1> QED BY <1>4, <1>6, <1>7, <1>8

(* A cut at a token that no block contains.                                *)
LEMMA ClearAt ==
  ASSUME NEW text, Tidy(text), NEW i, i \in DOMAIN text,
         \A n \in Name : text[i] # Blocks!Start(n) /\ text[i] # Blocks!End(n),
         \A n \in Name : text[i] \in Body(n) => ~ Has(text, n)
  PROVE  /\ Clear(text, i, i) /\ Clear(text, i + 1, i)
         /\ Between(text, i, i) /\ Between(text, i + 1, i)
<1>0. text \in Seq(Token) /\ Shaped(text) BY DEF Tidy
<1>1. i \in Int /\ 1 <= i /\ i <= Len(text) BY <1>0
<1>2. ASSUME NEW k \in DOMAIN text, NEW n \in Name, text[k] = Blocks!Start(n)
      PROVE  k + 2 < i \/ k > i
  <2>1. k \in Int /\ text[k + 1] \in Body(n) /\ text[k + 2] = Blocks!End(n)
    BY <1>0, <1>2, BlockAt
  <2>2. k # i BY <1>2
  <2>3. k + 2 # i BY <2>1
  <2>4. k + 1 # i BY <1>2, <2>1 DEF Has
  <2> QED BY <1>1, <2>1, <2>2, <2>3, <2>4
<1>3. Clear(text, i, i) BY <1>2 DEF Clear
<1>4. Clear(text, i + 1, i)
  <2> SUFFICES ASSUME NEW k \in DOMAIN text, NEW n \in Name, text[k] = Blocks!Start(n)
               PROVE  k + 2 < i + 1 \/ k > i
    BY DEF Clear
  <2>1. k + 2 < i \/ k > i BY <1>2
  <2>2. k \in Int BY <1>0
  <2> QED BY <1>1, <2>1, <2>2
<1>5. Between(text, i, i) /\ Between(text, i + 1, i) BY <1>0, <1>1 DEF Between
<1> QED BY <1>3, <1>4, <1>5

(* A block that is not there goes below the anchor.                        *)
Below(n, body) ==
  <<Blocks!SOURCE_ANCHOR, Blocks!LineEnd, Blocks!LineEnd>> \o Blocks!render_block(n, body)

LEMMA SixTokens ==
  ASSUME NEW a, NEW b, NEW c, NEW d, NEW e, NEW f
  PROVE  <<a, b, c>> \o <<d, e, f>> = <<a, b, c, d, e, f>>
<1> DEFINE T     == {a, b, c, d, e, f}
           s     == <<a, b, c>>
           u     == <<d, e, f>>
           whole == <<a, b, c, d, e, f>>
<1>1. /\ s \in Seq(T) /\ Len(s) = 3 /\ s[1] = a /\ s[2] = b /\ s[3] = c
      /\ u \in Seq(T) /\ Len(u) = 3 /\ u[1] = d /\ u[2] = e /\ u[3] = f
  OBVIOUS
<1>2. /\ whole \in Seq(T) /\ Len(whole) = 6
      /\ whole[1] = a /\ whole[2] = b /\ whole[3] = c
      /\ whole[4] = d /\ whole[5] = e /\ whole[6] = f
  OBVIOUS
<1>0. whole = <<a, b, c, d, e, f>> OBVIOUS
<1> HIDE DEF s, u, whole, T
<1>3. /\ s \o u \in Seq(T) /\ Len(s \o u) = Len(s) + Len(u)
      /\ \A i \in 1..Len(s) : (s \o u)[i] = s[i]
      /\ \A i \in 1..Len(u) : (s \o u)[Len(s) + i] = u[i]
  <2>1. s \in Seq(T) /\ u \in Seq(T) BY <1>1
  <2> QED BY <2>1, ConcatFacts
<1>4. /\ (s \o u)[1] = a /\ (s \o u)[2] = b /\ (s \o u)[3] = c
      /\ (s \o u)[3 + 1] = d /\ (s \o u)[3 + 2] = e /\ (s \o u)[3 + 3] = f
  <2>1. Len(s) = 3 /\ Len(u) = 3 /\ 1..3 = {1, 2, 3} BY <1>1
  <2>2. \A i \in {1, 2, 3} : (s \o u)[i] = s[i] /\ (s \o u)[3 + i] = u[i] BY <1>3, <2>1
  <2>3. (s \o u)[1] = a /\ (s \o u)[2] = b /\ (s \o u)[3] = c BY <1>1, <2>2
  <2>4. (s \o u)[3 + 1] = d /\ (s \o u)[3 + 2] = e /\ (s \o u)[3 + 3] = f BY <1>1, <2>2
  <2> QED BY <2>3, <2>4
<1>5. ASSUME NEW i \in 1..6 PROVE (s \o u)[i] = whole[i]
  <2>1. i = 1 \/ i = 2 \/ i = 3 \/ i = 4 \/ i = 5 \/ i = 6 OBVIOUS
  <2>2. 3 + 1 = 4 /\ 3 + 2 = 5 /\ 3 + 3 = 6 OBVIOUS
  <2> QED BY <1>2, <1>4, <2>1, <2>2
<1>6. s \o u = whole
  <2>1. Len(s \o u) = 6 BY <1>1, <1>3
  <2> QED BY <1>2, <1>3, <1>5, <2>1, SeqEqual
<1> QED BY <1>0, <1>6 DEF s, u

LEMMA BelowFacts ==
  ASSUME NEW n \in {"brand", "fonts"}, NEW body \in Body(n)
  PROVE  /\ Below(n, body) \in Seq(Token) /\ Shaped(Below(n, body))
         /\ DOMAIN Below(n, body) = 1..6
         /\ Below(n, body)[4] = Blocks!Start(n) /\ Below(n, body)[5] = body
         /\ \A k \in 1..6, m \in Name : Below(n, body)[k] = Blocks!Start(m) => k = 4 /\ m = n
         /\ \A k \in 1..6 : Below(n, body)[k] \notin ThemeImports
         /\ \A k \in 1..6 : Below(n, body)[k] = Blocks!SOURCE_ANCHOR => k = 1
<1>1. n \in Name BY DEF Name
<1> DEFINE block == Below(n, body)
<1>2. block = <<Blocks!SOURCE_ANCHOR, Blocks!LineEnd, Blocks!LineEnd,
                Blocks!Start(n), body, Blocks!End(n)>>
  <2>1. Blocks!render_block(n, body) = <<Blocks!Start(n), body, Blocks!End(n)>>
    BY DEF Blocks!render_block
  <2> QED BY <2>1, SixTokens DEF Below
<1>3. {Blocks!SOURCE_ANCHOR, Blocks!LineEnd, Blocks!Start(n), body, Blocks!End(n)} \subseteq Token
  BY <1>1, TokensTyped, PlainFacts
<1> HIDE DEF block
<1>4. /\ block \in Seq(Token) /\ DOMAIN block = 1..6 /\ Len(block) = 6
      /\ block[1] = Blocks!SOURCE_ANCHOR /\ block[2] = Blocks!LineEnd /\ block[3] = Blocks!LineEnd
      /\ block[4] = Blocks!Start(n) /\ block[5] = body /\ block[6] = Blocks!End(n)
  BY <1>2, <1>3
<1>5. \A k \in 1..6 : k = 1 \/ k = 2 \/ k = 3 \/ k = 4 \/ k = 5 \/ k = 6 OBVIOUS
<1>6. /\ \A m \in Name : Blocks!SOURCE_ANCHOR # Blocks!Start(m) /\ Blocks!SOURCE_ANCHOR # Blocks!End(m)
                          /\ Blocks!SOURCE_ANCHOR \notin Body(m)
      /\ \A m \in Name : Blocks!LineEnd # Blocks!Start(m) /\ Blocks!LineEnd # Blocks!End(m)
                          /\ Blocks!LineEnd \notin Body(m)
      /\ Blocks!LineEnd # Blocks!SOURCE_ANCHOR
  BY PlainFacts
<1>7. \A k \in 1..6, m \in Name : block[k] = Blocks!Start(m) => k = 4 /\ m = n
  BY <1>1, <1>4, <1>5, <1>6, TokenFacts
<1>8. \A k \in 1..6, m \in Name : block[k] = Blocks!End(m) => k = 6 /\ m = n
  BY <1>1, <1>4, <1>5, <1>6, TokenFacts
<1>9. \A k \in 1..6, m \in Name : block[k] \in Body(m) => k = 5 /\ m = n
  BY <1>1, <1>4, <1>5, <1>6, TokenFacts
<1>10. Shaped(block)
  <2>1. \A k \in DOMAIN block, m \in Name : block[k] = Blocks!Start(m) =>
          k + 2 \in DOMAIN block /\ block[k + 1] \in Body(m) /\ block[k + 2] = Blocks!End(m)
    BY <1>4, <1>7
  <2>2. \A k \in DOMAIN block, m \in Name : block[k] = Blocks!End(m) =>
          k > 2 /\ block[k - 2] = Blocks!Start(m)
    BY <1>4, <1>8
  <2>3. \A k \in DOMAIN block, m \in {"brand", "fonts"} : block[k] \in Body(m) =>
          k > 1 /\ block[k - 1] = Blocks!Start(m)
    BY <1>4, <1>9 DEF Name
  <2> QED BY <2>1, <2>2, <2>3 DEF Shaped
<1>11. \A k \in 1..6 : block[k] \notin ThemeImports
  <2>1. ThemeImports = Body("theme") /\ "theme" \in Name /\ n # "theme" BY DEF Body, Name
  <2> QED BY <1>9, <2>1
<1>12. \A k \in 1..6 : block[k] = Blocks!SOURCE_ANCHOR => k = 1
  <2>1. Blocks!Start(n) # Blocks!SOURCE_ANCHOR /\ body # Blocks!SOURCE_ANCHOR
        /\ Blocks!End(n) # Blocks!SOURCE_ANCHOR
    BY <1>1, <1>6
  <2> QED BY <1>4, <1>5, <1>6, <2>1
<1> QED BY <1>4, <1>7, <1>10, <1>11, <1>12 DEF block

LEMMA InsertFacts ==
  ASSUME NEW text, Tidy(text), NEW n \in {"brand", "fonts"}, NEW body \in Body(n), ~ Has(text, n),
         NEW i, i \in DOMAIN text, text[i] = Blocks!SOURCE_ANCHOR,
         NEW after, after = Blocks!Splice(text, i, i, Below(n, body))
  PROVE  /\ Tidy(after) /\ Holds(after, n, body)
         /\ \A m \in Name \ {n} : \A b : Holds(text, m, b) => Holds(after, m, b)
<1>0. text \in Seq(Token) /\ Shaped(text) /\ n \in Name /\ i \in Int BY DEF Tidy, Name
<1> DEFINE block == Below(n, body)
<1>1. /\ block \in Seq(Token) /\ Shaped(block) /\ DOMAIN block = 1..6
      /\ block[4] = Blocks!Start(n) /\ block[5] = body
      /\ \A k \in 1..6, m \in Name : block[k] = Blocks!Start(m) => k = 4 /\ m = n
      /\ \A k \in 1..6 : block[k] \notin ThemeImports
      /\ \A k \in 1..6 : block[k] = Blocks!SOURCE_ANCHOR => k = 1
  BY BelowFacts
<1> HIDE DEF block
<1>2. after = Blocks!Splice(text, i, i, block) BY DEF block
<1>3. \A m \in Name : /\ text[i] # Blocks!Start(m) /\ text[i] # Blocks!End(m)
                      /\ text[i] \notin Body(m)
  BY PlainFacts
<1>4. Clear(text, i, i) /\ Between(text, i, i) BY <1>3, ClearAt
<1>5. ASSUME NEW tokens \in Singles
      PROVE  /\ Once(block, tokens)
             /\ \/ \A k \in DOMAIN block : block[k] \notin tokens
                \/ \A k \in DOMAIN text : text[k] \in tokens => i <= k /\ k <= i
  <2>1. CASE tokens = ThemeImports BY <1>1, <2>1 DEF Once
  <2>2. CASE tokens = {Blocks!SOURCE_ANCHOR}
    <3>1. Once(text, tokens) BY DEF Tidy
    <3>2. \A k \in DOMAIN text : text[k] \in tokens => k = i BY <2>2, <3>1 DEF Once
    <3>3. Once(block, tokens) BY <1>1, <2>2 DEF Once
    <3> QED BY <1>0, <3>2, <3>3
  <2>3. ASSUME NEW m \in Name, tokens = {Blocks!Start(m)}
        PROVE  /\ Once(block, tokens)
               /\ \/ \A k \in DOMAIN block : block[k] \notin tokens
                  \/ \A k \in DOMAIN text : text[k] \in tokens => i <= k /\ k <= i
    <3>1. Once(block, tokens) BY <1>1, <2>3 DEF Once
    <3>2. CASE m = n BY <2>3, <3>1, <3>2 DEF Has
    <3>3. CASE m # n BY <1>1, <2>3, <3>1, <3>3
    <3> QED BY <3>2, <3>3
  <2> QED BY <2>1, <2>2, <2>3 DEF Singles
<1>6. \E k \in DOMAIN text : text[k] \in ThemeImports /\ (k < i \/ k > i)
  <2>1. PICK k \in DOMAIN text : text[k] \in ThemeImports BY DEF Tidy
  <2>2. k # i
    <3>1. ThemeImports = Body("theme") /\ "theme" \in Name BY DEF Body, Name
    <3> QED BY <1>3, <2>1, <3>1
  <2>3. k \in Int BY <1>0
  <2> QED BY <1>0, <2>1, <2>2, <2>3
<1>7. Tidy(after) BY <1>1, <1>2, <1>4, <1>5, <1>6, SpliceTidy
<1>8. Holds(after, n, body)
  <2>1. IsSplice(after, text, i, i, block) BY <1>0, <1>1, <1>2, <1>4, SpliceFacts
  <2>2. /\ i - 1 + 4 \in DOMAIN after /\ after[i - 1 + 4] = block[4]
        /\ i - 1 + 5 \in DOMAIN after /\ after[i - 1 + 5] = block[5]
    <3>1. 4 \in DOMAIN block /\ 5 \in DOMAIN block BY <1>1
    <3> QED BY <1>0, <1>1, <1>4, <2>1, <3>1, SpliceFills
  <2>3. (i - 1 + 4) + 1 = i - 1 + 5 BY <1>0
  <2> QED BY <1>1, <2>2, <2>3 DEF Holds
<1>9. ASSUME NEW m \in Name \ {n}, NEW b, Holds(text, m, b) PROVE Holds(after, m, b)
  <2>1. \A k \in DOMAIN text : text[k] = Blocks!Start(m) => k < i \/ k > i
    <3> SUFFICES ASSUME NEW k \in DOMAIN text, text[k] = Blocks!Start(m) PROVE k < i \/ k > i
      OBVIOUS
    <3>1. k # i BY <1>3
    <3>2. k \in Int BY <1>0
    <3> QED BY <1>0, <3>1, <3>2
  <2> QED BY <1>1, <1>2, <1>4, <1>9, <2>1, SpliceHolds
<1> QED BY <1>7, <1>8, <1>9

LEMMA ApplyBlockFacts ==
  ASSUME NEW text, Tidy(text), NEW n \in {"brand", "fonts"}, NEW body \in Body(n),
         NEW after \in Blocks!apply_block(text, n, Blocks!render_block(n, body))
  PROVE  /\ Tidy(after) /\ Holds(after, n, body)
         /\ \A m \in Name \ {n} : \A b : Holds(text, m, b) => Holds(after, m, b)
<1>0. text \in Seq(Token) /\ n \in Name BY DEF Tidy, Name
<1>1. CASE Blocks!HasBlock(text, n)
  <2>1. after = Blocks!Replace(text, n, Blocks!render_block(n, body)) BY <1>1 DEF Blocks!apply_block
  <2>2. Has(text, n) BY <1>0, <1>1, HasIsHasBlock
  <2> QED BY <1>0, <2>1, <2>2, RewriteFacts
<1>2. CASE ~ Blocks!HasBlock(text, n)
  <2>1. ~ Has(text, n) BY <1>0, <1>2, HasIsHasBlock
  <2> DEFINE anchors == Blocks!Positions(text, Blocks!SOURCE_ANCHOR)
             i       == Blocks!Min(anchors)
  <2>2. Blocks!SOURCE_ANCHOR \in Blocks!ToSet(text) /\ after = Blocks!Splice(text, i, i, Below(n, body))
    BY <1>2 DEF Blocks!apply_block, Below
  <2>3. i \in DOMAIN text /\ text[i] = Blocks!SOURCE_ANCHOR
    <3>1. PICK k \in DOMAIN text : text[k] = Blocks!SOURCE_ANCHOR BY <2>2 DEF Blocks!ToSet
    <3>2. Once(text, {Blocks!SOURCE_ANCHOR}) BY DEF Tidy, Singles
    <3>3. anchors = {k} BY <3>1, <3>2 DEF Blocks!Positions, Once
    <3>4. k \in Int BY <1>0
    <3>5. i = k
      <4> HIDE DEF anchors
      <4> QED BY <3>3, <3>4, BlocksMinIs
    <3> QED BY <3>1, <3>5
  <2> HIDE DEF i
  <2> QED BY <2>1, <2>2, <2>3, InsertFacts
<1> QED BY <1>1, <1>2

(* A block goes with the line ends above it.                               *)
LEMMA RemoveBlockFacts ==
  ASSUME NEW text, Tidy(text), NEW n \in {"brand", "fonts"},
         NEW after, after = Blocks!remove_block(text, n)
  PROVE  /\ Tidy(after) /\ ~ Has(after, n)
         /\ \A m \in Name \ {n} : \A b : Holds(text, m, b) => Holds(after, m, b)
         /\ ~ Has(text, n) => after = text
<1>0. text \in Seq(Token) /\ Shaped(text) /\ n \in Name /\ n # "theme" BY DEF Tidy, Name
<1>1. CASE ~ Has(text, n)
  <2>1. after = text BY <1>0, <1>1, HasIsHasBlock DEF Blocks!remove_block
  <2> QED BY <1>1, <2>1
<1>2. CASE Has(text, n)
  <2>1. PICK o \in DOMAIN text : text[o] = Blocks!Start(n) BY <1>2 DEF Has
  <2>2. /\ o \in Int /\ o >= 1 /\ o + 2 <= Len(text) /\ o + 1 \in DOMAIN text /\ o + 2 \in DOMAIN text
        /\ text[o + 1] \in Body(n) /\ text[o + 2] = Blocks!End(n)
    BY <1>0, <2>1, BlockAt
  <2>3. Blocks!HasBlock(text, n) /\ Blocks!Opening(text, n) = o /\ Blocks!Closing(text, n) = o + 2
    BY <1>0, <2>1, BlockFacts
  <2> DEFINE words == {i \in 1..(o - 1) : text[i] # Blocks!LineEnd}
             top   == Blocks!Max(words \cup {0})
             first == top + 1
             final == o + 2
  <2>4. after = Blocks!Splice(text, first, final, <<>>) BY <2>3 DEF Blocks!remove_block
  <2>5. top \in words \cup {0} /\ \A x \in words \cup {0} : x <= top
    <3> HIDE DEF words
    <3>1. words \cup {0} \in SUBSET (0..(o - 1)) /\ o - 1 \in Nat BY <2>2 DEF words
    <3> QED BY <3>1, BlocksMaxFacts
  <2> HIDE DEF top
  <2>6. first \in Int /\ 1 <= first /\ first <= o BY <2>2, <2>5
  <2>7. \A k \in first..(o - 1) : text[k] = Blocks!LineEnd
    <3> SUFFICES ASSUME NEW k \in first..(o - 1), text[k] # Blocks!LineEnd PROVE FALSE OBVIOUS
    <3>1. k \in words /\ k > top BY <2>2, <2>5, <2>6
    <3> QED BY <2>2, <2>5, <2>6, <3>1
  <2> HIDE DEF first, final
  <2>8. Between(text, first, final) /\ final \in Int /\ final = o + 2 BY <2>2, <2>6 DEF Between, final
  <2>9. ASSUME NEW k \in DOMAIN text, first <= k, k <= final
        PROVE  \/ text[k] = Blocks!LineEnd /\ k < o
               \/ k = o
               \/ k = o + 1 /\ text[k] \in Body(n)
               \/ k = o + 2 /\ text[k] = Blocks!End(n)
    <3>1. k \in Int BY <1>0
    <3>2. k < o => k \in first..(o - 1) BY <2>2, <2>6, <2>9, <3>1
    <3>3. k < o \/ k = o \/ k = o + 1 \/ k = o + 2 BY <2>2, <2>8, <2>9, <3>1
    <3> QED BY <2>2, <2>7, <3>2, <3>3
  <2>10. \A m \in Name : /\ Blocks!LineEnd # Blocks!Start(m) /\ Blocks!LineEnd # Blocks!End(m)
                         /\ Blocks!LineEnd \notin Body(m)
    BY PlainFacts
  <2>11. ASSUME NEW k \in DOMAIN text, NEW m \in Name, text[k] = Blocks!Start(m)
         PROVE  k + 2 < first \/ k > final \/ k = o
    <3>1. /\ k \in Int /\ k + 1 \in DOMAIN text /\ k + 2 \in DOMAIN text
          /\ text[k + 1] \in Body(m) /\ text[k + 2] = Blocks!End(m)
      BY <1>0, <2>11, BlockAt
    <3>2. CASE first <= k /\ k <= final
      <4>1. text[k] # Blocks!LineEnd BY <2>10, <2>11
      <4>2. text[k] \notin Body(n) /\ text[k] # Blocks!End(n) BY <1>0, <2>11, TokenFacts
      <4> QED BY <2>9, <3>2, <4>1, <4>2
    <3>3. CASE k < first /\ first <= k + 2
      <4>1. k + 2 <= final BY <2>2, <2>6, <2>8, <3>1, <3>3
      <4>2. text[k + 2] # Blocks!LineEnd /\ text[k + 2] \notin Body(n) /\ text[k + 2] # Blocks!Start(n)
        BY <1>0, <2>10, <3>1, TokenFacts
      <4>3. k + 2 = o + 2 BY <2>1, <2>9, <3>1, <3>3, <4>1, <4>2
      <4> QED BY <2>2, <2>6, <3>1, <3>3, <4>3
    <3> QED BY <2>6, <2>8, <3>1, <3>2, <3>3
  <2>12. Clear(text, first, final)
    <3> SUFFICES ASSUME NEW k \in DOMAIN text, NEW m \in Name, text[k] = Blocks!Start(m)
                 PROVE  k + 2 < first \/ k > final \/ (first <= k /\ k + 2 <= final)
      BY DEF Clear
    <3>1. k + 2 < first \/ k > final \/ k = o BY <2>11
    <3> QED BY <2>2, <2>6, <2>8, <3>1
  <2> DEFINE none == <<>>
  <2>13. none \in Seq(Token) /\ DOMAIN none = {} OBVIOUS
  <2> HIDE DEF none
  <2>14. Shaped(none) /\ \A tokens \in Singles : Once(none, tokens) BY <2>13 DEF Shaped, Once
  <2>15. \E k \in DOMAIN text : text[k] \in ThemeImports /\ (k < first \/ k > final)
    <3>1. PICK k \in DOMAIN text : text[k] \in ThemeImports BY DEF Tidy
    <3>2. ThemeImports = Body("theme") /\ "theme" \in Name BY DEF Body, Name
    <3>3. text[k] # Blocks!LineEnd /\ text[k] # Blocks!Start(n) /\ text[k] \notin Body(n)
          /\ text[k] # Blocks!End(n)
      BY <1>0, <2>10, <3>1, <3>2, TokenFacts
    <3>4. ~ (first <= k /\ k <= final) BY <2>1, <2>9, <3>3
    <3>5. k \in Int BY <1>0
    <3> QED BY <2>6, <2>8, <3>1, <3>4, <3>5
  <2>16. after = Blocks!Splice(text, first, final, none) BY <2>4 DEF none
  <2>17. Tidy(after) BY <2>8, <2>12, <2>13, <2>14, <2>15, <2>16, SpliceTidy
  <2>18. ~ Has(after, n)
    <3> SUFFICES ASSUME NEW k \in DOMAIN after, after[k] = Blocks!Start(n) PROVE FALSE BY DEF Has
    <3>1. IsSplice(after, text, first, final, none) BY <1>0, <2>8, <2>13, <2>16, SpliceFacts
    <3>2. \/ \E i \in DOMAIN text : (i < first \/ i > final) /\ text[i] = after[k]
          \/ \E i \in DOMAIN none : none[i] = after[k]
      <4>1. text \in Seq(Token) /\ none \in Seq(Token) /\ Between(text, first, final)
        BY <1>0, <2>8, <2>13
      <4> QED BY <3>1, <4>1, SpliceBrings
    <3>3. PICK i \in DOMAIN text : (i < first \/ i > final) /\ text[i] = after[k]
      BY <2>13, <3>2
    <3>4. i = o BY <1>0, <2>1, <3>3, OneStart
    <3> QED BY <2>2, <2>6, <2>8, <3>3, <3>4
  <2>19. ASSUME NEW m \in Name \ {n}, NEW b, Holds(text, m, b) PROVE Holds(after, m, b)
    <3>1. \A k \in DOMAIN text : text[k] = Blocks!Start(m) => k < first \/ k > final
      <4> SUFFICES ASSUME NEW k \in DOMAIN text, text[k] = Blocks!Start(m)
                   PROVE  k < first \/ k > final
        OBVIOUS
      <4>1. k + 2 < first \/ k > final \/ k = o BY <2>11
      <4>2. k # o BY <1>0, <2>1, <2>19, TokenFacts
      <4>3. k \in Int BY <1>0
      <4> QED BY <2>6, <4>1, <4>2, <4>3
    <3> QED BY <2>8, <2>12, <2>13, <2>16, <2>19, <3>1, SpliceHolds
  <2> QED BY <1>2, <2>17, <2>18, <2>19
<1> QED BY <1>1, <1>2

(* The bare import becomes a block.                                        *)
LEMMA ApplyThemeFacts ==
  ASSUME NEW text, Tidy(text), NEW theme \in Themes,
         NEW after \in Blocks!apply_theme_block(text, theme, Themes)
  PROVE  /\ Tidy(after) /\ Holds(after, "theme", Blocks!Import(theme))
         /\ \A m \in Name \ {"theme"} : \A b : Holds(text, m, b) => Holds(after, m, b)
<1> DEFINE body  == Blocks!Import(theme)
           block == Blocks!render_block("theme", body)
<1>0. /\ text \in Seq(Token) /\ Shaped(text) /\ "theme" \in Name
      /\ ThemeImports = Body("theme") /\ body \in Body("theme")
  BY DEF Tidy, Name, Body, ThemeImports
<1> HIDE DEF body
<1>1. CASE Blocks!HasBlock(text, "theme")
  <2>1. after = Blocks!Replace(text, "theme", block) BY <1>1 DEF Blocks!apply_theme_block, body
  <2>2. Has(text, "theme") BY <1>0, <1>1, HasIsHasBlock
  <2> QED BY <1>0, <2>1, <2>2, RewriteFacts DEF body
<1>2. CASE ~ Blocks!HasBlock(text, "theme")
  <2>1. ~ Has(text, "theme") BY <1>0, <1>2, HasIsHasBlock
  <2> DEFINE i == Blocks!Min(Blocks!Imports(text, Themes))
  <2>2. after = Blocks!Splice(text, i, i, block) BY <1>2 DEF Blocks!apply_theme_block, body
  <2>3. i \in DOMAIN text /\ text[i] \in ThemeImports
        /\ \A k \in DOMAIN text : text[k] \in ThemeImports => k = i
    <3>1. PICK k \in DOMAIN text : text[k] \in ThemeImports BY DEF Tidy
    <3>2. Once(text, ThemeImports) BY DEF Tidy, Singles
    <3>3. \A j \in DOMAIN text : text[j] \in ThemeImports => j = k BY <3>1, <3>2 DEF Once
    <3>4. Blocks!Imports(text, Themes) = {k} BY <3>1, <3>3 DEF Blocks!Imports, ThemeImports
    <3>5. k \in Int BY <1>0
    <3>6. i = k BY <3>4, <3>5, BlocksMinIs
    <3> QED BY <3>1, <3>3, <3>6
  <2> HIDE DEF i
  <2>4. i \in Int /\ 1 <= i BY <1>0, <2>3
  <2>5. \A m \in Name : /\ text[i] # Blocks!Start(m) /\ text[i] # Blocks!End(m)
                        /\ text[i] \in Body(m) => m = "theme"
    BY <1>0, <2>3, TokenFacts
  <2>6. Clear(text, i, i) /\ Between(text, i, i) BY <2>1, <2>3, <2>5, ClearAt
  <2>7. /\ block \in Seq(Token) /\ DOMAIN block = 1..3
        /\ block[1] = Blocks!Start("theme") /\ block[2] = body /\ block[3] = Blocks!End("theme")
    <3>1. block \in Seq(Token) /\ block = <<Blocks!Start("theme"), body, Blocks!End("theme")>>
      BY <1>0, RenderedFacts
    <3> HIDE DEF block
    <3> QED BY <3>1
  <2> HIDE DEF block
  <2>8. \A k \in 1..3 : k = 1 \/ k = 2 \/ k = 3 OBVIOUS
  <2>9. \A k \in 1..3, m \in Name :
          /\ block[k] = Blocks!Start(m) => k = 1 /\ m = "theme"
          /\ block[k] = Blocks!End(m) => k = 3 /\ m = "theme"
          /\ block[k] \in Body(m) => k = 2 /\ m = "theme"
    <3> SUFFICES ASSUME NEW k \in 1..3, NEW m \in Name
                 PROVE  /\ block[k] = Blocks!Start(m) => k = 1 /\ m = "theme"
                        /\ block[k] = Blocks!End(m) => k = 3 /\ m = "theme"
                        /\ block[k] \in Body(m) => k = 2 /\ m = "theme"
      OBVIOUS
    <3>1. CASE k = 1 BY <1>0, <2>7, <3>1, TokenFacts
    <3>2. CASE k = 2 BY <1>0, <2>7, <3>2, TokenFacts
    <3>3. CASE k = 3 BY <1>0, <2>7, <3>3, TokenFacts
    <3> QED BY <2>8, <3>1, <3>2, <3>3
  <2>10. Shaped(block)
    <3>1. \A k \in DOMAIN block, m \in Name : block[k] = Blocks!Start(m) =>
            k + 2 \in DOMAIN block /\ block[k + 1] \in Body(m) /\ block[k + 2] = Blocks!End(m)
      BY <1>0, <2>7, <2>9
    <3>2. \A k \in DOMAIN block, m \in Name : block[k] = Blocks!End(m) =>
            k > 2 /\ block[k - 2] = Blocks!Start(m)
      BY <2>7, <2>9
    <3>3. \A k \in DOMAIN block, m \in {"brand", "fonts"} : block[k] \notin Body(m)
      BY <2>7, <2>9 DEF Name
    <3> QED BY <3>1, <3>2, <3>3 DEF Shaped
  <2>11. ASSUME NEW tokens \in Singles
         PROVE  /\ Once(block, tokens)
                /\ \/ \A k \in DOMAIN block : block[k] \notin tokens
                   \/ \A k \in DOMAIN text : text[k] \in tokens => i <= k /\ k <= i
    <3>1. CASE tokens = ThemeImports
      <4>1. Once(block, tokens) BY <1>0, <2>7, <2>9, <3>1 DEF Once
      <4> QED BY <2>3, <2>4, <3>1, <4>1
    <3>2. CASE tokens = {Blocks!SOURCE_ANCHOR}
      <4>1. Blocks!SOURCE_ANCHOR # Blocks!Start("theme") /\ Blocks!SOURCE_ANCHOR # Blocks!End("theme")
            /\ Blocks!SOURCE_ANCHOR \notin Body("theme")
        BY <1>0, PlainFacts
      <4>2. \A k \in DOMAIN block : block[k] \notin tokens BY <1>0, <2>7, <2>8, <3>2, <4>1
      <4> QED BY <4>2 DEF Once
    <3>3. ASSUME NEW m \in Name, tokens = {Blocks!Start(m)}
          PROVE  /\ Once(block, tokens)
                 /\ \/ \A k \in DOMAIN block : block[k] \notin tokens
                    \/ \A k \in DOMAIN text : text[k] \in tokens => i <= k /\ k <= i
      <4>1. Once(block, tokens) BY <2>7, <2>9, <3>3 DEF Once
      <4>2. CASE m = "theme" BY <2>1, <3>3, <4>1, <4>2 DEF Has
      <4>3. CASE m # "theme" BY <2>7, <2>9, <3>3, <4>1, <4>3
      <4> QED BY <4>2, <4>3
    <3> QED BY <3>1, <3>2, <3>3 DEF Singles
  <2>12. \E k \in DOMAIN block : block[k] \in ThemeImports
    <3>1. 2 \in DOMAIN block BY <2>7
    <3> QED BY <1>0, <2>7, <3>1
  <2>13. Tidy(after) BY <2>2, <2>6, <2>7, <2>10, <2>11, <2>12, SpliceTidy
  <2>14. Holds(after, "theme", body)
    <3>1. IsSplice(after, text, i, i, block) BY <1>0, <2>2, <2>6, <2>7, SpliceFacts
    <3>2. \A k \in DOMAIN block : i - 1 + k \in DOMAIN after /\ after[i - 1 + k] = block[k]
      BY <1>0, <2>6, <2>7, <3>1, SpliceFills
    <3>3. 1 \in DOMAIN block /\ 2 \in DOMAIN block /\ (i - 1 + 1) + 1 = i - 1 + 2 BY <2>4, <2>7
    <3> QED BY <2>7, <3>2, <3>3 DEF Holds
  <2>15. ASSUME NEW m \in Name \ {"theme"}, NEW b, Holds(text, m, b) PROVE Holds(after, m, b)
    <3>1. \A k \in DOMAIN text : text[k] = Blocks!Start(m) => k < i \/ k > i
      <4> SUFFICES ASSUME NEW k \in DOMAIN text, text[k] = Blocks!Start(m) PROVE k < i \/ k > i
        OBVIOUS
      <4>1. k # i BY <2>5
      <4>2. k \in Int BY <1>0
      <4> QED BY <2>4, <4>1, <4>2
    <3> QED BY <2>2, <2>6, <2>7, <2>15, <3>1, SpliceHolds
  <2> QED BY <2>13, <2>14, <2>15 DEF body
<1> QED BY <1>1, <1>2

(***************************************************************************)
(* The compiler.                                                           *)
(***************************************************************************)
(* What the text of an identity declares once it is compiled.              *)
Settled(c, text) ==
  /\ Holds(text, "theme", Blocks!Import(c.theme))
  /\ Holds(text, "brand", <<"root", c.primary, c.surface>>)
  /\ IF c.fonts = {} THEN ~ Has(text, "fonts") ELSE Holds(text, "fonts", <<"faces", c.fonts>>)

LEMMA Bodies ==
  ASSUME NEW c \in Contracts
  PROVE  /\ c.theme \in Themes /\ Blocks!Import(c.theme) \in Body("theme")
         /\ <<"root", c.primary, c.surface>> \in Body("brand")
         /\ <<"faces", c.fonts>> \in Body("fonts")
         /\ c.fonts \subseteq {"display", "body", "mono"} /\ c.level \in 1..10
<1>1. c \in Contract BY ContractsAssumption
<1>2. c.theme \in Themes BY DEF Themes
<1> QED BY <1>1, <1>2 DEF Contract, Body, ThemeImports, Roots, FaceLists

LEMMA HoldsHas ==
  ASSUME NEW text, NEW n, NEW body, Holds(text, n, body)
  PROVE  Has(text, n)
BY DEF Holds, Has

LEMMA CompileFacts ==
  ASSUME NEW c \in Contracts, NEW text, Tidy(text), NEW after \in compile_contract(c, text)
  PROVE  Readable(c) /\ Tidy(after) /\ Settled(c, after)
<1> DEFINE import == Blocks!Import(c.theme)
           root   == <<"root", c.primary, c.surface>>
           list   == <<"faces", c.fonts>>
<1>1. Readable(c) BY DEF compile_contract
<1>2. PICK themed \in Blocks!apply_theme_block(text, c.theme, Themes) :
        \E branded \in Blocks!apply_block(themed, "brand", Blocks!render_block("brand", root)) :
          IF c.fonts = {} THEN after = Blocks!remove_block(branded, "fonts")
          ELSE after \in Blocks!apply_block(branded, "fonts", Blocks!render_block("fonts", list))
  <2>1. CASE c.fonts = {}
    BY <1>1, <2>1 DEF compile_contract, render_palette_block
  <2>2. CASE c.fonts # {}
    BY <1>1, <2>2 DEF compile_contract, render_palette_block, render_fonts_block
  <2> QED BY <2>1, <2>2
<1>3. PICK branded \in Blocks!apply_block(themed, "brand", Blocks!render_block("brand", root)) :
      IF c.fonts = {} THEN after = Blocks!remove_block(branded, "fonts")
      ELSE after \in Blocks!apply_block(branded, "fonts", Blocks!render_block("fonts", list))
  BY <1>2
<1>4. /\ c.theme \in Themes /\ root \in Body("brand") /\ list \in Body("fonts")
      /\ "theme" \in Name \ {"brand"} /\ "theme" \in Name \ {"fonts"} /\ "brand" \in Name \ {"fonts"}
  BY Bodies DEF Name
<1> HIDE DEF import, root, list
<1>5. Tidy(themed) /\ Holds(themed, "theme", import) BY <1>4, ApplyThemeFacts DEF import
<1>6. /\ Tidy(branded) /\ Holds(branded, "brand", root)
      /\ \A m \in Name \ {"brand"} : \A b : Holds(themed, m, b) => Holds(branded, m, b)
  BY <1>4, <1>5, ApplyBlockFacts
<1>7. Holds(branded, "theme", import) BY <1>4, <1>5, <1>6
<1>8. /\ Tidy(after) /\ \A m \in Name \ {"fonts"} : \A b : Holds(branded, m, b) => Holds(after, m, b)
      /\ IF c.fonts = {} THEN ~ Has(after, "fonts") ELSE Holds(after, "fonts", list)
  <2>1. CASE c.fonts = {}
    <3>1. after = Blocks!remove_block(branded, "fonts") BY <1>3, <2>1
    <3> QED BY <1>6, <2>1, <3>1, RemoveBlockFacts
  <2>2. CASE c.fonts # {}
    <3>1. after \in Blocks!apply_block(branded, "fonts", Blocks!render_block("fonts", list))
      BY <1>3, <2>2
    <3> QED BY <1>4, <1>6, <2>2, <3>1, ApplyBlockFacts
  <2> QED BY <2>1, <2>2
<1>9. Holds(after, "theme", import) /\ Holds(after, "brand", root) BY <1>4, <1>6, <1>7, <1>8
<1> QED BY <1>1, <1>8, <1>9 DEF Settled, import, root, list

(* A second compilation changes nothing.                                   *)
LEMMA CompileSettled ==
  ASSUME NEW c \in Contracts, NEW text, Tidy(text), Settled(c, text), Readable(c)
  PROVE  compile_contract(c, text) = {text}
<1> DEFINE import == Blocks!Import(c.theme)
           root   == <<"root", c.primary, c.surface>>
           list   == <<"faces", c.fonts>>
<1>1. /\ import \in Body("theme") /\ root \in Body("brand") /\ list \in Body("fonts")
      /\ "theme" \in Name /\ "brand" \in Name /\ "fonts" \in Name
  BY Bodies DEF Name
<1>2. Holds(text, "theme", import) /\ Holds(text, "brand", root)
      /\ IF c.fonts = {} THEN ~ Has(text, "fonts") ELSE Holds(text, "fonts", list)
  BY DEF Settled
<1> HIDE DEF import, root, list
<1>3. ASSUME NEW n \in Name, NEW body \in Body(n), Holds(text, n, body)
      PROVE  Blocks!HasBlock(text, n) /\ Blocks!Replace(text, n, Blocks!render_block(n, body)) = text
  <2>1. Has(text, n) BY <1>3, HoldsHas
  <2> QED BY <1>3, <2>1, HasIsHasBlock, RewriteFacts
<1>4. Blocks!apply_theme_block(text, c.theme, Themes) = {text}
  BY <1>1, <1>2, <1>3 DEF Blocks!apply_theme_block, import
<1>5. Blocks!apply_block(text, "brand", render_palette_block(c)) = {text}
  BY <1>1, <1>2, <1>3 DEF Blocks!apply_block, render_palette_block, root
<1>6. CASE c.fonts = {}
  <2>1. Blocks!remove_block(text, "fonts") = text
    <3>1. ~ Blocks!HasBlock(text, "fonts") BY <1>1, <1>2, <1>6, HasIsHasBlock
    <3> QED BY <3>1 DEF Blocks!remove_block
  <2> QED BY <1>4, <1>5, <1>6, <2>1 DEF compile_contract
<1>7. CASE c.fonts # {}
  <2>1. Blocks!apply_block(text, "fonts", render_fonts_block(c)) = {text}
    BY <1>1, <1>2, <1>3, <1>7 DEF Blocks!apply_block, render_fonts_block, list
  <2> QED BY <1>4, <1>5, <1>7, <2>1 DEF compile_contract
<1> QED BY <1>6, <1>7

(***************************************************************************)
(* What a browser makes of a compiled text.                                *)
(***************************************************************************)
LEMMA KindFacts ==
  ASSUME NEW token \in Token
  PROVE  /\ token[1] = "import" <=> token \in ThemeImports
         /\ token[1] = "root" <=> token \in Roots
         /\ token[1] = "faces" <=> token \in FaceLists
<1>1. \A t \in ThemeImports : t[1] = "import" BY DEF ThemeImports, Blocks!Import
<1>2. \A t \in Roots : t[1] = "root" BY DEF Roots
<1>3. \A t \in FaceLists : t[1] = "faces" BY DEF FaceLists
<1>4. token \in ThemeImports \cup Roots \cup FaceLists \/ token[1] \in {"start", "end", "anchor", "nl", "words"}
  BY DEF Token, Blocks!Start, Blocks!End, Blocks!SOURCE_ANCHOR, Blocks!LineEnd, Words
<1> QED BY <1>1, <1>2, <1>3, <1>4

LEMMA EffectiveIs ==
  ASSUME NEW kind, NEW k \in DOMAIN css, k \in Int,
         \A i \in DOMAIN css : css[i][1] = kind <=> i = k
  PROVE  Effective(kind) = css[k]
<1>1. {i \in DOMAIN css : css[i][1] = kind} = {k} OBVIOUS
<1> QED BY <1>1, MaxIs DEF Effective

(* What a block declares is where the block is.                            *)
LEMMA DeclaredOnce ==
  ASSUME Tidy(css), NEW n \in {"brand", "fonts"}, NEW body, Holds(css, n, body)
  PROVE  \E k \in DOMAIN css : /\ css[k] = body /\ k \in Int
                               /\ \A i \in DOMAIN css : css[i] \in Body(n) <=> i = k
<1>0. css \in Seq(Token) /\ Shaped(css) /\ n \in Name BY DEF Tidy, Name
<1>1. PICK o \in DOMAIN css : css[o] = Blocks!Start(n) /\ css[o + 1] = body BY DEF Holds
<1>2. o \in Int /\ o + 1 \in DOMAIN css /\ css[o + 1] \in Body(n) BY <1>0, <1>1, BlockAt
<1>3. ASSUME NEW i \in DOMAIN css, css[i] \in Body(n) PROVE i = o + 1
  <2>1. i > 1 /\ css[i - 1] = Blocks!Start(n) BY <1>3 DEF Shaped, Tidy
  <2>2. i \in Int /\ i - 1 \in DOMAIN css BY <1>0, <2>1
  <2>3. i - 1 = o BY <1>0, <1>1, <2>1, <2>2, OneStart
  <2> QED BY <1>2, <2>2, <2>3
<1>4. o + 1 \in Int BY <1>2
<1> QED BY <1>1, <1>2, <1>3, <1>4

LEMMA SettledIsEffective ==
  ASSUME NEW c \in Contracts, Tidy(css), Settled(c, css)
  PROVE  /\ Effective("import") = Blocks!Import(c.theme)
         /\ Effective("root") = <<"root", c.primary, c.surface>>
         /\ Effective("faces") = IF c.fonts = {} THEN <<>> ELSE <<"faces", c.fonts>>
<1>0. /\ css \in Seq(Token) /\ Shaped(css) /\ "theme" \in Name /\ Body("theme") = ThemeImports
      /\ Body("brand") = Roots /\ Body("fonts") = FaceLists
  BY DEF Tidy, Name, Body
<1>1. \A i \in DOMAIN css : /\ css[i][1] = "import" <=> css[i] \in ThemeImports
                            /\ css[i][1] = "root" <=> css[i] \in Roots
                            /\ css[i][1] = "faces" <=> css[i] \in FaceLists
  <2>1. \A i \in DOMAIN css : css[i] \in Token BY <1>0
  <2> QED BY <2>1, KindFacts
<1>2. Effective("import") = Blocks!Import(c.theme)
  <2>1. PICK o \in DOMAIN css : css[o] = Blocks!Start("theme") /\ css[o + 1] = Blocks!Import(c.theme)
    BY DEF Settled, Holds
  <2>2. o \in Int /\ o + 1 \in DOMAIN css /\ css[o + 1] \in ThemeImports BY <1>0, <2>1, BlockAt
  <2>3. Once(css, ThemeImports) BY DEF Tidy, Singles
  <2>4. \A i \in DOMAIN css : css[i][1] = "import" <=> i = o + 1 BY <1>1, <2>2, <2>3 DEF Once
  <2>5. o + 1 \in Int BY <2>2
  <2> DEFINE k == o + 1
  <2>6. k \in DOMAIN css /\ k \in Int /\ css[k] = Blocks!Import(c.theme)
        /\ \A i \in DOMAIN css : css[i][1] = "import" <=> i = k
    BY <2>1, <2>2, <2>4, <2>5
  <2> HIDE DEF k
  <2>7. Effective("import") = css[k] BY <2>6, EffectiveIs
  <2> QED BY <2>6, <2>7
<1>3. Effective("root") = <<"root", c.primary, c.surface>>
  <2> DEFINE root == <<"root", c.primary, c.surface>>
  <2>1. Holds(css, "brand", root) BY DEF Settled
  <2> HIDE DEF root
  <2>2. PICK k \in DOMAIN css : /\ css[k] = root /\ k \in Int
                                /\ \A i \in DOMAIN css : css[i] \in Body("brand") <=> i = k
    BY <2>1, DeclaredOnce
  <2>3. \A i \in DOMAIN css : css[i][1] = "root" <=> i = k BY <1>0, <1>1, <2>2
  <2>4. Effective("root") = css[k] BY <2>2, <2>3, EffectiveIs
  <2> QED BY <2>2, <2>4 DEF root
<1>4. CASE c.fonts = {}
  <2>1. ~ Has(css, "fonts") BY <1>4 DEF Settled
  <2>2. ASSUME NEW i \in DOMAIN css, css[i] \in FaceLists PROVE FALSE
    <3>1. i > 1 /\ css[i - 1] = Blocks!Start("fonts") BY <1>0, <2>2 DEF Shaped
    <3>2. i - 1 \in DOMAIN css BY <1>0, <3>1
    <3> QED BY <2>1, <3>1, <3>2 DEF Has
  <2>3. {i \in DOMAIN css : css[i][1] = "faces"} = {} BY <1>1, <2>2
  <2> QED BY <1>2, <1>3, <1>4, <2>3 DEF Effective
<1>5. CASE c.fonts # {}
  <2> DEFINE list == <<"faces", c.fonts>>
  <2>1. Holds(css, "fonts", list) BY <1>5 DEF Settled
  <2> HIDE DEF list
  <2>2. PICK k \in DOMAIN css : /\ css[k] = list /\ k \in Int
                                /\ \A i \in DOMAIN css : css[i] \in Body("fonts") <=> i = k
    BY <2>1, DeclaredOnce
  <2>3. \A i \in DOMAIN css : css[i][1] = "faces" <=> i = k BY <1>0, <1>1, <2>2
  <2>4. Effective("faces") = css[k] BY <2>2, <2>3, EffectiveIs
  <2> QED BY <1>2, <1>3, <1>5, <2>2, <2>4 DEF list
<1> QED BY <1>4, <1>5

(***************************************************************************)
(* Downloads.                                                              *)
(***************************************************************************)
LEMMA FetchFacts ==
  ASSUME NEW files, DOMAIN files \subseteq Nat, NEW wanted, NEW served
  PROVE  LET fetched == Fetch(files, wanted, served)
         IN  /\ fetched.got \subseteq wanted \cap {files[i] : i \in DOMAIN files}
             /\ fetched.ok => \A i \in DOMAIN files : files[i] \in wanted => files[i] \in fetched.got
             /\ ~ fetched.ok => \E i \in DOMAIN files : files[i] \in wanted \ fetched.got
<1> DEFINE refused == {i \in DOMAIN files : files[i] \in wanted \ served}
           got     == {files[i] : i \in {k \in DOMAIN files : \A j \in refused : k < j}} \cap wanted
<1>1. Fetch(files, wanted, served) = [got |-> got, ok |-> refused = {}] BY DEF Fetch
<1>2. got \subseteq wanted \cap {files[i] : i \in DOMAIN files} OBVIOUS
<1>3. ASSUME refused = {}, NEW i \in DOMAIN files, files[i] \in wanted PROVE files[i] \in got
  BY <1>3
<1>4. ASSUME refused # {} PROVE \E i \in DOMAIN files : files[i] \in wanted \ got
  <2>1. PICK i \in DOMAIN files : i \in refused BY <1>4
  <2>2. files[i] \in wanted BY <2>1
  <2>3. ASSUME files[i] \in got PROVE FALSE
    <3>1. PICK k \in DOMAIN files : files[k] = files[i] /\ \A j \in refused : k < j BY <2>3
    <3>2. k \in refused BY <2>1, <3>1
    <3>3. k < k /\ k \in Nat BY <3>1, <3>2
    <3> QED BY <3>3
  <2> QED BY <2>2, <2>3
<1> DEFINE none == refused = {}
<1> HIDE DEF got, none
<1>5. Fetch(files, wanted, served).got = got /\ Fetch(files, wanted, served).ok = none
  BY <1>1 DEF none
<1>6. none <=> refused = {} BY DEF none
<1> HIDE DEF refused
<1> QED BY <1>2, <1>3, <1>4, <1>5, <1>6

(* Each library has files of its own.                                      *)
LEMMA LibraryFacts ==
  /\ \A lib \in Libraries : /\ DOMAIN Vendored(lib) \subseteq Nat
                            /\ ToSet(Vendored(lib)) = {Vendored(lib)[i] : i \in DOMAIN Vendored(lib)}
                            /\ ToSet(Vendored(lib)) \subseteq Libs
                            /\ ToSet(Vendored(lib)) \cap OwnScripts = {}
  /\ \A lib, l \in Libraries : lib # l => ToSet(Vendored(lib)) \cap ToSet(Vendored(l)) = {}
<1>1. Vendored("motion") = <<"motion.min.js">> BY DEF Vendored
<1>2. Vendored("gsap") = <<"gsap.min.js", "ScrollTrigger.min.js">> BY DEF Vendored
<1>3. ToSet(Vendored("motion")) = {"motion.min.js"} BY <1>1 DEF ToSet
<1>4. ToSet(Vendored("gsap")) = {"gsap.min.js", "ScrollTrigger.min.js"} BY <1>2 DEF ToSet
<1>5. OwnScripts = {"motion.js", "motion-lib.js", "motion-gsap.js"}
  BY DEF OwnScripts, Libraries, OwnFiles, Adapter, CORE_SCRIPT
<1>6. DOMAIN Vendored("motion") \subseteq Nat /\ DOMAIN Vendored("gsap") \subseteq Nat
  BY <1>1, <1>2
<1>7. \A lib \in Libraries : ToSet(Vendored(lib)) = {Vendored(lib)[i] : i \in DOMAIN Vendored(lib)}
  BY DEF ToSet
<1>8. \A lib \in Libraries : ToSet(Vendored(lib)) \subseteq Libs BY DEF Libs
<1> QED BY <1>3, <1>4, <1>5, <1>6, <1>7, <1>8 DEF Libraries

LEMMA VendorKeepsNotice ==
  ASSUME NoticeKeepsUp, NEW lib \in Libraries, NEW served, NEW l \in Libraries,
         Whole(l, vendor_library(lib, script, served).script)
  PROVE  l \in vendor_library(lib, script, served).notice
<1> DEFINE files   == Vendored(lib)
           fetched == Fetch(files, Libs \ script, served)
           after   == script \cup fetched.got
           done    == vendor_library(lib, script, served)
<1>1. /\ done.script = after
      /\ done.notice = IF fetched.ok THEN {k \in Libraries : Whole(k, after)} ELSE notice
  BY DEF vendor_library
<1>2. /\ fetched.got \subseteq (Libs \ script) \cap ToSet(files)
      /\ ~ fetched.ok => \E f \in ToSet(files) : f \in (Libs \ script) \ fetched.got
  <2>1. DOMAIN files \subseteq Nat /\ ToSet(files) = {files[i] : i \in DOMAIN files}
    BY LibraryFacts
  <2> DEFINE wanted == Libs \ script
  <2> HIDE DEF files, wanted
  <2>2. /\ Fetch(files, wanted, served).got \subseteq wanted \cap {files[i] : i \in DOMAIN files}
        /\ ~ Fetch(files, wanted, served).ok =>
             \E i \in DOMAIN files : files[i] \in wanted \ Fetch(files, wanted, served).got
    BY <2>1, FetchFacts
  <2> QED BY <2>1, <2>2 DEF wanted
<1> HIDE DEF fetched
<1>3. CASE fetched.ok BY <1>1, <1>3
<1>4. CASE ~ fetched.ok
  <2>1. l # lib BY <1>1, <1>2, <1>4 DEF Whole
  <2>2. ToSet(Vendored(l)) \cap ToSet(files) = {} BY <2>1, LibraryFacts
  <2>3. Whole(l, script) BY <1>1, <1>2, <2>2 DEF Whole
  <2> QED BY <1>1, <1>4, <2>3 DEF NoticeKeepsUp
<1> QED BY <1>3, <1>4

LEMMA MotionFacts ==
  ASSUME NoticeKeepsUp, NEW level, NEW served
  PROVE  LET motion == ensure_motion(level, served)
         IN  /\ \A l \in Libraries : Whole(l, motion.script) => l \in motion.notice
             /\ motion.ok => missing_files(level, motion.script) = {}
<1> DEFINE needed  == engine_for(level) \in Libraries /\ missing_files(level, script) # {}
           vendor  == vendor_library(engine_for(level), script, served)
           library == IF needed THEN vendor ELSE [script |-> script, ok |-> TRUE, notice |-> notice]
           motion  == ensure_motion(level, served)
<1>1. motion = [library EXCEPT !.ok = @ /\ missing_files(level, library.script) = {}]
  BY DEF ensure_motion
<1>2. /\ DOMAIN library = {"script", "ok", "notice"}
      /\ \A l \in Libraries : Whole(l, library.script) => l \in library.notice
  <2>1. CASE needed
    <3>1. library = vendor BY <2>1
    <3>2. DOMAIN vendor = {"script", "ok", "notice"} BY DEF vendor_library
    <3>3. \A l \in Libraries : Whole(l, vendor.script) => l \in vendor.notice
      BY <2>1, VendorKeepsNotice
    <3> QED BY <3>1, <3>2, <3>3
  <2>2. CASE ~ needed
    <3>1. library = [script |-> script, ok |-> TRUE, notice |-> notice] BY <2>2
    <3> QED BY <3>1 DEF NoticeKeepsUp
  <2> QED BY <2>1, <2>2
<1> HIDE DEF library, motion
<1>3. /\ motion.script = library.script /\ motion.notice = library.notice
      /\ motion.ok => missing_files(level, library.script) = {}
  BY <1>1, <1>2
<1>4. motion.ok => missing_files(level, motion.script) = {} BY <1>3
<1> QED BY <1>2, <1>3, <1>4 DEF motion

LEMMA FontsFacts ==
  ASSUME NEW c \in Contracts, NEW served, ensure_fonts(c, served).ok, NEW role \in c.fonts
  PROVE  font[role] = "valid" \/ role \in ensure_fonts(c, served).got
<1> DEFINE wanted == {r \in c.fonts : font[r] # "valid"}
<1>1. DOMAIN faces = 1..3 /\ faces[1] = "display" /\ faces[2] = "body" /\ faces[3] = "mono"
  BY DEF faces
<1>2. PICK i \in DOMAIN faces : faces[i] = role
  <2>1. role \in {"display", "body", "mono"} BY Bodies
  <2> QED BY <1>1, <2>1
<1>3. ensure_fonts(c, served) = Fetch(faces, wanted, served) BY DEF ensure_fonts
<1>4. role \in wanted => role \in Fetch(faces, wanted, served).got
  <2>1. DOMAIN faces \subseteq Nat BY <1>1
  <2>2. Fetch(faces, wanted, served).ok BY <1>3
  <2> HIDE DEF wanted
  <2> QED BY <1>2, <2>1, <2>2, FetchFacts
<1> QED BY <1>3, <1>4
-----------------------------------------------------------------------------
(***************************************************************************)
(* The invariant.                                                          *)
(***************************************************************************)
(* What a build that succeeded leaves, until the next thing happens.       *)
Built ==
  last = "built" =>
    /\ toml \in Contracts /\ Readable(toml) /\ Settled(toml, css)
    /\ \A role \in toml.fonts : font[role] = "valid"
    /\ missing_files(toml.level, script) = {}
    /\ toml.header \in headers

LEMMA OriginalTidy ==
  ASSUME NEW theme \in Themes
  PROVE  Tidy(Original(theme))
<1> DEFINE text == Original(theme)
           plain == {Blocks!SOURCE_ANCHOR, Blocks!LineEnd, Words, <<"words", "header">>}
<1>1. /\ text = <<Blocks!Import(theme), Blocks!LineEnd, Blocks!SOURCE_ANCHOR, Blocks!LineEnd,
                  <<"words", "header">>, Blocks!LineEnd>>
  BY DEF Original
<1>2. DOMAIN text = 1..6 /\ text[1] = Blocks!Import(theme) /\ text[3] = Blocks!SOURCE_ANCHOR
      /\ text[2] = Blocks!LineEnd /\ text[4] = Blocks!LineEnd /\ text[6] = Blocks!LineEnd
      /\ text[5] = <<"words", "header">>
  BY <1>1
<1> HIDE DEF text
<1>3. /\ Blocks!Import(theme) \in ThemeImports /\ "theme" \in Name /\ ThemeImports = Body("theme")
      /\ Body("theme") \subseteq Token
  BY DEF ThemeImports, Name, Body, Token
<1>4. \A i \in 1..6 : i = 1 \/ i = 2 \/ i = 3 \/ i = 4 \/ i = 5 \/ i = 6 OBVIOUS
<1>5. \A i \in 2..6 : text[i] \in plain BY <1>2, <1>4
<1>6. \A i \in 2..6, n \in Name :
        text[i] # Blocks!Start(n) /\ text[i] # Blocks!End(n) /\ text[i] \notin Body(n)
  <2>1. \A t \in plain, n \in Name : t # Blocks!Start(n) /\ t # Blocks!End(n) /\ t \notin Body(n)
    BY PlainFacts
  <2> HIDE DEF plain
  <2> QED BY <1>5, <2>1
<1>7. \A n \in Name : /\ text[1] # Blocks!Start(n) /\ text[1] # Blocks!End(n)
                      /\ n # "theme" => text[1] \notin Body(n)
  BY <1>2, <1>3, TokenFacts
<1>8. \A i \in 1..6 : i = 1 \/ i \in 2..6 OBVIOUS
<1>9. text \in Seq(Token)
  <2>1. /\ Blocks!LineEnd \in Token /\ Blocks!SOURCE_ANCHOR \in Token
        /\ <<"words", "header">> \in Token /\ Blocks!Import(theme) \in Token
    BY <1>3 DEF Token
  <2> QED BY <1>1, <2>1
<1>10. Shaped(text) BY <1>2, <1>6, <1>7, <1>8 DEF Shaped, Name
<1>11. ASSUME NEW tokens \in Singles PROVE Once(text, tokens)
  <2>1. CASE tokens = ThemeImports
    <3>1. \A i \in 1..6 : text[i] \in tokens => i = 1 BY <1>3, <1>6, <1>8, <2>1
    <3> QED BY <1>2, <3>1 DEF Once
  <2>2. CASE tokens = {Blocks!SOURCE_ANCHOR}
    <3>1. /\ Blocks!LineEnd # Blocks!SOURCE_ANCHOR /\ <<"words", "header">> # Blocks!SOURCE_ANCHOR
          /\ Blocks!Import(theme) # Blocks!SOURCE_ANCHOR
      BY <1>3, PlainFacts
    <3>2. \A i \in 1..6 : text[i] \in tokens => i = 3 BY <1>2, <1>4, <2>2, <3>1
    <3> QED BY <1>2, <3>2 DEF Once
  <2>3. ASSUME NEW n \in Name, tokens = {Blocks!Start(n)} PROVE Once(text, tokens)
    <3>1. \A i \in 1..6 : text[i] \notin tokens BY <1>6, <1>7, <1>8, <2>3
    <3> QED BY <1>2, <3>1 DEF Once
  <2> QED BY <2>1, <2>2, <2>3 DEF Singles
<1>12. \E i \in DOMAIN text : text[i] \in ThemeImports BY <1>2, <1>3
<1> QED BY <1>9, <1>10, <1>11, <1>12 DEF Tidy, text

(* Words of a person, and nothing where the anchor was.                    *)
LEMMA PlainTidy ==
  ASSUME NEW block \in Seq({Words, Blocks!LineEnd})
  PROVE  /\ block \in Seq(Token) /\ Shaped(block)
         /\ \A tokens \in Singles, i \in DOMAIN block : block[i] \notin tokens
<1>1. \A i \in DOMAIN block : block[i] \in {Words, Blocks!LineEnd} OBVIOUS
<1>2. \A t \in {Words, Blocks!LineEnd} :
        /\ t \in Token /\ t # Blocks!SOURCE_ANCHOR
        /\ \A n \in Name : t # Blocks!Start(n) /\ t # Blocks!End(n) /\ t \notin Body(n)
  BY PlainFacts
<1>3. block \in Seq(Token)
  <2>1. {Words, Blocks!LineEnd} \subseteq Token BY <1>2
  <2> QED BY <2>1
<1>4. Shaped(block) BY <1>1, <1>2 DEF Shaped, Name
<1>5. \A tokens \in Singles, i \in DOMAIN block : block[i] \notin tokens
  <2>1. ThemeImports = Body("theme") /\ "theme" \in Name BY DEF Body, Name
  <2> QED BY <1>1, <1>2, <2>1 DEF Singles
<1> QED BY <1>3, <1>4, <1>5

LEMMA EditedTidy ==
  ASSUME Tidy(css), NEW edit \in CssEdits, NEW after \in Edited(edit)
  PROVE  Tidy(after)
<1>0. css \in Seq(Token) BY DEF Tidy
<1>1. edit \in {"words", "drop", "theme", "anchor"} BY ContractsAssumption
<1>2. CASE edit = "words"
  <2> DEFINE block == <<Words, Blocks!LineEnd>>
  <2>1. PICK i \in DOMAIN css : css[i] = Blocks!LineEnd /\ after = Insert(css, i, block)
    BY <1>2 DEF Edited
  <2>2. block \in Seq({Words, Blocks!LineEnd}) OBVIOUS
  <2> HIDE DEF block
  <2>3. /\ block \in Seq(Token) /\ Shaped(block)
        /\ \A tokens \in Singles, k \in DOMAIN block : block[k] \notin tokens
    BY <2>2, PlainTidy
  <2>4. i \in Int /\ (i + 1) - 1 = i BY <1>0
  <2>5. after = Blocks!Splice(css, i + 1, i, block) BY <2>1, <2>4 DEF Insert, Blocks!Splice
  <2>6. Clear(css, i + 1, i) /\ Between(css, i + 1, i)
    <3>1. \A n \in Name : css[i] # Blocks!Start(n) /\ css[i] # Blocks!End(n) /\ css[i] \notin Body(n)
      BY <2>1, PlainFacts
    <3> QED BY <3>1, ClearAt
  <2>7. \E k \in DOMAIN css : css[k] \in ThemeImports /\ (k < i + 1 \/ k > i)
    <3>1. PICK k \in DOMAIN css : css[k] \in ThemeImports BY DEF Tidy
    <3>2. k \in Int BY <1>0
    <3> QED BY <2>4, <3>1, <3>2
  <2>8. \A tokens \in Singles : Once(block, tokens) BY <2>3 DEF Once
  <2> DEFINE first == i + 1
  <2>9. /\ after = Blocks!Splice(css, first, i, block) /\ Clear(css, first, i) /\ Between(css, first, i)
        /\ \E k \in DOMAIN css : css[k] \in ThemeImports /\ (k < first \/ k > i)
    BY <2>5, <2>6, <2>7
  <2> HIDE DEF first
  <2> QED BY <2>3, <2>8, <2>9, SpliceTidy
<1>3. CASE edit = "drop"
  <2>1. PICK n \in {"brand", "fonts"} : after = Blocks!remove_block(css, n)
    BY <1>3 DEF Edited
  <2> QED BY <2>1, RemoveBlockFacts
<1>4. CASE edit = "theme"
  <2>1. PICK i \in Blocks!Imports(css, Themes), theme \in Themes :
          after = [css EXCEPT ![i] = Blocks!Import(theme)]
    BY <1>4 DEF Edited
  <2>2. /\ i \in DOMAIN css /\ css[i] \in Body("theme") /\ Blocks!Import(theme) \in Body("theme")
        /\ "theme" \in Name
    BY <2>1 DEF Blocks!Imports, Body, ThemeImports, Name
  <2> QED BY <2>1, <2>2, ExceptTidy
<1>5. CASE edit = "anchor"
  <2> DEFINE none == <<>>
  <2>1. PICK i \in DOMAIN css : css[i] = Blocks!SOURCE_ANCHOR /\ after = Blocks!Splice(css, i, i, none)
    BY <1>5 DEF Edited, Blocks!Positions
  <2>2. none \in Seq({Words, Blocks!LineEnd}) OBVIOUS
  <2> HIDE DEF none
  <2>3. /\ none \in Seq(Token) /\ Shaped(none)
        /\ \A tokens \in Singles, k \in DOMAIN none : none[k] \notin tokens
    BY <2>2, PlainTidy
  <2>4. \A n \in Name : css[i] # Blocks!Start(n) /\ css[i] # Blocks!End(n) /\ css[i] \notin Body(n)
    BY <2>1, PlainFacts
  <2>5. Clear(css, i, i) /\ Between(css, i, i) BY <2>4, ClearAt
  <2>6. \E k \in DOMAIN css : css[k] \in ThemeImports /\ (k < i \/ k > i)
    <3>1. PICK k \in DOMAIN css : css[k] \in ThemeImports BY DEF Tidy
    <3>2. k # i
      <4>1. ThemeImports = Body("theme") /\ "theme" \in Name BY DEF Body, Name
      <4> QED BY <2>4, <3>1, <4>1
    <3>3. k \in Int /\ i \in Int BY <1>0
    <3> QED BY <3>1, <3>2, <3>3
  <2>7. \A tokens \in Singles : Once(none, tokens) BY <2>3 DEF Once
  <2> QED BY <2>1, <2>3, <2>5, <2>6, <2>7, SpliceTidy
<1> QED BY <1>1, <1>2, <1>3, <1>4, <1>5

LEMMA BuildKeeps ==
  ASSUME Inv, NEW c \in Contracts, toml' = c, Build(c)
  PROVE  Inv' /\ Built'
<1>1. PICK served \in Served(Downloads(c)) :
        LET end == Outcome(c, served)
        IN  /\ font' = end.font /\ script' = end.script /\ notice' = end.notice /\ css' \in end.css
            /\ Done(IF end.ok THEN "built" ELSE "command")
            /\ UNCHANGED <<headers, themes>>
  BY DEF Build
<1> DEFINE compiled == compile_contract(c, css)
           ready    == compiled # {} /\ c.header \in headers
           fonts    == ensure_fonts(c, served)
           motion   == ensure_motion(c.level, served)
           ok       == ready /\ fonts.ok /\ motion.ok
<1>2. /\ font' = [role \in Roles |-> IF ready /\ role \in fonts.got THEN "valid" ELSE font[role]]
      /\ script' = IF ready /\ fonts.ok THEN motion.script ELSE script
      /\ notice' = IF ready /\ fonts.ok THEN motion.notice ELSE notice
      /\ (ok /\ css' \in compiled) \/ (~ok /\ css' = css)
      /\ last' = IF ok THEN "built" ELSE "command"
      /\ headers' = headers
  BY <1>1 DEF Outcome, Done
<1>3. /\ \A l \in Libraries : Whole(l, motion.script) => l \in motion.notice
      /\ motion.ok => missing_files(c.level, motion.script) = {}
  BY MotionFacts DEF Inv
<1>4. \A role \in c.fonts : fonts.ok => font[role] = "valid" \/ role \in fonts.got BY FontsFacts
<1>5. css' \in compiled => Readable(c) /\ Tidy(css') /\ Settled(c, css') BY CompileFacts DEF Inv
<1> HIDE DEF compiled, fonts, motion
<1>6. Inv'
  <2>1. Tidy(css)' BY <1>2, <1>5 DEF Inv
  <2>2. toml' \in Contracts OBVIOUS
  <2>3. font' \in [Roles -> {"absent", "valid", "corrupt"}] BY <1>2 DEF Inv
  <2>4. (headers \subseteq Headers)' BY <1>2 DEF Inv
  <2>5. NoticeKeepsUp' BY <1>2, <1>3 DEF Inv, NoticeKeepsUp
  <2> QED BY <2>1, <2>2, <2>3, <2>4, <2>5 DEF Inv
<1>7. ASSUME ok
      PROVE  /\ toml' \in Contracts /\ Readable(toml') /\ Settled(toml', css')
             /\ \A role \in toml'.fonts : font'[role] = "valid"
             /\ missing_files(toml'.level, script') = {}
             /\ toml'.header \in headers'
  <2>1. Readable(toml') /\ Settled(toml', css') BY <1>2, <1>5, <1>7
  <2>2. ASSUME NEW role \in c.fonts PROVE font'[role] = "valid"
    <3>1. role \in Roles BY DEF Roles
    <3> QED BY <1>2, <1>4, <1>7, <3>1
  <2>3. missing_files(c.level, script') = {} BY <1>2, <1>3, <1>7
  <2> QED BY <1>2, <1>7, <2>1, <2>2, <2>3
<1>8. last' = "built" => ok BY <1>2
<1> QED BY <1>6, <1>7, <1>8 DEF Built

(* Every step keeps it.                                                    *)
LEMMA PersonKeeps ==
  ASSUME Inv, Person
  PROVE  Inv' /\ Built'
<1>1. last' = "person"
  BY DEF Person, EditToml, EditCss, LoseFont, LoseScript, LoseHeader, LoseTheme, Upgrade,
         UpdateBasecoat, By
<1>2. ASSUME EditToml PROVE Inv' BY <1>2 DEF EditToml, Inv, NoticeKeepsUp
<1>3. ASSUME EditCss PROVE Inv'
  <2>1. Tidy(css)' BY <1>3, EditedTidy DEF EditCss, Inv
  <2> QED BY <1>3, <2>1 DEF EditCss, Inv, NoticeKeepsUp
<1>4. ASSUME LoseFont PROVE Inv' BY <1>4 DEF LoseFont, Inv, NoticeKeepsUp
<1>5. ASSUME LoseScript PROVE Inv'
  <2>1. NoticeKeepsUp' BY <1>5 DEF LoseScript, Inv, NoticeKeepsUp, Whole
  <2> QED BY <1>5, <2>1 DEF LoseScript, Inv
<1>6. ASSUME Upgrade PROVE Inv'
  <2>1. NoticeKeepsUp' BY <1>6, LibraryFacts DEF Upgrade, Inv, NoticeKeepsUp, Whole
  <2> QED BY <1>6, <2>1 DEF Upgrade, Inv
<1>7. ASSUME LoseHeader PROVE Inv' BY <1>7 DEF LoseHeader, Inv, NoticeKeepsUp
<1>8. ASSUME LoseTheme \/ UpdateBasecoat PROVE Inv'
  BY <1>8 DEF LoseTheme, UpdateBasecoat, Inv, NoticeKeepsUp
<1>9. Inv' BY <1>2, <1>3, <1>4, <1>5, <1>6, <1>7, <1>8 DEF Person
<1> QED BY <1>1, <1>9 DEF Built

LEMMA RefusedKeeps ==
  ASSUME Inv, Refused
  PROVE  Inv' /\ Built'
<1>1. Inv' BY DEF Refused, Inv, NoticeKeepsUp
<1>2. last' = "command" BY DEF Refused, Done
<1> QED BY <1>1, <1>2 DEF Built

LEMMA CommandKeeps ==
  ASSUME Inv, Command
  PROVE  Inv' /\ Built'
<1>1. CASE DesignBuild
  <2>1. CASE Refused BY <2>1, RefusedKeeps
  <2>2. CASE toml \notin {NoFile, Invalid} /\ Build(toml) /\ UNCHANGED toml
    <3>1. toml \in Contracts BY <2>2 DEF Inv
    <3> QED BY <2>2, <3>1, BuildKeeps
  <2> QED BY <1>1, <2>1, <2>2 DEF DesignBuild
<1>2. CASE EditAndBuild
  <2>1. CASE Refused BY <2>1, RefusedKeeps
  <2>2. ASSUME NEW c \in Edits(load_contract), toml' = c, Build(c) PROVE Inv' /\ Built'
    <3>1. c \in Contracts BY DEF Edits
    <3> QED BY <2>2, <3>1, BuildKeeps
  <2> QED BY <1>2, <2>1, <2>2 DEF EditAndBuild
<1>3. CASE DesignInit
  <2>1. CASE Refused BY <2>1, RefusedKeeps
  <2>2. ASSUME NEW c \in {Default, Preset}, toml' = c, Build(c) PROVE Inv' /\ Built'
    <3>1. c \in Contracts BY ContractsAssumption
    <3> QED BY <2>2, <3>1, BuildKeeps
  <2> QED BY <1>3, <2>1, <2>2 DEF DesignInit
<1>4. CASE VendorLibrary
  <2>1. PICK lib \in Libraries : \E served \in Served(ToSet(Vendored(lib))) :
          /\ script' = vendor_library(lib, script, served).script
          /\ notice' = vendor_library(lib, script, served).notice
          /\ Done("command") /\ UNCHANGED <<toml, css, font, headers, themes>>
    BY <1>4 DEF VendorLibrary
  <2>2. PICK served \in Served(ToSet(Vendored(lib))) :
          /\ script' = vendor_library(lib, script, served).script
          /\ notice' = vendor_library(lib, script, served).notice
          /\ Done("command") /\ UNCHANGED <<toml, css, font, headers, themes>>
    BY <2>1
  <2>3. \A l \in Libraries : Whole(l, script') => l \in notice' BY <2>2, VendorKeepsNotice DEF Inv
  <2>4. NoticeKeepsUp' BY <2>3 DEF NoticeKeepsUp
  <2>5. Inv' BY <2>2, <2>4 DEF Inv
  <2>6. last' = "command" BY <2>2 DEF Done
  <2> QED BY <2>5, <2>6 DEF Built
<1> QED BY <1>1, <1>2, <1>3, <1>4 DEF Command

LEMMA Initially ==
  ASSUME Init
  PROVE  Inv /\ Built
<1>1. Tidy(css) BY OriginalTidy DEF Init
<1>2. toml \in Contracts \cup {NoFile} BY ContractsAssumption DEF Init
<1>3. NoticeKeepsUp
  <2>1. \A l \in Libraries : ~ Whole(l, OwnScripts)
    <3>1. \A l \in Libraries : ToSet(Vendored(l)) # {}
      <4>1. Vendored("motion") = <<"motion.min.js">> BY DEF Vendored
      <4>2. Vendored("gsap") = <<"gsap.min.js", "ScrollTrigger.min.js">> BY DEF Vendored
      <4>3. "motion.min.js" \in ToSet(Vendored("motion")) BY <4>1 DEF ToSet
      <4>4. "gsap.min.js" \in ToSet(Vendored("gsap")) BY <4>2 DEF ToSet
      <4> QED BY <4>3, <4>4 DEF Libraries
    <3> QED BY <3>1, LibraryFacts DEF Whole
  <2> QED BY <2>1 DEF Init, NoticeKeepsUp
<1> QED BY <1>1, <1>2, <1>3 DEF Init, Inv, Built

(* Whatever people edit or lose, and whatever fails to download, the style *)
(* sheet stays one that every command can compile, and a build that        *)
(* succeeded has compiled it (compile_contract, build).                    *)
THEOREM Invariant == Spec => [](Inv /\ Built)
<1>1. Init => Inv /\ Built BY Initially
<1>2. Inv /\ Built /\ [Next]_vars => Inv' /\ Built'
  <2> SUFFICES ASSUME Inv, Built, [Next]_vars PROVE Inv' /\ Built' OBVIOUS
  <2>1. CASE Command BY <2>1, CommandKeeps
  <2>2. CASE Person BY <2>2, PersonKeeps
  <2>3. CASE UNCHANGED vars
    BY <2>3 DEF vars, Inv, NoticeKeepsUp, Built
  <2> QED BY <2>1, <2>2, <2>3 DEF Next
<1> QED BY <1>1, <1>2, PTL DEF Spec

(* A library the commands installed is in NOTICE.md, with its licence      *)
(* (vendor_library, write_notice).                                         *)
THEOREM NoticesKeptUp == Spec => []NoticeKeepsUp
<1>1. Inv => NoticeKeepsUp BY DEF Inv
<1> QED BY <1>1, Invariant, PTL

(* After a build that succeeded the check can report an identity that is   *)
(* still the default and a theme that is not vendored, and nothing else;   *)
(* another build would change nothing (build, run_checks,                  *)
(* compile_contract).                                                      *)
THEOREM BuildsSettle == Spec => []BuildSettles
<1>1. ASSUME Inv, Built PROVE BuildSettles
  <2> SUFFICES ASSUME last = "built"
               PROVE  /\ run_checks \ {"defaults"} = IF toml.theme \in themes THEN {} ELSE {"theme"}
                      /\ compile_contract(toml, css) = {css}
                      /\ missing_files(toml.level, script) = {}
    BY DEF BuildSettles
  <2>1. /\ toml \in Contracts /\ Readable(toml) /\ Settled(toml, css)
        /\ \A role \in toml.fonts : font[role] = "valid"
        /\ missing_files(toml.level, script) = {} /\ toml.header \in headers
    BY <1>1 DEF Built
  <2>2. compile_contract(toml, css) = {css} BY <1>1, <2>1, CompileSettled DEF Inv
  <2>3. toml \notin {NoFile, Invalid} BY <2>1, ContractsAssumption
  <2>4. run_checks = (IF toml = Default THEN {"defaults"} ELSE {})
                     \cup (IF toml.theme \in themes THEN {} ELSE {"theme"})
    BY <2>1, <2>2, <2>3 DEF run_checks
  <2> QED BY <2>1, <2>2, <2>4
<1> QED BY <1>1, Invariant, PTL

(* A library whose scripts are all there is loaded.                        *)
LEMMA NothingMissing ==
  ASSUME NEW level, missing_files(level, script) = {}
  PROVE  scripts_for(level, script) = OwnFiles(engine_for(level)) \cup ToSet(Vendored(engine_for(level)))
<1> DEFINE engine == engine_for(level)
<1>1. OwnFiles(engine) \subseteq script /\ ToSet(Vendored(engine)) \subseteq script
  BY DEF missing_files
<1>2. scripts_for(level, script) =
        IF engine = "css" THEN {}
        ELSE ({CORE_SCRIPT} \cap script)
             \cup (IF ToSet(Vendored(engine)) \cup Adapter(engine) \subseteq script
                     THEN ToSet(Vendored(engine)) \cup Adapter(engine) ELSE {})
  BY DEF scripts_for
<1> HIDE DEF engine
<1>3. CASE engine = "css"
  <2>1. Vendored(engine) = <<>> BY <1>3 DEF Vendored
  <2>2. ToSet(Vendored(engine)) = {} BY <2>1 DEF ToSet
  <2> QED BY <1>2, <1>3, <2>2 DEF OwnFiles, engine
<1>4. CASE engine # "css" BY <1>1, <1>2, <1>4 DEF OwnFiles, engine
<1> QED BY <1>3, <1>4

(* When the check reports no error, the identity the project declares is   *)
(* the one it ships, whatever was edited, lost or built before             *)
(* (run_checks, scripts_for).                                              *)
THEOREM PassedIsShipped == Spec => []PassedCheckIsShipped
<1>1. ASSUME Inv PROVE PassedCheckIsShipped
  <2> SUFFICES ASSUME run_checks = {} PROVE Shipped(toml) BY DEF PassedCheckIsShipped
  <2> DEFINE compiled == compile_contract(toml, css)
  <2>1. toml \in Contracts BY <1>1 DEF run_checks, Inv
  <2>2. toml \notin {NoFile, Invalid} BY <2>1, ContractsAssumption
  <2>3. /\ toml # Default /\ compiled # {} /\ (compiled \in {{}, {css}} \/ pristine(toml))
        /\ ~ (\E role \in toml.fonts : font[role] # "valid")
        /\ missing_files(toml.level, script) = {}
        /\ toml.header \in headers /\ toml.theme \in themes
    BY <2>2 DEF run_checks
  <2>4. css \in compiled BY <2>3 DEF pristine
  <2>5. Settled(toml, css) BY <1>1, <2>1, <2>4, CompileFacts DEF Inv
  <2>6. /\ Effective("import") = Blocks!Import(toml.theme)
        /\ Effective("root") = <<"root", toml.primary, toml.surface>>
        /\ Effective("faces") = IF toml.fonts = {} THEN <<>> ELSE <<"faces", toml.fonts>>
    BY <1>1, <2>1, <2>5, SettledIsEffective DEF Inv
  <2>7. scripts_for(toml.level, script)
          = OwnFiles(engine_for(toml.level)) \cup ToSet(Vendored(engine_for(toml.level)))
    BY <2>3, NothingMissing
  <2> QED BY <2>3, <2>6, <2>7 DEF Shipped
<1> QED BY <1>1, Invariant, PTL
=============================================================================
