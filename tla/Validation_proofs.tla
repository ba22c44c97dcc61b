------------------------- MODULE Validation_proofs -------------------------
(***************************************************************************)
(* For any texts, limits and bodies: what the checks let in reads as the   *)
(* messages say, what they refuse does not, and the limit on a body is the *)
(* coarser one.  Each check is first shown to be the condition it stands   *)
(* for; the rest is one invariant of the row.                              *)
(***************************************************************************)
EXTENDS Validation, TLAPS, FiniteSetTheorems, SequenceTheorems,
  WellFoundedInduction

-----------------------------------------------------------------------------
(* Least and greatest numbers.                                             *)

LEMMA LeastExists ==
  ASSUME NEW S \in SUBSET Nat, S # {}
  PROVE  \E x \in S : \A y \in S : x <= y
<1> DEFINE R == OpToRel(<, Nat)
<1>1. IsWellFoundedOn(R, Nat)
    BY NatLessThanWellFounded
<1>2. \A x, y \in Nat : y < x => <<y, x>> \in R
    BY DEF OpToRel
<1> HIDE DEF R
<1>3. PICK x \in S : \A y \in S : ~ (<<y, x>> \in R)
    BY <1>1, WFMin
<1>4. ASSUME NEW y \in S PROVE x <= y
    <2>1. x \in Nat /\ y \in Nat
        OBVIOUS
    <2>2. ~(y < x)
        BY <1>2, <1>3, <2>1
    <2> QED BY <2>1, <2>2
<1> QED BY <1>4

LEMMA MinIsLeast ==
  ASSUME NEW S \in SUBSET Nat, S # {}
  PROVE  Min(S) \in S /\ \A y \in S : Min(S) <= y
BY LeastExists DEF Min

LEMMA GreatestBelow ==
  ASSUME NEW S \in SUBSET Nat, NEW m \in Nat, NEW z \in S, z < m
  PROVE  \E x \in S : x < m /\ \A y \in S : y < m => y <= x
<1> DEFINE T == {m - x : x \in {y \in S : y < m}}
<1>1. T \in SUBSET Nat
    OBVIOUS
<1>2. m - z \in T
    OBVIOUS
<1>3. PICK t \in T : \A u \in T : t <= u
    BY <1>1, <1>2, LeastExists
<1>4. PICK x \in S : x < m /\ t = m - x
    OBVIOUS
<1>5. ASSUME NEW y \in S, y < m PROVE y <= x
    <2>1. m - y \in T
        BY <1>5
    <2>2. m - x <= m - y
        BY <1>3, <1>4, <2>1
    <2>3. x \in Nat /\ y \in Nat
        OBVIOUS
    <2> QED BY <2>2, <2>3
<1> QED BY <1>4, <1>5

-----------------------------------------------------------------------------
(* Checks one after the other.                                             *)

\* What a row of checks says is what one of them says, and is "ok" if all are.
LEMMA FirstRefusalFacts ==
  ASSUME NEW n \in Nat, NEW c, DOMAIN c = 1 .. n
  PROVE  /\ FirstRefusal(c) = "ok" <=> \A i \in 1 .. n : c[i] = "ok"
         /\ FirstRefusal(c) # "ok" => \E i \in 1 .. n : FirstRefusal(c) = c[i]
<1> DEFINE refusing == {i \in DOMAIN c : c[i] # "ok"}
<1>1. CASE refusing = {}
    BY <1>1 DEF FirstRefusal
<1>2. CASE refusing # {}
    <2>1. refusing \in SUBSET Nat
        OBVIOUS
    <2>2. Min(refusing) \in refusing
        BY <1>2, <2>1, MinIsLeast
    <2>3. FirstRefusal(c) = c[Min(refusing)]
        BY <1>2 DEF FirstRefusal
    <2> QED BY <1>2, <2>2, <2>3
<1> QED BY <1>1, <1>2

\* In particular of two, three and so on, as the handlers have them.
LEMMA TwoChecks ==
  ASSUME NEW a, NEW b
  PROVE  /\ FirstRefusal(<<a, b>>) = "ok" <=> a = "ok" /\ b = "ok"
         /\ FirstRefusal(<<a, b>>) \in {"ok", a, b}
<1> DEFINE c == <<a, b>>
<1>1. DOMAIN c = 1 .. 2 /\ c[1] = a /\ c[2] = b
    OBVIOUS
<1> HIDE DEF c
<1>2. \A i \in 1 .. 2 : i \in {1, 2}
    OBVIOUS
<1>3. 2 \in Nat /\ {1, 2} \subseteq 1 .. 2
    OBVIOUS
<1>4. /\ FirstRefusal(c) = "ok" <=> \A i \in 1 .. 2 : c[i] = "ok"
      /\ FirstRefusal(c) # "ok" => \E i \in 1 .. 2 : FirstRefusal(c) = c[i]
    BY <1>1, <1>3, FirstRefusalFacts
<1>5. (\A i \in 1 .. 2 : c[i] = "ok") <=> a = "ok" /\ b = "ok"
    BY <1>1, <1>2, <1>3
<1>6. \A i \in 1 .. 2 : c[i] \in {a, b}
    BY <1>1, <1>2
<1>7. FirstRefusal(c) \in {"ok", a, b}
    BY <1>4, <1>6
<1> QED BY <1>4, <1>5, <1>7 DEF c

LEMMA ThreeChecks ==
  ASSUME NEW a, NEW b, NEW d
  PROVE  /\ FirstRefusal(<<a, b, d>>) = "ok" <=> a = "ok" /\ b = "ok" /\ d = "ok"
         /\ FirstRefusal(<<a, b, d>>) \in {"ok", a, b, d}
<1> DEFINE c == <<a, b, d>>
<1>1. DOMAIN c = 1 .. 3 /\ c[1] = a /\ c[2] = b /\ c[3] = d
    OBVIOUS
<1> HIDE DEF c
<1>2. \A i \in 1 .. 3 : i \in {1, 2, 3}
    OBVIOUS
<1>3. 3 \in Nat /\ {1, 2, 3} \subseteq 1 .. 3
    OBVIOUS
<1>4. /\ FirstRefusal(c) = "ok" <=> \A i \in 1 .. 3 : c[i] = "ok"
      /\ FirstRefusal(c) # "ok" => \E i \in 1 .. 3 : FirstRefusal(c) = c[i]
    BY <1>1, <1>3, FirstRefusalFacts
<1>5. (\A i \in 1 .. 3 : c[i] = "ok") <=> a = "ok" /\ b = "ok" /\ d = "ok"
    BY <1>1, <1>2, <1>3
<1>6. \A i \in 1 .. 3 : c[i] \in {a, b, d}
    BY <1>1, <1>2
<1>7. FirstRefusal(c) \in {"ok", a, b, d}
    BY <1>4, <1>6
<1> QED BY <1>4, <1>5, <1>7 DEF c

LEMMA FourChecks ==
  ASSUME NEW a, NEW b, NEW d, NEW e
  PROVE  /\ FirstRefusal(<<a, b, d, e>>) = "ok" <=>
              a = "ok" /\ b = "ok" /\ d = "ok" /\ e = "ok"
         /\ FirstRefusal(<<a, b, d, e>>) \in {"ok", a, b, d, e}
<1> DEFINE c == <<a, b, d, e>>
<1>1. DOMAIN c = 1 .. 4 /\ c[1] = a /\ c[2] = b /\ c[3] = d /\ c[4] = e
    OBVIOUS
<1> HIDE DEF c
<1>2. \A i \in 1 .. 4 : i \in {1, 2, 3, 4}
    OBVIOUS
<1>3. 4 \in Nat /\ {1, 2, 3, 4} \subseteq 1 .. 4
    OBVIOUS
<1>4. /\ FirstRefusal(c) = "ok" <=> \A i \in 1 .. 4 : c[i] = "ok"
      /\ FirstRefusal(c) # "ok" => \E i \in 1 .. 4 : FirstRefusal(c) = c[i]
    BY <1>1, <1>3, FirstRefusalFacts
<1>5. (\A i \in 1 .. 4 : c[i] = "ok") <=> a = "ok" /\ b = "ok" /\ d = "ok" /\ e = "ok"
    BY <1>1, <1>2, <1>3
<1>6. \A i \in 1 .. 4 : c[i] \in {a, b, d, e}
    BY <1>1, <1>2
<1>7. FirstRefusal(c) \in {"ok", a, b, d, e}
    BY <1>4, <1>6
<1> QED BY <1>4, <1>5, <1>7 DEF c

LEMMA FiveChecks ==
  ASSUME NEW a, NEW b, NEW d, NEW e, NEW f
  PROVE  /\ FirstRefusal(<<a, b, d, e, f>>) = "ok" <=>
              a = "ok" /\ b = "ok" /\ d = "ok" /\ e = "ok" /\ f = "ok"
         /\ FirstRefusal(<<a, b, d, e, f>>) \in {"ok", a, b, d, e, f}
<1> DEFINE c == <<a, b, d, e, f>>
<1>1. DOMAIN c = 1 .. 5 /\ c[1] = a /\ c[2] = b /\ c[3] = d /\ c[4] = e /\ c[5] = f
    OBVIOUS
<1> HIDE DEF c
<1>2. \A i \in 1 .. 5 : i \in {1, 2, 3, 4, 5}
    OBVIOUS
<1>3. 5 \in Nat /\ {1, 2, 3, 4, 5} \subseteq 1 .. 5
    OBVIOUS
<1>4. /\ FirstRefusal(c) = "ok" <=> \A i \in 1 .. 5 : c[i] = "ok"
      /\ FirstRefusal(c) # "ok" => \E i \in 1 .. 5 : FirstRefusal(c) = c[i]
    BY <1>1, <1>3, FirstRefusalFacts
<1>5. (\A i \in 1 .. 5 : c[i] = "ok") <=> a = "ok" /\ b = "ok" /\ d = "ok" /\ e = "ok" /\ f = "ok"
    BY <1>1, <1>2, <1>3
<1>6. \A i \in 1 .. 5 : c[i] \in {a, b, d, e, f}
    BY <1>1, <1>2
<1>7. FirstRefusal(c) \in {"ok", a, b, d, e, f}
    BY <1>4, <1>6
<1> QED BY <1>4, <1>5, <1>7 DEF c

-----------------------------------------------------------------------------
(* Lengths.                                                                *)

LEMMA CountOf ==
  ASSUME NEW t \in Seq(Characters), NEW ch
  PROVE  /\ Len(t) \in Nat /\ DOMAIN t = 1 .. Len(t)
         /\ Cardinality({i \in DOMAIN t : t[i] = ch}) \in Nat
<1>1. Len(t) \in Nat /\ DOMAIN t = 1 .. Len(t)
    OBVIOUS
<1>2. IsFiniteSet(DOMAIN t)
    BY <1>1, FS_Interval
<1>3. {i \in DOMAIN t : t[i] = ch} \in SUBSET DOMAIN t
    OBVIOUS
<1>4. IsFiniteSet({i \in DOMAIN t : t[i] = ch})
    BY <1>2, <1>3, FS_Subset
<1> QED BY <1>1, <1>4, FS_CardinalityType

\* Bytes are no fewer than characters, and as many where all is ASCII.
LEMMA BytesAndCharacters ==
  ASSUME NEW t \in Seq(Characters)
  PROVE  /\ Bytes(t) \in Nat /\ Bytes(t) >= Len(t)
         /\ Ascii(t) => Bytes(t) = Len(t)
<1> DEFINE wide == {i \in DOMAIN t : t[i] = "ae"}
<1>1. Len(t) \in Nat /\ Cardinality(wide) \in Nat
    BY CountOf
<1>2. Bytes(t) = Len(t) + Cardinality(wide)
    BY DEF Bytes
<1>3. Ascii(t) => wide = {}
    BY DEF Ascii
<1>4. Cardinality({}) = 0
    BY FS_EmptySet
<1> HIDE DEF wide
<1> QED BY <1>1, <1>2, <1>3, <1>4

\* What a document takes up in JSON beyond its bytes is its line breaks.
LEMMA EncodedLength ==
  ASSUME NEW t \in Seq(Characters)
  PROVE  /\ Cardinality(LineBreaks(t)) \in Nat
         /\ Encoded(t) = Bytes(t) + Cardinality(LineBreaks(t))
BY CountOf DEF LineBreaks, Encoded

\* What is made of the characters of a slug is ASCII.
LEMMA SlugCharactersAreAscii ==
  ASSUME NEW t \in Seq(Characters), ~OtherCharacter(t)
  PROVE  Bytes(t) = Len(t)
<1>1. Ascii(t)
    BY DEF OtherCharacter, SlugCharacter, Ascii
<1> QED BY <1>1, BytesAndCharacters

-----------------------------------------------------------------------------
(* What each check lets through.                                           *)

LEMMA ValidateLenFacts ==
  ASSUME NEW t \in Seq(Characters), NEW max \in Nat
  PROVE  /\ ValidateLen(t, max) # "edge"
         /\ ValidateLen(t, max) = "ok" => Fits(t, max)
         /\ Fits(t, max) /\ Ascii(t) => ValidateLen(t, max) = "ok"
<1> DEFINE a == Refused(OnlyBlanks(t), "required")
           b == Refused(TooLong(t, max), "too long")
<1>1. ValidateLen(t, max) = FirstRefusal(<<a, b>>)
    BY DEF ValidateLen
<1>2. a \in {"ok", "required"} /\ b \in {"ok", "too long"}
      /\ (a = "ok" <=> ~OnlyBlanks(t)) /\ (b = "ok" <=> ~TooLong(t, max))
    BY DEF Refused
<1> HIDE DEF a, b
<1>3. /\ ValidateLen(t, max) # "edge"
      /\ ValidateLen(t, max) = "ok" <=> ~OnlyBlanks(t) /\ ~TooLong(t, max)
    BY <1>1, <1>2, TwoChecks
<1>4. Len(t) \in Nat /\ Bytes(t) \in Nat /\ Bytes(t) >= Len(t)
      /\ (Ascii(t) => Bytes(t) = Len(t))
    BY BytesAndCharacters
<1> QED BY <1>3, <1>4 DEF Fits, OnlyBlanks, TooLong

LEMMA ValidateYamlFacts ==
  ASSUME NEW t \in Seq(Characters)
  PROVE  /\ ValidateYaml(t) # "edge"
         /\ ValidateYaml(t) = "ok" => Fits(t, MaxYaml) /\ Bytes(t) <= MaxYaml
         /\ Fits(t, MaxYaml) /\ Ascii(t) => ValidateYaml(t) = "ok"
<1> DEFINE a == Refused(OnlyBlanks(t), "required")
           b == Refused(Bytes(t) > MaxYaml, "too large")
<1>1. ValidateYaml(t) = FirstRefusal(<<a, b>>)
    BY DEF ValidateYaml
<1>2. a \in {"ok", "required"} /\ b \in {"ok", "too large"}
      /\ (a = "ok" <=> ~OnlyBlanks(t)) /\ (b = "ok" <=> ~(Bytes(t) > MaxYaml))
    BY DEF Refused
<1> HIDE DEF a, b
<1>3. /\ ValidateYaml(t) # "edge"
      /\ ValidateYaml(t) = "ok" <=> ~OnlyBlanks(t) /\ ~(Bytes(t) > MaxYaml)
    BY <1>1, <1>2, TwoChecks
<1>4. Len(t) \in Nat /\ Bytes(t) \in Nat /\ Bytes(t) >= Len(t) /\ MaxYaml \in Nat
      /\ (Ascii(t) => Bytes(t) = Len(t))
    BY BytesAndCharacters, ValidationAssumption
<1> QED BY <1>3, <1>4 DEF Fits, OnlyBlanks

LEMMA ValidateChangelogFacts ==
  ASSUME NEW t \in Text \cup {Null}
  PROVE  /\ ValidateChangelog(t) # "edge"
         /\ t = Null \/ (Fits(t, ChangelogMax) /\ Ascii(t)) => ValidateChangelog(t) = "ok"
<1>1. CASE t = Null
    BY <1>1 DEF ValidateChangelog
<1>2. CASE t # Null
    <2>1. t \in Seq(Characters) /\ ChangelogMax \in Nat
        BY <1>2, ValidationAssumption
    <2> QED BY <1>2, <2>1, ValidateLenFacts DEF ValidateChangelog
<1> QED BY <1>1, <1>2

\* A tag is let through if and only if it is one.
LEMMA ValidateTagFacts ==
  ASSUME NEW t \in Seq(Characters)
  PROVE  /\ ValidateTag(t) # "edge"
         /\ ValidateTag(t) = "ok" <=> IsTag(t)
<1> DEFINE a == Refused(t = <<>> \/ Bytes(t) > TagMax, "tag length")
           b == Refused(OtherCharacter(t), "tag characters")
<1>1. ValidateTag(t) = FirstRefusal(<<a, b>>)
    BY DEF ValidateTag
<1>2. a \in {"ok", "tag length"} /\ b \in {"ok", "tag characters"}
      /\ (a = "ok" <=> ~(t = <<>> \/ Bytes(t) > TagMax))
      /\ (b = "ok" <=> ~OtherCharacter(t))
    BY DEF Refused
<1> HIDE DEF a, b
<1>3. /\ ValidateTag(t) # "edge"
      /\ ValidateTag(t) = "ok" <=>
           ~(t = <<>> \/ Bytes(t) > TagMax) /\ ~OtherCharacter(t)
    BY <1>1, <1>2, TwoChecks
<1>4. Len(t) \in Nat /\ Bytes(t) \in Nat /\ TagMax \in Nat /\ (t = <<>> <=> Len(t) = 0)
    BY BytesAndCharacters, ValidationAssumption
<1>5. ~OtherCharacter(t) => Bytes(t) = Len(t)
    BY SlugCharactersAreAscii
<1>6. ~OtherCharacter(t) <=> \A i \in DOMAIN t : SlugCharacter(t[i])
    BY DEF OtherCharacter
<1> QED BY <1>3, <1>4, <1>5, <1>6 DEF IsTag

LEMMA ValidateTagsFacts ==
  ASSUME NEW tags \in Seq(Text)
  PROVE  /\ ValidateTags(tags) # "edge"
         /\ ValidateTags(tags) = "ok" <=>
              Len(tags) <= TagsMax /\ \A i \in DOMAIN tags : IsTag(tags[i])
<1> DEFINE a == Refused(Len(tags) > TagsMax, "tags")
           each == [i \in DOMAIN tags |-> ValidateTag(tags[i])]
           c == <<a>> \o each
           n == Len(tags)
<1>1. n \in Nat /\ DOMAIN tags = 1 .. n /\ TagsMax \in Nat
    BY ValidationAssumption
<1>2. \A i \in 1 .. n : tags[i] \in Seq(Characters)
    BY <1>1, ValidationAssumption
<1>3. \A i \in 1 .. n : ValidateTag(tags[i]) # "edge"
                       /\ (ValidateTag(tags[i]) = "ok" <=> IsTag(tags[i]))
    BY <1>2, ValidateTagFacts
<1>4. a \in {"ok", "tags"} /\ (a = "ok" <=> Len(tags) <= TagsMax)
    BY <1>1 DEF Refused
<1>5. DOMAIN c = 1 .. n + 1 /\ c[1] = a
      /\ \A i \in 1 .. n : c[i + 1] = ValidateTag(tags[i])
    <2> DEFINE V == {ValidateTag(tags[i]) : i \in DOMAIN tags} \cup {a}
    <2>1. each \in Seq(V) /\ Len(each) = n /\ <<a>> \in Seq(V) /\ Len(<<a>>) = 1
        BY <1>1
    <2>2. \A i \in 1 .. n : each[i] = ValidateTag(tags[i])
        BY <1>1
    <2> HIDE DEF a, each, n, V
    <2>3. /\ Len(c) = 1 + n /\ c \in Seq(V)
          /\ c[1] = <<a>>[1] /\ \A i \in 1 .. n : c[i + 1] = each[i]
        BY <1>1, <2>1, ConcatProperties
    <2> QED BY <1>1, <2>2, <2>3
<1> HIDE DEF a, c, n
<1>6. \A i \in 1 .. n + 1 : i = 1 \/ \E j \in 1 .. n : i = j + 1
    <2> SUFFICES ASSUME NEW i \in 1 .. n + 1, i # 1 PROVE \E j \in 1 .. n : i = j + 1
        OBVIOUS
    <2>1. i - 1 \in 1 .. n /\ i = (i - 1) + 1
        BY <1>1
    <2> QED BY <2>1
<1>7. n + 1 \in Nat /\ 1 \in 1 .. n + 1 /\ \A i \in 1 .. n : i + 1 \in 1 .. n + 1
    BY <1>1
<1>8. \A i \in 1 .. n + 1 : c[i] # "edge"
    BY <1>3, <1>4, <1>5, <1>6
<1>9. (\A i \in 1 .. n + 1 : c[i] = "ok") <=>
        Len(tags) <= TagsMax /\ \A i \in 1 .. n : IsTag(tags[i])
    BY <1>3, <1>4, <1>5, <1>6, <1>7
<1>10. ValidateTags(tags) = FirstRefusal(c)
    BY DEF ValidateTags, c, a
<1> QED BY <1>1, <1>5, <1>7, <1>8, <1>9, <1>10, FirstRefusalFacts

-----------------------------------------------------------------------------
(* Slugs.                                                                  *)

LEMMA CutsFacts ==
  ASSUME NEW t \in Seq(Characters), NEW i \in Cuts(t) \ {Len(t) + 1}
  PROVE  /\ i \in 0 .. Len(t) /\ Cuts(t) \subseteq 0 .. Len(t) + 1
         /\ NextCut(t, i) \in Cuts(t) /\ NextCut(t, i) > i
         /\ \A j \in Cuts(t) : j > i => NextCut(t, i) <= j
<1> DEFINE later == {j \in Cuts(t) : j > i}
<1>1. Len(t) \in Nat /\ Cuts(t) \subseteq 0 .. Len(t) + 1 /\ i \in 0 .. Len(t)
    BY DEF Cuts
<1>2. Len(t) + 1 \in Cuts(t)
    BY DEF Cuts
<1>3. later \in SUBSET Nat /\ Len(t) + 1 \in later
    BY <1>1, <1>2
<1>4. Min(later) \in later /\ \A j \in later : Min(later) <= j
    BY <1>3, MinIsLeast
<1> QED BY <1>1, <1>4 DEF NextCut

\* What stands between one cut and the next.
LEMMA Between ==
  ASSUME NEW t \in Seq(Characters), NEW i \in Cuts(t) \ {Len(t) + 1}
  PROVE  Word(SubSeq(t, i + 1, NextCut(t, i) - 1)) <=>
           /\ i + 1 < NextCut(t, i)
           /\ \A m \in i + 1 .. NextCut(t, i) - 1 : t[m] \in {"a", "7"}
<1> DEFINE k == NextCut(t, i)
           u == SubSeq(t, i + 1, k - 1)
<1>1. Len(t) \in Nat /\ i \in Nat /\ k \in Nat /\ i < k /\ k <= Len(t) + 1
    BY CutsFacts
<1> HIDE DEF k
<1>2. /\ Len(u) = k - 1 - i /\ DOMAIN u = 1 .. k - 1 - i
      /\ \A m \in 1 .. k - 1 - i : u[m] = t[i + m]
      /\ u = <<>> <=> k - 1 - i = 0
    <2>1. i + 1 \in 1 .. Len(t) + 1 /\ k - 1 \in i .. Len(t)
        BY <1>1
    <2>2. /\ u \in Seq(Characters)
          /\ Len(u) = IF i + 1 <= k - 1 THEN k - 1 - (i + 1) + 1 ELSE 0
          /\ \A m \in 1 .. (k - 1 - (i + 1) + 1) : u[m] = t[i + 1 + m - 1]
        BY <1>1, <2>1, SubSeqProperties
    <2>3. Len(u) = k - 1 - i
        BY <1>1, <2>2
    <2> HIDE DEF u
    <2>4. \A m \in 1 .. k - 1 - i : u[m] = t[i + m]
        <3> SUFFICES ASSUME NEW m \in 1 .. k - 1 - i PROVE u[m] = t[i + m]
            OBVIOUS
        <3>1. m \in 1 .. (k - 1 - (i + 1) + 1) /\ i + 1 + m - 1 = i + m
            BY <1>1
        <3> QED BY <2>2, <3>1
    <2> QED BY <2>2, <2>3, <2>4
<1> HIDE DEF u
<1>3. Word(u) <=> k - 1 - i # 0 /\ \A m \in 1 .. k - 1 - i : t[i + m] \in {"a", "7"}
    BY <1>2 DEF Word
<1>4. (\A m \in 1 .. k - 1 - i : t[i + m] \in {"a", "7"}) <=>
        \A m \in i + 1 .. k - 1 : t[m] \in {"a", "7"}
    <2>1. \A m \in 1 .. k - 1 - i : i + m \in i + 1 .. k - 1
        BY <1>1
    <2>2. \A m \in i + 1 .. k - 1 : m - i \in 1 .. k - 1 - i /\ i + (m - i) = m
        BY <1>1
    <2> QED BY <2>1, <2>2
<1>5. k - 1 - i # 0 <=> i + 1 < k
    BY <1>1
<1> QED BY <1>3, <1>4, <1>5 DEF u, k

\* The dashes and characters that the checks look at are those of words joined
\* by single dashes.
LEMMA SlugIsWords ==
  ASSUME NEW t \in Seq(Characters)
  PROVE  t # <<>> /\ ~OtherCharacter(t) /\ ~StrayDash(t) <=>
         \A i \in Cuts(t) \ {Len(t) + 1} : Word(SubSeq(t, i + 1, NextCut(t, i) - 1))
<1> DEFINE n == Len(t)
<1>1. n \in Nat /\ DOMAIN t = 1 .. n /\ (t = <<>> <=> n = 0)
    OBVIOUS
<1>2. /\ 0 \in Cuts(t) /\ n + 1 \in Cuts(t) /\ 0 # n + 1
      /\ \A j \in 1 .. n : j \in Cuts(t) <=> t[j] = "-"
    BY <1>1 DEF Cuts
<1>3. ASSUME t # <<>>, ~OtherCharacter(t), ~StrayDash(t),
             NEW i \in Cuts(t) \ {n + 1}
      PROVE  Word(SubSeq(t, i + 1, NextCut(t, i) - 1))
    <2> DEFINE k == NextCut(t, i)
    <2>1. /\ i \in 0 .. n /\ k \in Cuts(t) /\ k \in 0 .. n + 1 /\ k > i
          /\ \A j \in Cuts(t) : j > i => k <= j
        BY CutsFacts
    <2> HIDE DEF k, n
    <2>2. k # i + 1
        <3> SUFFICES ASSUME k = i + 1 PROVE FALSE
            OBVIOUS
        <3>1. i = 0 \/ t[i] = "-"
            BY <1>1, <1>2, <2>1
        <3>2. k = n + 1 \/ t[k] = "-"
            BY <1>1, <1>2, <2>1
        <3>3. n # 0 /\ ~(t[1] = "-") /\ ~(t[n] = "-")
              /\ \A j \in 1 .. n - 1 : ~(t[j] = "-" /\ t[j + 1] = "-")
            BY <1>1, <1>3 DEF StrayDash, EdgeDash, DoubleDash, n
        <3>4. CASE i = 0
            BY <1>1, <2>1, <3>2, <3>3, <3>4
        <3>5. CASE i # 0
            BY <1>1, <2>1, <3>1, <3>2, <3>3, <3>5
        <3> QED BY <3>4, <3>5
    <2>3. ASSUME NEW m \in i + 1 .. k - 1 PROVE t[m] \in {"a", "7"}
        <3>1. m \in 1 .. n /\ m > i /\ m < k
            BY <1>1, <2>1
        <3>2. m \notin Cuts(t)
            BY <1>1, <2>1, <3>1
        <3>3. t[m] # "-"
            BY <1>2, <3>1, <3>2
        <3> QED BY <1>1, <1>3, <3>1, <3>3 DEF OtherCharacter, SlugCharacter
    <2>4. i + 1 < k
        BY <1>1, <2>1, <2>2
    <2>5. /\ i \in Cuts(t) \ {Len(t) + 1} /\ i + 1 < NextCut(t, i)
          /\ \A m \in i + 1 .. NextCut(t, i) - 1 : t[m] \in {"a", "7"}
        BY <1>3, <2>3, <2>4 DEF k, n
    <2> QED BY <2>5, Between
<1>4. ASSUME \A i \in Cuts(t) \ {n + 1} : Word(SubSeq(t, i + 1, NextCut(t, i) - 1))
      PROVE  t # <<>> /\ ~OtherCharacter(t) /\ ~StrayDash(t)
    <2>1. \A i \in Cuts(t) \ {n + 1} :
            /\ i \in 0 .. n /\ Cuts(t) \subseteq 0 .. n + 1
            /\ NextCut(t, i) \in Cuts(t) /\ NextCut(t, i) > i
            /\ \A j \in Cuts(t) : j > i => NextCut(t, i) <= j
            /\ i + 1 < NextCut(t, i)
            /\ \A m \in i + 1 .. NextCut(t, i) - 1 : t[m] \in {"a", "7"}
        BY <1>4, CutsFacts, Between
    <2> HIDE DEF n
    \* No two cuts follow one another.
    <2>2. ASSUME NEW i \in Cuts(t), i # n + 1 PROVE i + 1 \notin Cuts(t)
        <3>1. i \in 0 .. n /\ NextCut(t, i) \in 0 .. n + 1
            BY <2>1, <2>2
        <3>2. i + 1 \in Cuts(t) => NextCut(t, i) <= i + 1
            BY <1>1, <2>1, <2>2, <3>1
        <3> QED BY <1>1, <2>1, <2>2, <3>1, <3>2
    <2>3. n # 0
        <3>1. 0 + 1 \notin Cuts(t)
            BY <1>2, <2>2
        <3> QED BY <1>1, <1>2, <3>1
    <2>4. ~EdgeDash(t)
        <3>1. 0 + 1 \notin Cuts(t)
            BY <1>2, <2>2
        <3>2. n \notin Cuts(t)
            <4>1. n # n + 1
                BY <1>1
            <4> QED BY <1>2, <2>2, <4>1
        <3>3. 1 \notin Cuts(t) /\ 1 \in 1 .. n /\ n \in 1 .. n
            BY <1>1, <2>3, <3>1
        <3>4. t[1] # "-" /\ t[n] # "-"
            BY <1>2, <3>2, <3>3
        <3> QED BY <3>4 DEF EdgeDash, n
    <2>5. ~DoubleDash(t)
        <3> SUFFICES ASSUME NEW i \in 1 .. n - 1, t[i] = "-", t[i + 1] = "-" PROVE FALSE
            BY DEF DoubleDash, n
        <3>1. i \in 1 .. n /\ i + 1 \in 1 .. n /\ i # n + 1
            BY <1>1
        <3> QED BY <1>2, <2>2, <3>1
    <2>6. ASSUME NEW m \in 1 .. n PROVE SlugCharacter(t[m])
        <3>1. CASE m \in Cuts(t)
            BY <1>2, <3>1 DEF SlugCharacter
        <3>2. CASE m \notin Cuts(t)
            <4>1. Cuts(t) \in SUBSET Nat /\ 0 < m /\ m \in Nat
                BY <1>1, <1>2, <2>1
            <4>2. PICK i \in Cuts(t) : i < m /\ \A y \in Cuts(t) : y < m => y <= i
                BY <1>2, <4>1, GreatestBelow
            <4>3. i # n + 1 /\ i \in Nat
                BY <1>1, <4>1, <4>2
            <4>4. NextCut(t, i) \in Cuts(t) /\ NextCut(t, i) > i /\ NextCut(t, i) \in Nat
                BY <2>1, <4>1, <4>2, <4>3
            <4>5. NextCut(t, i) > m
                BY <3>2, <4>1, <4>2, <4>3, <4>4
            <4>6. m \in i + 1 .. NextCut(t, i) - 1
                BY <4>1, <4>2, <4>3, <4>4, <4>5
            <4> QED BY <2>1, <4>2, <4>3, <4>6 DEF SlugCharacter
        <3> QED BY <3>1, <3>2
    <2> QED BY <1>1, <2>3, <2>4, <2>5, <2>6 DEF StrayDash, OtherCharacter
<1> QED BY <1>3, <1>4

\* A slug is let through if and only if it is one.
LEMMA ValidateSlugFacts ==
  ASSUME NEW t \in Seq(Characters)
  PROVE  /\ ValidateSlug(t) # "edge"
         /\ ValidateSlug(t) = "ok" <=> IsSlug(t)
<1> DEFINE a == Refused(t = <<>> \/ Bytes(t) > SlugMax, "slug length")
           b == Refused(OtherCharacter(t), "slug characters")
           c == Refused(StrayDash(t), "slug dashes")
           d == Refused(t \in Reserved, "slug reserved")
<1>1. ValidateSlug(t) = FirstRefusal(<<a, b, c, d>>)
    BY DEF ValidateSlug
<1>2. /\ a \in {"ok", "slug length"} /\ b \in {"ok", "slug characters"}
      /\ c \in {"ok", "slug dashes"} /\ d \in {"ok", "slug reserved"}
      /\ (a = "ok" <=> ~(t = <<>> \/ Bytes(t) > SlugMax))
      /\ (b = "ok" <=> ~OtherCharacter(t)) /\ (c = "ok" <=> ~StrayDash(t))
      /\ (d = "ok" <=> t \notin Reserved)
    BY DEF Refused
<1> HIDE DEF a, b, c, d
<1>3. /\ ValidateSlug(t) # "edge"
      /\ ValidateSlug(t) = "ok" <=>
           /\ ~(t = <<>> \/ Bytes(t) > SlugMax) /\ ~OtherCharacter(t)
           /\ ~StrayDash(t) /\ t \notin Reserved
    <2>1. /\ ValidateSlug(t) = "ok" <=> a = "ok" /\ b = "ok" /\ c = "ok" /\ d = "ok"
          /\ ValidateSlug(t) \in {"ok", a, b, c, d}
        <3>1. /\ FirstRefusal(<<a, b, c, d>>) = "ok" <=>
                   a = "ok" /\ b = "ok" /\ c = "ok" /\ d = "ok"
              /\ FirstRefusal(<<a, b, c, d>>) \in {"ok", a, b, c, d}
            BY FourChecks
        <3> QED BY <1>1, <3>1
    <2>2. a # "edge" /\ b # "edge" /\ c # "edge" /\ d # "edge"
        BY <1>2
    <2>3. ValidateSlug(t) # "edge"
        BY <2>1, <2>2
    <2> QED BY <1>2, <2>1, <2>3
<1>4. Len(t) \in Nat /\ Bytes(t) \in Nat /\ SlugMax \in Nat
    BY BytesAndCharacters, ValidationAssumption
<1>5. ~OtherCharacter(t) => Bytes(t) = Len(t)
    BY SlugCharactersAreAscii
<1> QED BY <1>3, <1>4, <1>5, SlugIsWords DEF IsSlug

-----------------------------------------------------------------------------
(* The handlers.                                                           *)

LEMMA TextTypes ==
  ASSUME NEW t \in Text
  PROVE  t \in Seq(Characters) /\ t # Null
BY ValidationAssumption

LEMMA ValidateCreateFacts ==
  ASSUME NEW b \in CreateBody
  PROVE  /\ ValidateCreate(b) # "edge"
         /\ ValidateCreate(b) = "ok" <=>
              /\ ValidateSlug(b.slug) = "ok" /\ ValidateLen(b.title, TitleMax) = "ok"
              /\ ValidateTags(b.tags) = "ok" /\ ValidateYaml(b.yaml) = "ok"
              /\ ValidateChangelog(b.changelog) = "ok"
<1>1. /\ b.slug \in Seq(Characters) /\ b.title \in Seq(Characters)
      /\ b.tags \in Seq(Text) /\ b.yaml \in Seq(Characters)
      /\ b.changelog \in Text \cup {Null}
    BY TextTypes DEF CreateBody
<1>2. TitleMax \in Nat
    BY ValidationAssumption
<1>3. /\ ValidateSlug(b.slug) # "edge" /\ ValidateLen(b.title, TitleMax) # "edge"
      /\ ValidateTags(b.tags) # "edge" /\ ValidateYaml(b.yaml) # "edge"
      /\ ValidateChangelog(b.changelog) # "edge"
    BY <1>1, <1>2, ValidateSlugFacts, ValidateLenFacts, ValidateTagsFacts,
       ValidateYamlFacts, ValidateChangelogFacts
<1> QED BY <1>3, FiveChecks DEF ValidateCreate

LEMMA ValidatePublishFacts ==
  ASSUME NEW b \in PublishBody
  PROVE  /\ ValidatePublish(b) # "edge"
         /\ ValidatePublish(b) = "ok" => ValidateYaml(b.yaml) = "ok"
<1>1. b.yaml \in Seq(Characters) /\ b.changelog \in Text \cup {Null}
    BY TextTypes DEF PublishBody
<1>2. ValidateYaml(b.yaml) # "edge" /\ ValidateChangelog(b.changelog) # "edge"
    BY <1>1, ValidateYamlFacts, ValidateChangelogFacts
<1> QED BY <1>2, TwoChecks DEF ValidatePublish

LEMMA ValidateUpdateFacts ==
  ASSUME NEW b \in UpdateBody
  PROVE  /\ ValidateUpdate(b) # "edge"
         /\ ValidateUpdate(b) = "ok" =>
              /\ b.title # Null => ValidateLen(b.title, TitleMax) = "ok"
              /\ b.tags # Null => ValidateTags(b.tags) = "ok"
<1> DEFINE x == IF b.title = Null THEN "ok" ELSE ValidateLen(b.title, TitleMax)
           y == IF b.tags = Null THEN "ok" ELSE ValidateTags(b.tags)
           z == Refused(b.title = Null /\ b.tags = Null, "nothing to update")
<1>1. /\ b.title # Null => b.title \in Seq(Characters)
      /\ b.tags # Null => b.tags \in Seq(Text)
    BY TextTypes DEF UpdateBody
<1>2. TitleMax \in Nat
    BY ValidationAssumption
<1>3. x # "edge" /\ y # "edge" /\ z # "edge"
    BY <1>1, <1>2, ValidateLenFacts, ValidateTagsFacts DEF Refused
<1>4. /\ b.title # Null => x = ValidateLen(b.title, TitleMax)
      /\ b.tags # Null => y = ValidateTags(b.tags)
    OBVIOUS
<1>5. ValidateUpdate(b) = FirstRefusal(<<x, y, z>>)
    BY DEF ValidateUpdate
<1> HIDE DEF x, y, z
<1> QED BY <1>3, <1>4, <1>5, ThreeChecks

-----------------------------------------------------------------------------
(* The theorems.                                                           *)

Row == [slug : Text, title : Text, tags : Seq(Text), yaml : Text]

\* What the properties say, and that what is in the tables are texts.
Inv ==
  /\ row # Null => row \in Row
  /\ RowIsWellFormed /\ RefusedCreateIsDue /\ EdgeIsTheCoarserCheck

\* Where the limit on the body turns a document away that fits.
LEMMA BeyondTheLimit ==
  ASSUME NEW yaml \in Text, BeyondBodyLimit(yaml), Bytes(yaml) <= MaxYaml
  PROVE  Cardinality(LineBreaks(yaml)) > Slack
<1>1. yaml \in Seq(Characters) /\ MaxYaml \in Nat /\ Slack \in Nat
    BY TextTypes, ValidationAssumption
<1>2. /\ Bytes(yaml) \in Nat /\ Cardinality(LineBreaks(yaml)) \in Nat
      /\ Encoded(yaml) = Bytes(yaml) + Cardinality(LineBreaks(yaml))
    BY <1>1, BytesAndCharacters, EncodedLength
<1>3. Encoded(yaml) > MaxYaml + Slack
    BY DEF BeyondBodyLimit
<1> QED BY <1>1, <1>2, <1>3

LEMMA CreateKeepsInv ==
  ASSUME Inv, NEW b \in CreateBodies, Create(b)
  PROVE  Inv'
<1> DEFINE verdict == IF BeyondBodyLimit(b.yaml) THEN "edge" ELSE ValidateCreate(b)
<1>1. b \in CreateBody
    BY ValidationAssumption
<1>2. /\ b.slug \in Text /\ b.title \in Text /\ b.tags \in Seq(Text) /\ b.yaml \in Text
      /\ b.changelog \in Text \cup {Null}
    BY <1>1 DEF CreateBody
<1>3. /\ b.slug \in Seq(Characters) /\ b.title \in Seq(Characters)
      /\ b.yaml \in Seq(Characters) /\ TitleMax \in Nat
    BY <1>2, TextTypes, ValidationAssumption
<1>4. /\ asked' = [op |-> "create", body |-> b] /\ answer' = verdict
      /\ row' = IF verdict # "ok" THEN row
                ELSE [slug |-> b.slug, title |-> b.title, tags |-> b.tags, yaml |-> b.yaml]
    BY DEF Create, Answer
<1>5. /\ verdict = "edge" <=> BeyondBodyLimit(b.yaml)
      /\ verdict \in {"edge", ValidateCreate(b)}
    BY <1>1, ValidateCreateFacts
<1> HIDE DEF verdict
<1>6. CASE verdict = "ok"
    <2>1. ValidateCreate(b) = "ok"
        BY <1>5, <1>6
    <2>2. /\ IsSlug(b.slug) /\ Fits(b.title, TitleMax) /\ Fits(b.yaml, MaxYaml)
          /\ Len(b.tags) <= TagsMax /\ \A i \in DOMAIN b.tags : IsTag(b.tags[i])
        BY <1>1, <1>2, <1>3, <2>1, ValidateCreateFacts, ValidateSlugFacts,
           ValidateLenFacts, ValidateTagsFacts, ValidateYamlFacts
    <2>3. row' = [slug |-> b.slug, title |-> b.title, tags |-> b.tags, yaml |-> b.yaml]
        BY <1>4, <1>6
    <2>4. row' \in Row
        BY <1>2, <2>3 DEF Row
    <2>5. RowIsWellFormed'
        BY <2>2, <2>3 DEF RowIsWellFormed
    <2>6. RefusedCreateIsDue' /\ EdgeIsTheCoarserCheck'
        BY <1>4, <1>6 DEF RefusedCreateIsDue, EdgeIsTheCoarserCheck
    <2> QED BY <2>4, <2>5, <2>6 DEF Inv
<1>7. CASE verdict # "ok"
    <2>1. row' = row
        BY <1>4, <1>7
    <2>2. (row' # Null => row' \in Row) /\ RowIsWellFormed'
        BY <2>1 DEF Inv, RowIsWellFormed
    <2>3. EdgeIsTheCoarserCheck'
        <3>1. verdict = "edge" /\ ValidateYaml(b.yaml) = "ok" =>
                Cardinality(LineBreaks(b.yaml)) > Slack
            BY <1>2, <1>3, <1>5, ValidateYamlFacts, BeyondTheLimit
        <3>2. asked'.body = b /\ answer' = verdict
            BY <1>4
        <3> QED BY <3>1, <3>2 DEF EdgeIsTheCoarserCheck
    <2>4. \/ ~IsSlug(b.slug)
          \/ ~Fits(b.title, TitleMax) \/ ~Fits(b.yaml, MaxYaml)
          \/ Len(b.tags) > TagsMax \/ \E i \in DOMAIN b.tags : ~IsTag(b.tags[i])
          \/ b.changelog # Null /\ ~Fits(b.changelog, ChangelogMax)
          \/ ~Ascii(b.title) \/ ~Ascii(b.yaml)
          \/ b.changelog # Null /\ ~Ascii(b.changelog)
          \/ verdict = "edge" /\ Cardinality(LineBreaks(b.yaml)) > Slack
        <3>0. Len(b.tags) \in Nat /\ TagsMax \in Nat
            BY <1>2, ValidationAssumption
        <3> SUFFICES ASSUME
                IsSlug(b.slug), Fits(b.title, TitleMax), Fits(b.yaml, MaxYaml),
                Len(b.tags) <= TagsMax, \A i \in DOMAIN b.tags : IsTag(b.tags[i]),
                b.changelog # Null => Fits(b.changelog, ChangelogMax),
                Ascii(b.title), Ascii(b.yaml), b.changelog # Null => Ascii(b.changelog)
              PROVE verdict = "edge" /\ Cardinality(LineBreaks(b.yaml)) > Slack
            BY <3>0
        <3>1. /\ ValidateSlug(b.slug) = "ok" /\ ValidateLen(b.title, TitleMax) = "ok"
              /\ ValidateTags(b.tags) = "ok" /\ ValidateYaml(b.yaml) = "ok"
              /\ ValidateChangelog(b.changelog) = "ok"
            BY <1>2, <1>3, ValidateSlugFacts, ValidateLenFacts, ValidateTagsFacts,
               ValidateYamlFacts, ValidateChangelogFacts
        <3>2. ValidateCreate(b) = "ok"
            BY <1>1, <3>1, ValidateCreateFacts
        <3>3. verdict = "edge" /\ BeyondBodyLimit(b.yaml)
            BY <1>5, <1>7, <3>2
        <3> QED BY <1>2, <1>3, <3>1, <3>3, ValidateYamlFacts, BeyondTheLimit
    <2>5. RefusedCreateIsDue'
        <3>1. asked'.body = b /\ answer' = verdict
            BY <1>4
        <3> QED BY <2>4, <3>1 DEF RefusedCreateIsDue
    <2> QED BY <2>2, <2>3, <2>5 DEF Inv
<1> QED BY <1>6, <1>7

LEMMA PublishKeepsInv ==
  ASSUME Inv, row # Null, NEW b \in PublishBodies, Publish(b)
  PROVE  Inv'
<1> DEFINE verdict == IF BeyondBodyLimit(b.yaml) THEN "edge" ELSE ValidatePublish(b)
<1>1. b \in PublishBody /\ b.yaml \in Text /\ b.yaml \in Seq(Characters)
    BY TextTypes, ValidationAssumption DEF PublishBody
<1>2. /\ asked' = [op |-> "publish", body |-> b] /\ answer' = verdict
      /\ row' = IF verdict = "ok" THEN [row EXCEPT !.yaml = b.yaml] ELSE row
    BY DEF Publish, Answer
<1>3. /\ verdict = "edge" => BeyondBodyLimit(b.yaml)
      /\ verdict = "ok" => ValidateYaml(b.yaml) = "ok"
    BY <1>1, ValidatePublishFacts
<1> HIDE DEF verdict
<1>4. row \in Row /\ RowIsWellFormed
    BY DEF Inv
<1>5. verdict = "ok" => Fits(b.yaml, MaxYaml)
    BY <1>1, <1>3, ValidateYamlFacts
<1>6. row' \in Row
    BY <1>1, <1>2, <1>4 DEF Row
<1>7. RowIsWellFormed'
    <2>1. CASE verdict = "ok"
        <3>1. /\ row'.slug = row.slug /\ row'.title = row.title /\ row'.tags = row.tags
              /\ row'.yaml = b.yaml
            BY <1>2, <1>4, <2>1 DEF Row
        <3> QED BY <1>4, <1>5, <2>1, <3>1 DEF RowIsWellFormed
    <2>2. CASE verdict # "ok"
        BY <1>2, <1>4, <2>2 DEF RowIsWellFormed
    <2> QED BY <2>1, <2>2
<1>8. RefusedCreateIsDue'
    BY <1>2 DEF RefusedCreateIsDue
<1>9. EdgeIsTheCoarserCheck'
    <2>1. asked'.body = b /\ answer' = verdict
        BY <1>2
    <2>2. verdict = "edge" /\ ValidateYaml(b.yaml) = "ok" =>
            Cardinality(LineBreaks(b.yaml)) > Slack
        BY <1>1, <1>3, ValidateYamlFacts, BeyondTheLimit
    <2> QED BY <2>1, <2>2 DEF EdgeIsTheCoarserCheck
<1> QED BY <1>6, <1>7, <1>8, <1>9 DEF Inv

LEMMA UpdateKeepsInv ==
  ASSUME Inv, row # Null, NEW b \in UpdateBodies, Update(b)
  PROVE  Inv'
<1> DEFINE verdict == ValidateUpdate(b)
<1>1. /\ b \in UpdateBody /\ TitleMax \in Nat
      /\ b.title # Null => b.title \in Text /\ b.title \in Seq(Characters)
      /\ b.tags # Null => b.tags \in Seq(Text)
    BY TextTypes, ValidationAssumption DEF UpdateBody
<1>2. /\ asked' = [op |-> "update", body |-> b] /\ answer' = verdict
      /\ row' = IF verdict # "ok" THEN row
                ELSE [row EXCEPT !.title = IF b.title = Null THEN row.title ELSE b.title,
                                 !.tags = IF b.tags = Null THEN row.tags ELSE b.tags]
    BY DEF Update, Answer
<1>3. /\ verdict # "edge"
      /\ verdict = "ok" =>
           /\ b.title # Null => Fits(b.title, TitleMax)
           /\ b.tags # Null =>
                Len(b.tags) <= TagsMax /\ \A i \in DOMAIN b.tags : IsTag(b.tags[i])
    BY <1>1, ValidateUpdateFacts, ValidateLenFacts, ValidateTagsFacts
<1> HIDE DEF verdict
<1>4. row \in Row /\ RowIsWellFormed
    BY DEF Inv
<1>5. CASE verdict = "ok"
    <2>1. /\ row' \in Row /\ row'.slug = row.slug /\ row'.yaml = row.yaml
          /\ row'.title = IF b.title = Null THEN row.title ELSE b.title
          /\ row'.tags = IF b.tags = Null THEN row.tags ELSE b.tags
        BY <1>1, <1>2, <1>4, <1>5 DEF Row
    <2>2. RowIsWellFormed'
        BY <1>3, <1>4, <1>5, <2>1 DEF RowIsWellFormed
    <2> QED
        BY <1>2, <1>5, <2>1, <2>2 DEF Inv, RefusedCreateIsDue, EdgeIsTheCoarserCheck
<1>6. CASE verdict # "ok"
    BY <1>2, <1>3, <1>4, <1>6
       DEF Inv, RowIsWellFormed, RefusedCreateIsDue, EdgeIsTheCoarserCheck
<1> QED BY <1>5, <1>6

THEOREM Inductive == Spec => []Inv
<1>1. Init => Inv
    BY DEF Init, Inv, RowIsWellFormed, RefusedCreateIsDue, EdgeIsTheCoarserCheck
<1>2. Inv /\ [Next]_validationVars => Inv'
    <2>1. ASSUME Inv, Next PROVE Inv'
        BY <2>1, CreateKeepsInv, PublishKeepsInv, UpdateKeepsInv DEF Next
    <2>2. ASSUME Inv, UNCHANGED validationVars PROVE Inv'
        BY <2>2 DEF validationVars, Inv, RowIsWellFormed, RefusedCreateIsDue,
           EdgeIsTheCoarserCheck
    <2> QED BY <2>1, <2>2
<1> QED BY <1>1, <1>2, PTL DEF Spec

\* What is in the tables reads as the messages say, for any limits, reserved
\* names and chains of bodies.
THEOREM RowsAreWellFormed == Spec => []RowIsWellFormed
<1>1. Inv => RowIsWellFormed
    BY DEF Inv
<1> QED BY <1>1, Inductive, PTL

\* A create that is refused is refused for what the messages say, or for being
\* written beyond ASCII, or for its line breaks.
THEOREM RefusalsAreDue == Spec => []RefusedCreateIsDue
<1>1. Inv => RefusedCreateIsDue
    BY DEF Inv
<1> QED BY <1>1, Inductive, PTL

\* The limit on a body turns away no document that fits, but for line breaks
\* beyond the slack.
THEOREM EdgeIsCoarser == Spec => []EdgeIsTheCoarserCheck
<1>1. Inv => EdgeIsTheCoarserCheck
    BY DEF Inv
<1> QED BY <1>1, Inductive, PTL
=============================================================================
