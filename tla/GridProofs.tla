------------------------------- MODULE GridProofs -------------------------------
(***************************************************************************)
(* AnsiGrid, for grids of any size and texts of any length: the text that  *)
(* is drawn, in its places and in its colours. The lemmas of DataProofs on *)
(* induction and on functions defined step by step are used throughout.    *)
(***************************************************************************)
EXTENDS DataProofs, AnsiGrid

\* What attributes and settings of them are.
Attributes == Flags \cup Channels
Colour == {Default} \cup {Palette(i) : i \in Nat} \cup {Xterm(i) : i \in Nat}
            \cup {Rgb(r, g, b) : r, g, b \in Nat}
AttributeValue == BOOLEAN \cup Colour
AllAttrs == [Attributes -> AttributeValue]
AttrSetting == {<<>>} \cup UNION {[D -> AttributeValue] : D \in SUBSET Attributes}

\* A setting gives values to some of the attributes.
LEMMA SettingFacts ==
  ASSUME NEW f \in AttrSetting
  PROVE  DOMAIN f \subseteq Attributes /\ \A x \in DOMAIN f : f[x] \in AttributeValue
<1>1. CASE f = <<>>
  <2>1. DOMAIN f = {}
    BY <1>1
  <2> QED
    BY <2>1
<1>2. CASE f \in UNION {[D -> AttributeValue] : D \in SUBSET Attributes}
  <2>1. PICK D \in SUBSET Attributes : f \in [D -> AttributeValue]
    BY <1>2
  <2> QED
    BY <2>1
<1> QED
  BY <1>1, <1>2 DEF AttrSetting

\* Attributes with a setting are attributes, as the setting has them or as they were.
LEMMA UpdatedFacts ==
  ASSUME NEW was \in AllAttrs, NEW f \in AttrSetting
  PROVE  /\ Updated(was, f) \in AllAttrs
         /\ \A x \in Attributes : Updated(was, f)[x] = IF x \in DOMAIN f THEN f[x] ELSE was[x]
<1>1. DOMAIN was = Attributes /\ \A x \in Attributes : was[x] \in AttributeValue
  BY DEF AllAttrs
<1>2. DOMAIN f \subseteq Attributes /\ \A x \in DOMAIN f : f[x] \in AttributeValue
  BY SettingFacts
<1> QED
  BY <1>1, <1>2 DEF Updated, AllAttrs

\* What sets nothing changes nothing.
LEMMA UpdatedByNothing ==
  ASSUME NEW was \in AllAttrs
  PROVE  Updated(was, <<>>) = was
<1>1. DOMAIN <<>> = {} /\ DOMAIN was = Attributes
  BY DEF AllAttrs
<1>2. was = [x \in Attributes |-> was[x]]
  BY DEF AllAttrs
<1>3. \A x \in DOMAIN was : (IF x \in DOMAIN <<>> THEN <<>>[x] ELSE was[x]) = was[x]
  BY <1>1
<1> QED
  BY <1>1, <1>2, <1>3 DEF Updated

\* The settings that set an attribute.
SettingOf(s, x) == {i \in 1..Len(s) : x \in DOMAIN s[i]}

\* The last of the settings that set an attribute.
LEMMA SettingOfMax ==
  ASSUME NEW s \in Seq(AttrSetting), NEW x, SettingOf(s, x) # {}
  PROVE  /\ Max(SettingOf(s, x)) \in SettingOf(s, x)
         /\ \A k \in SettingOf(s, x) : k <= Max(SettingOf(s, x))
<1>1. Len(s) \in Nat /\ SettingOf(s, x) \subseteq 0..Len(s)
  BY DEF SettingOf
<1> QED
  BY <1>1, MaxIs

\* Each attribute is as the last setting of it has it.
LEMMA LatestFacts ==
  ASSUME NEW s \in Seq(AttrSetting), NEW was \in AllAttrs
  PROVE  /\ Latest(s, was) \in AllAttrs
         /\ \A x \in Attributes :
              Latest(s, was)[x] = IF SettingOf(s, x) = {} THEN was[x]
                                 ELSE s[Max(SettingOf(s, x))][x]
<1>1. DOMAIN was = Attributes /\ \A x \in Attributes : was[x] \in AttributeValue
  BY DEF AllAttrs
<1>2. Latest(s, was) = [x \in Attributes |-> IF SettingOf(s, x) = {} THEN was[x]
                                            ELSE s[Max(SettingOf(s, x))][x]]
  BY <1>1 DEF Latest, SettingOf
<1>3. ASSUME NEW x \in Attributes, SettingOf(s, x) # {}
      PROVE  s[Max(SettingOf(s, x))][x] \in AttributeValue
  <2>1. PICK m : m = Max(SettingOf(s, x))
    OBVIOUS
  <2>2. m \in 1..Len(s) /\ x \in DOMAIN s[m]
    BY <1>3, <2>1, SettingOfMax DEF SettingOf
  <2>3. s[m] \in AttrSetting
    BY <2>2, ElementOfSeq
  <2> QED
    BY <2>1, <2>2, <2>3, SettingFacts
<1> QED
  BY <1>1, <1>2, <1>3 DEF AllAttrs

\* No settings,
LEMMA LatestOfNothing ==
  ASSUME NEW was \in AllAttrs
  PROVE  Latest(<<>>, was) = was
<1>1. PICK e : e = <<>>
  OBVIOUS
<1>2. e \in Seq(AttrSetting) /\ Len(e) = 0
  BY <1>1
<1>3. \A x : SettingOf(e, x) = {}
  BY <1>2 DEF SettingOf
<1>4. PICK l : l = Latest(e, was)
  OBVIOUS
<1>5. l \in AllAttrs /\ \A x \in Attributes : l[x] = was[x]
  BY <1>2, <1>3, <1>4, LatestFacts
<1>6. l = was
  <2>1. was = [x \in Attributes |-> was[x]] /\ l = [x \in Attributes |-> l[x]]
    BY <1>5 DEF AllAttrs
  <2> QED
    BY <1>5, <2>1
<1> QED
  BY <1>1, <1>4, <1>6

\* one more,
LEMMA LatestAppend ==
  ASSUME NEW s \in Seq(AttrSetting), NEW f \in AttrSetting, NEW was \in AllAttrs
  PROVE  Latest(Append(s, f), was) = Updated(Latest(s, was), f)
<1>1. PICK t : t = Append(s, f)
  OBVIOUS
<1>2. /\ t \in Seq(AttrSetting) /\ Len(t) = Len(s) + 1 /\ Len(s) \in Nat
      /\ t[Len(s) + 1] = f /\ \A i \in 1..Len(s) : t[i] = s[i]
  BY <1>1, AppendProperties
<1>3. PICK a, b, c : a = Latest(s, was) /\ b = Latest(t, was) /\ c = Updated(a, f)
  OBVIOUS
<1>4. a \in AllAttrs /\ b \in AllAttrs /\ c \in AllAttrs
  BY <1>2, <1>3, LatestFacts, UpdatedFacts
<1>5. ASSUME NEW x \in Attributes PROVE b[x] = c[x]
  <2>1. b[x] = IF SettingOf(t, x) = {} THEN was[x] ELSE t[Max(SettingOf(t, x))][x]
    BY <1>2, <1>3, LatestFacts
  <2>2. a[x] = IF SettingOf(s, x) = {} THEN was[x] ELSE s[Max(SettingOf(s, x))][x]
    BY <1>3, LatestFacts
  <2>3. c[x] = IF x \in DOMAIN f THEN f[x] ELSE a[x]
    BY <1>3, <1>4, UpdatedFacts
  <2>4. CASE x \in DOMAIN f
    <3>1. Len(s) + 1 \in SettingOf(t, x)
      BY <1>2, <2>4 DEF SettingOf
    <3>2. PICK m : m = Max(SettingOf(t, x))
      OBVIOUS
    <3>3. m \in 1..Len(s) + 1 /\ Len(s) + 1 <= m
      BY <1>2, <3>1, <3>2, SettingOfMax DEF SettingOf
    <3>4. m = Len(s) + 1
      BY <1>2, <3>3
    <3> QED
      BY <1>2, <2>1, <2>3, <2>4, <3>1, <3>2, <3>4
  <2>5. CASE x \notin DOMAIN f
    <3>1. SettingOf(t, x) = SettingOf(s, x)
      <4>1. \A i \in 1..Len(s) + 1 : x \in DOMAIN t[i] => i \in 1..Len(s)
        BY <1>2, <2>5
      <4> QED
        BY <1>2, <4>1 DEF SettingOf
    <3>2. ASSUME SettingOf(s, x) # {} PROVE t[Max(SettingOf(s, x))] = s[Max(SettingOf(s, x))]
      <4>1. Max(SettingOf(s, x)) \in 1..Len(s)
        BY <3>2, SettingOfMax DEF SettingOf
      <4> QED
        BY <1>2, <4>1
    <3> QED
      BY <2>1, <2>2, <2>3, <2>5, <3>1, <3>2
  <2> QED
    BY <2>4, <2>5
<1>6. b = c
  BY <1>4, <1>5 DEF AllAttrs
<1> QED
  BY <1>1, <1>3, <1>6

\* and settings after settings.
LEMMA LatestConcat ==
  ASSUME NEW s \in Seq(AttrSetting), NEW u \in Seq(AttrSetting), NEW was \in AllAttrs
  PROVE  Latest(s \o u, was) = Latest(u, Latest(s, was))
<1> DEFINE Good == {t \in Seq(AttrSetting) : Latest(s \o t, was) = Latest(t, Latest(s, was))}
<1>1. <<>> \in Good
  <2>1. s \o <<>> = s
    BY ConcatEmptySeq
  <2>2. <<>> \in Seq(AttrSetting)
    OBVIOUS
  <2>3. Latest(s, was) \in AllAttrs
    BY LatestFacts
  <2>4. Latest(<<>>, Latest(s, was)) = Latest(s, was)
    BY <2>3, LatestOfNothing
  <2> QED
    BY <2>1, <2>2, <2>4
<1>2. ASSUME NEW t \in Seq(AttrSetting), NEW f \in AttrSetting, t \in Good
      PROVE  Append(t, f) \in Good
  <2>1. PICK v : v = s \o t
    OBVIOUS
  <2>2. v \in Seq(AttrSetting) /\ Append(t, f) \in Seq(AttrSetting) /\ s \o Append(t, f) = Append(v, f)
    <3>1. \A w \in Seq(AttrSetting) : Append(w, f) = w \o <<f>>
      BY AppendIsConcat
    <3>2. <<f>> \in Seq(AttrSetting) /\ v \in Seq(AttrSetting)
      BY <2>1, ConcatProperties
    <3>3. s \o (t \o <<f>>) = (s \o t) \o <<f>>
      BY <3>2, ConcatAssociative
    <3> QED
      BY <2>1, <3>1, <3>2, <3>3
  <2>3. Latest(s, was) \in AllAttrs
    BY LatestFacts
  <2>4. Latest(Append(v, f), was) = Updated(Latest(v, was), f)
    BY <2>2, LatestAppend
  <2>5. Latest(Append(t, f), Latest(s, was)) = Updated(Latest(t, Latest(s, was)), f)
    BY <2>3, LatestAppend
  <2> QED
    BY <1>2, <2>1, <2>2, <2>4, <2>5
<1>3. Seq(AttrSetting) \subseteq Good
  <2> HIDE DEF Good
  <2> QED
    BY <1>1, <1>2, SeqInduction
<1> QED
  BY <1>3

\* Several settings as one.
Together(s) == [x \in {x \in Attributes : SettingOf(s, x) # {}} |-> s[Max(SettingOf(s, x))][x]]

\* Settings one after the other are one setting.
LEMMA TogetherFacts ==
  ASSUME NEW s \in Seq(AttrSetting), NEW was \in AllAttrs
  PROVE  Together(s) \in AttrSetting /\ Updated(was, Together(s)) = Latest(s, was)
<1>1. PICK D : D = {x \in Attributes : SettingOf(s, x) # {}}
  OBVIOUS
<1>2. PICK f : f = Together(s)
  OBVIOUS
<1>3. f = [x \in D |-> s[Max(SettingOf(s, x))][x]] /\ D \in SUBSET Attributes
  BY <1>1, <1>2 DEF Together
<1>4. PICK l : l = Latest(s, was)
  OBVIOUS
<1>5. l \in AllAttrs /\ \A x \in Attributes : l[x] = IF x \notin D THEN was[x]
                                                     ELSE s[Max(SettingOf(s, x))][x]
  BY <1>1, <1>4, LatestFacts
<1>6. f \in [D -> AttributeValue]
  <2>1. \A x \in D : s[Max(SettingOf(s, x))][x] \in AttributeValue
    BY <1>3, <1>5 DEF AllAttrs
  <2> QED
    BY <1>3, <2>1
<1>7. f \in AttrSetting
  BY <1>3, <1>6 DEF AttrSetting
<1>8. PICK c : c = Updated(was, f)
  OBVIOUS
<1>9. c \in AllAttrs /\ \A x \in Attributes : c[x] = IF x \in DOMAIN f THEN f[x] ELSE was[x]
  BY <1>7, <1>8, UpdatedFacts
<1>10. \A x \in Attributes : c[x] = l[x]
  BY <1>3, <1>5, <1>9
<1>11. c = l
  BY <1>5, <1>9, <1>10 DEF AllAttrs
<1> QED
  BY <1>2, <1>4, <1>7, <1>8, <1>11

-----------------------------------------------------------------------------
\* The parameters of an SGR sequence, as units of codes: one code that stands for itself,
\* an extended colour, or one that is cut short, of which nothing is left for another unit.
Extends == {38, 48}
BasicUnit == {<<code>> : code \in Nat \ Extends}
ColourUnit == {<<code, 5, n>> : code \in Extends, n \in Nat}
                \cup {<<code, 2, r, g, b>> : code \in Extends, r, g, b \in Nat}
CutUnit == {u \in Seq(Nat) : /\ u # <<>> /\ u[1] \in Extends
                             /\ ~(Len(u) >= 3 /\ u[2] = 5) /\ ~(Len(u) >= 5 /\ u[2] = 2)}
SgrUnit == BasicUnit \cup ColourUnit \cup CutUnit
SgrUnits == {us \in Seq(SgrUnit) : \A i \in 1..Len(us) - 1 : us[i] \notin CutUnit}

\* What each sets; a code that is not known and a colour that is cut short, nothing.
ColourOf(u) == IF u[2] = 5 THEN Indexed(u[3]) ELSE Rgb(Byte(u[3]), Byte(u[4]), Byte(u[5]))
MeansUnit(u) ==
  IF u \in BasicUnit THEN BasicSgr(u[1])
  ELSE IF u \in CutUnit THEN <<>>
  ELSE [x \in {IF u[1] = 38 THEN "fg" ELSE "bg"} |-> ColourOf(u)]
MeansUnits(us) == [i \in 1..Len(us) |-> MeansUnit(us[i])]

\* One value for some of the attributes is a setting.
LEMMA OneSetting ==
  ASSUME NEW D \in SUBSET Attributes, NEW v \in AttributeValue
  PROVE  SetsTo(D, v) \in AttrSetting
<1>1. SetsTo(D, v) \in [D -> AttributeValue]
  BY DEF SetsTo
<1> QED
  BY <1>1 DEF AttrSetting

\* What the codes set is a value of an attribute,
LEMMA Values ==
  /\ Default \in AttributeValue /\ TRUE \in AttributeValue /\ FALSE \in AttributeValue
  /\ \A i \in Nat : Palette(i) \in AttributeValue /\ Indexed(i) \in AttributeValue
  /\ \A r, g, b \in Nat : Rgb(Byte(r), Byte(g), Byte(b)) \in AttributeValue
<1>1. Default \in AttributeValue /\ TRUE \in AttributeValue /\ FALSE \in AttributeValue
  BY DEF AttributeValue, Colour
<1>2. \A i \in Nat : Palette(i) \in AttributeValue /\ Xterm(i) \in AttributeValue
  BY DEF AttributeValue, Colour
<1>3. \A r, g, b \in Nat : Rgb(r, g, b) \in AttributeValue
  BY DEF AttributeValue, Colour
<1>4. \A n \in Nat : Byte(n) \in Nat
  BY DEF Byte
<1> QED
  BY <1>1, <1>2, <1>3, <1>4 DEF Indexed

\* and so is what there is at first.
LEMMA PlainFacts == Plain \in AllAttrs /\ Plain \in AttrSetting
<1>1. Plain \in AllAttrs
  BY Values DEF Plain, AllAttrs, Attributes
<1> QED
  BY <1>1 DEF AllAttrs, AttrSetting

\* BasicSgr: a code that is no colour of the table is a setting.
LEMMA BasicSets ==
  ASSUME NEW code \in Nat
  PROVE  BasicSgr(code) \in AttrSetting
<1>1. /\ {"fg"} \in SUBSET Attributes /\ {"bg"} \in SUBSET Attributes
      /\ \A x \in Flags : {x} \in SUBSET Attributes
      /\ {"bold", "dim"} \in SUBSET Attributes
  BY DEF Attributes, Flags, Channels
<1>2. /\ "bold" \in Flags /\ "dim" \in Flags /\ "italic" \in Flags /\ "underline" \in Flags
      /\ "reverse" \in Flags /\ "strikethrough" \in Flags
  BY DEF Flags
<1>3. /\ code \in 30..37 => code - 30 \in Nat
      /\ code \in 90..97 => code - 82 \in Nat
      /\ code \in 40..47 => code - 40 \in Nat
      /\ code \in 100..107 => code - 92 \in Nat
  OBVIOUS
<1>4. <<>> \in AttrSetting
  BY DEF AttrSetting
<1>5. CASE code \in 30..37
  <2>1. SetsTo({"fg"}, Palette(code - 30)) \in AttrSetting
    BY <1>1, <1>3, <1>5, Values, OneSetting
  <2>2. /\ code \notin 90..97 /\ code \notin 40..47 /\ code \notin 100..107
        /\ code \notin {0, 1, 2, 3, 4, 7, 9, 22, 23, 24, 27, 29, 39, 49}
    BY <1>5
  <2>3. PICK a : a = SetsTo({"fg"}, Palette(code - 30))
    OBVIOUS
  <2>4. BasicSgr(code) = a
    BY <1>5, <2>2, <2>3 DEF BasicSgr
  <2> QED
    BY <2>1, <2>3, <2>4
<1>6. CASE code \in 90..97
  <2>1. SetsTo({"fg"}, Palette(code - 82)) \in AttrSetting
    BY <1>1, <1>3, <1>6, Values, OneSetting
  <2>2. /\ code \notin 30..37 /\ code \notin 40..47 /\ code \notin 100..107
        /\ code \notin {0, 1, 2, 3, 4, 7, 9, 22, 23, 24, 27, 29, 39, 49}
    BY <1>6
  <2>3. PICK a : a = SetsTo({"fg"}, Palette(code - 82))
    OBVIOUS
  <2>4. BasicSgr(code) = a
    BY <1>6, <2>2, <2>3 DEF BasicSgr
  <2> QED
    BY <2>1, <2>3, <2>4
<1>7. CASE code \in 40..47
  <2>1. SetsTo({"bg"}, Palette(code - 40)) \in AttrSetting
    BY <1>1, <1>3, <1>7, Values, OneSetting
  <2>2. /\ code \notin 30..37 /\ code \notin 90..97 /\ code \notin 100..107
        /\ code \notin {0, 1, 2, 3, 4, 7, 9, 22, 23, 24, 27, 29, 39, 49}
    BY <1>7
  <2>3. PICK a : a = SetsTo({"bg"}, Palette(code - 40))
    OBVIOUS
  <2>4. BasicSgr(code) = a
    BY <1>7, <2>2, <2>3 DEF BasicSgr
  <2> QED
    BY <2>1, <2>3, <2>4
<1>8. CASE code \in 100..107
  <2>1. SetsTo({"bg"}, Palette(code - 92)) \in AttrSetting
    BY <1>1, <1>3, <1>8, Values, OneSetting
  <2>2. /\ code \notin 30..37 /\ code \notin 90..97 /\ code \notin 40..47
        /\ code \notin {0, 1, 2, 3, 4, 7, 9, 22, 23, 24, 27, 29, 39, 49}
    BY <1>8
  <2>3. PICK a : a = SetsTo({"bg"}, Palette(code - 92))
    OBVIOUS
  <2>4. BasicSgr(code) = a
    BY <1>8, <2>2, <2>3 DEF BasicSgr
  <2> QED
    BY <2>1, <2>3, <2>4
<1>9. CASE ~(code \in 30..37) /\ ~(code \in 90..97) /\ ~(code \in 40..47) /\ ~(code \in 100..107)
  <2>1. /\ \A x \in Flags : SetsTo({x}, TRUE) \in AttrSetting /\ SetsTo({x}, FALSE) \in AttrSetting
        /\ SetsTo({"bold", "dim"}, FALSE) \in AttrSetting
        /\ SetsTo({"fg"}, Default) \in AttrSetting /\ SetsTo({"bg"}, Default) \in AttrSetting
    BY <1>1, Values, OneSetting
  <2>2. BasicSgr(code) \in
          {Plain, SetsTo({"bold"}, TRUE), SetsTo({"dim"}, TRUE), SetsTo({"italic"}, TRUE),
           SetsTo({"underline"}, TRUE), SetsTo({"reverse"}, TRUE), SetsTo({"strikethrough"}, TRUE),
           SetsTo({"bold", "dim"}, FALSE), SetsTo({"italic"}, FALSE), SetsTo({"underline"}, FALSE),
           SetsTo({"reverse"}, FALSE), SetsTo({"strikethrough"}, FALSE),
           SetsTo({"fg"}, Default), SetsTo({"bg"}, Default), <<>>}
    BY <1>9 DEF BasicSgr
  <2> QED
    BY <1>2, <1>4, <2>1, <2>2, PlainFacts
<1> QED
  BY <1>5, <1>6, <1>7, <1>8, <1>9

\* Where a unit starts, Unit reads it.
LEMMA UnitIs ==
  ASSUME NEW ps \in Seq(Nat), NEW i \in 1..Len(ps), NEW u \in SgrUnit,
         i + Len(u) - 1 <= Len(ps), \A k \in 1..Len(u) : ps[i + k - 1] = u[k],
         u \in CutUnit => i + Len(u) - 1 = Len(ps)
  PROVE  /\ Unit(ps, i) = [takes |-> Len(u) - 1, sets |-> MeansUnit(u)]
         /\ Len(u) \in Nat \ {0} /\ u \in Seq(Nat) /\ MeansUnit(u) \in AttrSetting
<1>1. CASE u \in BasicUnit
  <2>1. PICK code \in Nat \ Extends : u = <<code>>
    BY <1>1 DEF BasicUnit
  <2>2. Len(u) = 1 /\ u[1] = code /\ u \in Seq(Nat)
    BY <2>1
  <2>3. ps[i] = code
    <3>1. ps[i + 1 - 1] = u[1]
      BY <2>2
    <3> QED
      BY <2>2, <3>1
  <2>4. code \notin {38, 48}
    BY <2>1 DEF Extends
  <2>5. MeansUnit(u) = BasicSgr(code)
    BY <1>1, <2>2 DEF MeansUnit
  <2> QED
    BY <2>2, <2>3, <2>4, <2>5, BasicSets DEF Unit
<1>2. CASE u \in CutUnit
  <2>1. u \in Seq(Nat) /\ u[1] \in Extends /\ Len(u) \in Nat /\ Len(u) >= 1
    <3>1. u \in Seq(Nat) /\ u # <<>> /\ u[1] \in Extends
      BY <1>2 DEF CutUnit
    <3> QED
      BY <3>1, EmptySeq
  <2>2. u \notin BasicUnit
    BY <2>1 DEF BasicUnit
  <2>3. MeansUnit(u) = <<>> /\ <<>> \in AttrSetting
    BY <1>2, <2>2 DEF MeansUnit, AttrSetting
  <2>4. PICK n : n = Len(u)
    OBVIOUS
  <2>5. Len(ps) - i = n - 1 /\ n \in Nat /\ n >= 1
    BY <1>2, <2>1, <2>4
  <2>6. ps[i] = u[1]
    <3>1. ps[i + 1 - 1] = u[1]
      BY <2>1
    <3> QED
      BY <3>1
  <2>7. /\ n >= 2 => ps[i + 1] = u[2]
    <3>1. n >= 2 => ps[i + 2 - 1] = u[2]
      BY <2>4, <2>5
    <3> QED
      BY <3>1
  <2>8. ~(n >= 3 /\ u[2] = 5) /\ ~(n >= 5 /\ u[2] = 2)
    BY <1>2, <2>4 DEF CutUnit
  <2>9. PICK left : left = Len(ps) - i
    OBVIOUS
  <2>10. Extended(ps, i) = [takes |-> n - 1, sets |-> <<>>]
    <3>1. CASE left = 0
      BY <2>5, <2>9, <3>1 DEF Extended
    <3>2. CASE left # 0
      <4>1. n >= 2 /\ ~(ps[i + 1] = 5 /\ left >= 2) /\ ~(ps[i + 1] = 2 /\ left >= 4)
        BY <2>5, <2>7, <2>8, <2>9, <3>2
      <4> QED
        BY <2>5, <2>9, <3>2, <4>1 DEF Extended
    <3> QED
      BY <3>1, <3>2
  <2> QED
    BY <2>1, <2>3, <2>4, <2>6, <2>10 DEF Unit, Extends
<1>3. CASE u \in ColourUnit
  <2>1. /\ u \in Seq(Nat) /\ u[1] \in Extends
        /\ (Len(u) = 3 /\ u[2] = 5) \/ (Len(u) = 5 /\ u[2] = 2)
    <3>1. CASE \E code \in Extends, n \in Nat : u = <<code, 5, n>>
      BY <3>1 DEF Extends
    <3>2. CASE \E code \in Extends, r, g, b \in Nat : u = <<code, 2, r, g, b>>
      BY <3>2 DEF Extends
    <3> QED
      BY <1>3, <3>1, <3>2 DEF ColourUnit
  <2>2. u \notin BasicUnit /\ u \notin CutUnit
    <3>1. u \notin BasicUnit
      BY <2>1 DEF BasicUnit
    <3>2. PICK n : n = Len(u)
      OBVIOUS
    <3>3. (n >= 3 /\ u[2] = 5) \/ (n >= 5 /\ u[2] = 2)
      BY <2>1, <3>2
    <3>4. u \notin CutUnit
      BY <3>2, <3>3 DEF CutUnit
    <3> QED
      BY <3>1, <3>4
  <2>3. PICK x : x = IF u[1] = 38 THEN "fg" ELSE "bg"
    OBVIOUS
  <2>4. PICK v : v = ColourOf(u)
    OBVIOUS
  <2>5. MeansUnit(u) = SetsTo({x}, v)
    BY <2>2, <2>3, <2>4 DEF MeansUnit, SetsTo
  <2>6. v \in AttributeValue
    <3>1. \A k \in 1..Len(u) : u[k] \in Nat
      BY <2>1, ElementOfSeq
    <3>2. CASE Len(u) = 3 /\ u[2] = 5
      BY <2>4, <3>1, <3>2, Values DEF ColourOf
    <3>3. CASE Len(u) = 5 /\ u[2] = 2
      <4>1. u[3] \in Nat /\ u[4] \in Nat /\ u[5] \in Nat /\ u[2] # 5
        BY <3>1, <3>3
      <4>2. v = Rgb(Byte(u[3]), Byte(u[4]), Byte(u[5]))
        BY <2>4, <4>1 DEF ColourOf
      <4> QED
        BY <4>1, <4>2, Values
    <3> QED
      BY <2>1, <3>2, <3>3
  <2>7. MeansUnit(u) \in AttrSetting
    <3>1. {x} \in SUBSET Attributes
      BY <2>3 DEF Attributes, Channels
    <3> QED
      BY <2>5, <2>6, <3>1, OneSetting
  <2>8. PICK left : left = Len(ps) - i
    OBVIOUS
  <2>9. Extended(ps, i) = [takes |-> Len(u) - 1, sets |-> SetsTo({x}, v)]
    <3>1. CASE Len(u) = 3 /\ u[2] = 5
      <4>1. left >= 2 /\ ps[i] = u[1] /\ ps[i + 1] = 5 /\ ps[i + 2] = u[3]
        <5>1. ps[i + 1 - 1] = u[1] /\ ps[i + 2 - 1] = u[2] /\ ps[i + 3 - 1] = u[3]
          BY <3>1
        <5>2. left \in Int /\ left >= 2
          BY <2>8, <3>1
        <5> QED
          BY <3>1, <5>1, <5>2
      <4>2. left # 0
        BY <4>1
      <4>3. v = Indexed(ps[i + 2])
        BY <2>4, <3>1, <4>1 DEF ColourOf
      <4>4. CASE ps[i] = 38
        <5>1. x = "fg"
          BY <2>3, <4>1, <4>4
        <5> QED
          BY <2>8, <3>1, <4>1, <4>2, <4>3, <4>4, <5>1 DEF Extended
      <4>5. CASE ps[i] # 38
        <5>1. x = "bg"
          BY <2>3, <4>1, <4>5
        <5> QED
          BY <2>8, <3>1, <4>1, <4>2, <4>3, <4>5, <5>1 DEF Extended
      <4> QED
        BY <4>4, <4>5
    <3>2. CASE Len(u) = 5 /\ u[2] = 2
      <4>1. /\ left >= 4 /\ ps[i] = u[1] /\ ps[i + 1] = 2 /\ ps[i + 2] = u[3]
            /\ ps[i + 3] = u[4] /\ ps[i + 4] = u[5]
        <5>1. /\ ps[i + 1 - 1] = u[1] /\ ps[i + 2 - 1] = u[2] /\ ps[i + 3 - 1] = u[3]
              /\ ps[i + 4 - 1] = u[4] /\ ps[i + 5 - 1] = u[5]
          BY <3>2
        <5>2. left \in Int /\ left >= 4
          BY <2>8, <3>2
        <5> QED
          BY <3>2, <5>1, <5>2
      <4>2. left # 0
        BY <4>1
      <4>3. v = Rgb(Byte(ps[i + 2]), Byte(ps[i + 3]), Byte(ps[i + 4]))
        BY <2>4, <3>2, <4>1 DEF ColourOf
      <4>4. CASE ps[i] = 38
        <5>1. x = "fg"
          BY <2>3, <4>1, <4>4
        <5> QED
          BY <2>8, <3>2, <4>1, <4>2, <4>3, <4>4, <5>1 DEF Extended
      <4>5. CASE ps[i] # 38
        <5>1. x = "bg"
          BY <2>3, <4>1, <4>5
        <5> QED
          BY <2>8, <3>2, <4>1, <4>2, <4>3, <4>5, <5>1 DEF Extended
      <4> QED
        BY <4>4, <4>5
    <3> QED
      BY <2>1, <3>1, <3>2
  <2>10. ps[i] \in {38, 48}
    <3>1. ps[i + 1 - 1] = u[1]
      BY <2>1
    <3> QED
      BY <2>1, <3>1 DEF Extends
  <2>11. Len(u) \in Nat \ {0}
    BY <2>1
  <2> QED
    BY <2>1, <2>5, <2>7, <2>9, <2>10, <2>11 DEF Unit
<1> QED
  BY <1>1, <1>2, <1>3 DEF SgrUnit

-----------------------------------------------------------------------------
\* What apply_sgr has after the first i parameters.
ReadOf(r, ps, was) ==
  /\ r = [i \in 0..Len(ps) |-> r[i]] /\ r[0] = [upto |-> 0, attrs |-> was]
  /\ \A i \in 1..Len(ps) :
       r[i] = IF i <= r[i - 1].upto THEN r[i - 1]
              ELSE [upto |-> i + Unit(ps, i).takes,
                    attrs |-> Updated(r[i - 1].attrs, Unit(ps, i).sets)]

\* What ApplySgr has read up to each parameter is a function,
LEMMA ReadExists ==
  ASSUME NEW ps, NEW was, Len(ps) \in Nat
  PROVE  \E r : ReadOf(r, ps, was)
<1> DEFINE After(i, prior) ==
             IF i <= prior.upto THEN prior
             ELSE [upto |-> i + Unit(ps, i).takes,
                   attrs |-> Updated(prior.attrs, Unit(ps, i).sets)]
           IsRead(r, n) == /\ r = [i \in 0..n |-> r[i]] /\ r[0] = [upto |-> 0, attrs |-> was]
                          /\ \A i \in 1..n : r[i] = After(i, r[i - 1])
           Good == {n \in Nat : \E r : IsRead(r, n)}
<1>1. 0 \in Good
  <2>1. IsRead([i \in 0..0 |-> [upto |-> 0, attrs |-> was]], 0)
    OBVIOUS
  <2> HIDE DEF IsRead
  <2> QED
    BY <2>1
<1>2. ASSUME NEW n \in Nat, n \in Good PROVE n + 1 \in Good
  <2>1. PICK r : IsRead(r, n)
    BY <1>2
  <2>2. PICK new : new = After(n + 1, r[n])
    OBVIOUS
  <2>3. PICK h : h = [i \in 0..n + 1 |-> IF i = n + 1 THEN new ELSE r[i]]
    OBVIOUS
  <2>4. h[n + 1] = new /\ \A i \in 0..n : h[i] = r[i]
    BY <2>3
  <2>5. h = [i \in 0..n + 1 |-> h[i]] /\ h[0] = [upto |-> 0, attrs |-> was]
    <3>1. r[0] = [upto |-> 0, attrs |-> was]
      BY <2>1
    <3>2. h[0] = r[0]
      BY <2>4
    <3>3. h = [i \in 0..n + 1 |-> h[i]]
      BY <2>3
    <3> QED
      BY <3>1, <3>2, <3>3
  <2>6. ASSUME NEW i \in 1..n + 1 PROVE h[i] = After(i, h[i - 1])
    <3>1. CASE i = n + 1
      <4>1. h[i] = new /\ h[i - 1] = r[n]
        BY <2>4, <3>1
      <4> HIDE DEF After
      <4> QED
        BY <2>2, <3>1, <4>1
    <3>2. CASE i \in 1..n
      <4>1. h[i] = r[i] /\ h[i - 1] = r[i - 1] /\ r[i] = After(i, r[i - 1])
        <5> HIDE DEF After
        <5>1. r[i] = After(i, r[i - 1])
          BY <2>1, <3>2
        <5>2. i \in 0..n /\ i - 1 \in 0..n
          BY <3>2
        <5> QED
          BY <2>4, <5>1, <5>2
      <4> HIDE DEF After
      <4> QED
        BY <4>1
    <3> QED
      BY <3>1, <3>2
  <2>7. IsRead(h, n + 1)
    <3> HIDE DEF After
    <3> QED
      BY <2>5, <2>6
  <2> HIDE DEF IsRead
  <2> QED
    BY <2>7
<1>3. Nat \subseteq Good
  <2> HIDE DEF Good
  <2> QED
    BY <1>1, <1>2, SetInduction
<1>4. PICK r : IsRead(r, Len(ps))
  BY <1>3
<1> QED
  BY <1>4 DEF ReadOf

\* and its value at the last one is what ApplySgr returns.
LEMMA ApplySgrIs ==
  ASSUME NEW ps, NEW was, Len(ps) \in Nat
  PROVE  \E r : ReadOf(r, ps, was) /\ ApplySgr(ps, was) = r[Len(ps)].attrs
<1> DEFINE Fix(r) ==
             r = [i \in 0..Len(ps) |->
                   IF i = 0 THEN [upto |-> 0, attrs |-> was]
                   ELSE IF i <= r[i - 1].upto THEN r[i - 1]
                   ELSE [upto |-> i + Unit(ps, i).takes,
                         attrs |-> Updated(r[i - 1].attrs, Unit(ps, i).sets)]]
<1>1. PICK g : ReadOf(g, ps, was)
  BY ReadExists
<1>2. Fix(g)
  <2>1. ASSUME NEW i \in 0..Len(ps)
        PROVE  g[i] = IF i = 0 THEN [upto |-> 0, attrs |-> was]
                      ELSE IF i <= g[i - 1].upto THEN g[i - 1]
                      ELSE [upto |-> i + Unit(ps, i).takes,
                            attrs |-> Updated(g[i - 1].attrs, Unit(ps, i).sets)]
    <3>1. CASE i = 0
      BY <1>1, <3>1 DEF ReadOf
    <3>2. CASE i # 0
      <4>1. i \in 1..Len(ps)
        BY <3>2
      <4> QED
        BY <1>1, <3>2, <4>1 DEF ReadOf
    <3> QED
      BY <3>1, <3>2
  <2>2. g = [i \in 0..Len(ps) |-> g[i]]
    BY <1>1 DEF ReadOf
  <2> QED
    BY <2>1, <2>2
<1>3. PICK r : r = CHOOSE e : Fix(e)
  OBVIOUS
<1>4. Fix(r)
  <2> HIDE DEF Fix
  <2> QED
    BY <1>2, <1>3
<1>5. ReadOf(r, ps, was)
  <2>1. \A i \in 0..Len(ps) :
          r[i] = IF i = 0 THEN [upto |-> 0, attrs |-> was]
                 ELSE IF i <= r[i - 1].upto THEN r[i - 1]
                 ELSE [upto |-> i + Unit(ps, i).takes,
                       attrs |-> Updated(r[i - 1].attrs, Unit(ps, i).sets)]
    BY <1>4
  <2>2. r[0] = [upto |-> 0, attrs |-> was]
    <3>1. 0 \in 0..Len(ps)
      OBVIOUS
    <3> QED
      BY <2>1, <3>1
  <2>3. ASSUME NEW i \in 1..Len(ps)
        PROVE  r[i] = IF i <= r[i - 1].upto THEN r[i - 1]
                      ELSE [upto |-> i + Unit(ps, i).takes,
                            attrs |-> Updated(r[i - 1].attrs, Unit(ps, i).sets)]
    <3>1. i \in 0..Len(ps) /\ i # 0
      OBVIOUS
    <3> QED
      BY <2>1, <3>1
  <2>4. r = [i \in 0..Len(ps) |-> r[i]]
    BY <1>4
  <2> QED
    BY <2>2, <2>3, <2>4 DEF ReadOf
<1>6. ApplySgr(ps, was) = r[Len(ps)].attrs
  BY <1>3 DEF ApplySgr
<1> QED
  BY <1>5, <1>6

\* The parameters of a unit are not read again.
LEMMA ReadIsHeld ==
  ASSUME NEW ps \in Seq(Nat), NEW was, NEW r, ReadOf(r, ps, was)
  PROVE  \A i, m \in 0..Len(ps) : i <= m /\ r[i].upto = m => r[m] = r[i]
<1> SUFFICES ASSUME NEW i \in 0..Len(ps), NEW m \in 0..Len(ps), i <= m, r[i].upto = m
             PROVE  r[m] = r[i]
  OBVIOUS
<1> DEFINE Good == {d \in Nat : i + d <= m => r[i + d] = r[i]}
<1>1. 0 \in Good
  OBVIOUS
<1>2. ASSUME NEW d \in Nat, d \in Good PROVE d + 1 \in Good
  <2>1. CASE i + (d + 1) <= m
    <3>1. r[i + d] = r[i]
      BY <1>2, <2>1
    <3>2. PICK j : j = i + (d + 1)
      OBVIOUS
    <3>3. j \in 1..Len(ps) /\ j - 1 = i + d /\ j <= m
      BY <2>1, <3>2
    <3>4. r[j] = r[j - 1]
      BY <3>1, <3>3 DEF ReadOf
    <3> QED
      BY <3>1, <3>2, <3>3, <3>4
  <2> QED
    BY <2>1
<1>3. Nat \subseteq Good
  <2> HIDE DEF Good
  <2> QED
    BY <1>1, <1>2, SetInduction
<1>4. m - i \in Nat /\ i + (m - i) = m
  OBVIOUS
<1> QED
  BY <1>3, <1>4

\* The first elements of a sequence.
BeginsWith(p, s) == Len(p) <= Len(s) /\ \A k \in 1..Len(p) : s[k] = p[k]

\* A unit has at least one parameter, and means a setting.
LEMMA UnitFacts ==
  ASSUME NEW u \in SgrUnit
  PROVE  /\ u \in Seq(Nat) /\ MeansUnit(u) \in AttrSetting
         /\ u # <<>> /\ Len(u) \in Nat /\ Len(u) >= 1
<1>1. u \in Seq(Nat) /\ u # <<>>
  <2>1. CASE u \in BasicUnit
    <3>1. PICK code \in Nat : u = <<code>>
      BY <2>1 DEF BasicUnit
    <3>2. \A x \in Nat : <<x>> \in Seq(Nat) /\ <<x>> # <<>>
      OBVIOUS
    <3> QED
      BY <3>1, <3>2
  <2>2. CASE \E code \in Extends, n \in Nat : u = <<code, 5, n>>
    BY <2>2 DEF Extends
  <2>3. CASE \E code \in Extends, r, g, b \in Nat : u = <<code, 2, r, g, b>>
    BY <2>3 DEF Extends
  <2>4. CASE u \in CutUnit
    BY <2>4 DEF CutUnit
  <2> QED
    BY <2>1, <2>2, <2>3, <2>4 DEF SgrUnit, ColourUnit
<1>2. Len(u) \in Nat /\ Len(u) >= 1
  BY <1>1, EmptySeq
<1>3. 1 \in 1..Len(u) /\ 1 + Len(u) - 1 <= Len(u) /\ 1 + Len(u) - 1 = Len(u)
      /\ \A k \in 1..Len(u) : 1 + k - 1 = k
  BY <1>2
<1> QED
  BY <1>1, <1>2, <1>3, UnitIs

\* Units are numbers, one after the other.
LEMMA UnitsOfNumbers ==
  ASSUME NEW us \in Seq(SgrUnit)
  PROVE  us \in Seq(Seq(Nat)) /\ FlattenSeq(us) \in Seq(Nat) /\ MeansUnits(us) \in Seq(AttrSetting)
<1>1. ASSUME NEW u \in SgrUnit
      PROVE  u \in Seq(Nat) /\ MeansUnit(u) \in AttrSetting
  BY UnitFacts
<1>2. us \in Seq(Seq(Nat))
  <2>1. Len(us) \in Nat /\ us = [i \in 1..Len(us) |-> us[i]]
    OBVIOUS
  <2>2. \A i \in 1..Len(us) : us[i] \in Seq(Nat)
    BY <1>1, ElementOfSeq
  <2> QED
    BY <2>1, <2>2
<1>3. MeansUnits(us) \in Seq(AttrSetting)
  <2>1. \A i \in 1..Len(us) : MeansUnit(us[i]) \in AttrSetting
    BY <1>1, ElementOfSeq
  <2>2. Len(us) \in Nat
    OBVIOUS
  <2> QED
    BY <2>1, <2>2 DEF MeansUnits
<1> QED
  BY <1>2, <1>3, FlattenType

ReadThrough(us, was) ==
  (\A i \in 1..Len(us) - 1 : us[i] \notin CutUnit) =>
    \A ps \in Seq(Nat) : \A r :
      /\ BeginsWith(FlattenSeq(us), ps) /\ ReadOf(r, ps, was)
      /\ us # <<>> /\ us[Len(us)] \in CutUnit => Len(ps) = Len(FlattenSeq(us))
      => r[Len(FlattenSeq(us))] =
           [upto |-> Len(FlattenSeq(us)), attrs |-> Latest(MeansUnits(us), was)]

\* ApplySgr reads units as they are meant: by SetInduction over how many there are.
LEMMA UnitsAreRead ==
  ASSUME NEW was \in AllAttrs, NEW us \in Seq(SgrUnit)
  PROVE  ReadThrough(us, was)
<1> DEFINE Good == {vs \in Seq(SgrUnit) : ReadThrough(vs, was)}
<1>1. <<>> \in Good
  <2>1. Len(FlattenSeq(<<>>)) = 0
    BY FlattenEmpty
  <2>2. MeansUnits(<<>>) = <<>>
    BY DEF MeansUnits
  <2>3. \A ps, r : ReadOf(r, ps, was) => r[0] = [upto |-> 0, attrs |-> was]
    BY DEF ReadOf
  <2>4. Latest(MeansUnits(<<>>), was) = was
    BY <2>2, LatestOfNothing
  <2>5. ReadThrough(<<>>, was)
    BY <2>1, <2>3, <2>4 DEF ReadThrough
  <2>6. <<>> \in Seq(SgrUnit)
    OBVIOUS
  <2> QED
    BY <2>5, <2>6
<1>2. ASSUME NEW vs \in Seq(SgrUnit), NEW u \in SgrUnit, vs \in Good
      PROVE  Append(vs, u) \in Good
  <2>1. PICK longer, flat, both : /\ longer = Append(vs, u) /\ flat = FlattenSeq(vs)
                                  /\ both = FlattenSeq(longer)
    OBVIOUS
  <2>2. /\ longer \in Seq(SgrUnit) /\ Len(longer) = Len(vs) + 1 /\ Len(vs) \in Nat
        /\ longer[Len(vs) + 1] = u /\ \A i \in 1..Len(vs) : longer[i] = vs[i]
    BY <2>1, AppendProperties
  <2>3. /\ vs \in Seq(Seq(Nat)) /\ flat \in Seq(Nat) /\ MeansUnits(vs) \in Seq(AttrSetting)
        /\ both \in Seq(Nat)
    BY <2>1, <2>2, UnitsOfNumbers
  <2>4. u \in Seq(Nat)
    <3>1. longer \in Seq(Seq(Nat)) /\ Len(vs) + 1 \in 1..Len(longer)
      BY <2>2, UnitsOfNumbers
    <3> QED
      BY <2>2, <3>1, ElementOfSeq
  <2>5. /\ Len(both) = Len(flat) + Len(u) /\ Len(flat) \in Nat /\ Len(u) \in Nat
        /\ \A k \in 1..Len(flat) : both[k] = flat[k]
        /\ \A k \in 1..Len(u) : both[Len(flat) + k] = u[k]
    <3>1. both = flat \o u
      BY <2>1, <2>3, <2>4, FlattenAppend
    <3>2. /\ Len(both) = Len(flat) + Len(u) /\ Len(flat) \in Nat /\ Len(u) \in Nat
          /\ \A k \in 1..Len(flat) + Len(u) :
               both[k] = IF k <= Len(flat) THEN flat[k] ELSE u[k - Len(flat)]
      BY <2>3, <2>4, <3>1, ConcatProperties
    <3>3. PICK m, n \in Nat : m = Len(flat) /\ n = Len(u)
      BY <3>2
    <3>4. /\ \A k \in 1..m : k \in 1..m + n /\ k <= m
          /\ \A k \in 1..n : m + k \in 1..m + n /\ ~(m + k <= m) /\ (m + k) - m = k
      OBVIOUS
    <3> QED
      BY <3>2, <3>3, <3>4
  <2>6. ASSUME \A i \in 1..Len(longer) - 1 : longer[i] \notin CutUnit,
               NEW ps \in Seq(Nat), NEW r, BeginsWith(both, ps), ReadOf(r, ps, was),
               longer # <<>> /\ longer[Len(longer)] \in CutUnit => Len(ps) = Len(both)
        PROVE  r[Len(both)] = [upto |-> Len(both), attrs |-> Latest(MeansUnits(longer), was)]
    <3>a. Len(ps) \in Nat
      OBVIOUS
    <3>1. PICK m, n, len \in Nat : m = Len(flat) /\ n = Len(u) /\ len = Len(ps)
      BY <2>5, <3>a
    <3>2. Len(both) = m + n /\ m + n <= len /\ \A k \in 1..m + n : ps[k] = both[k]
      BY <2>5, <2>6, <3>1 DEF BeginsWith
    <3>3. /\ \A k \in 1..m : ps[k] = flat[k]
          /\ \A k \in 1..n : ps[m + k] = u[k]
      <4>1. /\ \A k \in 1..m : k \in 1..m + n
            /\ \A k \in 1..n : m + k \in 1..m + n
        OBVIOUS
      <4> QED
        BY <2>5, <3>1, <3>2, <4>1
    <3>4. BeginsWith(flat, ps)
      BY <3>1, <3>2, <3>3 DEF BeginsWith
    <3>5. \A i \in 1..Len(vs) : vs[i] \notin CutUnit
      BY <2>2, <2>6
    <3>6. PICK earlier : earlier = Latest(MeansUnits(vs), was)
      OBVIOUS
    <3>7. r[m] = [upto |-> m, attrs |-> earlier]
      <4>1. ReadThrough(vs, was)
        BY <1>2
      <4>2. \A i \in 1..Len(vs) - 1 : vs[i] \notin CutUnit
        BY <2>2, <3>5
      <4>3. ~(vs # <<>> /\ vs[Len(vs)] \in CutUnit)
        <5>1. vs # <<>> => Len(vs) \in 1..Len(vs)
          BY <2>2, EmptySeq
        <5> QED
          BY <3>5, <5>1
      <4> QED
        BY <2>1, <2>6, <3>1, <3>4, <3>6, <4>1, <4>2, <4>3 DEF ReadThrough
    <3>8. /\ Unit(ps, m + 1) = [takes |-> n - 1, sets |-> MeansUnit(u)]
          /\ n >= 1 /\ MeansUnit(u) \in AttrSetting
      <4>1. n >= 1
        BY <3>1, UnitFacts
      <4>2. PICK i : i = m + 1
        OBVIOUS
      <4>3. i \in 1..Len(ps) /\ i + Len(u) - 1 <= Len(ps)
        BY <3>1, <3>2, <4>1, <4>2
      <4>4. \A k \in 1..Len(u) : ps[i + k - 1] = u[k]
        <5>1. \A k \in 1..Len(u) : i + k - 1 = m + k
          BY <4>2
        <5> QED
          BY <3>1, <3>3, <5>1
      <4>5. u \in CutUnit => i + Len(u) - 1 = Len(ps)
        <5>1. longer # <<>> /\ longer[Len(longer)] = u
          <6>1. Len(longer) = Len(vs) + 1
            BY <2>2
          <6>2. longer # <<>>
            BY <2>2, EmptySeq
          <6> QED
            BY <2>2, <6>1, <6>2
        <5>2. u \in CutUnit => Len(ps) = Len(both)
          BY <2>6, <5>1
        <5>3. i + Len(u) - 1 = Len(both)
          <6>1. i + n - 1 = m + n
            BY <4>2
          <6> QED
            BY <3>1, <3>2, <6>1
        <5> QED
          BY <5>2, <5>3
      <4>6. Unit(ps, i) = [takes |-> Len(u) - 1, sets |-> MeansUnit(u)] /\ MeansUnit(u) \in AttrSetting
        BY <4>3, <4>4, <4>5, UnitIs
      <4> QED
        BY <3>1, <4>1, <4>2, <4>6
    <3>9. PICK i : i = m + 1
      OBVIOUS
    <3>10. i \in 1..Len(ps) /\ i - 1 = m /\ ~(i <= m) /\ i + (n - 1) = m + n /\ i \in Nat
      BY <3>1, <3>2, <3>8, <3>9
    <3>11. r[i] = [upto |-> m + n, attrs |-> Updated(earlier, MeansUnit(u))]
      <4>1. r[i] = IF i <= r[i - 1].upto THEN r[i - 1]
                   ELSE [upto |-> i + Unit(ps, i).takes,
                         attrs |-> Updated(r[i - 1].attrs, Unit(ps, i).sets)]
        BY <2>6, <3>10 DEF ReadOf
      <4>2. r[i - 1].upto = m /\ r[i - 1].attrs = earlier
        BY <3>7, <3>10
      <4>3. Unit(ps, i).takes = n - 1 /\ Unit(ps, i).sets = MeansUnit(u)
        BY <3>8, <3>9
      <4> QED
        BY <3>10, <4>1, <4>2, <4>3
    <3>12. r[m + n] = r[i]
      <4>1. PICK top \in Nat : top = m + n
        OBVIOUS
      <4>2. top \in 0..Len(ps) /\ i \in 0..Len(ps) /\ i <= top /\ r[i].upto = top
        BY <3>1, <3>2, <3>8, <3>9, <3>11, <4>1
      <4>3. \A k, l \in 0..Len(ps) : k <= l /\ r[k].upto = l => r[l] = r[k]
        BY <2>6, ReadIsHeld
      <4> QED
        BY <4>1, <4>2, <4>3
    <3>13. MeansUnits(longer) = Append(MeansUnits(vs), MeansUnit(u))
      <4>1. PICK a, b : a = MeansUnits(vs) /\ b = Append(a, MeansUnit(u))
        OBVIOUS
      <4>2. a \in Seq(AttrSetting) /\ Len(a) = Len(vs) /\ \A j \in 1..Len(vs) : a[j] = MeansUnit(vs[j])
        BY <2>2, <2>3, <4>1 DEF MeansUnits
      <4>3. /\ b \in Seq(AttrSetting) /\ Len(b) = Len(vs) + 1 /\ b[Len(vs) + 1] = MeansUnit(u)
            /\ \A j \in 1..Len(vs) : b[j] = a[j]
        BY <3>8, <4>1, <4>2, AppendProperties
      <4>4. b = [j \in 1..Len(vs) + 1 |-> b[j]]
        BY <4>3
      <4>5. \A j \in 1..Len(vs) + 1 : b[j] = MeansUnit(longer[j])
        <5>1. \A j \in 1..Len(vs) + 1 : j = Len(vs) + 1 \/ j \in 1..Len(vs)
          BY <2>2
        <5> QED
          BY <2>2, <4>2, <4>3, <5>1
      <4>6. MeansUnits(longer) = [j \in 1..Len(vs) + 1 |-> MeansUnit(longer[j])]
        BY <2>2 DEF MeansUnits
      <4>7. b = [j \in 1..Len(vs) + 1 |-> MeansUnit(longer[j])]
        BY <4>4, <4>5
      <4> QED
        BY <4>1, <4>6, <4>7
    <3>14. Latest(MeansUnits(longer), was) = Updated(earlier, MeansUnit(u))
      BY <2>3, <3>6, <3>8, <3>13, LatestAppend
    <3> QED
      BY <3>2, <3>11, <3>12, <3>14
  <2>7. ReadThrough(longer, was)
    BY <2>1, <2>6 DEF ReadThrough
  <2> QED
    BY <2>1, <2>2, <2>7
<1>3. Seq(SgrUnit) \subseteq Good
  <2> HIDE DEF Good
  <2> QED
    BY <1>1, <1>2, SeqInduction
<1> QED
  BY <1>3

\* What apply_sgr makes of parameters is what their units set, each attribute as the last
\* of them has it.
LEMMA SgrIsItsUnits ==
  ASSUME NEW was \in AllAttrs, NEW us \in SgrUnits
  PROVE  /\ ApplySgr(FlattenSeq(us), was) = Updated(was, Together(MeansUnits(us)))
         /\ Together(MeansUnits(us)) \in AttrSetting
<1>1. PICK ps : ps = FlattenSeq(us)
  OBVIOUS
<1>2. us \in Seq(SgrUnit) /\ \A i \in 1..Len(us) - 1 : us[i] \notin CutUnit
  BY DEF SgrUnits
<1>3. ps \in Seq(Nat) /\ Len(ps) \in Nat /\ MeansUnits(us) \in Seq(AttrSetting)
  BY <1>1, <1>2, UnitsOfNumbers
<1>4. PICK r : ReadOf(r, ps, was) /\ ApplySgr(ps, was) = r[Len(ps)].attrs
  BY <1>3, ApplySgrIs
<1>5. BeginsWith(ps, ps)
  BY <1>3 DEF BeginsWith
<1>6. r[Len(ps)] = [upto |-> Len(ps), attrs |-> Latest(MeansUnits(us), was)]
  BY <1>1, <1>2, <1>3, <1>4, <1>5, UnitsAreRead DEF ReadThrough
<1>7. ApplySgr(ps, was) = Latest(MeansUnits(us), was)
  BY <1>4, <1>6
<1> QED
  BY <1>1, <1>3, <1>7, TogetherFacts

-----------------------------------------------------------------------------
\* The pieces of a line: a character, an escape that starts no sequence and the character
\* behind it, or an escape before another, a sequence, and what no letter ends.
GridChars == OtherChars \cup {"a", "m", "w", "n", "t", "E", "["}
GridLetters == {"a", "m", "w"}
ParamChars == GridChars \ GridLetters
GridPiece == [chars : Seq(GridChars), sets : AttrSetting]

IsCharacter(p) == p.sets = <<>> /\ \E c \in GridChars \ {"E"} : p.chars = <<c>>
IsBareEscape(p) == p.sets = <<>> /\ \E c \in GridChars \ {"E", "["} : p.chars = <<"E", c>>
SequenceOf(ps, c) == (<<"E", "[">> \o ps) \o <<c>>
IsOther(p) ==
  p.sets = <<>> /\ \E ps \in Seq(ParamChars), c \in GridLetters \ {"m"} :
                    p.chars = SequenceOf(ps, c)
IsSgr(p) ==
  \E ps \in Seq(ParamChars), us \in SgrUnits :
    /\ ParseSgrParams(ps) = FlattenSeq(us)
    /\ p.chars = SequenceOf(ps, "m") /\ p.sets = Together(MeansUnits(us))
IsLone(p) == p.sets = <<>> /\ p.chars = <<"E">>
IsCut(p) == p.sets = <<>> /\ \E ps \in Seq(ParamChars) : p.chars = <<"E">> \o ps

GridLine ==
  {line \in Seq(GridPiece) :
     \A i \in 1..Len(line) :
       \/ IsCharacter(line[i]) \/ IsBareEscape(line[i]) \/ IsOther(line[i]) \/ IsSgr(line[i])
       \/ IsLone(line[i]) /\ i < Len(line) /\ line[i + 1].chars[1] = "E"
       \/ IsCut(line[i]) /\ i = Len(line)}

GridSpec == (\E pieces \in Seq(GridLine) : GridInit(pieces)) /\ [][GridStep]_gridVars

\* Two elements as a sequence.
LEMMA PairIs ==
  ASSUME NEW S, NEW x \in S, NEW y \in S
  PROVE  <<x>> \o <<>> = <<x>> /\ <<x>> \o <<y>> = <<x, y>>
<1>1. PICK a, b, e, w : a = <<x>> /\ b = <<y>> /\ e = <<x, y>> /\ w = a \o b
  OBVIOUS
<1>2. /\ a \in Seq(S) /\ Len(a) = 1 /\ a[1] = x /\ b \in Seq(S) /\ Len(b) = 1 /\ b[1] = y
      /\ e \in Seq(S) /\ Len(e) = 2 /\ e[1] = x /\ e[2] = y
  BY <1>1
<1>3. a \in Seq(S) /\ b \in Seq(S)
  BY <1>2
<1>4. /\ w \in Seq(S) /\ Len(w) = Len(a) + Len(b)
      /\ \A i \in 1..Len(a) + Len(b) : w[i] = IF i <= Len(a) THEN a[i] ELSE b[i - Len(a)]
  BY <1>1, <1>3, ConcatProperties
<1>5. /\ 1 \in 1..Len(a) + Len(b) /\ 2 \in 1..Len(a) + Len(b)
      /\ 1 <= Len(a) /\ ~(2 <= Len(a)) /\ 2 - Len(a) = 1 /\ Len(w) = 2
  BY <1>2, <1>4
<1>6. w[1] = x /\ w[2] = y
  BY <1>2, <1>4, <1>5
<1>7. \A i \in 1..Len(w) : i = 1 \/ i = 2
  BY <1>5
<1>8. \A i \in 1..Len(w) : w[i] = e[i]
  BY <1>2, <1>6, <1>7
<1>9. w = e
  BY <1>2, <1>4, <1>5, <1>8, SeqEqual
<1> QED
  BY <1>1, <1>3, <1>9, ConcatEmptySeq

\* What is left when the first of two sequences is dropped is the second.
LEMMA WithoutFirst ==
  ASSUME NEW S, NEW s \in Seq(S), NEW u \in Seq(S)
  PROVE  SubSeq(s \o u, Len(s) + 1, Len(s \o u)) = u
<1>1. PICK w, m, n : w = s \o u /\ m = Len(s) /\ n = Len(u)
  OBVIOUS
<1>2. /\ m \in Nat /\ n \in Nat /\ w \in Seq(S) /\ Len(w) = m + n
      /\ \A i \in 1..m + n : w[i] = IF i <= m THEN s[i] ELSE u[i - m]
  BY <1>1, ConcatProperties
<1>3. PICK v : v = SubSeq(w, m + 1, m + n)
  OBVIOUS
<1>4. v \in Seq(S) /\ Len(v) = n /\ \A i \in 1..n : v[i] = w[m + i]
  <2>1. \A i \in m + 1..m + n : w[i] \in S
    BY <1>2, ElementOfSeq
  <2>2. /\ v \in Seq(S) /\ Len(v) = IF m + 1 <= m + n THEN (m + n) - (m + 1) + 1 ELSE 0
        /\ \A i \in 1..(m + n) - (m + 1) + 1 : v[i] = w[(m + 1) + i - 1]
    BY <1>2, <1>3, <2>1, SubSeqProperties
  <2>3. (m + n) - (m + 1) + 1 = n /\ \A i \in 1..n : (m + 1) + i - 1 = m + i
    BY <1>2
  <2> QED
    BY <1>2, <2>2, <2>3
<1>5. \A i \in 1..n : v[i] = u[i]
  <2>1. \A i \in 1..n : m + i \in 1..m + n /\ ~(m + i <= m) /\ (m + i) - m = i
    BY <1>2
  <2> QED
    BY <1>2, <1>4, <2>1
<1>6. v = u
  BY <1>1, <1>4, <1>5, SeqEqual
<1> QED
  BY <1>1, <1>2, <1>3, <1>6

\* The characters of two parts of a line are those of the line.
LEMMA CharsOfParts ==
  ASSUME NEW s \in Seq(GridPiece), NEW u \in Seq(GridPiece)
  PROVE  /\ CharsOf(s) \in Seq(GridChars) /\ CharsOf(s \o u) = CharsOf(s) \o CharsOf(u)
         /\ SetsOf(s) \in Seq(AttrSetting) /\ SetsOf(s \o u) = SetsOf(s) \o SetsOf(u)
<1>1. PICK w, m, n : w = s \o u /\ m = Len(s) /\ n = Len(u)
  OBVIOUS
<1>2. /\ m \in Nat /\ n \in Nat /\ w \in Seq(GridPiece) /\ Len(w) = m + n
      /\ \A i \in 1..m + n : w[i] = IF i <= m THEN s[i] ELSE u[i - m]
  BY <1>1, ConcatProperties
<1>3. \A l \in Seq(GridPiece) :
        /\ [i \in 1..Len(l) |-> l[i].chars] \in Seq(Seq(GridChars))
        /\ SetsOf(l) \in Seq(AttrSetting) /\ Len(SetsOf(l)) = Len(l)
        /\ \A i \in 1..Len(l) : SetsOf(l)[i] = l[i].sets
  <2> TAKE l \in Seq(GridPiece)
  <2>1. Len(l) \in Nat /\ \A i \in 1..Len(l) : l[i] \in GridPiece
    BY ElementOfSeq
  <2>2. \A i \in 1..Len(l) : l[i].chars \in Seq(GridChars) /\ l[i].sets \in AttrSetting
    BY <2>1 DEF GridPiece
  <2> QED
    BY <2>1, <2>2 DEF SetsOf
<1>4. PICK cs, cu, cw : /\ cs = [i \in 1..Len(s) |-> s[i].chars]
                        /\ cu = [i \in 1..Len(u) |-> u[i].chars]
                        /\ cw = [i \in 1..Len(w) |-> w[i].chars]
  OBVIOUS
<1>5. cs \in Seq(Seq(GridChars)) /\ cu \in Seq(Seq(GridChars)) /\ cw \in Seq(Seq(GridChars))
  BY <1>2, <1>3, <1>4
<1>6. cw = cs \o cu
  <2>1. PICK both : both = cs \o cu
    OBVIOUS
  <2>2. Len(cs) = m /\ Len(cu) = n /\ Len(cw) = m + n
    BY <1>1, <1>2, <1>4
  <2>3. /\ both \in Seq(Seq(GridChars)) /\ Len(both) = m + n
        /\ \A i \in 1..m + n : both[i] = IF i <= m THEN cs[i] ELSE cu[i - m]
    BY <1>5, <2>1, <2>2, ConcatProperties
  <2>4. \A i \in 1..m + n : cw[i] = both[i]
    <3> TAKE i \in 1..m + n
    <3>1. CASE i <= m
      <4>1. i \in 1..m
        BY <1>2, <3>1
      <4> QED
        BY <1>1, <1>2, <1>4, <2>3, <3>1, <4>1
    <3>2. CASE ~(i <= m)
      <4>1. i - m \in 1..n
        BY <1>2, <3>2
      <4> QED
        BY <1>1, <1>2, <1>4, <2>3, <3>2, <4>1
    <3> QED
      BY <3>1, <3>2
  <2> QED
    BY <1>5, <2>1, <2>2, <2>3, <2>4, SeqEqual
<1>7. CharsOf(w) = CharsOf(s) \o CharsOf(u)
  <2>1. CharsOf(s) = FlattenSeq(cs) /\ CharsOf(u) = FlattenSeq(cu) /\ CharsOf(w) = FlattenSeq(cw)
    BY <1>4 DEF CharsOf
  <2>2. FlattenSeq(cs \o cu) = FlattenSeq(cs) \o FlattenSeq(cu)
    BY <1>5, FlattenConcat
  <2> QED
    BY <1>6, <2>1, <2>2
<1>8. CharsOf(s) \in Seq(GridChars)
  <2>1. CharsOf(s) = FlattenSeq(cs)
    BY <1>4 DEF CharsOf
  <2> QED
    BY <1>5, <2>1, FlattenType
<1>9. SetsOf(w) = SetsOf(s) \o SetsOf(u)
  <2>1. PICK a, b, c, both : a = SetsOf(s) /\ b = SetsOf(u) /\ c = SetsOf(w) /\ both = a \o b
    OBVIOUS
  <2>2. /\ a \in Seq(AttrSetting) /\ Len(a) = m /\ \A i \in 1..m : a[i] = s[i].sets
        /\ b \in Seq(AttrSetting) /\ Len(b) = n /\ \A i \in 1..n : b[i] = u[i].sets
        /\ c \in Seq(AttrSetting) /\ Len(c) = m + n /\ \A i \in 1..m + n : c[i] = w[i].sets
    BY <1>1, <1>2, <1>3, <2>1
  <2>3. /\ both \in Seq(AttrSetting) /\ Len(both) = m + n
        /\ \A i \in 1..m + n : both[i] = IF i <= m THEN a[i] ELSE b[i - m]
    BY <2>1, <2>2, ConcatProperties
  <2>4. \A i \in 1..m + n : c[i] = both[i]
    <3> TAKE i \in 1..m + n
    <3>1. CASE i <= m
      <4>1. i \in 1..m
        BY <1>2, <3>1
      <4>2. both[i] = a[i] /\ w[i] = s[i]
        BY <1>2, <2>3, <3>1
      <4>3. a[i] = s[i].sets /\ c[i] = w[i].sets
        BY <2>2, <4>1
      <4> QED
        BY <4>2, <4>3
    <3>2. CASE ~(i <= m)
      <4>1. i - m \in 1..n
        BY <1>2, <3>2
      <4>2. both[i] = b[i - m] /\ w[i] = u[i - m]
        BY <1>2, <2>3, <3>2
      <4>3. b[i - m] = u[i - m].sets /\ c[i] = w[i].sets
        BY <2>2, <4>1
      <4> QED
        BY <4>2, <4>3
    <3> QED
      BY <3>1, <3>2
  <2>5. c = both
    BY <2>2, <2>3, <2>4, SeqEqual
  <2> QED
    BY <2>1, <2>5
<1> QED
  BY <1>1, <1>3, <1>7, <1>8, <1>9

\* What one piece is, as a line.
LEMMA PartsOfOne ==
  ASSUME NEW p \in GridPiece
  PROVE  /\ <<p>> \in Seq(GridPiece) /\ CharsOf(<<p>>) = p.chars /\ SetsOf(<<p>>) = <<p.sets>>
         /\ p.chars \in Seq(GridChars) /\ p.sets \in AttrSetting
<1>1. PICK one : one = <<p>>
  OBVIOUS
<1>2. one \in Seq(GridPiece) /\ Len(one) = 1 /\ one[1] = p
  BY <1>1
<1>3. p.chars \in Seq(GridChars) /\ p.sets \in AttrSetting
  BY DEF GridPiece
<1>4. PICK c, x : c = p.chars /\ x = p.sets
  OBVIOUS
<1>5. [i \in 1..Len(one) |-> one[i].chars] = <<c>>
  BY <1>2, <1>4
<1>6. SetsOf(one) = <<x>>
  BY <1>2, <1>4 DEF SetsOf
<1>7. FlattenSeq(<<c>>) = c
  <2>1. <<>> \in Seq(Seq(GridChars)) /\ Append(<<>>, c) = <<c>>
    OBVIOUS
  <2>2. FlattenSeq(Append(<<>>, c)) = FlattenSeq(<<>>) \o c
    BY <1>3, <1>4, <2>1, FlattenAppend
  <2>3. <<>> \o c = c
    BY <1>3, <1>4, ConcatEmptySeq
  <2> QED
    BY <2>1, <2>2, <2>3, FlattenEmpty
<1>8. CharsOf(one) = c
  BY <1>5, <1>7 DEF CharsOf
<1> QED
  BY <1>1, <1>2, <1>3, <1>4, <1>6, <1>8

-----------------------------------------------------------------------------
\* How far a line is read: the pieces that are done, characters that are loose behind an
\* escape that is left out, and the pieces that are to come. No loose character starts a
\* sequence.
NoSequence(loose, todo) ==
  \/ \A k \in 1..Len(loose) : loose[k] # "E"
  \/ todo = <<>> /\ \A k \in 1..Len(loose) : loose[k] \notin GridLetters

PositionedAt(done, todo, loose, line, left, now, base) ==
  /\ line = done \o todo /\ left = loose \o CharsOf(todo)
  /\ now = Latest(SetsOf(done), base) /\ base \in AllAttrs
  /\ done = <<>> \/ Len(loose) < Len(CharsOf(done))
  /\ IF done = <<>> THEN loose = <<>> ELSE Len(loose) < Len(done[Len(done)].chars)
  /\ NoSequence(loose, todo)

Positioned(line, left, now, base) ==
  \E done, todo \in Seq(GridPiece), loose \in Seq(GridChars) :
    PositionedAt(done, todo, loose, line, left, now, base)

AnyPiece(p) ==
  IsCharacter(p) \/ IsBareEscape(p) \/ IsOther(p) \/ IsSgr(p) \/ IsLone(p) \/ IsCut(p)

\* A piece has characters, and only those that are read as such start without an escape.
LEMMA PieceFacts ==
  ASSUME NEW p \in GridPiece, AnyPiece(p)
  PROVE  /\ Len(p.chars) \in Nat /\ Len(p.chars) >= 1
         /\ p.chars[1] # "E" => IsCharacter(p)
         /\ IsCharacter(p) => p.chars[1] # "E" /\ Len(p.chars) = 1
<1>1. p.chars \in Seq(GridChars) /\ Len(p.chars) \in Nat
  BY DEF GridPiece
<1>2. ASSUME NEW ps \in Seq(ParamChars), NEW c, p.chars = SequenceOf(ps, c),
             c \in GridLetters
      PROVE  Len(p.chars) >= 1 /\ p.chars[1] = "E"
  <2>1. PICK a, d, e : a = <<"E", "[">> /\ d = a \o ps /\ e = <<c>>
    OBVIOUS
  <2>2. /\ a \in Seq(GridChars) /\ Len(a) = 2 /\ a[1] = "E"
        /\ e \in Seq(GridChars) /\ Len(e) = 1
    BY <1>2, <2>1 DEF GridChars, GridLetters
  <2>3. ps \in Seq(GridChars)
    BY SeqMonotonic DEF ParamChars
  <2>4. /\ d \in Seq(GridChars) /\ Len(d) = Len(a) + Len(ps) /\ Len(ps) \in Nat
        /\ \A i \in 1..Len(a) + Len(ps) : d[i] = IF i <= Len(a) THEN a[i] ELSE ps[i - Len(a)]
    BY <2>1, <2>2, <2>3, ConcatProperties
  <2>5. /\ Len(p.chars) = Len(d) + Len(e)
        /\ \A i \in 1..Len(d) + Len(e) : p.chars[i] = IF i <= Len(d) THEN d[i] ELSE e[i - Len(d)]
    <3>1. p.chars = d \o e /\ d \in Seq(GridChars) /\ e \in Seq(GridChars)
      BY <1>2, <2>1, <2>2, <2>4 DEF SequenceOf
    <3> QED
      BY <3>1, ConcatProperties
  <2>6. 1 \in 1..Len(a) + Len(ps) /\ 1 \in 1..Len(d) + Len(e) /\ 1 <= Len(d) /\ 1 <= Len(a)
    BY <2>2, <2>4
  <2>7. p.chars[1] = "E"
    BY <2>2, <2>4, <2>5, <2>6
  <2> QED
    BY <2>2, <2>4, <2>5, <2>7
<1>3. ASSUME NEW ps \in Seq(ParamChars), p.chars = <<"E">> \o ps
      PROVE  Len(p.chars) >= 1 /\ p.chars[1] = "E"
  <2>1. PICK a : a = <<"E">>
    OBVIOUS
  <2>2. a \in Seq(GridChars) /\ Len(a) = 1 /\ a[1] = "E"
    BY <2>1 DEF GridChars
  <2>3. ps \in Seq(GridChars)
    BY SeqMonotonic DEF ParamChars
  <2>4. /\ Len(p.chars) = Len(a) + Len(ps) /\ Len(ps) \in Nat
        /\ \A i \in 1..Len(a) + Len(ps) : p.chars[i] = IF i <= Len(a) THEN a[i] ELSE ps[i - Len(a)]
    BY <1>3, <2>1, <2>2, <2>3, ConcatProperties
  <2>5. 1 \in 1..Len(a) + Len(ps) /\ 1 <= Len(a)
    BY <2>2, <2>4
  <2> QED
    BY <2>2, <2>4, <2>5
<1>4. CASE IsCharacter(p)
  <2>1. PICK c \in GridChars \ {"E"} : p.chars = <<c>>
    BY <1>4 DEF IsCharacter
  <2>2. Len(p.chars) = 1 /\ p.chars[1] = c
    BY <2>1
  <2> QED
    BY <1>4, <2>2
<1>5. CASE IsBareEscape(p)
  <2>1. PICK c \in GridChars : p.chars = <<"E", c>>
    BY <1>5 DEF IsBareEscape
  <2>2. Len(p.chars) = 2 /\ p.chars[1] = "E"
    BY <2>1
  <2>3. ~IsCharacter(p)
    <3>1. \A c1 \in GridChars \ {"E"} : <<c1>>[1] = c1
      OBVIOUS
    <3> QED
      BY <2>2, <3>1 DEF IsCharacter
  <2> QED
    BY <2>2, <2>3
<1>6. CASE Len(p.chars) >= 1 /\ p.chars[1] = "E"
  <2>1. \A c1 \in GridChars \ {"E"} : <<c1>>[1] = c1
    OBVIOUS
  <2>2. ~IsCharacter(p)
    BY <1>6, <2>1 DEF IsCharacter
  <2> QED
    BY <1>1, <1>6, <2>2
<1>7. CASE IsLone(p)
  <2>1. Len(p.chars) >= 1 /\ p.chars[1] = "E"
    BY <1>7 DEF IsLone
  <2> QED
    BY <1>6, <2>1
<1>8. CASE IsOther(p) \/ IsSgr(p) \/ IsCut(p)
  <2>1. Len(p.chars) >= 1 /\ p.chars[1] = "E"
    <3>1. CASE IsOther(p)
      BY <1>2, <3>1 DEF IsOther
    <3>2. CASE IsSgr(p)
      <4>1. "m" \in GridLetters
        BY DEF GridLetters
      <4>2. PICK ps \in Seq(ParamChars) : p.chars = SequenceOf(ps, "m")
        BY <3>2 DEF IsSgr
      <4> QED
        BY <1>2, <4>1, <4>2
    <3>3. CASE IsCut(p)
      BY <1>3, <3>3 DEF IsCut
    <3> QED
      BY <1>8, <3>1, <3>2, <3>3
  <2> QED
    BY <1>6, <2>1
<1> QED
  BY <1>4, <1>5, <1>7, <1>8 DEF AnyPiece

\* A line that is not empty is a first piece and the others.
LEMMA FirstPiece ==
  ASSUME NEW todo \in Seq(GridPiece), todo # <<>>
  PROVE  \E p \in GridPiece, more \in Seq(GridPiece) :
           /\ p = todo[1] /\ todo = <<p>> \o more /\ CharsOf(todo) = p.chars \o CharsOf(more)
           /\ Len(todo) = Len(more) + 1 /\ Len(more) \in Nat
           /\ \A i \in 1..Len(more) : more[i] = todo[i + 1]
<1>1. PICK p, more : p = Head(todo) /\ more = Tail(todo)
  OBVIOUS
<1>2. /\ p \in GridPiece /\ more \in Seq(GridPiece) /\ Len(more) = Len(todo) - 1
      /\ \A i \in 1..Len(more) : more[i] = todo[i + 1]
  BY <1>1, HeadTailProperties
<1>3. Len(todo) \in Nat /\ Len(todo) >= 1 /\ p = todo[1] /\ Len(more) \in Nat
  BY <1>1, <1>2, EmptySeq
<1>4. PICK one, w : one = <<p>> /\ w = one \o more
  OBVIOUS
<1>5. one \in Seq(GridPiece) /\ Len(one) = 1 /\ one[1] = p
  BY <1>2, <1>4
<1>6. /\ w \in Seq(GridPiece) /\ Len(w) = 1 + Len(more)
      /\ \A i \in 1..1 + Len(more) : w[i] = IF i <= 1 THEN one[i] ELSE more[i - 1]
  BY <1>2, <1>4, <1>5, ConcatProperties
<1>7. \A i \in 1..Len(w) : w[i] = todo[i]
  <2> TAKE i \in 1..Len(w)
  <2>1. CASE i = 1
    BY <1>3, <1>5, <1>6, <2>1
  <2>2. CASE i # 1
    <3>1. i - 1 \in 1..Len(more) /\ (i - 1) + 1 = i /\ ~(i <= 1) /\ i \in 1..1 + Len(more)
      BY <1>3, <1>6, <2>2
    <3> QED
      BY <1>2, <1>6, <3>1
  <2> QED
    BY <2>1, <2>2
<1>8. w = todo
  BY <1>2, <1>3, <1>6, <1>7, SeqEqual
<1>9. CharsOf(w) = CharsOf(one) \o CharsOf(more)
  BY <1>2, <1>4, <1>5, CharsOfParts
<1>10. CharsOf(one) = p.chars
  BY <1>2, <1>4, PartsOfOne
<1>11. /\ todo = <<p>> \o more /\ CharsOf(todo) = p.chars \o CharsOf(more)
       /\ Len(todo) = Len(more) + 1
  <2>1. todo = <<p>> \o more
    BY <1>4, <1>8
  <2>2. CharsOf(todo) = p.chars \o CharsOf(more)
    BY <1>8, <1>9, <1>10
  <2>3. Len(todo) = Len(more) + 1
    BY <1>2, <1>3
  <2> QED
    BY <2>1, <2>2, <2>3
<1> QED
  BY <1>2, <1>3, <1>11

\* Whatever characters of a piece are left of it, the piece is done.
LEMMA PieceDone ==
  ASSUME NEW done \in Seq(GridPiece), NEW more \in Seq(GridPiece), NEW p \in GridPiece,
         NEW base \in AllAttrs, NEW now, now = Latest(SetsOf(done), base),
         NEW loose \in Seq(GridChars), NoSequence(loose, more), Len(loose) < Len(p.chars)
  PROVE  Positioned(done \o (<<p>> \o more), loose \o CharsOf(more), Updated(now, p.sets), base)
<1>1. PICK one, then : one = <<p>> /\ then = done \o one
  OBVIOUS
<1>2. /\ one \in Seq(GridPiece) /\ CharsOf(one) = p.chars /\ SetsOf(one) = <<p.sets>>
      /\ p.chars \in Seq(GridChars) /\ p.sets \in AttrSetting
  BY <1>1, PartsOfOne
<1>3. then \in Seq(GridPiece)
  BY <1>1, <1>2, ConcatProperties
<1>4. /\ CharsOf(then) = CharsOf(done) \o p.chars /\ CharsOf(done) \in Seq(GridChars)
      /\ SetsOf(then) = SetsOf(done) \o SetsOf(one) /\ SetsOf(done) \in Seq(AttrSetting)
  BY <1>1, <1>2, CharsOfParts
<1>5. Len(loose) < Len(CharsOf(then))
  <2>1. PICK a, b, c : a = CharsOf(done) /\ b = p.chars /\ c = CharsOf(then)
    OBVIOUS
  <2>2. a \in Seq(GridChars) /\ b \in Seq(GridChars) /\ c = a \o b
    BY <1>2, <1>4, <2>1
  <2>3. Len(c) = Len(a) + Len(b) /\ Len(a) \in Nat /\ Len(b) \in Nat /\ Len(loose) \in Nat
    BY <2>2, ConcatProperties
  <2> QED
    BY <2>1, <2>3
<1>6. Latest(SetsOf(then), base) = Updated(now, p.sets)
  <2>1. PICK a, x : a = SetsOf(done) /\ x = p.sets
    OBVIOUS
  <2>2. a \in Seq(AttrSetting) /\ x \in AttrSetting /\ SetsOf(then) = a \o <<x>>
    BY <1>2, <1>4, <2>1
  <2>3. Append(a, x) = a \o <<x>>
    BY <2>2, AppendIsConcat
  <2>4. Latest(Append(a, x), base) = Updated(Latest(a, base), x)
    BY <2>2, LatestAppend
  <2> QED
    BY <2>1, <2>2, <2>3, <2>4
<1>7. done \o (one \o more) = then \o more
  BY <1>1, <1>2, ConcatAssociative
<1>8. then # <<>> /\ then[Len(then)] = p
  <2>1. PICK m \in Nat : m = Len(done)
    OBVIOUS
  <2>2. Len(one) = 1 /\ one[1] = p
    BY <1>1
  <2>3. /\ Len(then) = m + 1
        /\ \A i \in 1..m + 1 : then[i] = IF i <= m THEN done[i] ELSE one[i - m]
    BY <1>1, <1>2, <2>1, <2>2, ConcatProperties
  <2>4. m + 1 \in 1..m + 1 /\ ~(m + 1 <= m) /\ (m + 1) - m = 1
    BY <2>1
  <2>5. then # <<>>
    BY <2>1, <2>3
  <2> QED
    BY <2>2, <2>3, <2>4, <2>5
<1>9. PositionedAt(then, more, loose, done \o (one \o more), loose \o CharsOf(more),
                   Updated(now, p.sets), base)
  BY <1>5, <1>6, <1>7, <1>8 DEF PositionedAt
<1> QED
  BY <1>1, <1>3, <1>9 DEF Positioned

\* What is read next: a loose character, or the first character of a piece.
FacesPiece(p, more, line, left, now, base) ==
  /\ left = p.chars \o CharsOf(more)
  /\ \/ IsCharacter(p) \/ IsBareEscape(p) \/ IsOther(p) \/ IsSgr(p)
     \/ IsLone(p) /\ more # <<>> /\ AnyPiece(more[1]) /\ more[1].chars[1] = "E"
     \/ IsCut(p) /\ more = <<>>
  /\ \A loose \in Seq(GridChars) :
       NoSequence(loose, more) /\ Len(loose) < Len(p.chars) =>
         Positioned(line, loose \o CharsOf(more), Updated(now, p.sets), base)

FacesLoose(line, left, now, base) ==
  /\ Positioned(line, SubSeq(left, 2, Len(left)), now, base)
  /\ left[1] = "E" => \A k \in 1..Len(left) : left[k] \notin GridLetters

\* What is read next is an escape that is left of one cut short, or a whole piece.
LEMMA ReadsNext ==
  ASSUME NEW line \in GridLine, NEW left, left # <<>>, NEW now, NEW base,
         Positioned(line, left, now, base)
  PROVE  \/ FacesLoose(line, left, now, base)
         \/ \E p \in GridPiece, more \in Seq(GridPiece) :
              FacesPiece(p, more, line, left, now, base)
<1>1. PICK done \in Seq(GridPiece), todo \in Seq(GridPiece), loose \in Seq(GridChars) :
             PositionedAt(done, todo, loose, line, left, now, base)
  BY DEF Positioned
<1>2. /\ line = done \o todo /\ left = loose \o CharsOf(todo)
      /\ now = Latest(SetsOf(done), base) /\ base \in AllAttrs
      /\ done = <<>> \/ Len(loose) < Len(CharsOf(done))
      /\ IF done = <<>> THEN loose = <<>> ELSE Len(loose) < Len(done[Len(done)].chars)
      /\ NoSequence(loose, todo)
  BY <1>1 DEF PositionedAt
<1>3. CharsOf(todo) \in Seq(GridChars) /\ CharsOf(done) \in Seq(GridChars)
  BY CharsOfParts
<1>4. CASE loose # <<>>
  <2>1. PICK first, l : first = <<Head(loose)>> /\ l = Tail(loose)
    OBVIOUS
  <2>2. /\ l \in Seq(GridChars) /\ Len(l) = Len(loose) - 1 /\ Head(loose) \in GridChars
        /\ \A i \in 1..Len(l) : l[i] = loose[i + 1]
    BY <1>4, <2>1, HeadTailProperties
  <2>3. Len(loose) \in Nat /\ Len(loose) >= 1 /\ Head(loose) = loose[1]
    BY <1>4, EmptySeq
  <2>4. first \in Seq(GridChars) /\ Len(first) = 1 /\ first[1] = loose[1]
    BY <2>1, <2>2, <2>3
  <2>5. first \o l = loose
    <3>1. PICK w : w = first \o l
      OBVIOUS
    <3>2. /\ w \in Seq(GridChars) /\ Len(w) = 1 + Len(l)
          /\ \A i \in 1..1 + Len(l) : w[i] = IF i <= 1 THEN first[i] ELSE l[i - 1]
      <4>1. /\ w \in Seq(GridChars) /\ Len(w) = Len(first) + Len(l)
            /\ \A i \in 1..Len(first) + Len(l) :
                 w[i] = IF i <= Len(first) THEN first[i] ELSE l[i - Len(first)]
        <5>1. first \in Seq(GridChars) /\ l \in Seq(GridChars)
          BY <2>2, <2>4
        <5> QED
          BY <3>1, <5>1, ConcatProperties
      <4> QED
        BY <2>4, <4>1
    <3>3. \A i \in 1..Len(w) : w[i] = loose[i]
      <4> TAKE i \in 1..Len(w)
      <4>1. CASE i = 1
        BY <2>2, <2>3, <2>4, <3>2, <4>1
      <4>2. CASE i # 1
        <5>1. i - 1 \in 1..Len(l) /\ (i - 1) + 1 = i /\ ~(i <= 1) /\ i \in 1..1 + Len(l)
          BY <2>2, <2>3, <3>2, <4>2
        <5> QED
          BY <2>2, <3>2, <5>1
      <4> QED
        BY <4>1, <4>2
    <3>4. Len(w) = Len(loose)
      BY <2>2, <2>3, <3>2
    <3>5. w = loose
      BY <3>2, <3>3, <3>4, SeqEqual
    <3> QED
      BY <3>1, <3>5
  <2>6. PICK back : back = l \o CharsOf(todo)
    OBVIOUS
  <2>7. back \in Seq(GridChars) /\ left = first \o back
    <3>1. (first \o l) \o CharsOf(todo) = first \o (l \o CharsOf(todo))
      <4>1. PICK c : c = CharsOf(todo)
        OBVIOUS
      <4>2. first \in Seq(GridChars) /\ l \in Seq(GridChars) /\ c \in Seq(GridChars)
        BY <1>3, <2>2, <2>4, <4>1
      <4>3. (first \o l) \o c = first \o (l \o c)
        BY <4>2, ConcatAssociative
      <4> QED
        BY <4>1, <4>3
    <3>2. back \in Seq(GridChars)
      BY <1>3, <2>2, <2>6, ConcatProperties
    <3> QED
      BY <1>2, <2>5, <2>6, <3>1, <3>2
  <2>8. SubSeq(left, 2, Len(left)) = back
    <3>1. SubSeq(first \o back, Len(first) + 1, Len(first \o back)) = back
      BY <2>4, <2>7, WithoutFirst
    <3> QED
      BY <2>4, <2>7, <3>1
  <2>9. NoSequence(l, todo)
    <3>1. \A k \in 1..Len(l) : k + 1 \in 1..Len(loose) /\ l[k] = loose[k + 1]
      BY <2>2, <2>3
    <3> QED
      BY <1>2, <3>1 DEF NoSequence
  <2>10. done = <<>> \/ Len(l) < Len(CharsOf(done))
    <3>1. Len(CharsOf(done)) \in Nat
      BY <1>3
    <3> QED
      BY <1>2, <2>2, <2>3, <3>1
  <2>11. Positioned(line, back, now, base)
    <3>1. done # <<>> /\ Len(loose) < Len(done[Len(done)].chars)
      BY <1>2, <1>4
    <3>2. Len(done[Len(done)].chars) \in Nat
      <4>1. Len(done) \in 1..Len(done)
        BY <3>1, EmptySeq
      <4>2. done[Len(done)] \in GridPiece
        BY <4>1, ElementOfSeq
      <4> QED
        BY <4>2 DEF GridPiece
    <3>3. Len(l) < Len(done[Len(done)].chars)
      BY <2>2, <2>3, <3>1, <3>2
    <3>4. PositionedAt(done, todo, l, line, back, now, base)
      BY <1>2, <2>6, <2>9, <2>10, <3>1, <3>3 DEF PositionedAt
    <3> QED
      BY <2>2, <3>4 DEF Positioned
  <2>12. ASSUME left[1] = "E" PROVE \A k \in 1..Len(left) : left[k] \notin GridLetters
    <3>1. /\ Len(left) = 1 + Len(back) /\ Len(back) \in Nat
          /\ \A i \in 1..1 + Len(back) : left[i] = IF i <= 1 THEN first[i] ELSE back[i - 1]
      <4>1. /\ Len(left) = Len(first) + Len(back) /\ Len(back) \in Nat
            /\ \A i \in 1..Len(first) + Len(back) :
                 left[i] = IF i <= Len(first) THEN first[i] ELSE back[i - Len(first)]
        <5>1. first \in Seq(GridChars) /\ back \in Seq(GridChars)
          BY <2>4, <2>7
        <5>2. /\ Len(first \o back) = Len(first) + Len(back)
              /\ \A i \in 1..Len(first) + Len(back) :
                   (first \o back)[i] = IF i <= Len(first) THEN first[i] ELSE back[i - Len(first)]
          BY <5>1, ConcatProperties
        <5> QED
          BY <2>7, <5>1, <5>2
      <4>2. Len(first) = 1
        BY <2>4
      <4>3. \A i \in 1..1 + Len(back) : left[i] = IF i <= 1 THEN first[i] ELSE back[i - 1]
        BY <4>1, <4>2
      <4> QED
        BY <4>1, <4>2, <4>3
    <3>2. left[1] = loose[1]
      BY <2>4, <3>1
    <3>3. 1 \in 1..Len(loose) /\ loose[1] = "E"
      BY <2>3, <2>12, <3>2
    <3>4. todo = <<>> /\ \A k \in 1..Len(loose) : loose[k] \notin GridLetters
      BY <1>2, <3>3 DEF NoSequence
    <3>5. CharsOf(<<>>) = <<>>
      <4>1. PICK e : e = <<>>
        OBVIOUS
      <4>2. Len(e) = 0
        BY <4>1
      <4>3. [i \in 1..Len(e) |-> e[i].chars] = <<>>
        BY <4>2
      <4> QED
        BY <4>1, <4>3, FlattenEmpty DEF CharsOf
    <3>6. left = loose
      BY <1>2, <3>4, <3>5, ConcatEmptySeq
    <3> QED
      BY <3>4, <3>6
  <2> QED
    BY <2>8, <2>11, <2>12 DEF FacesLoose
<1>5. CASE loose = <<>>
  <2>1. left = CharsOf(todo)
    BY <1>2, <1>3, <1>5, ConcatEmptySeq
  <2>2. todo # <<>>
    <3>1. CharsOf(<<>>) = <<>>
      <4>1. PICK e : e = <<>>
        OBVIOUS
      <4>2. Len(e) = 0
        BY <4>1
      <4>3. [i \in 1..Len(e) |-> e[i].chars] = <<>>
        BY <4>2
      <4> QED
        BY <4>1, <4>3, FlattenEmpty DEF CharsOf
    <3> QED
      BY <2>1, <3>1
  <2>3. PICK p \in GridPiece, more \in Seq(GridPiece) :
           /\ p = todo[1] /\ todo = <<p>> \o more /\ CharsOf(todo) = p.chars \o CharsOf(more)
           /\ Len(todo) = Len(more) + 1 /\ Len(more) \in Nat
           /\ \A i \in 1..Len(more) : more[i] = todo[i + 1]
    BY <2>2, FirstPiece
  <2>4. PICK m \in Nat : m = Len(done)
    OBVIOUS
  <2>5. /\ Len(line) = m + Len(todo)
        /\ \A i \in 1..m + Len(todo) : line[i] = IF i <= m THEN done[i] ELSE todo[i - m]
    BY <1>2, <2>4, ConcatProperties
  <2>6. line[m + 1] = p /\ m + 1 \in 1..Len(line) /\ m + 1 <= Len(line)
    <3>1. m + 1 \in 1..m + Len(todo) /\ ~(m + 1 <= m) /\ (m + 1) - m = 1
      BY <2>3
    <3> QED
      BY <2>3, <2>5, <3>1
  <2>7. ASSUME m + 1 < Len(line) PROVE more # <<>> /\ line[m + 2] = more[1]
    <3>1. Len(more) >= 1 /\ 1 \in 1..Len(more)
      BY <2>3, <2>5, <2>7
    <3>2. m + 2 \in 1..m + Len(todo) /\ ~(m + 2 <= m) /\ (m + 2) - m = 2
      BY <2>3, <3>1
    <3>3. line[m + 2] = todo[2] /\ more[1] = todo[2]
      BY <2>3, <2>5, <3>1, <3>2
    <3>4. more # <<>>
      BY <3>1
    <3> QED
      BY <3>3, <3>4
  <2>8. m + 1 = Len(line) => more = <<>>
    <3>1. m + 1 = Len(line) => Len(more) = 0
      BY <2>3, <2>5
    <3>2. Len(more) = 0 => more = <<>>
      BY EmptySeq
    <3> QED
      BY <3>1, <3>2
  <2>9. \/ IsCharacter(p) \/ IsBareEscape(p) \/ IsOther(p) \/ IsSgr(p)
        \/ IsLone(p) /\ more # <<>> /\ AnyPiece(more[1]) /\ more[1].chars[1] = "E"
        \/ IsCut(p) /\ more = <<>>
    <3>1. \A i \in 1..Len(line) :
            \/ IsCharacter(line[i]) \/ IsBareEscape(line[i]) \/ IsOther(line[i]) \/ IsSgr(line[i])
            \/ IsLone(line[i]) /\ i < Len(line) /\ line[i + 1].chars[1] = "E"
            \/ IsCut(line[i]) /\ i = Len(line)
      BY DEF GridLine
    <3>2. (m + 1) + 1 = m + 2
      OBVIOUS
    <3>3. \A i \in 1..Len(line) : AnyPiece(line[i])
      BY <3>1 DEF AnyPiece
    <3>4. m + 1 < Len(line) => m + 2 \in 1..Len(line)
      BY <2>3, <2>5
    <3> QED
      BY <2>6, <2>7, <2>8, <3>1, <3>2, <3>3, <3>4
  <2>10. ASSUME NEW l \in Seq(GridChars), NoSequence(l, more), Len(l) < Len(p.chars)
         PROVE  Positioned(line, l \o CharsOf(more), Updated(now, p.sets), base)
    <3>1. Positioned(done \o (<<p>> \o more), l \o CharsOf(more), Updated(now, p.sets), base)
      BY <1>2, <2>10, PieceDone
    <3> QED
      BY <1>2, <2>3, <3>1
  <2>11. FacesPiece(p, more, line, left, now, base)
    BY <2>1, <2>3, <2>9, <2>10 DEF FacesPiece
  <2> QED
    BY <2>11
<1> QED
  BY <1>4, <1>5

-----------------------------------------------------------------------------
\* Where a sequence may end.
FinalsOf(left) == {i \in 3..Len(left) : IsLetter(left[i])}
StartsSequence(left) == Len(left) > 2 /\ left[2] = "[" /\ FinalsOf(left) # {}

SequenceAt(left, n, ps, c, u) ==
  /\ left[1] = "E" /\ StartsSequence(left)
  /\ Min(FinalsOf(left)) = n + 3 /\ left[n + 3] = c
  /\ SubSeq(left, 3, n + 2) = ps /\ SubSeq(left, n + 4, Len(left)) = u

\* The next letter behind a bracket is the one a sequence ends with: its parameters have none.
LEMMA SequenceFacts ==
  ASSUME NEW ps \in Seq(ParamChars), NEW c \in GridLetters, NEW u \in Seq(GridChars), NEW left,
         left = SequenceOf(ps, c) \o u
  PROVE  SequenceAt(left, Len(ps), ps, c, u)
<1>1. PICK a, d, e, f : a = <<"E", "[">> /\ d = a \o ps /\ e = <<c>> /\ f = d \o e
  OBVIOUS
<1>2. /\ a \in Seq(GridChars) /\ Len(a) = 2 /\ a[1] = "E" /\ a[2] = "["
      /\ e \in Seq(GridChars) /\ Len(e) = 1 /\ e[1] = c
  BY <1>1 DEF GridChars, GridLetters
<1>3. ps \in Seq(GridChars)
  BY SeqMonotonic DEF ParamChars
<1>4. PICK n, m \in Nat : n = Len(ps) /\ m = Len(u)
  BY <1>3
<1>5. /\ d \in Seq(GridChars) /\ Len(d) = 2 + n
      /\ \A i \in 1..2 + n : d[i] = IF i <= 2 THEN a[i] ELSE ps[i - 2]
  <2>1. /\ d \in Seq(GridChars) /\ Len(d) = Len(a) + Len(ps)
        /\ \A i \in 1..Len(a) + Len(ps) : d[i] = IF i <= Len(a) THEN a[i] ELSE ps[i - Len(a)]
    BY <1>1, <1>2, <1>3, ConcatProperties
  <2> QED
    BY <1>2, <1>4, <2>1
<1>6. /\ f \in Seq(GridChars) /\ Len(f) = n + 3
      /\ \A i \in 1..n + 3 : f[i] = IF i <= n + 2 THEN d[i] ELSE c
  <2>1. /\ f \in Seq(GridChars) /\ Len(f) = Len(d) + Len(e)
        /\ \A i \in 1..Len(d) + Len(e) : f[i] = IF i <= Len(d) THEN d[i] ELSE e[i - Len(d)]
    BY <1>1, <1>2, <1>5, ConcatProperties
  <2>2. (2 + n) + 1 = n + 3 /\ 2 + n = n + 2
    OBVIOUS
  <2>3. \A i \in 1..n + 3 : ~(i <= n + 2) => i - (n + 2) = 1
    OBVIOUS
  <2> QED
    BY <1>2, <1>5, <2>1, <2>2, <2>3
<1>7. /\ left \in Seq(GridChars) /\ Len(left) = (n + 3) + m
      /\ \A i \in 1..(n + 3) + m : left[i] = IF i <= n + 3 THEN f[i] ELSE u[i - (n + 3)]
  <2>1. left = f \o u
    BY <1>1 DEF SequenceOf
  <2>2. /\ f \o u \in Seq(GridChars) /\ Len(f \o u) = Len(f) + Len(u)
        /\ \A i \in 1..Len(f) + Len(u) : (f \o u)[i] = IF i <= Len(f) THEN f[i] ELSE u[i - Len(f)]
    BY <1>6, ConcatProperties
  <2> QED
    BY <1>4, <1>6, <2>1, <2>2
<1>8. left[1] = "E" /\ left[2] = "[" /\ left[n + 3] = c
  <2>1. /\ 1 \in 1..(n + 3) + m /\ 1 \in 1..n + 3 /\ 1 \in 1..2 + n /\ 1 <= n + 3 /\ 1 <= n + 2
        /\ 2 \in 1..(n + 3) + m /\ 2 \in 1..n + 3 /\ 2 \in 1..2 + n /\ 2 <= n + 3 /\ 2 <= n + 2
        /\ n + 3 \in 1..(n + 3) + m /\ n + 3 \in 1..n + 3 /\ ~(n + 3 <= n + 2)
    OBVIOUS
  <2>2. left[1] = f[1] /\ left[2] = f[2] /\ left[n + 3] = f[n + 3]
    BY <1>7, <2>1
  <2>3. f[1] = d[1] /\ f[2] = d[2] /\ f[n + 3] = c
    BY <1>6, <2>1
  <2>4. d[1] = a[1] /\ d[2] = a[2]
    BY <1>5, <2>1
  <2> QED
    BY <1>2, <2>2, <2>3, <2>4
<1>9. \A i \in 1..n : left[2 + i] = ps[i]
  <2> TAKE i \in 1..n
  <2>1. /\ 2 + i \in 1..(n + 3) + m /\ 2 + i \in 1..n + 3 /\ 2 + i \in 1..2 + n
        /\ 2 + i <= n + 3 /\ 2 + i <= n + 2 /\ ~(2 + i <= 2) /\ (2 + i) - 2 = i
    OBVIOUS
  <2> QED
    BY <1>5, <1>6, <1>7, <2>1
<1>10. FinalsOf(left) \subseteq Nat /\ n + 3 \in FinalsOf(left)
  <2>1. n + 3 \in 3..Len(left)
    BY <1>7
  <2>2. IsLetter(c)
    BY DEF IsLetter, GridLetters
  <2> QED
    BY <1>7, <1>8, <2>1, <2>2 DEF FinalsOf
<1>11. \A i \in FinalsOf(left) : n + 3 <= i
  <2> SUFFICES ASSUME NEW i \in FinalsOf(left), ~(n + 3 <= i) PROVE FALSE
    BY <1>10
  <2>1. i \in 3..Len(left) /\ IsLetter(left[i])
    BY DEF FinalsOf
  <2>2. i - 2 \in 1..n /\ 2 + (i - 2) = i
    BY <1>7, <2>1
  <2>3. left[i] = ps[i - 2]
    BY <1>9, <2>2
  <2>4. ps[i - 2] \in ParamChars
    BY <1>4, <2>2, ElementOfSeq
  <2> QED
    BY <2>1, <2>3, <2>4 DEF ParamChars, IsLetter, GridLetters
<1>12. Min(FinalsOf(left)) = n + 3
  <2>1. PICK F, x : F = FinalsOf(left) /\ x = Min(F)
    OBVIOUS
  <2>2. x \in F /\ \A k \in F : x <= k
    BY <1>10, <2>1, MinIs
  <2>3. x \in Nat /\ x <= n + 3 /\ n + 3 <= x
    BY <1>10, <1>11, <2>1, <2>2
  <2>4. x = n + 3
    BY <2>3
  <2> QED
    BY <2>1, <2>4
<1>13. SubSeq(left, 3, n + 2) = ps
  <2>1. PICK v : v = SubSeq(left, 3, n + 2)
    OBVIOUS
  <2>2. \A i \in 3..n + 2 : left[i] \in GridChars
    <3>1. \A i \in 3..n + 2 : i \in 1..Len(left)
      BY <1>7
    <3> QED
      BY <1>7, <3>1, ElementOfSeq
  <2>3. /\ v \in Seq(GridChars) /\ Len(v) = IF 3 <= n + 2 THEN (n + 2) - 3 + 1 ELSE 0
        /\ \A i \in 1..(n + 2) - 3 + 1 : v[i] = left[3 + i - 1]
    <3>1. PICK q \in Nat : q = n + 2
      OBVIOUS
    <3>2. \A i \in 3..q : left[i] \in GridChars
      BY <2>2, <3>1
    <3>3. v = SubSeq(left, 3, q)
      BY <2>1, <3>1
    <3>4. PICK x, w : x = 3 /\ x \in Nat /\ w = left
      OBVIOUS
    <3>5. x \in Int /\ q \in Int
      BY <3>4
    <3>6. \A i \in x..q : w[i] \in GridChars
      BY <3>2, <3>4
    <3>7. /\ SubSeq(w, x, q) \in Seq(GridChars)
          /\ Len(SubSeq(w, x, q)) = IF x <= q THEN q - x + 1 ELSE 0
          /\ \A i \in 1..q - x + 1 : SubSeq(w, x, q)[i] = w[x + i - 1]
      BY <3>5, <3>6, SubSeqProperties
    <3>8. v = SubSeq(w, x, q)
      BY <3>3, <3>4
    <3> QED
      BY <3>1, <3>4, <3>7, <3>8
  <2>4. (n + 2) - 3 + 1 = n /\ \A i \in 1..n : 3 + i - 1 = 2 + i
    OBVIOUS
  <2>5. Len(v) = n
    BY <2>3, <2>4
  <2>6. \A i \in 1..n : v[i] = ps[i]
    BY <1>9, <2>3, <2>4
  <2>7. v = ps
    BY <1>3, <1>4, <2>3, <2>5, <2>6, SeqEqual
  <2> QED
    BY <2>1, <2>7
<1>14. SubSeq(left, n + 4, Len(left)) = u
  <2>1. SubSeq(f \o u, Len(f) + 1, Len(f \o u)) = u
    BY <1>6, WithoutFirst
  <2>2. left = f \o u /\ Len(f) + 1 = n + 4
    BY <1>1, <1>6 DEF SequenceOf
  <2> QED
    BY <2>1, <2>2
<1>15. StartsSequence(left)
  <2>1. Len(left) > 2 /\ FinalsOf(left) # {}
    BY <1>7, <1>10
  <2> QED
    BY <1>8, <2>1 DEF StartsSequence
<1> QED
  BY <1>4, <1>8, <1>12, <1>13, <1>14, <1>15 DEF SequenceAt

\* An escape and another character start no sequence, unless that is a bracket.
LEMMA TwoCharacters ==
  ASSUME NEW c \in GridChars, NEW u \in Seq(GridChars), NEW left, left = <<"E", c>> \o u
  PROVE  /\ left[1] = "E" /\ left[2] = c /\ SubSeq(left, 2, Len(left)) = <<c>> \o u
<1>1. PICK a, b, e : a = <<"E">> /\ b = <<c>> /\ e = <<"E", c>>
  OBVIOUS
<1>2. /\ a \in Seq(GridChars) /\ b \in Seq(GridChars) /\ e \in Seq(GridChars)
      /\ Len(a) = 1 /\ Len(b) = 1 /\ Len(e) = 2 /\ e[1] = "E" /\ e[2] = c
  BY <1>1 DEF GridChars
<1>3. a \o b = e
  <2>1. "E" \in GridChars
    BY DEF GridChars
  <2> QED
    BY <1>1, <2>1, PairIs
<1>4. PICK back : back = b \o u
  OBVIOUS
<1>5. back \in Seq(GridChars) /\ left = a \o back
  <2>1. (a \o b) \o u = a \o (b \o u)
    <3>1. a \in Seq(GridChars) /\ b \in Seq(GridChars) /\ u \in Seq(GridChars)
      BY <1>2
    <3> QED
      BY <3>1, ConcatAssociative
  <2>2. b \o u \in Seq(GridChars)
    BY <1>2, ConcatProperties
  <2> QED
    BY <1>1, <1>3, <1>4, <2>1, <2>2
<1>6. SubSeq(left, 2, Len(left)) = back
  <2>1. SubSeq(a \o back, Len(a) + 1, Len(a \o back)) = back
    BY <1>2, <1>5, WithoutFirst
  <2> QED
    BY <1>2, <1>5, <2>1
<1>7. left[1] = "E" /\ left[2] = c
  <2>1. left = e \o u
    BY <1>1
  <2>2. \A i \in 1..Len(e) + Len(u) : (e \o u)[i] = IF i <= Len(e) THEN e[i] ELSE u[i - Len(e)]
    BY <1>2, ConcatProperties
  <2>3. Len(u) \in Nat
    OBVIOUS
  <2>4. 1 \in 1..Len(e) + Len(u) /\ 2 \in 1..Len(e) + Len(u) /\ 1 <= Len(e) /\ 2 <= Len(e)
    BY <1>2, <2>3
  <2> QED
    BY <1>2, <2>1, <2>2, <2>4
<1> QED
  BY <1>1, <1>4, <1>6, <1>7

\* A line is made of pieces.
LEMMA LinePieces ==
  ASSUME NEW line \in GridLine
  PROVE  line \in Seq(GridPiece) /\ \A i \in 1..Len(line) : AnyPiece(line[i])
BY DEF GridLine, AnyPiece

\* No pieces are no characters and set nothing.
LEMMA NothingOfIt == CharsOf(<<>>) = <<>> /\ SetsOf(<<>>) = <<>>
<1>1. PICK e : e = <<>>
  OBVIOUS
<1>2. Len(e) = 0
  BY <1>1
<1>3. [i \in 1..Len(e) |-> e[i].chars] = <<>> /\ SetsOf(e) = <<>>
  BY <1>2 DEF SetsOf
<1> QED
  BY <1>1, <1>3, FlattenEmpty DEF CharsOf

\* The types of what is read of a line.
LEMMA PositionedFacts ==
  ASSUME NEW line \in GridLine, NEW left, NEW now, NEW base, Positioned(line, left, now, base)
  PROVE  left \in Seq(GridChars) /\ now \in AllAttrs /\ base \in AllAttrs
<1>1. PICK done \in Seq(GridPiece), todo \in Seq(GridPiece), loose \in Seq(GridChars) :
             PositionedAt(done, todo, loose, line, left, now, base)
  BY DEF Positioned
<1>2. left = loose \o CharsOf(todo) /\ now = Latest(SetsOf(done), base) /\ base \in AllAttrs
  BY <1>1 DEF PositionedAt
<1>3. CharsOf(todo) \in Seq(GridChars) /\ SetsOf(done) \in Seq(AttrSetting)
  BY CharsOfParts
<1>4. left \in Seq(GridChars)
  BY <1>2, <1>3, ConcatProperties
<1>5. now \in AllAttrs
  BY <1>2, <1>3, LatestFacts
<1> QED
  BY <1>2, <1>4, <1>5

\* Nothing of a line is read yet.
LEMMA LineStarts ==
  ASSUME NEW line \in GridLine, NEW base \in AllAttrs
  PROVE  Positioned(line, CharsOf(line), base, base)
<1>1. line \in Seq(GridPiece)
  BY LinePieces
<1>2. CharsOf(line) \in Seq(GridChars)
  BY <1>1, CharsOfParts
<1>3. PICK e : e = <<>>
  OBVIOUS
<1>4. e \in Seq(GridPiece) /\ e \in Seq(GridChars) /\ Len(e) = 0
  BY <1>3
<1>5. line = e \o line /\ CharsOf(line) = e \o CharsOf(line)
  BY <1>1, <1>2, <1>3, ConcatEmptySeq
<1>6. base = Latest(SetsOf(e), base)
  BY <1>3, NothingOfIt, LatestOfNothing
<1>7. NoSequence(e, line)
  BY <1>4 DEF NoSequence
<1>8. PositionedAt(e, line, e, line, CharsOf(line), base, base)
  BY <1>3, <1>5, <1>6, <1>7 DEF PositionedAt
<1> QED
  BY <1>1, <1>4, <1>8 DEF Positioned

\* While nothing of a line is read, nothing of it is set,
LEMMA LineNotRead ==
  ASSUME NEW line \in GridLine, NEW now, NEW base, Positioned(line, CharsOf(line), now, base)
  PROVE  now = base
<1>1. PICK done \in Seq(GridPiece), todo \in Seq(GridPiece), loose \in Seq(GridChars) :
             PositionedAt(done, todo, loose, line, CharsOf(line), now, base)
  BY DEF Positioned
<1>2. /\ line = done \o todo /\ CharsOf(line) = loose \o CharsOf(todo)
      /\ now = Latest(SetsOf(done), base) /\ base \in AllAttrs
      /\ done = <<>> \/ Len(loose) < Len(CharsOf(done))
  BY <1>1 DEF PositionedAt
<1>3. done = <<>>
  <2>1. PICK a, b, c, w : a = CharsOf(done) /\ b = CharsOf(todo) /\ c = loose /\ w = CharsOf(line)
    OBVIOUS
  <2>2. a \in Seq(GridChars) /\ b \in Seq(GridChars) /\ c \in Seq(GridChars)
    BY <2>1, CharsOfParts
  <2>3. w = a \o b /\ w = c \o b
    BY <1>2, <2>1, CharsOfParts
  <2>4. Len(a \o b) = Len(a) + Len(b) /\ Len(c \o b) = Len(c) + Len(b)
    BY <2>2, ConcatProperties
  <2>5. Len(a) \in Nat /\ Len(b) \in Nat /\ Len(c) \in Nat
    BY <2>2
  <2>6. Len(a) = Len(c)
    BY <2>3, <2>4, <2>5
  <2> QED
    BY <1>2, <2>1, <2>5, <2>6
<1>4. Latest(<<>>, base) = base
  BY <1>2, LatestOfNothing
<1> QED
  BY <1>2, <1>3, <1>4, NothingOfIt

\* and when all of it is read, all of it is.
LEMMA LineRead ==
  ASSUME NEW line \in GridLine, NEW now, NEW base, Positioned(line, <<>>, now, base)
  PROVE  now = Latest(SetsOf(line), base)
<1>1. PICK done \in Seq(GridPiece), todo \in Seq(GridPiece), loose \in Seq(GridChars) :
             PositionedAt(done, todo, loose, line, <<>>, now, base)
  BY DEF Positioned
<1>2. /\ line = done \o todo /\ <<>> = loose \o CharsOf(todo)
      /\ now = Latest(SetsOf(done), base)
  BY <1>1 DEF PositionedAt
<1>3. Len(CharsOf(todo)) = 0 /\ Len(CharsOf(todo)) \in Nat
  <2>1. PICK b, c : b = CharsOf(todo) /\ c = loose
    OBVIOUS
  <2>2. b \in Seq(GridChars) /\ c \in Seq(GridChars)
    BY <2>1, CharsOfParts
  <2>3. Len(c \o b) = Len(c) + Len(b)
    BY <2>2, ConcatProperties
  <2>4. c \o b = <<>>
    BY <1>2, <2>1
  <2>5. Len(c \o b) = 0
    BY <2>4
  <2>6. Len(b) \in Nat /\ Len(c) \in Nat
    BY <2>2
  <2> QED
    BY <2>1, <2>3, <2>5, <2>6
<1>4. todo = <<>>
  <2> SUFFICES ASSUME todo # <<>> PROVE FALSE
    OBVIOUS
  <2>1. PICK p \in GridPiece, more \in Seq(GridPiece) :
          /\ p = todo[1] /\ todo = <<p>> \o more /\ CharsOf(todo) = p.chars \o CharsOf(more)
          /\ Len(todo) = Len(more) + 1 /\ Len(more) \in Nat
          /\ \A i \in 1..Len(more) : more[i] = todo[i + 1]
    BY FirstPiece
  <2>2. PICK m \in Nat : m = Len(done)
    OBVIOUS
  <2>3. /\ Len(line) = m + Len(todo)
        /\ \A i \in 1..m + Len(todo) : line[i] = IF i <= m THEN done[i] ELSE todo[i - m]
    BY <1>2, <2>2, ConcatProperties
  <2>4. m + 1 \in 1..Len(line) /\ line[m + 1] = p
    <3>1. m + 1 \in 1..m + Len(todo) /\ ~(m + 1 <= m) /\ (m + 1) - m = 1
      BY <2>1
    <3> QED
      BY <2>1, <2>3, <3>1
  <2>5. AnyPiece(p)
    BY <2>4, LinePieces
  <2>6. Len(p.chars) \in Nat /\ Len(p.chars) >= 1
    BY <2>5, PieceFacts
  <2>7. PICK a, b : a = p.chars /\ b = CharsOf(more)
    OBVIOUS
  <2>8. a \in Seq(GridChars) /\ b \in Seq(GridChars)
    BY <2>7, CharsOfParts, PartsOfOne
  <2>9. Len(a \o b) = Len(a) + Len(b) /\ Len(b) \in Nat
    BY <2>8, ConcatProperties
  <2>10. CharsOf(todo) = a \o b /\ Len(a) \in Nat /\ Len(a) >= 1
    BY <2>1, <2>6, <2>7
  <2>11. Len(a) + Len(b) = 0
    BY <1>3, <2>9, <2>10
  <2> QED
    BY <2>9, <2>10, <2>11
<1>5. done \o <<>> = done
  BY ConcatEmptySeq
<1> QED
  BY <1>2, <1>4, <1>5

\* Anywhere in a line the attributes are those of the pieces that are begun there.
LEMMA PlaceFacts ==
  ASSUME NEW line \in GridLine, NEW left, NEW now, NEW base, Positioned(line, left, now, base)
  PROVE  \E i \in 0..Len(line) : /\ Begun(i, line, Len(left))
                                 /\ now = Latest(SetsOf(SubSeq(line, 1, i)), base)
<1>1. PICK done \in Seq(GridPiece), todo \in Seq(GridPiece), loose \in Seq(GridChars) :
             PositionedAt(done, todo, loose, line, left, now, base)
  BY DEF Positioned
<1>2. /\ line = done \o todo /\ left = loose \o CharsOf(todo)
      /\ now = Latest(SetsOf(done), base)
      /\ IF done = <<>> THEN loose = <<>> ELSE Len(loose) < Len(done[Len(done)].chars)
  BY <1>1 DEF PositionedAt
<1>3. PICK m, n, b : m = Len(done) /\ n = Len(todo) /\ b = CharsOf(todo)
  OBVIOUS
<1>4. /\ m \in Nat /\ n \in Nat /\ Len(line) = m + n /\ line \in Seq(GridPiece)
      /\ \A i \in 1..m + n : line[i] = IF i <= m THEN done[i] ELSE todo[i - m]
  BY <1>2, <1>3, ConcatProperties
<1>5. SubSeq(line, m + 1, Len(line)) = todo
  BY <1>2, <1>3, WithoutFirst
<1>6. SubSeq(line, 1, m) = done
  <2>1. PICK v : v = SubSeq(line, 1, m)
    OBVIOUS
  <2>2. v \in Seq(GridPiece) /\ Len(v) = m /\ \A i \in 1..m : v[i] = line[i]
    <3>1. \A i \in 1..m : line[i] \in GridPiece
      BY <1>4, ElementOfSeq
    <3> QED
      BY <1>4, <2>1, <3>1, SubSeqProperties
  <2>3. \A i \in 1..m : i \in 1..m + n /\ i <= m
    BY <1>4
  <2>4. v = done
    BY <1>3, <1>4, <2>2, <2>3, SeqEqual
  <2> QED
    BY <2>1, <2>4
<1>7. b \in Seq(GridChars) /\ Len(b) \in Nat /\ Len(loose) \in Nat /\ Len(left) = Len(loose) + Len(b)
  <2>1. b \in Seq(GridChars)
    BY <1>3, CharsOfParts
  <2> QED
    BY <1>2, <1>3, <2>1, ConcatProperties
<1>8. ASSUME m > 0
      PROVE  Len(left) < Len(CharsOf(SubSeq(line, m, Len(line))))
  <2>1. PICK p, one, w : p = done[m] /\ one = <<p>> /\ w = SubSeq(line, m, Len(line))
    OBVIOUS
  <2>2. m \in 1..m /\ done # <<>>
    BY <1>3, <1>4, <1>8
  <2>3. p \in GridPiece /\ Len(loose) < Len(p.chars)
    BY <1>2, <1>3, <2>1, <2>2, ElementOfSeq
  <2>4. one \in Seq(GridPiece) /\ Len(one) = 1 /\ one[1] = p /\ CharsOf(one) = p.chars
    BY <2>1, <2>3, PartsOfOne
  <2>5. w = one \o todo
    <3>1. PICK x : x = one \o todo
      OBVIOUS
    <3>2. /\ x \in Seq(GridPiece) /\ Len(x) = 1 + n
          /\ \A i \in 1..1 + n : x[i] = IF i <= 1 THEN one[i] ELSE todo[i - 1]
      <4>1. /\ x \in Seq(GridPiece) /\ Len(x) = Len(one) + n
            /\ \A i \in 1..Len(one) + n : x[i] = IF i <= Len(one) THEN one[i]
                                                               ELSE todo[i - Len(one)]
        BY <1>3, <2>4, <3>1, ConcatProperties
      <4> QED
        BY <2>4, <4>1
    <3>3. w \in Seq(GridPiece) /\ Len(w) = 1 + n /\ \A i \in 1..1 + n : w[i] = line[m + i - 1]
      <4>1. \A i \in m..m + n : line[i] \in GridPiece
        <5>1. \A i \in m..m + n : i \in 1..m + n
          BY <1>4, <1>8
        <5> QED
          BY <1>4, <5>1, ElementOfSeq
      <4>2. m + n - m + 1 = 1 + n /\ m <= m + n + 1
        BY <1>4
      <4> QED
        BY <1>4, <1>8, <2>1, <4>1, <4>2, SubSeqProperties
    <3>4. \A i \in 1..1 + n : w[i] = x[i]
      <4> TAKE i \in 1..1 + n
      <4>1. CASE i = 1
        <5>1. m + 1 - 1 = m /\ m \in 1..m + n /\ m <= m /\ 1 <= 1
          BY <1>4, <1>8
        <5> QED
          BY <1>4, <2>1, <2>4, <3>2, <3>3, <4>1, <5>1
      <4>2. CASE i # 1
        <5>1. /\ m + i - 1 \in 1..m + n /\ ~(m + i - 1 <= m) /\ (m + i - 1) - m = i - 1
              /\ ~(i <= 1)
          BY <1>4, <1>8, <4>2
        <5> QED
          BY <1>4, <3>2, <3>3, <5>1
      <4> QED
        BY <4>1, <4>2
    <3>5. w = x
      BY <3>2, <3>3, <3>4, SeqEqual
    <3> QED
      BY <3>1, <3>5
  <2>6. PICK a : a = p.chars
    OBVIOUS
  <2>7. a \in Seq(GridChars) /\ Len(a) \in Nat
    <3>1. p.chars \in Seq(GridChars)
      BY <2>3 DEF GridPiece
    <3>2. a \in Seq(GridChars)
      BY <2>6, <3>1
    <3> QED
      BY <3>2
  <2>8. CharsOf(w) = a \o b
    <3>1. CharsOf(one \o todo) = CharsOf(one) \o CharsOf(todo)
      BY <2>4, CharsOfParts
    <3>2. CharsOf(one) = a /\ CharsOf(todo) = b
      BY <1>3, <2>4, <2>6
    <3>3. CharsOf(w) = CharsOf(one \o todo)
      BY <2>5
    <3> QED
      BY <3>1, <3>2, <3>3, Zenon
  <2>9. Len(a \o b) = Len(a) + Len(b)
    BY <1>7, <2>7, ConcatProperties
  <2> QED
    BY <1>7, <2>1, <2>3, <2>6, <2>7, <2>8, <2>9
<1>9. Begun(m, line, Len(left))
  <2>1. Len(CharsOf(SubSeq(line, m + 1, Len(line)))) = Len(b)
    BY <1>3, <1>5
  <2>2. Len(b) <= Len(left)
    BY <1>7
  <2> QED
    BY <1>8, <2>1, <2>2 DEF Begun
<1>10. m \in 0..Len(line)
  BY <1>4
<1> QED
  BY <1>2, <1>6, <1>9, <1>10

-----------------------------------------------------------------------------
\* What is read goes on in the line.
GoesOn(line, left, now, base) ==
  /\ left[1] # "E" \/ ~StartsSequence(left) => Positioned(line, SubSeq(left, 2, Len(left)), now, base)
  /\ left[1] = "E" /\ StartsSequence(left) =>
       LET m == Min(FinalsOf(left)) IN
       Positioned(line, SubSeq(left, m + 1, Len(left)),
                  IF left[m] = "m" THEN ApplySgr(ParseSgrParams(SubSeq(left, 3, m - 1)), now) ELSE now,
                  base)

\* Reading goes on from an escape that is left of one cut short,
LEMMA LooseGoesOn ==
  ASSUME NEW line, NEW left, NEW now, NEW base, FacesLoose(line, left, now, base)
  PROVE  GoesOn(line, left, now, base)
<1>1. ASSUME left[1] = "E" PROVE ~StartsSequence(left)
  <2>1. \A k \in 1..Len(left) : left[k] \notin GridLetters
    BY <1>1 DEF FacesLoose
  <2>2. \A i \in 3..Len(left) : i \in 1..Len(left)
    OBVIOUS
  <2>3. FinalsOf(left) = {}
    BY <2>1, <2>2 DEF FinalsOf, IsLetter, GridLetters
  <2> QED
    BY <2>3 DEF StartsSequence
<1> QED
  BY <1>1 DEF GoesOn, FacesLoose

\* from a character,
LEMMA CharacterGoesOn ==
  ASSUME NEW line, NEW left, NEW now \in AllAttrs, NEW base, NEW p \in GridPiece,
         NEW more \in Seq(GridPiece), FacesPiece(p, more, line, left, now, base), IsCharacter(p)
  PROVE  GoesOn(line, left, now, base)
<1>1. PICK c \in GridChars \ {"E"} : p.chars = <<c>> /\ p.sets = <<>>
  BY DEF IsCharacter
<1>2. PICK a, u : a = <<c>> /\ u = CharsOf(more)
  OBVIOUS
<1>3. a \in Seq(GridChars) /\ Len(a) = 1 /\ a[1] = c /\ u \in Seq(GridChars)
  BY <1>2, CharsOfParts
<1>4. left = a \o u
  BY <1>1, <1>2 DEF FacesPiece
<1>5. SubSeq(left, 2, Len(left)) = u
  <2>1. SubSeq(a \o u, Len(a) + 1, Len(a \o u)) = u
    BY <1>3, WithoutFirst
  <2> QED
    BY <1>3, <1>4, <2>1
<1>6. left[1] = c
  <2>1. Len(u) \in Nat
    BY <1>3
  <2>2. \A i \in 1..Len(a) + Len(u) : (a \o u)[i] = IF i <= Len(a) THEN a[i] ELSE u[i - Len(a)]
    BY <1>3, ConcatProperties
  <2>3. 1 \in 1..Len(a) + Len(u) /\ 1 <= Len(a)
    BY <1>3, <2>1
  <2> QED
    BY <1>3, <1>4, <2>2, <2>3
<1>7. Positioned(line, u, now, base)
  <2>1. PICK e : e = <<>>
    OBVIOUS
  <2>2. e \in Seq(GridChars) /\ Len(e) = 0 /\ NoSequence(e, more)
    BY <2>1 DEF NoSequence
  <2>3. Len(e) < Len(p.chars)
    BY <1>1, <1>2, <1>3, <2>2
  <2>4. Positioned(line, e \o u, Updated(now, p.sets), base)
    BY <1>2, <2>2, <2>3 DEF FacesPiece
  <2>5. e \o u = u
    BY <1>3, <2>1, ConcatEmptySeq
  <2>6. Updated(now, p.sets) = now
    BY <1>1, UpdatedByNothing
  <2> QED
    BY <2>4, <2>5, <2>6
<1> QED
  BY <1>5, <1>6, <1>7 DEF GoesOn

\* from an escape that starts no sequence,
LEMMA BareGoesOn ==
  ASSUME NEW line, NEW left, NEW now \in AllAttrs, NEW base, NEW p \in GridPiece,
         NEW more \in Seq(GridPiece), FacesPiece(p, more, line, left, now, base), IsBareEscape(p)
  PROVE  GoesOn(line, left, now, base)
<1>1. PICK c \in GridChars \ {"E", "["} : p.chars = <<"E", c>> /\ p.sets = <<>>
  BY DEF IsBareEscape
<1>2. PICK a, u : a = <<c>> /\ u = CharsOf(more)
  OBVIOUS
<1>3. a \in Seq(GridChars) /\ Len(a) = 1 /\ a[1] = c /\ u \in Seq(GridChars)
  BY <1>2, CharsOfParts
<1>4. left = <<"E", c>> \o u
  BY <1>1, <1>2 DEF FacesPiece
<1>5. left[2] = c /\ SubSeq(left, 2, Len(left)) = a \o u
  BY <1>2, <1>3, <1>4, TwoCharacters
<1>6. ~StartsSequence(left)
  BY <1>5 DEF StartsSequence
<1>7. Positioned(line, a \o u, now, base)
  <2>1. NoSequence(a, more)
    BY <1>3 DEF NoSequence
  <2>2. Len(p.chars) = 2
    BY <1>1
  <2>3. Positioned(line, a \o u, Updated(now, p.sets), base)
    <3>1. a \in Seq(GridChars) /\ Len(a) < Len(p.chars)
      BY <1>3, <2>2
    <3>2. Positioned(line, a \o CharsOf(more), Updated(now, p.sets), base)
      BY <2>1, <3>1 DEF FacesPiece
    <3> QED
      BY <1>2, <3>2
  <2>4. Updated(now, p.sets) = now
    BY <1>1, UpdatedByNothing
  <2> QED
    BY <2>3, <2>4
<1> QED
  BY <1>5, <1>6, <1>7 DEF GoesOn

\* from a sequence,
LEMMA SequenceGoesOn ==
  ASSUME NEW line, NEW left, NEW now \in AllAttrs, NEW base, NEW p \in GridPiece,
         NEW more \in Seq(GridPiece), FacesPiece(p, more, line, left, now, base),
         IsOther(p) \/ IsSgr(p)
  PROVE  GoesOn(line, left, now, base)
<1>1. PICK u : u = CharsOf(more)
  OBVIOUS
<1>2. u \in Seq(GridChars)
  BY <1>1, CharsOfParts
<1>3. PICK ps \in Seq(ParamChars), c \in GridLetters :
        /\ p.chars = SequenceOf(ps, c)
        /\ Updated(now, p.sets) = IF c = "m" THEN ApplySgr(ParseSgrParams(ps), now) ELSE now
  <2>1. CASE IsOther(p)
    <3>1. PICK ps \in Seq(ParamChars), c \in GridLetters \ {"m"} :
             p.chars = SequenceOf(ps, c) /\ p.sets = <<>>
      BY <2>1 DEF IsOther
    <3>2. Updated(now, p.sets) = now
      BY <3>1, UpdatedByNothing
    <3> QED
      BY <3>1, <3>2
  <2>2. CASE IsSgr(p)
    <3>1. PICK ps \in Seq(ParamChars), us \in SgrUnits :
            /\ ParseSgrParams(ps) = FlattenSeq(us)
            /\ p.chars = SequenceOf(ps, "m") /\ p.sets = Together(MeansUnits(us))
      BY <2>2 DEF IsSgr
    <3>2. ApplySgr(ParseSgrParams(ps), now) = Updated(now, p.sets)
      BY <3>1, SgrIsItsUnits
    <3>3. "m" \in GridLetters
      BY DEF GridLetters
    <3> QED
      BY <3>1, <3>2, <3>3
  <2> QED
    BY <2>1, <2>2
<1>4. left = SequenceOf(ps, c) \o u
  BY <1>1, <1>3 DEF FacesPiece
<1>5. PICK n \in Nat : n = Len(ps)
  OBVIOUS
<1>6. /\ left[1] = "E" /\ StartsSequence(left)
      /\ Min(FinalsOf(left)) = n + 3 /\ left[n + 3] = c
      /\ SubSeq(left, 3, n + 2) = ps /\ SubSeq(left, n + 4, Len(left)) = u
  <2>1. SequenceAt(left, Len(ps), ps, c, u)
    BY <1>2, <1>4, SequenceFacts
  <2> QED
    BY <1>5, <2>1 DEF SequenceAt
<1>7. Positioned(line, u, Updated(now, p.sets), base)
  <2>1. PICK e : e = <<>>
    OBVIOUS
  <2>2. e \in Seq(GridChars) /\ Len(e) = 0 /\ NoSequence(e, more)
    BY <2>1 DEF NoSequence
  <2>3. Len(e) < Len(p.chars)
    <3>1. AnyPiece(p)
      BY DEF AnyPiece
    <3> QED
      BY <2>2, <3>1, PieceFacts
  <2>4. Positioned(line, e \o u, Updated(now, p.sets), base)
    BY <1>1, <2>2, <2>3 DEF FacesPiece
  <2>5. e \o u = u
    BY <1>2, <2>1, ConcatEmptySeq
  <2> QED
    BY <2>4, <2>5
<1>8. (n + 3) + 1 = n + 4 /\ (n + 3) - 1 = n + 2
  OBVIOUS
<1>9. PICK m : m = Min(FinalsOf(left)) /\ m = n + 3
  BY <1>6
<1>10. SubSeq(left, m + 1, Len(left)) = u /\ left[m] = c /\ SubSeq(left, 3, m - 1) = ps
  BY <1>6, <1>8, <1>9
<1> QED
  BY <1>3, <1>6, <1>7, <1>9, <1>10 DEF GoesOn

\* from an escape with another behind it,
LEMMA LoneGoesOn ==
  ASSUME NEW line, NEW left, NEW now \in AllAttrs, NEW base, NEW p \in GridPiece,
         NEW more \in Seq(GridPiece), FacesPiece(p, more, line, left, now, base),
         IsLone(p), more # <<>>, AnyPiece(more[1]), more[1].chars[1] = "E"
  PROVE  GoesOn(line, left, now, base)
<1>1. p.chars = <<"E">> /\ p.sets = <<>>
  BY DEF IsLone
<1>2. PICK a, u : a = <<"E">> /\ u = CharsOf(more)
  OBVIOUS
<1>3. a \in Seq(GridChars) /\ Len(a) = 1 /\ a[1] = "E" /\ u \in Seq(GridChars)
  BY <1>2, CharsOfParts DEF GridChars
<1>4. left = a \o u
  BY <1>1, <1>2 DEF FacesPiece
<1>5. SubSeq(left, 2, Len(left)) = u
  <2>1. SubSeq(a \o u, Len(a) + 1, Len(a \o u)) = u
    BY <1>3, WithoutFirst
  <2> QED
    BY <1>3, <1>4, <2>1
<1>6. Len(u) \in Nat /\ Len(u) >= 1 /\ u[1] = "E"
  <2>1. PICK q \in GridPiece, behind \in Seq(GridPiece) :
          /\ q = more[1] /\ more = <<q>> \o behind /\ CharsOf(more) = q.chars \o CharsOf(behind)
          /\ Len(more) = Len(behind) + 1 /\ Len(behind) \in Nat
          /\ \A i \in 1..Len(behind) : behind[i] = more[i + 1]
    BY FirstPiece
  <2>2. PICK d, e : d = q.chars /\ e = CharsOf(behind)
    OBVIOUS
  <2>3. d \in Seq(GridChars) /\ e \in Seq(GridChars)
    BY <2>2, CharsOfParts, PartsOfOne
  <2>4. Len(d) \in Nat /\ Len(d) >= 1 /\ d[1] = "E"
    BY <2>1, <2>2, PieceFacts
  <2>5. u = d \o e
    BY <1>2, <2>1, <2>2
  <2>6. /\ Len(d \o e) = Len(d) + Len(e) /\ Len(e) \in Nat
        /\ \A i \in 1..Len(d) + Len(e) : (d \o e)[i] = IF i <= Len(d) THEN d[i] ELSE e[i - Len(d)]
    BY <2>3, ConcatProperties
  <2>7. 1 \in 1..Len(d) + Len(e) /\ 1 <= Len(d)
    BY <2>4, <2>6
  <2> QED
    BY <2>4, <2>5, <2>6, <2>7
<1>7. left[2] = "E"
  <2>1. \A i \in 1..Len(a) + Len(u) : (a \o u)[i] = IF i <= Len(a) THEN a[i] ELSE u[i - Len(a)]
    BY <1>3, ConcatProperties
  <2>2. 2 \in 1..Len(a) + Len(u) /\ ~(2 <= Len(a)) /\ 2 - Len(a) = 1
    BY <1>3, <1>6
  <2> QED
    BY <1>4, <1>6, <2>1, <2>2
<1>8. ~StartsSequence(left)
  BY <1>7 DEF StartsSequence
<1>9. Positioned(line, u, now, base)
  <2>1. PICK e : e = <<>>
    OBVIOUS
  <2>2. e \in Seq(GridChars) /\ Len(e) = 0 /\ NoSequence(e, more)
    BY <2>1 DEF NoSequence
  <2>3. Len(e) < Len(p.chars)
    BY <1>1, <1>2, <1>3, <2>2
  <2>4. Positioned(line, e \o u, Updated(now, p.sets), base)
    BY <1>2, <2>2, <2>3 DEF FacesPiece
  <2>5. e \o u = u
    BY <1>3, <2>1, ConcatEmptySeq
  <2>6. Updated(now, p.sets) = now
    BY <1>1, UpdatedByNothing
  <2> QED
    BY <2>4, <2>5, <2>6
<1> QED
  BY <1>5, <1>8, <1>9 DEF GoesOn

\* and from a sequence that the line cuts short.
LEMMA CutGoesOn ==
  ASSUME NEW line, NEW left, NEW now \in AllAttrs, NEW base, NEW p \in GridPiece,
         NEW more \in Seq(GridPiece), FacesPiece(p, more, line, left, now, base),
         IsCut(p), more = <<>>
  PROVE  GoesOn(line, left, now, base)
<1>1. PICK ps \in Seq(ParamChars) : p.chars = <<"E">> \o ps /\ p.sets = <<>>
  BY DEF IsCut
<1>2. PICK a : a = <<"E">>
  OBVIOUS
<1>3. a \in Seq(GridChars) /\ Len(a) = 1 /\ a[1] = "E" /\ "E" \notin GridLetters
  BY <1>2 DEF GridChars, GridLetters
<1>4. ps \in Seq(GridChars)
  BY SeqMonotonic DEF ParamChars
<1>5. /\ a \o ps \in Seq(GridChars) /\ Len(a \o ps) = Len(a) + Len(ps) /\ Len(ps) \in Nat
      /\ \A i \in 1..Len(a) + Len(ps) : (a \o ps)[i] = IF i <= Len(a) THEN a[i] ELSE ps[i - Len(a)]
  <2>1. a \in Seq(GridChars) /\ ps \in Seq(GridChars)
    BY <1>3, <1>4
  <2> QED
    BY <2>1, ConcatProperties
<1>6. left = a \o ps
  <2>1. p.chars \o <<>> = p.chars
    BY <1>1, <1>2, <1>5, ConcatEmptySeq
  <2> QED
    BY <1>1, <1>2, <2>1, NothingOfIt DEF FacesPiece
<1>7. SubSeq(left, 2, Len(left)) = ps
  <2>1. SubSeq(a \o ps, Len(a) + 1, Len(a \o ps)) = ps
    BY <1>3, <1>4, WithoutFirst
  <2> QED
    BY <1>3, <1>6, <2>1
<1>8. \A k \in 1..Len(ps) : ps[k] \notin GridLetters
  <2>1. \A k \in 1..Len(ps) : ps[k] \in ParamChars
    BY ElementOfSeq
  <2> QED
    BY <2>1 DEF ParamChars
<1>9. FinalsOf(left) = {}
  <2> SUFFICES ASSUME NEW i \in FinalsOf(left) PROVE FALSE
    OBVIOUS
  <2>1. i \in 3..Len(left) /\ left[i] \in GridLetters
    BY DEF FinalsOf, IsLetter, GridLetters
  <2>2. i \in 1..Len(a) + Len(ps) /\ ~(i <= Len(a)) /\ i - Len(a) \in 1..Len(ps)
    BY <1>3, <1>5, <1>6, <2>1
  <2>3. left[i] = ps[i - Len(a)]
    BY <1>5, <1>6, <2>2
  <2> QED
    BY <1>8, <2>1, <2>2, <2>3
<1>10. Positioned(line, ps, now, base)
  <2>1. NoSequence(ps, more)
    BY <1>8 DEF NoSequence
  <2>2. Len(p.chars) = Len(a) + Len(ps)
    BY <1>1, <1>2, <1>5
  <2>3. Len(ps) < Len(p.chars)
    BY <1>3, <1>5, <2>2
  <2>4. Positioned(line, ps \o CharsOf(more), Updated(now, p.sets), base)
    BY <1>4, <2>1, <2>3 DEF FacesPiece
  <2>5. ps \o CharsOf(more) = ps
    BY <1>4, NothingOfIt, ConcatEmptySeq
  <2>6. Updated(now, p.sets) = now
    BY <1>1, UpdatedByNothing
  <2> QED
    BY <2>4, <2>5, <2>6
<1> QED
  BY <1>7, <1>9, <1>10 DEF GoesOn, StartsSequence

\* From any place in a line the next character or sequence is read as the line means it.
LEMMA ReadingGoesOn ==
  ASSUME NEW line \in GridLine, NEW left, left # <<>>, NEW now, NEW base,
         Positioned(line, left, now, base)
  PROVE  GoesOn(line, left, now, base)
<1>1. now \in AllAttrs
  BY PositionedFacts
<1>2. CASE FacesLoose(line, left, now, base)
  BY <1>2, LooseGoesOn
<1>3. ASSUME NEW p \in GridPiece, NEW more \in Seq(GridPiece),
             FacesPiece(p, more, line, left, now, base)
      PROVE  GoesOn(line, left, now, base)
  <2>1. CASE IsCharacter(p)
    BY <1>1, <1>3, <2>1, CharacterGoesOn
  <2>2. CASE IsBareEscape(p)
    BY <1>1, <1>3, <2>2, BareGoesOn
  <2>3. CASE IsOther(p) \/ IsSgr(p)
    BY <1>1, <1>3, <2>3, SequenceGoesOn
  <2>4. CASE IsLone(p) /\ more # <<>> /\ AnyPiece(more[1]) /\ more[1].chars[1] = "E"
    BY <1>1, <1>3, <2>4, LoneGoesOn
  <2>5. CASE IsCut(p) /\ more = <<>>
    BY <1>1, <1>3, <2>5, CutGoesOn
  <2> QED
    BY <1>3, <2>1, <2>2, <2>3, <2>4, <2>5 DEF FacesPiece
<1> QED
  BY <1>2, <1>3, ReadsNext

-----------------------------------------------------------------------------
GridCell == [text : Seq(GridChars), width : 0..2, attrs : AllAttrs, left : Nat]
ShownOf(cell) == IF cell.width > 0 THEN cell.text ELSE <<>>

\* A row that is not empty is its front and its last cell.
LEMMA LastApart ==
  ASSUME NEW S, NEW row \in Seq(S), row # <<>>
  PROVE  \E front \in Seq(S), last \in S :
           /\ row = front \o <<last>> /\ last = row[Len(row)] /\ Len(front) = Len(row) - 1
           /\ \A i \in 1..Len(row) - 1 : front[i] = row[i]
<1>1. PICK n \in Nat : n = Len(row)
  OBVIOUS
<1>2. n >= 1
  BY <1>1, EmptySeq
<1>3. PICK front, last, one, w : /\ front = SubSeq(row, 1, n - 1) /\ last = row[n]
                                 /\ one = <<last>> /\ w = front \o one
  OBVIOUS
<1>4. \A i \in 1..n - 1 : row[i] \in S
  BY <1>1, ElementOfSeq
<1>5. last \in S
  <2>1. n \in 1..n
    BY <1>2
  <2> QED
    BY <1>1, <1>3, <2>1, ElementOfSeq
<1>6. front \in Seq(S) /\ Len(front) = n - 1 /\ \A i \in 1..n - 1 : front[i] = row[i]
  <2>1. PICK q \in Nat : q = n - 1
    BY <1>2
  <2>2. PICK o \in Nat : o = 1
    OBVIOUS
  <2>3. \A i \in o..q : row[i] \in S
    BY <1>4, <2>1, <2>2
  <2>4. /\ SubSeq(row, o, q) \in Seq(S)
        /\ Len(SubSeq(row, o, q)) = IF o <= q THEN q - o + 1 ELSE 0
        /\ \A i \in 1..q - o + 1 : SubSeq(row, o, q)[i] = row[o + i - 1]
    BY <2>3, SubSeqProperties
  <2>5. front = SubSeq(row, o, q)
    BY <1>3, <2>1, <2>2
  <2>6. Len(front) = q
    BY <2>2, <2>4, <2>5
  <2>7. \A i \in 1..q : i \in 1..q - o + 1 /\ o + i - 1 = i
    BY <2>2
  <2> QED
    BY <2>1, <2>4, <2>5, <2>6, <2>7
<1>7. one \in Seq(S) /\ Len(one) = 1 /\ one[1] = last
  BY <1>3, <1>5
<1>8. /\ w \in Seq(S) /\ Len(w) = n
      /\ \A i \in 1..n : w[i] = IF i <= n - 1 THEN front[i] ELSE one[i - (n - 1)]
  <2>1. /\ w \in Seq(S) /\ Len(w) = Len(front) + Len(one)
        /\ \A i \in 1..Len(front) + Len(one) :
             w[i] = IF i <= Len(front) THEN front[i] ELSE one[i - Len(front)]
    BY <1>3, <1>6, <1>7, ConcatProperties
  <2>2. Len(front) + Len(one) = n
    BY <1>2, <1>6, <1>7
  <2> QED
    BY <1>6, <2>1, <2>2
<1>9. \A i \in 1..n : w[i] = row[i]
  <2> TAKE i \in 1..n
  <2>1. CASE i <= n - 1
    <3>1. i \in 1..n - 1
      BY <2>1
    <3> QED
      BY <1>6, <1>8, <2>1, <3>1
  <2>2. CASE ~(i <= n - 1)
    <3>1. i = n /\ i - (n - 1) = 1
      BY <1>2, <2>2
    <3> QED
      BY <1>3, <1>7, <1>8, <2>2, <3>1
  <2> QED
    BY <2>1, <2>2
<1>10. w = row
  BY <1>1, <1>8, <1>9, SeqEqual
<1> QED
  BY <1>1, <1>3, <1>5, <1>6, <1>10

\* Nothing but empty pieces is nothing.
LEMMA FlattenNothing ==
  ASSUME NEW S, NEW pieces \in Seq(Seq(S)), \A i \in 1..Len(pieces) : pieces[i] = <<>>
  PROVE  FlattenSeq(pieces) = <<>>
<1> DEFINE Good == {u \in Seq(Seq(S)) :
                      (\A i \in 1..Len(u) : u[i] = <<>>) => FlattenSeq(u) = <<>>}
<1>1. <<>> \in Good
  BY FlattenEmpty
<1>2. ASSUME NEW s \in Seq(Seq(S)), NEW x \in Seq(S), s \in Good
      PROVE  Append(s, x) \in Good
  <2>1. PICK u : u = Append(s, x)
    OBVIOUS
  <2>2. /\ u \in Seq(Seq(S)) /\ Len(u) = Len(s) + 1 /\ Len(s) \in Nat
        /\ u[Len(s) + 1] = x /\ \A i \in 1..Len(s) : u[i] = s[i]
    BY <2>1, AppendProperties
  <2>3. ASSUME \A i \in 1..Len(u) : u[i] = <<>> PROVE FlattenSeq(u) = <<>>
    <3>1. \A i \in 1..Len(s) : s[i] = <<>>
      <4>1. \A i \in 1..Len(s) : i \in 1..Len(u)
        BY <2>2
      <4> QED
        BY <2>2, <2>3, <4>1
    <3>2. x = <<>>
      <4>1. Len(s) + 1 \in 1..Len(u)
        BY <2>2
      <4> QED
        BY <2>2, <2>3, <4>1
    <3>3. FlattenSeq(s) = <<>>
      BY <1>2, <3>1
    <3>4. FlattenSeq(u) = FlattenSeq(s) \o x
      BY <2>1, FlattenAppend
    <3>5. \A e : e = <<>> => e \o e = e
      <4> TAKE e
      <4> HAVE e = <<>>
      <4>1. e \in Seq(S) /\ e \o <<>> = e
        BY ConcatEmptySeq
      <4> QED
        BY <4>1
    <3> QED
      BY <3>2, <3>3, <3>4, <3>5
  <2> QED
    BY <2>1, <2>2, <2>3
<1> HIDE DEF Good
<1>3. Seq(Seq(S)) \subseteq Good
  BY <1>1, <1>2, SeqInduction
<1> QED
  BY <1>3 DEF Good

\* The text of two parts of a row is that of the row.
LEMMA TextOfParts ==
  ASSUME NEW s \in Seq(GridCell), NEW u \in Seq(GridCell)
  PROVE  TextOf(s) \in Seq(GridChars) /\ TextOf(s \o u) = TextOf(s) \o TextOf(u)
<1>1. PICK w, m, n : w = s \o u /\ m = Len(s) /\ n = Len(u)
  OBVIOUS
<1>2. /\ m \in Nat /\ n \in Nat /\ w \in Seq(GridCell) /\ Len(w) = m + n
      /\ \A i \in 1..m + n : w[i] = IF i <= m THEN s[i] ELSE u[i - m]
  BY <1>1, ConcatProperties
<1>3. \A l \in Seq(GridCell) :
        /\ [i \in 1..Len(l) |-> ShownOf(l[i])] \in Seq(Seq(GridChars))
        /\ TextOf(l) = FlattenSeq([i \in 1..Len(l) |-> ShownOf(l[i])])
  <2> TAKE l \in Seq(GridCell)
  <2>1. Len(l) \in Nat /\ \A i \in 1..Len(l) : l[i] \in GridCell
    BY ElementOfSeq
  <2>2. \A i \in 1..Len(l) : ShownOf(l[i]) \in Seq(GridChars)
    BY <2>1 DEF GridCell, ShownOf
  <2>3. TextOf(l) = FlattenSeq([i \in 1..Len(l) |-> ShownOf(l[i])])
    BY DEF TextOf, ShownOf
  <2> QED
    BY <2>1, <2>2, <2>3
<1>4. PICK cs, cu, cw : /\ cs = [i \in 1..Len(s) |-> ShownOf(s[i])]
                        /\ cu = [i \in 1..Len(u) |-> ShownOf(u[i])]
                        /\ cw = [i \in 1..Len(w) |-> ShownOf(w[i])]
  OBVIOUS
<1>5. cs \in Seq(Seq(GridChars)) /\ cu \in Seq(Seq(GridChars)) /\ cw \in Seq(Seq(GridChars))
  BY <1>2, <1>3, <1>4
<1>6. cw = cs \o cu
  <2>1. PICK both : both = cs \o cu
    OBVIOUS
  <2>2. Len(cs) = m /\ Len(cu) = n /\ Len(cw) = m + n
    BY <1>1, <1>2, <1>4
  <2>3. /\ both \in Seq(Seq(GridChars)) /\ Len(both) = m + n
        /\ \A i \in 1..m + n : both[i] = IF i <= m THEN cs[i] ELSE cu[i - m]
    BY <1>5, <2>1, <2>2, ConcatProperties
  <2>4. \A i \in 1..m + n : cw[i] = both[i]
    <3> TAKE i \in 1..m + n
    <3>1. CASE i <= m
      <4>1. i \in 1..m
        BY <1>2, <3>1
      <4> QED
        BY <1>1, <1>2, <1>4, <2>3, <3>1, <4>1
    <3>2. CASE ~(i <= m)
      <4>1. i - m \in 1..n
        BY <1>2, <3>2
      <4> QED
        BY <1>1, <1>2, <1>4, <2>3, <3>2, <4>1
    <3> QED
      BY <3>1, <3>2
  <2> QED
    BY <1>5, <2>1, <2>2, <2>3, <2>4, SeqEqual
<1>7. TextOf(w) = TextOf(s) \o TextOf(u)
  <2>1. TextOf(s) = FlattenSeq(cs) /\ TextOf(u) = FlattenSeq(cu) /\ TextOf(w) = FlattenSeq(cw)
    BY <1>2, <1>3, <1>4
  <2>2. FlattenSeq(cs \o cu) = FlattenSeq(cs) \o FlattenSeq(cu)
    BY <1>5, FlattenConcat
  <2> QED
    BY <1>6, <2>1, <2>2
<1>8. TextOf(s) \in Seq(GridChars)
  <2>1. TextOf(s) = FlattenSeq(cs)
    BY <1>3, <1>4
  <2> QED
    BY <1>5, <2>1, FlattenType
<1> QED
  BY <1>1, <1>7, <1>8

\* The text of one cell,
LEMMA TextOfOne ==
  ASSUME NEW cell \in GridCell
  PROVE  <<cell>> \in Seq(GridCell) /\ TextOf(<<cell>>) = ShownOf(cell)
<1>1. PICK one, c : one = <<cell>> /\ c = ShownOf(cell)
  OBVIOUS
<1>2. one \in Seq(GridCell) /\ Len(one) = 1 /\ one[1] = cell
  BY <1>1
<1>3. c \in Seq(GridChars)
  BY <1>1 DEF GridCell, ShownOf
<1>4. [i \in 1..Len(one) |-> IF one[i].width > 0 THEN one[i].text ELSE <<>>] = <<c>>
  BY <1>1, <1>2 DEF ShownOf
<1>5. FlattenSeq(<<c>>) = c
  <2>1. <<>> \in Seq(Seq(GridChars)) /\ Append(<<>>, c) = <<c>>
    OBVIOUS
  <2>2. FlattenSeq(Append(<<>>, c)) = FlattenSeq(<<>>) \o c
    BY <1>3, <2>1, FlattenAppend
  <2>3. <<>> \o c = c
    BY <1>3, ConcatEmptySeq
  <2> QED
    BY <2>1, <2>2, <2>3, FlattenEmpty
<1> QED
  BY <1>1, <1>2, <1>4, <1>5 DEF TextOf

\* and of blank ones.
LEMMA TextOfBlanks ==
  ASSUME NEW row \in Seq(GridCell), \A i \in 1..Len(row) : row[i].text = <<>>
  PROVE  TextOf(row) = <<>>
<1>1. PICK ts : ts = [i \in 1..Len(row) |-> IF row[i].width > 0 THEN row[i].text ELSE <<>>]
  OBVIOUS
<1>2. PICK n \in Nat : n = Len(row)
  OBVIOUS
<1>3. \A i \in 1..n : (IF row[i].width > 0 THEN row[i].text ELSE <<>>) = <<>>
  BY <1>2
<1>4. ts = [i \in 1..n |-> <<>>]
  BY <1>1, <1>2, <1>3
<1>5. ts \in Seq(Seq(GridChars)) /\ \A i \in 1..Len(ts) : ts[i] = <<>>
  <2>1. PICK e : e = <<>>
    OBVIOUS
  <2>2. e \in Seq(GridChars)
    BY <2>1
  <2>3. ts = [i \in 1..n |-> e]
    BY <1>4, <2>1
  <2>4. ts \in Seq(Seq(GridChars)) /\ Len(ts) = n /\ \A i \in 1..n : ts[i] = e
    BY <2>2, <2>3
  <2> QED
    BY <2>1, <2>4
<1>6. FlattenSeq(ts) = <<>>
  BY <1>5, FlattenNothing
<1> QED
  BY <1>1, <1>6 DEF TextOf

-----------------------------------------------------------------------------
\* What was put on a line.
GridItem == [line : Nat, char : GridChars]
OnLine(items, l) ==
  FlattenSeq([i \in 1..Len(items) |-> IF items[i].line = l THEN <<items[i].char>> ELSE <<>>])

\* One more character is one more on its own line only.
LEMMA OnLineAppend ==
  ASSUME NEW items \in Seq(GridItem), NEW x \in GridItem, NEW l
  PROVE  /\ OnLine(items, l) \in Seq(GridChars)
         /\ OnLine(Append(items, x), l) = IF x.line = l THEN Append(OnLine(items, l), x.char)
                                                        ELSE OnLine(items, l)
<1> DEFINE Of(y) == IF y.line = l THEN <<y.char>> ELSE <<>>
<1>1. \A y \in GridItem : Of(y) \in Seq(GridChars)
  BY DEF GridItem
<1>x. PICK n \in Nat : n = Len(items)
  OBVIOUS
<1>2. PICK longer : longer = Append(items, x) /\ n = Len(items)
  BY <1>x
<1> HIDE DEF Of
<1>3. /\ longer \in Seq(GridItem) /\ Len(longer) = n + 1 /\ longer[n + 1] = x
      /\ \A i \in 1..n : longer[i] = items[i]
  BY <1>2, AppendProperties
<1>4. \A i \in 1..n : items[i] \in GridItem
  BY <1>2, ElementOfSeq
<1>5. PICK a, b : a = [i \in 1..n |-> Of(items[i])] /\ b = [i \in 1..n + 1 |-> Of(longer[i])]
  OBVIOUS
<1>6. a \in Seq(Seq(GridChars)) /\ Len(a) = n
  <2>1. \A i \in 1..n : Of(items[i]) \in Seq(GridChars)
    BY <1>1, <1>4
  <2>2. a = [i \in 1..n |-> Of(items[i])]
    BY <1>5
  <2> QED
    BY <2>1, <2>2
<1>7. b = Append(a, Of(x))
  <2>1. PICK v, y : y = Of(x) /\ v = Append(a, y)
    OBVIOUS
  <2>2. y \in Seq(GridChars)
    BY <1>1, <2>1
  <2>3. /\ v \in Seq(Seq(GridChars)) /\ Len(v) = n + 1 /\ v[n + 1] = y
        /\ \A i \in 1..n : v[i] = a[i]
    BY <1>6, <2>1, <2>2, AppendProperties
  <2>4. b \in Seq(Seq(GridChars)) /\ Len(b) = n + 1
    <3>1. \A i \in 1..n + 1 : longer[i] \in GridItem
      BY <1>3, ElementOfSeq
    <3>2. \A i \in 1..n + 1 : Of(longer[i]) \in Seq(GridChars)
      BY <1>1, <3>1
    <3>3. b = [i \in 1..n + 1 |-> Of(longer[i])]
      BY <1>5
    <3>4. n + 1 \in Nat
      OBVIOUS
    <3> QED
      BY <3>2, <3>3, <3>4
  <2>5. \A i \in 1..n + 1 : b[i] = v[i]
    <3> TAKE i \in 1..n + 1
    <3>1. CASE i \in 1..n
      BY <1>3, <1>5, <2>3, <3>1
    <3>2. CASE i = n + 1
      BY <1>3, <1>5, <2>1, <2>3, <3>2
    <3> QED
      BY <3>1, <3>2
  <2>6. b = v
    BY <2>3, <2>4, <2>5, SeqEqual
  <2> QED
    BY <2>1, <2>6
<1>8. FlattenSeq(b) = FlattenSeq(a) \o Of(x) /\ FlattenSeq(a) \in Seq(GridChars)
  BY <1>1, <1>6, <1>7, FlattenAppend, FlattenType
<1>9. OnLine(items, l) = FlattenSeq(a) /\ OnLine(longer, l) = FlattenSeq(b)
  BY <1>2, <1>3, <1>5 DEF OnLine, Of
<1>10. PICK C, c : C = FlattenSeq(a) /\ c = x.char
  OBVIOUS
<1>11. C \in Seq(GridChars) /\ c \in GridChars
  BY <1>8, <1>10 DEF GridItem
<1>12. C \o <<c>> = Append(C, c) /\ C \o <<>> = C
  BY <1>11, AppendIsConcat, ConcatEmptySeq
<1> QED
  BY <1>2, <1>8, <1>9, <1>10, <1>11, <1>12 DEF Of

\* A mark that comes now joins a filler.
EndsWide(C) == \E j \in 1..Len(C) : C[j] = "w" /\ \A k \in (j + 1)..Len(C) : C[k] = "n"

\* A mark after a wide glyph stays one, and is one where it is put behind one.
LEMMA AfterWideAppend ==
  ASSUME NEW C \in Seq(GridChars), NEW c \in GridChars
  PROVE  /\ AfterWide(Append(C, c)) = {} => AfterWide(C) = {}
         /\ EndsWide(C) => AfterWide(Append(C, "n")) # {} /\ EndsWide(Append(C, "n"))
         /\ EndsWide(Append(C, "w"))
<1>1. PICK n \in Nat : n = Len(C)
  OBVIOUS
<1>2. \A d \in GridChars : /\ Append(C, d) \in Seq(GridChars) /\ Len(Append(C, d)) = n + 1
                           /\ Append(C, d)[n + 1] = d
                           /\ \A i \in 1..n : Append(C, d)[i] = C[i]
  BY <1>1, AppendProperties
<1>3. "n" \in GridChars /\ "w" \in GridChars
  BY DEF GridChars
<1>4. AfterWide(C) \subseteq AfterWide(Append(C, c))
  <2>1. PICK D : D = Append(C, c)
    OBVIOUS
  <2>2. Len(D) = n + 1 /\ \A i \in 1..n : D[i] = C[i]
    BY <1>2, <2>1
  <2>3. ASSUME NEW i \in AfterWide(C) PROVE i \in AfterWide(D)
    <3>1. i \in 1..n /\ C[i] = "n"
      BY <1>1 DEF AfterWide
    <3>2. PICK j \in 1..(i - 1) : C[j] = "w" /\ \A k \in (j + 1)..i : C[k] = "n"
      BY DEF AfterWide
    <3>3. j \in 1..n /\ \A k \in (j + 1)..i : k \in 1..n
      BY <3>1
    <3>4. D[i] = "n" /\ D[j] = "w" /\ \A k \in (j + 1)..i : D[k] = "n"
      BY <2>2, <3>1, <3>2, <3>3
    <3>5. i \in 1..Len(D)
      BY <2>2, <3>1
    <3> QED
      BY <3>4, <3>5 DEF AfterWide
  <2> QED
    BY <2>1, <2>3
<1>5. ASSUME EndsWide(C) PROVE AfterWide(Append(C, "n")) # {} /\ EndsWide(Append(C, "n"))
  <2>1. PICK D : D = Append(C, "n")
    OBVIOUS
  <2>2. Len(D) = n + 1 /\ D[n + 1] = "n" /\ \A i \in 1..n : D[i] = C[i]
    BY <1>2, <1>3, <2>1
  <2>3. PICK j \in 1..n : C[j] = "w" /\ \A k \in (j + 1)..n : C[k] = "n"
    BY <1>1, <1>5 DEF EndsWide
  <2>4. \A k \in (j + 1)..n + 1 : D[k] = "n"
    <3>1. \A k \in (j + 1)..n + 1 : k = n + 1 \/ (k \in (j + 1)..n /\ k \in 1..n)
      BY <2>3
    <3> QED
      BY <2>2, <2>3, <3>1
  <2>5. D[j] = "w"
    BY <2>2, <2>3
  <2>6. EndsWide(D)
    <3>1. j \in 1..Len(D) /\ (j + 1)..Len(D) = (j + 1)..n + 1
      BY <2>2, <2>3
    <3> QED
      BY <2>4, <2>5, <3>1 DEF EndsWide
  <2>7. n + 1 \in AfterWide(D)
    <3>1. n + 1 \in 1..Len(D) /\ j \in 1..((n + 1) - 1)
      BY <2>2, <2>3
    <3> QED
      BY <2>2, <2>4, <2>5, <3>1 DEF AfterWide
  <2> QED
    BY <2>1, <2>6, <2>7
<1>6. EndsWide(Append(C, "w"))
  <2>1. PICK D : D = Append(C, "w")
    OBVIOUS
  <2>2. Len(D) = n + 1 /\ D[n + 1] = "w"
    BY <1>2, <1>3, <2>1
  <2>3. n + 1 \in 1..Len(D) /\ \A k \in ((n + 1) + 1)..Len(D) : FALSE
    BY <2>2
  <2> QED
    BY <2>1, <2>2, <2>3 DEF EndsWide
<1> QED
  BY <1>4, <1>5, <1>6

-----------------------------------------------------------------------------
\* A row shows what was put on its line.
RowShows(row, C) ==
  /\ Laid(row)
  /\ row # <<>> /\ row[Len(row)].width = 0 => EndsWide(C)
  /\ AfterWide(C) = {} => TextOf(row) = C

\* An empty row shows nothing.
LEMMA NothingShown == RowShows(<<>>, <<>>)
<1>1. PICK e : e = <<>>
  OBVIOUS
<1>2. Len(e) = 0 /\ Len(e) <= Columns
  BY <1>1, GridAssumption
<1>3. Laid(e)
  BY <1>2 DEF Laid
<1>4. e \in Seq(GridCell) /\ \A i \in 1..Len(e) : e[i].text = <<>>
  BY <1>1
<1>5. TextOf(e) = e
  BY <1>1, <1>4, TextOfBlanks
<1> QED
  BY <1>1, <1>3, <1>5 DEF RowShows

\* Cells that are put behind a row, the first of them in column m + 1.
LaidBehind(extra, m) ==
  /\ m + Len(extra) <= Columns
  /\ \A i \in 1..Len(extra) :
       /\ extra[i].width = 0 => i > 1 /\ extra[i - 1].width = 2
       /\ extra[i].width = 2 => m + i = Columns \/ (i < Len(extra) /\ extra[i + 1].width = 0)

\* Cells that are laid out stay so when others are put behind them.
LEMMA LaidOn ==
  ASSUME NEW row \in Seq(GridCell), Laid(row), NEW extra \in Seq(GridCell),
         LaidBehind(extra, Len(row))
  PROVE  Laid(row \o extra)
<1>1. PICK w, m, n : w = row \o extra /\ m = Len(row) /\ n = Len(extra)
  OBVIOUS
<1>2. /\ m \in Nat /\ n \in Nat /\ w \in Seq(GridCell) /\ Len(w) = m + n
      /\ \A i \in 1..m + n : w[i] = IF i <= m THEN row[i] ELSE extra[i - m]
  BY <1>1, ConcatProperties
<1>3. m \in Nat /\ n \in Nat
  BY <1>2
<1>4. \A i \in 1..m : w[i] = row[i]
  <2>1. \A i \in 1..m : i \in 1..m + n /\ i <= m
    BY <1>3
  <2> QED
    BY <1>2, <2>1
<1>5. \A i \in 1..n : w[m + i] = extra[i]
  <2>1. \A i \in 1..n : m + i \in 1..m + n /\ ~(m + i <= m) /\ (m + i) - m = i
    BY <1>3
  <2> QED
    BY <1>2, <2>1
<1>6. \A i \in 1..m :
        /\ row[i].width = 0 => i > 1 /\ row[i - 1].width = 2
        /\ row[i].width = 2 => i = Columns \/ (i < m /\ row[i + 1].width = 0)
  BY <1>1 DEF Laid
<1>7. /\ m + n <= Columns
      /\ \A i \in 1..n :
           /\ extra[i].width = 0 => i > 1 /\ extra[i - 1].width = 2
           /\ extra[i].width = 2 => m + i = Columns \/ (i < n /\ extra[i + 1].width = 0)
  BY <1>1 DEF LaidBehind
<1>8. ASSUME NEW i \in 1..m + n
      PROVE  /\ w[i].width = 0 => i > 1 /\ w[i - 1].width = 2
             /\ w[i].width = 2 => i = Columns \/ (i < m + n /\ w[i + 1].width = 0)
  <2>1. CASE i <= m
    <3>1. i \in 1..m /\ (i > 1 => i - 1 \in 1..m) /\ (i < m => i + 1 \in 1..m /\ i < m + n)
      BY <1>3, <2>1
    <3>2. /\ w[i] = row[i] /\ (i > 1 => w[i - 1] = row[i - 1])
          /\ (i < m => w[i + 1] = row[i + 1])
      BY <1>4, <3>1
    <3> QED
      BY <1>6, <3>1, <3>2
  <2>2. CASE ~(i <= m)
    <3>1. PICK k \in 1..n : i = m + k
      <4>1. i - m \in 1..n /\ i = m + (i - m)
        BY <1>3, <2>2
      <4> QED
        BY <4>1
    <3>2. /\ k > 1 => k - 1 \in 1..n /\ m + (k - 1) = i - 1 /\ i > 1
          /\ k < n => k + 1 \in 1..n /\ m + (k + 1) = i + 1 /\ i < m + n
      BY <1>3, <3>1
    <3>3. /\ w[i] = extra[k] /\ (k > 1 => w[i - 1] = extra[k - 1])
          /\ (k < n => w[i + 1] = extra[k + 1])
      <4>1. w[i] = extra[k]
        BY <1>5, <3>1
      <4>2. k > 1 => w[i - 1] = extra[k - 1]
        <5> HAVE k > 1
        <5>1. w[m + (k - 1)] = extra[k - 1] /\ m + (k - 1) = i - 1
          BY <1>5, <3>2
        <5> QED
          BY <5>1
      <4>3. k < n => w[i + 1] = extra[k + 1]
        <5> HAVE k < n
        <5>1. w[m + (k + 1)] = extra[k + 1] /\ m + (k + 1) = i + 1
          BY <1>5, <3>2
        <5> QED
          BY <5>1
      <4> QED
        BY <4>1, <4>2, <4>3
    <3> QED
      BY <1>7, <3>1, <3>2, <3>3
  <2> QED
    BY <2>1, <2>2
<1>9. Laid(w)
  BY <1>2, <1>7, <1>8 DEF Laid
<1> QED
  BY <1>1, <1>9

\* The last cell of two parts of a row.
LEMMA LastOn ==
  ASSUME NEW row \in Seq(GridCell), NEW extra \in Seq(GridCell), extra # <<>>
  PROVE  row \o extra # <<>> /\ (row \o extra)[Len(row \o extra)] = extra[Len(extra)]
<1>1. PICK w, m, n : w = row \o extra /\ m = Len(row) /\ n = Len(extra)
  OBVIOUS
<1>2. /\ m \in Nat /\ n \in Nat /\ w \in Seq(GridCell) /\ Len(w) = m + n
      /\ \A i \in 1..m + n : w[i] = IF i <= m THEN row[i] ELSE extra[i - m]
  BY <1>1, ConcatProperties
<1>3. n >= 1
  BY <1>1, <1>2, EmptySeq
<1>4. m + n \in 1..m + n /\ ~(m + n <= m) /\ (m + n) - m = n
  BY <1>2, <1>3
<1>5. w[m + n] = extra[n]
  BY <1>2, <1>4
<1>6. w # <<>>
  BY <1>2, <1>3
<1> QED
  BY <1>1, <1>2, <1>5, <1>6

\* A tab keeps what a row shows,
LEMMA TabShows ==
  ASSUME NEW row \in Seq(GridCell), NEW C \in Seq(GridChars), RowShows(row, C),
         NEW blanks \in Seq(GridCell), Len(row) + Len(blanks) <= Columns,
         \A i \in 1..Len(blanks) : blanks[i].text = <<>> /\ blanks[i].width = 1
  PROVE  RowShows(row \o blanks, C)
<1>1. PICK w : w = row \o blanks
  OBVIOUS
<1>2. Laid(w)
  <2>1. Laid(row)
    BY DEF RowShows
  <2>2. LaidBehind(blanks, Len(row))
    BY DEF LaidBehind
  <2> QED
    BY <1>1, <2>1, <2>2, LaidOn
<1>3. ASSUME w # <<>>, w[Len(w)].width = 0 PROVE EndsWide(C)
  <2>1. blanks = <<>>
    <3> SUFFICES ASSUME blanks # <<>> PROVE FALSE
      OBVIOUS
    <3>1. w[Len(w)] = blanks[Len(blanks)]
      BY <1>1, LastOn
    <3>2. Len(blanks) \in 1..Len(blanks)
      BY EmptySeq
    <3> QED
      BY <1>3, <3>1, <3>2
  <2>2. w = row
    BY <1>1, <2>1, ConcatEmptySeq
  <2> QED
    BY <1>3, <2>2 DEF RowShows
<1>4. TextOf(w) = TextOf(row)
  <2>1. TextOf(blanks) = <<>>
    BY TextOfBlanks
  <2>2. TextOf(w) = TextOf(row) \o TextOf(blanks) /\ TextOf(row) \in Seq(GridChars)
    BY <1>1, TextOfParts
  <2> QED
    BY <2>1, <2>2, ConcatEmptySeq
<1> QED
  BY <1>1, <1>2, <1>3, <1>4 DEF RowShows

\* A glyph and, behind a wide one that has room for it, its filler.
GlyphCells(c, m, cell, filler) ==
  IF c = "w" /\ m + 1 < Columns THEN <<cell, filler>> ELSE <<cell>>

\* a glyph, in the last column too, is shown behind the others,
LEMMA GlyphShows ==
  ASSUME NEW row \in Seq(GridCell), NEW C \in Seq(GridChars), RowShows(row, C),
         Len(row) < Columns, NEW c \in GridChars, NEW cell \in GridCell, NEW filler \in GridCell,
         cell.text = <<c>>, cell.width = CellWidth(c), filler.text = <<>>, filler.width = 0,
         NEW extra, extra = GlyphCells(c, Len(row), cell, filler)
  PROVE  extra \in Seq(GridCell) /\ RowShows(row \o extra, Append(C, c))
<1>1. PICK m \in Nat : m = Len(row)
  OBVIOUS
<1>2. PICK one, two : one = <<cell>> /\ two = <<filler>>
  OBVIOUS
<1>3. /\ one \in Seq(GridCell) /\ Len(one) = 1 /\ one[1] = cell /\ one # <<>>
      /\ two \in Seq(GridCell) /\ Len(two) = 1 /\ two[1] = filler
  BY <1>2
<1>4. PICK D, x : D = Append(C, c) /\ x = <<c>>
  OBVIOUS
<1>5. x \in Seq(GridChars) /\ D = C \o x
  BY <1>4, AppendIsConcat
<1>6. Columns \in Nat
  BY GridAssumption
<1>7. TextOf(one) = x /\ TextOf(two) = <<>>
  <2>1. ShownOf(cell) = x
    BY <1>4 DEF ShownOf, CellWidth
  <2>2. ShownOf(filler) = <<>>
    BY DEF ShownOf
  <2> QED
    BY <1>2, <2>1, <2>2, TextOfOne
<1>8. ASSUME extra \in Seq(GridCell), TextOf(extra) = x
      PROVE  AfterWide(D) = {} => TextOf(row \o extra) = D
  <2> HAVE AfterWide(D) = {}
  <2>1. AfterWide(C) = {}
    BY <1>4, AfterWideAppend
  <2>2. TextOf(row) = C
    BY <2>1 DEF RowShows
  <2>3. TextOf(row \o extra) = TextOf(row) \o TextOf(extra)
    BY <1>8, TextOfParts
  <2> QED
    BY <1>5, <1>8, <2>2, <2>3
<1>9. CASE c = "w" /\ Len(row) + 1 < Columns
  <2>1. extra = <<cell, filler>>
    BY <1>9 DEF GlyphCells
  <2>2. /\ extra \in Seq(GridCell) /\ Len(extra) = 2 /\ extra[1] = cell /\ extra[2] = filler
        /\ extra # <<>>
    BY <2>1
  <2>3. cell.width = 2
    BY <1>9 DEF CellWidth
  <2>4. LaidBehind(extra, m)
    <3>1. m + Len(extra) <= Columns
      <4>1. Len(extra) = 2
        BY <2>2
      <4>2. m + 2 <= Columns
        BY <1>1, <1>6, <1>9
      <4> QED
        BY <4>1, <4>2
    <3>2. \A i \in 1..Len(extra) : i = 1 \/ i = 2
      BY <2>2
    <3> QED
      BY <2>2, <2>3, <3>1, <3>2 DEF LaidBehind
  <2>5. Laid(row \o extra)
    BY <1>1, <2>2, <2>4, LaidOn DEF RowShows
  <2>6. TextOf(extra) = x
    <3>1. PICK v : v = one \o two
      OBVIOUS
    <3>2. TextOf(v) = TextOf(one) \o TextOf(two)
      BY <1>3, <3>1, TextOfParts
    <3>3. v = extra
      BY <1>2, <2>1, <3>1, PairIs
    <3>4. x \o <<>> = x
      BY <1>5, ConcatEmptySeq
    <3> QED
      BY <1>7, <3>2, <3>3, <3>4
  <2>7. EndsWide(D)
    BY <1>4, <1>9, AfterWideAppend
  <2> QED
    BY <1>4, <1>8, <2>2, <2>5, <2>6, <2>7 DEF RowShows
<1>10. CASE ~(c = "w" /\ Len(row) + 1 < Columns)
  <2>1. extra = one
    BY <1>2, <1>10 DEF GlyphCells
  <2>2. LaidBehind(extra, m)
    <3>0. Len(extra) = 1 /\ extra[1] = cell
      BY <1>2, <2>1
    <3>1. m + Len(extra) <= Columns
      <4>1. m + 1 <= Columns
        BY <1>1, <1>6
      <4> QED
        BY <3>0, <4>1
    <3>2. \A i \in 1..Len(extra) : i = 1 /\ extra[i] = cell
      BY <3>0
    <3>3. cell.width # 0 /\ (cell.width = 2 => m + 1 = Columns)
      BY <1>1, <1>6, <1>10 DEF CellWidth
    <3> QED
      BY <3>1, <3>2, <3>3 DEF LaidBehind
  <2>3. Laid(row \o extra)
    BY <1>1, <1>3, <2>1, <2>2, LaidOn DEF RowShows
  <2>4. (row \o extra)[Len(row \o extra)] = cell
    BY <1>3, <2>1, LastOn
  <2>5. cell.width # 0
    BY DEF CellWidth
  <2> QED
    BY <1>3, <1>4, <1>7, <1>8, <2>1, <2>3, <2>4, <2>5 DEF RowShows
<1> QED
  BY <1>9, <1>10

\* No two glyphs of a row that is laid out overlap.
LEMMA GlyphsApart ==
  ASSUME NEW row \in Seq(GridCell), Laid(row)
  PROVE  \A g, h \in Glyphs(row) : g.column < h.column => g.column + g.width <= h.column
<1> SUFFICES ASSUME NEW g \in Glyphs(row), NEW h \in Glyphs(row), g.column < h.column
             PROVE  g.column + g.width <= h.column
  OBVIOUS
<1>1. \A b \in Glyphs(row) :
        \E i \in 1..Len(row) : b.column = i /\ b.width = row[i].width /\ row[i].width > 0
  BY DEF Glyphs, Seen
<1>2. PICK i \in 1..Len(row) : g.column = i /\ g.width = row[i].width /\ row[i].width > 0
  BY <1>1
<1>3. PICK k \in 1..Len(row) : h.column = k /\ h.width = row[k].width /\ row[k].width > 0
  BY <1>1
<1>4. i < k /\ Len(row) \in Nat /\ Len(row) <= Columns /\ Columns \in Nat
  BY <1>2, <1>3, GridAssumption DEF Laid
<1>5. row[i].width \in 0..2
  <2>1. row[i] \in GridCell
    BY ElementOfSeq
  <2> QED
    BY <2>1 DEF GridCell
<1>6. CASE row[i].width = 2
  <2>1. i = Columns \/ (i < Len(row) /\ row[i + 1].width = 0)
    BY <1>6 DEF Laid
  <2>2. row[i + 1].width = 0
    BY <1>4, <2>1
  <2>3. k # i + 1
    BY <1>3, <2>2
  <2> QED
    BY <1>2, <1>3, <1>4, <1>6, <2>3
<1>7. CASE row[i].width = 1
  BY <1>2, <1>3, <1>4, <1>7
<1> QED
  BY <1>2, <1>5, <1>6, <1>7

\* Of three texts in a row it does not matter which two are put together first.
LEMMA CharsAssociated ==
  \A a, b, c \in Seq(GridChars) : (a \o b) \o c = a \o (b \o c)
BY ConcatAssociative

\* and a mark is, unless a wide glyph is before it.
LEMMA MarkShows ==
  ASSUME NEW row \in Seq(GridCell), NEW C \in Seq(GridChars), RowShows(row, C), row # <<>>,
         NEW new, new = [row EXCEPT ![Len(row)].text = Append(@, "n")]
  PROVE  new \in Seq(GridCell) /\ Len(new) = Len(row) /\ RowShows(new, Append(C, "n"))
<1>1. PICK front \in Seq(GridCell), last \in GridCell :
        /\ row = front \o <<last>> /\ last = row[Len(row)] /\ Len(front) = Len(row) - 1
        /\ \A i \in 1..Len(row) - 1 : front[i] = row[i]
  BY LastApart
<1>2. PICK n \in Nat : n = Len(row)
  OBVIOUS
<1>3. n >= 1 /\ n \in 1..n
  BY <1>2, EmptySeq
<1>4. PICK cell : cell = [last EXCEPT !.text = Append(@, "n")]
  OBVIOUS
<1>5. /\ cell \in GridCell /\ cell.width = last.width /\ cell.text = Append(last.text, "n")
      /\ last.width \in 0..2 /\ last.text \in Seq(GridChars)
  <2>1. "n" \in GridChars
    BY DEF GridChars
  <2>2. last.text \in Seq(GridChars) /\ last.width \in 0..2
    BY DEF GridCell
  <2>3. Append(last.text, "n") \in Seq(GridChars)
    BY <2>1, <2>2, AppendProperties
  <2>4. cell \in GridCell /\ cell.width = last.width /\ cell.text = Append(last.text, "n")
    BY <1>4, <2>3 DEF GridCell
  <2> QED
    BY <2>2, <2>4
<1>6. \A i \in 1..n : row[i] \in GridCell
  BY <1>2, ElementOfSeq
<1>7. new = [row EXCEPT ![n] = cell]
  BY <1>1, <1>2, <1>4
<1>8. /\ new \in Seq(GridCell) /\ Len(new) = n /\ new[n] = cell
      /\ \A i \in 1..n : i # n => new[i] = row[i]
  <2>1. PICK was : was = row /\ was \in Seq(GridCell) /\ Len(was) = n
    BY <1>2
  <2>2. new = [was EXCEPT ![n] = cell]
    BY <1>7, <2>1
  <2>3. /\ [was EXCEPT ![n] = cell] \in Seq(GridCell) /\ Len([was EXCEPT ![n] = cell]) = n
        /\ \A i \in 1..n : [was EXCEPT ![n] = cell][i] = IF i = n THEN cell ELSE was[i]
    BY <1>3, <1>5, <2>1, ExceptSeq
  <2> QED
    BY <1>3, <2>1, <2>2, <2>3
<1>9. \A i \in 1..n : new[i].width = row[i].width
  BY <1>1, <1>2, <1>5, <1>8
<1>10. Laid(new)
  <2>1. /\ n <= Columns
        /\ \A i \in 1..n :
             /\ row[i].width = 0 => i > 1 /\ row[i - 1].width = 2
             /\ row[i].width = 2 => i = Columns \/ (i < n /\ row[i + 1].width = 0)
    BY <1>2 DEF RowShows, Laid
  <2>2. \A i \in 1..n : /\ i > 1 => i - 1 \in 1..n
                        /\ i < n => i + 1 \in 1..n
    OBVIOUS
  <2>3. ASSUME NEW i \in 1..n
        PROVE  /\ new[i].width = 0 => i > 1 /\ new[i - 1].width = 2
               /\ new[i].width = 2 => i = Columns \/ (i < n /\ new[i + 1].width = 0)
    <3>1. new[i].width = row[i].width
      BY <1>9
    <3>2. i > 1 => new[i - 1].width = row[i - 1].width
      BY <1>9, <2>2
    <3>3. i < n => new[i + 1].width = row[i + 1].width
      BY <1>9, <2>2
    <3> QED
      BY <2>1, <3>1, <3>2, <3>3
  <2> QED
    BY <1>8, <2>1, <2>3 DEF Laid
<1>11. row[n] = last
  BY <1>1, <1>2
<1>12. CASE last.width = 0
  <2>1. EndsWide(C)
    BY <1>2, <1>11, <1>12 DEF RowShows
  <2>2. AfterWide(Append(C, "n")) # {} /\ EndsWide(Append(C, "n"))
    <3>1. "n" \in GridChars
      BY DEF GridChars
    <3> QED
      BY <2>1, <3>1, AfterWideAppend
  <2> QED
    BY <1>2, <1>8, <1>10, <2>2 DEF RowShows
<1>13. CASE last.width # 0
  <2>1. new[Len(new)].width # 0
    BY <1>5, <1>8, <1>13
  <2>2. ASSUME AfterWide(Append(C, "n")) = {} PROVE TextOf(new) = Append(C, "n")
    <3>1. TextOf(row) = C
      <4>1. "n" \in GridChars
        BY DEF GridChars
      <4>2. AfterWide(C) = {}
        BY <2>2, <4>1, AfterWideAppend
      <4> QED
        BY <4>2 DEF RowShows
    <3>2. new = front \o <<cell>>
      <4>1. PICK one, w : one = <<cell>> /\ w = front \o one
        OBVIOUS
      <4>2. one \in Seq(GridCell) /\ Len(one) = 1 /\ one[1] = cell
        BY <1>5, <4>1
      <4>3. /\ w \in Seq(GridCell) /\ Len(w) = Len(front) + Len(one)
            /\ \A i \in 1..Len(front) + Len(one) :
                 w[i] = IF i <= Len(front) THEN front[i] ELSE one[i - Len(front)]
        BY <4>1, <4>2, ConcatProperties
      <4>4. Len(front) = n - 1 /\ Len(front) + Len(one) = n
        BY <1>1, <1>2, <1>3, <4>2
      <4>5. \A i \in 1..n : w[i] = new[i]
        <5> TAKE i \in 1..n
        <5>1. CASE i = n
          <6>1. ~(i <= n - 1) /\ i - (n - 1) = 1
            BY <5>1
          <6> QED
            <7>1. w[i] = IF i <= n - 1 THEN front[i] ELSE one[i - (n - 1)]
              BY <4>3, <4>4
            <7>2. w[i] = one[1]
              BY <6>1, <7>1
            <7> QED
              BY <1>8, <4>2, <5>1, <7>2
        <5>2. CASE i # n
          <6>1. i <= n - 1 /\ i \in 1..n - 1
            BY <5>2
          <6> QED
            BY <1>1, <1>2, <1>8, <4>3, <4>4, <5>2, <6>1
        <5> QED
          BY <5>1, <5>2
      <4>6. w = new
        BY <1>8, <4>3, <4>4, <4>5, SeqEqual
      <4> QED
        BY <4>1, <4>6
    <3>3. PICK F, x, c : F = TextOf(front) /\ x = last.text /\ c = <<"n">>
      OBVIOUS
    <3>4. F \in Seq(GridChars) /\ x \in Seq(GridChars) /\ c \in Seq(GridChars)
      BY <1>5, <3>3, TextOfParts DEF GridChars
    <3>5. TextOf(row) = F \o x
      <4>1. ShownOf(last) = x
        BY <1>5, <1>13, <3>3 DEF ShownOf
      <4>2. TextOf(<<last>>) = x /\ <<last>> \in Seq(GridCell)
        BY <4>1, TextOfOne
      <4> QED
        BY <1>1, <3>3, <4>2, TextOfParts
    <3>6. TextOf(new) = F \o (x \o c)
      <4>1. x \o c = Append(x, "n")
        BY <3>3, <3>4, AppendIsConcat DEF GridChars
      <4>2. ShownOf(cell) = x \o c
        <5>1. cell.width > 0
          BY <1>5, <1>13
        <5>2. cell.text = x \o c
          BY <1>5, <3>3, <4>1
        <5> QED
          BY <5>1, <5>2 DEF ShownOf
      <4>3. TextOf(<<cell>>) = x \o c /\ <<cell>> \in Seq(GridCell)
        BY <1>5, <4>2, TextOfOne
      <4> QED
        BY <3>2, <3>3, <4>3, TextOfParts
    <3>7. (F \o x) \o c = F \o (x \o c)
      BY <3>4, CharsAssociated
    <3>8. C \o c = Append(C, "n")
      BY <3>3, AppendIsConcat DEF GridChars
    <3> QED
      BY <3>1, <3>5, <3>6, <3>7, <3>8
  <2> QED
    BY <1>2, <1>8, <1>10, <2>1, <2>2 DEF RowShows
<1> QED
  BY <1>2, <1>8, <1>12, <1>13

-----------------------------------------------------------------------------
\* What the first k lines ask for.
MeantBy(page, k) == Latest(FlattenSeq([i \in 1..k |-> SetsOf(page[i])]), Plain)

\* What is meant by the lines is meant by all but the last, and then by the last.
LEMMA MeantByLines ==
  ASSUME NEW page \in Seq(GridLine)
  PROVE  /\ MeantBy(page, 0) = Plain
         /\ \A k \in 0..Len(page) : MeantBy(page, k) \in AllAttrs
         /\ \A k \in 0..Len(page) - 1 :
              MeantBy(page, k + 1) = Latest(SetsOf(page[k + 1]), MeantBy(page, k))
<1> DEFINE Sets(k) == [i \in 1..k |-> SetsOf(page[i])]
<1>1. PICK n \in Nat : n = Len(page)
  OBVIOUS
<1>2. \A i \in 1..n : SetsOf(page[i]) \in Seq(AttrSetting)
  <2>1. \A i \in 1..n : page[i] \in Seq(GridPiece)
    BY <1>1, ElementOfSeq DEF GridLine
  <2> QED
    BY <2>1, CharsOfParts
<1>3. \A k \in 0..n : Sets(k) \in Seq(Seq(AttrSetting)) /\ Len(Sets(k)) = k
  <2> TAKE k \in 0..n
  <2>1. \A i \in 1..k : SetsOf(page[i]) \in Seq(AttrSetting)
    BY <1>2
  <2> QED
    BY <2>1
<1>4. \A k \in 0..n - 1 : Sets(k + 1) = Append(Sets(k), SetsOf(page[k + 1]))
  <2> TAKE k \in 0..n - 1
  <2>1. PICK a, b, x, w : /\ a = Sets(k) /\ b = Sets(k + 1) /\ x = SetsOf(page[k + 1])
                          /\ w = Append(a, x)
    OBVIOUS
  <2>2. k \in 0..n /\ k + 1 \in 0..n /\ k + 1 \in 1..n
    BY <1>1
  <2>3. /\ a \in Seq(Seq(AttrSetting)) /\ Len(a) = k /\ b \in Seq(Seq(AttrSetting)) /\ Len(b) = k + 1
        /\ x \in Seq(AttrSetting)
    BY <1>2, <1>3, <2>1, <2>2
  <2>4. /\ w \in Seq(Seq(AttrSetting)) /\ Len(w) = k + 1 /\ w[k + 1] = x
        /\ \A i \in 1..k : w[i] = a[i]
    BY <2>1, <2>3, AppendProperties
  <2>5. \A i \in 1..k + 1 : b[i] = w[i]
    <3> TAKE i \in 1..k + 1
    <3>1. CASE i \in 1..k
      BY <2>1, <2>4, <3>1
    <3>2. CASE i = k + 1
      BY <2>1, <2>4, <3>2
    <3> QED
      BY <3>1, <3>2
  <2>6. b = w
    BY <2>3, <2>4, <2>5, SeqEqual
  <2> QED
    BY <2>1, <2>6
<1>5. \A k : MeantBy(page, k) = Latest(FlattenSeq(Sets(k)), Plain)
  BY DEF MeantBy
<1>6. Sets(0) = <<>>
  OBVIOUS
<1> HIDE DEF Sets
<1>7. MeantBy(page, 0) = Plain
  BY <1>5, <1>6, FlattenEmpty, LatestOfNothing, PlainFacts
<1>8. \A k \in 0..n : MeantBy(page, k) \in AllAttrs
  <2> TAKE k \in 0..n
  <2>1. FlattenSeq(Sets(k)) \in Seq(AttrSetting)
    BY <1>3, FlattenType
  <2> QED
    BY <1>5, <2>1, LatestFacts, PlainFacts
<1>9. \A k \in 0..n - 1 : MeantBy(page, k + 1) = Latest(SetsOf(page[k + 1]), MeantBy(page, k))
  <2> TAKE k \in 0..n - 1
  <2>1. k \in 0..n /\ k + 1 \in 1..n
    BY <1>1
  <2>2. PICK a, x : a = FlattenSeq(Sets(k)) /\ x = SetsOf(page[k + 1])
    OBVIOUS
  <2>3. a \in Seq(AttrSetting) /\ x \in Seq(AttrSetting)
    BY <1>2, <1>3, <2>1, <2>2, FlattenType
  <2>4. FlattenSeq(Sets(k + 1)) = a \o x
    BY <1>3, <1>4, <2>1, <2>2, <2>3, FlattenAppend
  <2>5. Latest(a \o x, Plain) = Latest(x, Latest(a, Plain))
    BY <2>3, LatestConcat, PlainFacts
  <2> QED
    BY <1>5, <2>2, <2>4, <2>5
<1> QED
  BY <1>1, <1>7, <1>8, <1>9

\* The rest of a sequence is one.
LEMMA RestOfIt ==
  ASSUME NEW S, NEW s \in Seq(S), NEW n \in Nat
  PROVE  SubSeq(s, n + 1, Len(s)) \in Seq(S)
<1>1. PICK m \in Nat, o \in Nat : m = Len(s) /\ o = n + 1
  OBVIOUS
<1>2. \A i \in o..m : s[i] \in S
  <2>1. \A i \in o..m : i \in 1..m
    BY <1>1
  <2> QED
    BY <1>1, <2>1, ElementOfSeq
<1> QED
  BY <1>1, <1>2, SubSeqProperties

-----------------------------------------------------------------------------
GridTypes ==
  /\ interpret \in BOOLEAN /\ text \in Seq(GridLine) /\ rest \in Seq(GridChars)
  /\ attrs \in AllAttrs /\ cells \in Seq(GridCell) /\ grid \in Seq(Seq(GridCell))
  /\ content \in Seq(GridItem) /\ whole \in BOOLEAN /\ Len(grid) <= LinesToRead

\* The rows show what was put on their lines.
RowsShow ==
  /\ RowShows(cells, OnLine(content, Len(grid) + 1))
  /\ \A l \in 1..Len(grid) : RowShows(grid[l], OnLine(content, l))
  /\ \A l \in Nat : l > Len(grid) + 1 => OnLine(content, l) = <<>>

\* How far the line is read, from the attributes that were meant at its start.
LineIsRead ==
  interpret =>
    /\ Reading => \E base \in AllAttrs : /\ Positioned(text[Len(grid) + 1], rest, attrs, base)
                                         /\ whole => base = MeantBy(text, Len(grid))
    /\ ~Reading /\ whole => attrs = MeantBy(text, Len(grid))

\* The cells of the line so far, and the attributes that the next will have.
CellsMean ==
  /\ ~interpret => attrs = Plain
  /\ CellsFollowText

GridInv == GridTypes /\ RowsShow /\ LineIsRead /\ CellsMean

\* The lines that are read are lines of the text.
LEMMA LinesFacts ==
  ASSUME GridTypes
  PROVE  /\ Len(grid) \in Nat /\ LinesToRead \in Nat /\ LinesToRead <= Len(text) /\ Len(text) \in Nat
         /\ \A k \in 1..LinesToRead : text[k] \in GridLine /\ CharsOf(text[k]) \in Seq(GridChars)
<1>1. Len(text) \in Nat /\ Rows \in Nat /\ Len(grid) \in Nat
  BY GridAssumption DEF GridTypes
<1>2. LinesToRead \in Nat /\ LinesToRead <= Len(text)
  BY <1>1 DEF LinesToRead
<1>3. \A k \in 1..LinesToRead : text[k] \in GridLine
  <2>1. \A k \in 1..LinesToRead : k \in 1..Len(text)
    BY <1>1, <1>2
  <2> QED
    BY <2>1, ElementOfSeq DEF GridTypes
<1>4. \A k \in 1..LinesToRead : CharsOf(text[k]) \in Seq(GridChars)
  BY <1>3, LinePieces, CharsOfParts
<1> QED
  BY <1>1, <1>2, <1>3, <1>4

\* While there is more there is a next character, on a line of the text.
LEMMA MoreFacts ==
  ASSUME GridTypes, More
  PROVE  /\ rest # <<>> /\ Head(rest) = rest[1] /\ Head(rest) \in GridChars
         /\ text[Len(grid) + 1] \in GridLine /\ Reading /\ Len(cells) < Columns
<1>1. rest # <<>> /\ Reading /\ Len(cells) < Columns
  BY DEF More
<1>2. Head(rest) = rest[1] /\ Head(rest) \in GridChars
  BY <1>1, HeadTailProperties DEF GridTypes
<1>3. Len(grid) + 1 \in 1..LinesToRead
  BY <1>1, LinesFacts DEF Reading
<1> QED
  BY <1>1, <1>2, <1>3, LinesFacts

\* A character goes to its line.
LEMMA KeepShows ==
  ASSUME GridTypes, More, Keep
  PROVE  /\ content' \in Seq(GridItem) /\ OnLine(content, Len(grid) + 1) \in Seq(GridChars)
         /\ OnLine(content', Len(grid) + 1) = Append(OnLine(content, Len(grid) + 1), Head(rest))
         /\ \A l : l # Len(grid) + 1 => OnLine(content', l) = OnLine(content, l)
<1>1. PICK x : x = [line |-> Len(grid) + 1, char |-> Head(rest)]
  OBVIOUS
<1>2. x \in GridItem /\ x.line = Len(grid) + 1 /\ x.char = Head(rest)
  <2>1. Len(grid) + 1 \in Nat
    BY LinesFacts
  <2> QED
    BY <1>1, <2>1, MoreFacts DEF GridItem
<1>3. content' = Append(content, x) /\ content \in Seq(GridItem)
  BY <1>1 DEF Keep, GridTypes
<1>4. content' \in Seq(GridItem)
  BY <1>2, <1>3, AppendProperties
<1>5. \A l : /\ OnLine(content, l) \in Seq(GridChars)
             /\ OnLine(Append(content, x), l) = IF x.line = l THEN Append(OnLine(content, l), x.char)
                                                             ELSE OnLine(content, l)
  BY <1>2, <1>3, OnLineAppend
<1> QED
  BY <1>2, <1>3, <1>4, <1>5

\* What is put on a line is characters.
LEMMA OnLineType ==
  ASSUME NEW items \in Seq(GridItem), NEW l
  PROVE  OnLine(items, l) \in Seq(GridChars)
<1>1. PICK x : x = [line |-> 0, char |-> "n"]
  OBVIOUS
<1>2. x \in GridItem
  BY <1>1 DEF GridItem, GridChars
<1> QED
  BY <1>2, OnLineAppend

\* What is put on a line leaves the others.
LEMMA OthersShow ==
  ASSUME GridTypes, RowsShow, UNCHANGED grid, RowShows(cells', OnLine(content', Len(grid) + 1)),
         \A l : l # Len(grid) + 1 => OnLine(content', l) = OnLine(content, l)
  PROVE  RowsShow'
<1>1. PICK n \in Nat : n = Len(grid)
  BY LinesFacts
<1>2. \A l \in 1..n : l # n + 1 /\ \A k \in Nat : k > n + 1 => k # n + 1
  OBVIOUS
<1>3. \A l \in 1..n : RowShows(grid[l], OnLine(content', l))
  BY <1>1, <1>2 DEF RowsShow
<1>4. \A l \in Nat : l > n + 1 => OnLine(content', l) = <<>>
  BY <1>1 DEF RowsShow
<1> QED
  BY <1>1, <1>3, <1>4 DEF RowsShow

\* A step within a line that leaves its place to what the line means.
LEMMA LineReadOn ==
  ASSUME LineIsRead, Reading, UNCHANGED <<interpret, text, grid, whole>>,
         interpret => \A base : Positioned(text[Len(grid) + 1], rest, attrs, base) =>
                                  Positioned(text[Len(grid) + 1], rest', attrs', base)
  PROVE  LineIsRead'
<1>1. Reading'
  BY DEF Reading, LinesToRead
<1>2. ASSUME interpret
      PROVE  \E base \in AllAttrs : /\ Positioned(text[Len(grid) + 1], rest', attrs', base)
                                    /\ whole => base = MeantBy(text, Len(grid))
  <2>1. PICK base \in AllAttrs : /\ Positioned(text[Len(grid) + 1], rest, attrs, base)
                                 /\ whole => base = MeantBy(text, Len(grid))
    BY <1>2 DEF LineIsRead
  <2> QED
    BY <1>2, <2>1
<1> QED
  BY <1>1, <1>2 DEF LineIsRead

\* A character that starts no sequence is read.
LEMMA OneRead ==
  ASSUME GridTypes, LineIsRead, More, UNCHANGED <<interpret, text, grid, whole, attrs>>, Drop(1),
         interpret => Head(rest) # "E" \/ ~IsSequence
  PROVE  rest' \in Seq(GridChars) /\ LineIsRead'
<1>1. rest' = SubSeq(rest, 2, Len(rest))
  BY DEF Drop
<1>2. rest' \in Seq(GridChars)
  <2>1. SubSeq(rest, 1 + 1, Len(rest)) \in Seq(GridChars)
    BY RestOfIt DEF GridTypes
  <2> QED
    BY <1>1, <2>1
<1>3. interpret => rest[1] # "E" \/ ~StartsSequence(rest)
  BY MoreFacts DEF IsSequence, Finals, StartsSequence, FinalsOf
<1>4. ASSUME interpret, NEW base, Positioned(text[Len(grid) + 1], rest, attrs, base)
      PROVE  Positioned(text[Len(grid) + 1], rest', attrs, base)
  <2>1. GoesOn(text[Len(grid) + 1], rest, attrs, base)
    BY <1>4, MoreFacts, ReadingGoesOn
  <2> QED
    BY <1>1, <1>3, <1>4, <2>1 DEF GoesOn
<1>5. LineIsRead'
  BY <1>4, MoreFacts, LineReadOn
<1> QED
  BY <1>2, <1>5

\* Cells that are made now have the attributes that are meant here,
LEMMA CellsPut ==
  ASSUME GridInv, More, UNCHANGED <<interpret, text, grid, whole, attrs>>,
         NEW new \in Seq(GridCell), cells' = cells \o new,
         \A i \in 1..Len(new) : new[i].attrs = attrs /\ new[i].left = Len(rest)
  PROVE  CellsMean'
<1>1. GridTypes /\ LineIsRead /\ CellsMean /\ cells \in Seq(GridCell)
  BY DEF GridInv, GridTypes
<1>2. Reading /\ text[Len(grid) + 1] \in GridLine
  BY <1>1, MoreFacts
<1>3. PICK m \in Nat, n \in Nat : m = Len(cells) /\ n = Len(new)
  BY <1>1
<1>4. /\ Len(cells') = m + n
      /\ \A i \in 1..m + n : cells'[i] = IF i <= m THEN cells[i] ELSE new[i - m]
  BY <1>1, <1>3, ConcatProperties
<1>5. ASSUME interpret, whole
      PROVE  \E i \in 0..Len(text[Len(grid) + 1]) :
               /\ Begun(i, text[Len(grid) + 1], Len(rest))
               /\ attrs = Latest(SetsOf(SubSeq(text[Len(grid) + 1], 1, i)), Meant(Len(grid)))
  <2>1. Positioned(text[Len(grid) + 1], rest, attrs, MeantBy(text, Len(grid)))
    BY <1>1, <1>2, <1>5 DEF LineIsRead
  <2>2. Meant(Len(grid)) = MeantBy(text, Len(grid))
    BY DEF Meant, MeantBy
  <2> QED
    BY <1>2, <2>1, <2>2, PlaceFacts
<1>6. ASSUME NEW cell, cell.attrs = attrs, cell.left = Len(rest)
      PROVE  CellFollowsText(cell)
  BY <1>1, <1>5, <1>6 DEF CellFollowsText, CellsMean
<1>7. ASSUME NEW i \in 1..m + n PROVE CellFollowsText(cells'[i])
  <2>1. CASE i <= m
    <3>1. i \in 1..m /\ cells'[i] = cells[i]
      BY <1>3, <1>4, <2>1
    <3> QED
      BY <1>1, <1>3, <3>1 DEF CellsMean, CellsFollowText
  <2>2. CASE ~(i <= m)
    <3>1. i - m \in 1..n /\ cells'[i] = new[i - m]
      BY <1>3, <1>4, <2>2
    <3> QED
      BY <1>3, <1>6, <3>1
  <2> QED
    BY <2>1, <2>2
<1> QED
  BY <1>1, <1>4, <1>7 DEF CellsMean, CellsFollowText, CellFollowsText, Meant

\* and those that were made keep theirs.
LEMMA CellsStay ==
  ASSUME GridInv, UNCHANGED <<interpret, text, grid, whole>>, interpret \/ UNCHANGED attrs,
         Len(cells') = Len(cells),
         \A i \in 1..Len(cells) : cells'[i].attrs = cells[i].attrs /\ cells'[i].left = cells[i].left
  PROVE  CellsMean'
<1>1. CellsMean
  BY DEF GridInv
<1>2. \A i \in 1..Len(cells) : CellFollowsText(cells[i])
  BY <1>1 DEF CellsMean, CellsFollowText
<1> QED
  BY <1>1, <1>2 DEF CellsMean, CellsFollowText, CellFollowsText, Meant

-----------------------------------------------------------------------------
\* The actions keep the invariant: a tab,
LEMMA TabKeeps ==
  ASSUME GridInv, Tab
  PROVE  GridInv'
<1>1. GridTypes /\ RowsShow /\ LineIsRead /\ More /\ Head(rest) = "t" /\ Drop(1)
      /\ UNCHANGED <<interpret, text, grid, content, whole, attrs>>
  BY DEF GridInv, Tab, Put
<1>2. rest' \in Seq(GridChars) /\ LineIsRead'
  BY <1>1, OneRead
<1>3. PICK blank, m : m = Len(cells) /\ blank = Cell(<<>>, 1)
  OBVIOUS
<1>4. /\ blank \in GridCell /\ blank.text = <<>> /\ blank.width = 1
      /\ blank.attrs = attrs /\ blank.left = Len(rest)
  BY <1>1, <1>3 DEF Cell, GridCell, GridTypes
<1>5. PICK stop : /\ stop = (m \div TabStop + 1) * TabStop
                  /\ cells' = cells \o [i \in 1..(IF stop < Columns THEN stop ELSE Columns) - m |-> blank]
  BY <1>3 DEF Tab, Put
<1>6. stop \in Int /\ m \in Nat /\ Columns \in Nat /\ m < Columns
  <2>1. m \in Nat /\ Columns \in Nat /\ m < Columns
    BY <1>1, <1>3, GridAssumption DEF More, GridTypes
  <2>2. m \div TabStop + 1 \in Int /\ TabStop \in Int
    BY <2>1, GridAssumption
  <2> QED
    BY <1>5, <2>1, <2>2
<1>7. PICK n \in Nat : /\ m + n <= Columns
                       /\ 1..(IF stop < Columns THEN stop ELSE Columns) - m = 1..n
  <2>1. PICK d \in Int : d = (IF stop < Columns THEN stop ELSE Columns) - m /\ m + d <= Columns
    BY <1>6
  <2>2. CASE d >= 0
    BY <2>1, <2>2
  <2>3. CASE d < 0
    <3>1. 1..d = 1..0 /\ m + 0 <= Columns
      BY <1>6, <2>1, <2>3
    <3> QED
      BY <2>1, <3>1
  <2> QED
    BY <2>1, <2>2, <2>3
<1>8. PICK blanks : blanks = [i \in 1..n |-> blank]
  OBVIOUS
<1>9. /\ blanks \in Seq(GridCell) /\ Len(blanks) = n
      /\ \A i \in 1..Len(blanks) : blanks[i].text = <<>> /\ blanks[i].width = 1
      /\ \A i \in 1..Len(blanks) : blanks[i].attrs = attrs /\ blanks[i].left = Len(rest)
  BY <1>4, <1>8
<1>10. cells' = cells \o blanks
  BY <1>5, <1>7, <1>8
<1>11. cells' \in Seq(GridCell)
  BY <1>1, <1>9, <1>10, ConcatProperties DEF GridTypes
<1>12. RowShows(cells', OnLine(content, Len(grid) + 1))
  <2>1. cells \in Seq(GridCell) /\ Len(cells) + Len(blanks) <= Columns
    BY <1>1, <1>3, <1>7, <1>9 DEF GridTypes
  <2>2. OnLine(content, Len(grid) + 1) \in Seq(GridChars)
    BY <1>1, OnLineType DEF GridTypes
  <2>3. RowShows(cells, OnLine(content, Len(grid) + 1))
    BY <1>1 DEF RowsShow
  <2> QED
    BY <1>9, <1>10, <2>1, <2>2, <2>3, TabShows
<1>13. GridTypes'
  BY <1>1, <1>2, <1>11 DEF GridTypes, LinesToRead
<1>14. RowsShow'
  BY <1>1, <1>12 DEF RowsShow
<1>15. CellsMean'
  BY <1>1, <1>9, <1>10, CellsPut
<1> QED
  BY <1>2, <1>13, <1>14, <1>15 DEF GridInv

\* a mark,
LEMMA MarkKeeps ==
  ASSUME GridInv, Mark
  PROVE  GridInv'
<1>1. /\ GridTypes /\ RowsShow /\ LineIsRead /\ More /\ Head(rest) = "n" /\ cells # <<>>
      /\ cells' = [cells EXCEPT ![Len(cells)].text = Append(@, "n")] /\ Keep /\ Drop(1)
      /\ UNCHANGED <<interpret, text, attrs, grid, whole>>
  BY DEF GridInv, Mark
<1>2. rest' \in Seq(GridChars) /\ LineIsRead'
  BY <1>1, OneRead
<1>3. /\ content' \in Seq(GridItem) /\ OnLine(content, Len(grid) + 1) \in Seq(GridChars)
      /\ OnLine(content', Len(grid) + 1) = Append(OnLine(content, Len(grid) + 1), "n")
      /\ \A l : l # Len(grid) + 1 => OnLine(content', l) = OnLine(content, l)
  BY <1>1, KeepShows
<1>4. cells' \in Seq(GridCell) /\ RowShows(cells', OnLine(content', Len(grid) + 1))
  <2>1. cells \in Seq(GridCell)
    BY <1>1 DEF GridTypes
  <2>2. RowShows(cells, OnLine(content, Len(grid) + 1))
    BY <1>1 DEF RowsShow
  <2>3. /\ cells' \in Seq(GridCell)
        /\ RowShows(cells', Append(OnLine(content, Len(grid) + 1), "n"))
    BY <1>1, <1>3, <2>1, <2>2, MarkShows
  <2> QED
    BY <1>3, <2>3
<1>5. GridTypes'
  BY <1>1, <1>2, <1>3, <1>4 DEF GridTypes, LinesToRead
<1>6. RowsShow'
  BY <1>1, <1>3, <1>4, OthersShow
<1>7. CellsMean'
  <2>1. cells \in Seq(GridCell)
    BY <1>1 DEF GridTypes
  <2>2. Len(cells') = Len(cells)
    BY <1>1, <2>1
  <2>3. ASSUME NEW i \in 1..Len(cells)
        PROVE  cells'[i].attrs = cells[i].attrs /\ cells'[i].left = cells[i].left
    <3>1. cells[i] \in GridCell
      BY <2>1, ElementOfSeq
    <3> QED
      BY <1>1, <2>1, <3>1 DEF GridCell
  <2> QED
    BY <1>1, <2>2, <2>3, CellsStay
<1> QED
  BY <1>2, <1>5, <1>6, <1>7 DEF GridInv

\* a glyph,
LEMMA GlyphKeeps ==
  ASSUME GridInv, Glyph
  PROVE  GridInv'
<1>1. /\ GridTypes /\ RowsShow /\ LineIsRead /\ More /\ ~IsEscape /\ Keep /\ Drop(1)
      /\ UNCHANGED <<interpret, text, attrs, grid, whole>>
  BY DEF GridInv, Glyph, Put
<1>2. rest' \in Seq(GridChars) /\ LineIsRead'
  <2>1. interpret => Head(rest) # "E"
    BY <1>1 DEF IsEscape
  <2> QED
    BY <1>1, <2>1, OneRead
<1>3. /\ content' \in Seq(GridItem) /\ OnLine(content, Len(grid) + 1) \in Seq(GridChars)
      /\ OnLine(content', Len(grid) + 1) = Append(OnLine(content, Len(grid) + 1), Head(rest))
      /\ \A l : l # Len(grid) + 1 => OnLine(content', l) = OnLine(content, l)
  BY <1>1, KeepShows
<1>4. PICK c, m, cell, filler : /\ c = Head(rest) /\ m = Len(cells)
                                /\ cell = Cell(<<c>>, CellWidth(c)) /\ filler = Cell(<<>>, 0)
  OBVIOUS
<1>5. c \in GridChars /\ Len(cells) < Columns /\ m \in Nat /\ cells \in Seq(GridCell)
  BY <1>1, <1>4, MoreFacts DEF GridTypes
<1>6. /\ cell \in GridCell /\ cell.text = <<c>> /\ cell.width = CellWidth(c)
      /\ filler \in GridCell /\ filler.text = <<>> /\ filler.width = 0
      /\ cell.attrs = attrs /\ cell.left = Len(rest) /\ filler.attrs = attrs /\ filler.left = Len(rest)
  <2>1. CellWidth(c) \in 0..2
    BY DEF CellWidth
  <2> QED
    BY <1>1, <1>4, <1>5, <2>1 DEF Cell, GridCell, GridTypes
<1>7. PICK extra : extra = GlyphCells(c, m, cell, filler)
  OBVIOUS
<1>8. cells' = cells \o extra
  <2>1. cells' = cells \o (<<cell>> \o (IF CellWidth(c) = 2 /\ m + 1 < Columns THEN <<filler>> ELSE <<>>))
    BY <1>4 DEF Glyph, Put
  <2>2. CellWidth(c) = 2 <=> c = "w"
    BY DEF CellWidth
  <2>3. <<cell>> \o <<>> = <<cell>> /\ <<cell>> \o <<filler>> = <<cell, filler>>
    BY <1>6, PairIs
  <2> QED
    BY <1>7, <2>1, <2>2, <2>3 DEF GlyphCells
<1>9. RowShows(cells, OnLine(content, Len(grid) + 1))
  BY <1>1 DEF RowsShow
<1>10. extra \in Seq(GridCell) /\ RowShows(cells \o extra, OnLine(content', Len(grid) + 1))
  BY <1>3, <1>4, <1>5, <1>6, <1>7, <1>9, GlyphShows
<1>11. cells' \in Seq(GridCell)
  BY <1>5, <1>8, <1>10, ConcatProperties
<1>12. GridTypes'
  BY <1>1, <1>2, <1>3, <1>11 DEF GridTypes, LinesToRead
<1>13. RowsShow'
  BY <1>1, <1>3, <1>8, <1>10, OthersShow
<1>14. \A i \in 1..Len(extra) : extra[i].attrs = attrs /\ extra[i].left = Len(rest)
  BY <1>6, <1>7 DEF GlyphCells
<1>15. CellsMean'
  BY <1>1, <1>8, <1>10, <1>14, CellsPut
<1> QED
  BY <1>2, <1>12, <1>13, <1>15 DEF GridInv

\* a sequence,
LEMMA SequenceKeeps ==
  ASSUME GridInv, Sgr \/ OtherSequence
  PROVE  GridInv'
<1>1. /\ GridTypes /\ RowsShow /\ LineIsRead /\ More /\ IsEscape /\ IsSequence
      /\ Drop(Min(Finals)) /\ UNCHANGED <<interpret, text, cells, grid, content, whole>>
  BY DEF GridInv, Sgr, OtherSequence
<1>2. PICK m : m = Min(FinalsOf(rest))
  OBVIOUS
<1>3. /\ interpret /\ rest[1] = "E" /\ StartsSequence(rest) /\ rest' = SubSeq(rest, m + 1, Len(rest))
      /\ attrs' = IF rest[m] = "m" THEN ApplySgr(ParseSgrParams(SubSeq(rest, 3, m - 1)), attrs)
                                   ELSE attrs
  <2>1. Finals = FinalsOf(rest)
    BY DEF Finals, FinalsOf
  <2>2. interpret /\ rest[1] = "E" /\ StartsSequence(rest)
    BY <1>1, <2>1, MoreFacts DEF IsEscape, IsSequence, StartsSequence
  <2>3. rest' = SubSeq(rest, m + 1, Len(rest))
    BY <1>1, <1>2, <2>1 DEF Drop
  <2> QED
    BY <1>2, <2>1, <2>2, <2>3 DEF Sgr, OtherSequence
<1>4. \A base : Positioned(text[Len(grid) + 1], rest, attrs, base) =>
                  Positioned(text[Len(grid) + 1], rest', attrs', base)
  <2> SUFFICES ASSUME NEW base, Positioned(text[Len(grid) + 1], rest, attrs, base)
               PROVE  Positioned(text[Len(grid) + 1], rest', attrs', base)
    OBVIOUS
  <2>1. GoesOn(text[Len(grid) + 1], rest, attrs, base)
    BY <1>1, MoreFacts, ReadingGoesOn
  <2> QED
    BY <1>2, <1>3, <2>1 DEF GoesOn
<1>5. LineIsRead'
  BY <1>1, <1>4, MoreFacts, LineReadOn
<1>6. rest' \in Seq(GridChars) /\ attrs' \in AllAttrs
  <2>1. PICK base \in AllAttrs : Positioned(text[Len(grid) + 1], rest, attrs, base)
    BY <1>1, <1>3, MoreFacts DEF LineIsRead
  <2>2. Positioned(text[Len(grid) + 1], rest', attrs', base)
    BY <1>4, <2>1
  <2> QED
    BY <1>1, <2>2, MoreFacts, PositionedFacts
<1>7. GridTypes'
  BY <1>1, <1>6 DEF GridTypes, LinesToRead
<1>8. RowsShow'
  BY <1>1 DEF RowsShow
<1>9. CellsMean'
  BY <1>1, <1>3, CellsStay
<1> QED
  BY <1>5, <1>7, <1>8, <1>9 DEF GridInv

\* a bare escape,
LEMMA BareKeeps ==
  ASSUME GridInv, BareEscape
  PROVE  GridInv'
<1>1. /\ GridTypes /\ RowsShow /\ LineIsRead /\ More /\ ~IsSequence /\ Drop(1)
      /\ UNCHANGED <<interpret, text, attrs, cells, grid, content, whole>>
  BY DEF GridInv, BareEscape
<1>2. rest' \in Seq(GridChars) /\ LineIsRead'
  BY <1>1, OneRead
<1>3. GridTypes'
  BY <1>1, <1>2 DEF GridTypes, LinesToRead
<1>4. RowsShow'
  BY <1>1 DEF RowsShow
<1>5. CellsMean'
  BY <1>1, CellsStay
<1> QED
  BY <1>2, <1>3, <1>4, <1>5 DEF GridInv

\* and the end of a line.
LEMMA LineEndsKeeps ==
  ASSUME GridInv, LineEnds
  PROVE  GridInv'
<1>1. /\ GridTypes /\ RowsShow /\ LineIsRead /\ Reading
      /\ grid' = Append(grid, cells) /\ cells' = <<>> /\ rest' = CharsOfLine(Len(grid) + 2)
      /\ whole' = (whole /\ rest = <<>>) /\ UNCHANGED <<interpret, text, attrs, content>>
  BY DEF GridInv, LineEnds
<1>2. PICK n \in Nat : n = Len(grid)
  BY <1>1, LinesFacts
<1>3. /\ grid \in Seq(Seq(GridCell)) /\ cells \in Seq(GridCell) /\ text \in Seq(GridLine)
      /\ attrs \in AllAttrs
  BY <1>1 DEF GridTypes
<1>4. /\ grid' \in Seq(Seq(GridCell)) /\ Len(grid') = n + 1 /\ grid'[n + 1] = cells
      /\ \A l \in 1..n : grid'[l] = grid[l]
  BY <1>1, <1>2, <1>3, AppendProperties
<1>5. /\ n + 1 <= LinesToRead /\ LinesToRead \in Nat /\ LinesToRead <= Len(text)
      /\ Len(text) \in Nat /\ n + 1 \in 1..LinesToRead
  BY <1>1, <1>2, LinesFacts DEF Reading
<1>6. LinesToRead' = LinesToRead
  BY <1>1 DEF LinesToRead
<1>7. Reading' <=> n + 2 <= LinesToRead
  BY <1>2, <1>4, <1>5, <1>6 DEF Reading
<1>8. rest' \in Seq(GridChars)
  <2>1. CASE n + 2 <= LinesToRead
    <3>1. n + 2 \in 1..LinesToRead
      BY <1>5, <2>1
    <3> QED
      BY <1>1, <1>2, <2>1, <3>1, LinesFacts DEF CharsOfLine
  <2>2. CASE ~(n + 2 <= LinesToRead)
    BY <1>1, <1>2, <2>2 DEF CharsOfLine
  <2> QED
    BY <2>1, <2>2
<1>9. GridTypes'
  BY <1>1, <1>4, <1>5, <1>6, <1>8 DEF GridTypes
<1>10. RowsShow'
  <2>1. ASSUME NEW l \in 1..n + 1 PROVE RowShows(grid'[l], OnLine(content, l))
    <3>1. CASE l = n + 1
      BY <1>1, <1>2, <1>4, <3>1 DEF RowsShow
    <3>2. CASE l \in 1..n
      BY <1>1, <1>2, <1>4, <3>2 DEF RowsShow
    <3> QED
      BY <3>1, <3>2
  <2>2. \A l \in Nat : l > n + 1 => OnLine(content, l) = <<>>
    BY <1>1, <1>2 DEF RowsShow
  <2>3. RowShows(cells', OnLine(content, (n + 1) + 1))
    <3>1. (n + 1) + 1 \in Nat /\ (n + 1) + 1 > n + 1
      OBVIOUS
    <3> QED
      BY <1>1, <2>2, <3>1, NothingShown
  <2>4. \A l \in Nat : l > (n + 1) + 1 => l > n + 1
    OBVIOUS
  <2> QED
    BY <1>1, <1>4, <2>1, <2>2, <2>3, <2>4 DEF RowsShow
<1>11. ASSUME interpret, whole'
       PROVE  attrs = MeantBy(text, n + 1)
  <2>1. PICK base \in AllAttrs : /\ Positioned(text[n + 1], rest, attrs, base)
                                 /\ whole => base = MeantBy(text, n)
    BY <1>1, <1>2, <1>11 DEF LineIsRead
  <2>2. attrs = Latest(SetsOf(text[n + 1]), base)
    <3>1. Positioned(text[n + 1], <<>>, attrs, base)
      BY <1>1, <1>11, <2>1
    <3>2. text[n + 1] \in GridLine
      BY <1>1, <1>5, LinesFacts
    <3> QED
      BY <3>1, <3>2, LineRead
  <2>3. n \in 0..Len(text) - 1
    BY <1>5
  <2>4. MeantBy(text, n + 1) = Latest(SetsOf(text[n + 1]), MeantBy(text, n))
    BY <1>3, <2>3, MeantByLines
  <2> QED
    BY <1>1, <1>11, <2>1, <2>2, <2>4
<1>12. LineIsRead'
  <2>1. ASSUME interpret, Reading'
        PROVE  /\ Positioned(text[n + 2], rest', attrs, attrs)
    <3>1. n + 2 <= LinesToRead /\ n + 2 \in 1..LinesToRead
      BY <1>5, <1>7, <2>1
    <3>2. rest' = CharsOf(text[n + 2])
      BY <1>1, <1>2, <3>1 DEF CharsOfLine
    <3>3. text[n + 2] \in GridLine
      BY <1>1, <3>1, LinesFacts
    <3> QED
      BY <1>3, <3>2, <3>3, LineStarts
  <2>2. (n + 1) + 1 = n + 2
    OBVIOUS
  <2>3. ASSUME interpret, Reading'
        PROVE  \E base \in AllAttrs : /\ Positioned(text'[Len(grid') + 1], rest', attrs', base)
                                      /\ whole' => base = MeantBy(text', Len(grid'))
    <3>1. Positioned(text'[Len(grid') + 1], rest', attrs', attrs)
      BY <1>1, <1>4, <2>1, <2>2, <2>3
    <3>2. whole' => attrs = MeantBy(text', Len(grid'))
      BY <1>1, <1>4, <1>11, <2>3
    <3> QED
      BY <1>3, <3>1, <3>2
  <2>4. interpret /\ whole' => attrs' = MeantBy(text', Len(grid'))
    BY <1>1, <1>4, <1>11
  <2> QED
    BY <1>1, <2>3, <2>4 DEF LineIsRead
<1>13. CellsMean'
  <2>1. Len(cells') = 0
    BY <1>1
  <2> QED
    BY <1>1, <2>1 DEF GridInv, CellsMean, CellsFollowText
<1> QED
  BY <1>9, <1>10, <1>12, <1>13 DEF GridInv

-----------------------------------------------------------------------------
\* The invariant holds at first,
LEMMA GridStarts ==
  ASSUME NEW pieces \in Seq(GridLine), GridInit(pieces)
  PROVE  GridInv
<1>1. /\ interpret \in BOOLEAN /\ text \in Seq(GridLine) /\ rest = CharsOfLine(1) /\ attrs = Plain
      /\ cells = <<>> /\ grid = <<>> /\ content = <<>> /\ whole = TRUE
  BY DEF GridInit
<1>2. Len(grid) = 0 /\ attrs \in AllAttrs
  BY <1>1, PlainFacts
<1>3. Len(text) \in Nat /\ Rows \in Nat
  BY <1>1, GridAssumption
<1>4. LinesToRead \in Nat /\ LinesToRead <= Len(text)
  BY <1>3 DEF LinesToRead
<1>5. \A k \in 1..LinesToRead : text[k] \in GridLine /\ CharsOf(text[k]) \in Seq(GridChars)
  <2>1. \A k \in 1..LinesToRead : text[k] \in GridLine
    <3>1. \A k \in 1..LinesToRead : k \in 1..Len(text)
      BY <1>3, <1>4
    <3> QED
      BY <1>1, <3>1, ElementOfSeq
  <2> QED
    BY <2>1, LinePieces, CharsOfParts
<1>6. rest \in Seq(GridChars)
  <2>1. 1 <= LinesToRead => 1 \in 1..LinesToRead
    BY <1>4
  <2> QED
    BY <1>1, <1>5, <2>1 DEF CharsOfLine
<1>7. GridTypes
  BY <1>1, <1>2, <1>4, <1>6 DEF GridTypes
<1>8. \A l : OnLine(content, l) = <<>>
  <2>1. Len(content) = 0
    BY <1>1
  <2>2. \A l : [i \in 1..Len(content) |-> IF content[i].line = l THEN <<content[i].char>> ELSE <<>>] = <<>>
    BY <2>1
  <2> QED
    BY <2>2, FlattenEmpty DEF OnLine
<1>9. RowsShow
  BY <1>1, <1>2, <1>8, NothingShown DEF RowsShow
<1>10. LineIsRead
  <2>1. MeantBy(text, Len(grid)) = Plain
    BY <1>1, <1>2, MeantByLines
  <2>2. ASSUME Reading PROVE Positioned(text[Len(grid) + 1], rest, attrs, attrs)
    <3>1. 1 \in 1..LinesToRead /\ 1 <= LinesToRead
      BY <1>2, <1>4, <2>2 DEF Reading
    <3>2. rest = CharsOf(text[1]) /\ text[1] \in GridLine
      BY <1>1, <1>5, <3>1 DEF CharsOfLine
    <3> QED
      BY <1>2, <3>2, LineStarts
  <2> QED
    BY <1>1, <1>2, <2>1, <2>2 DEF LineIsRead
<1>11. CellsMean
  <2>1. Len(cells) = 0
    BY <1>1
  <2> QED
    BY <1>1, <2>1 DEF CellsMean, CellsFollowText
<1> QED
  BY <1>7, <1>9, <1>10, <1>11 DEF GridInv

\* is kept by every step
LEMMA GridKeeps ==
  ASSUME GridInv, [GridStep]_gridVars
  PROVE  GridInv'
<1>1. CASE GridStep
  BY <1>1, TabKeeps, MarkKeeps, GlyphKeeps, SequenceKeeps, BareKeeps, LineEndsKeeps DEF GridStep
<1>2. CASE UNCHANGED gridVars
  <2>1. CellsMean'
    BY <1>2, CellsStay DEF gridVars
  <2> QED
    BY <1>2, <2>1 DEF gridVars, GridInv, GridTypes, RowsShow, LineIsRead, LinesToRead, Reading
<1> QED
  BY <1>1, <1>2

\* and says what the property says.
LEMMA GridInvShows ==
  ASSUME GridInv
  PROVE  GridShowsText
<1>1. GridTypes /\ RowsShow /\ LineIsRead
  BY DEF GridInv
<1>2. GridIsLaidOut
  <2> SUFFICES ASSUME NEW l \in 1..Len(grid)
               PROVE  /\ Laid(grid[l])
                      /\ AfterWide(ContentOf(l)) = {} => TextOf(grid[l]) = ContentOf(l)
                      /\ \A g, h \in Glyphs(grid[l]) :
                           g.column < h.column => g.column + g.width <= h.column
    BY DEF GridIsLaidOut
  <2>1. grid[l] \in Seq(GridCell)
    BY <1>1, ElementOfSeq DEF GridTypes
  <2>2. RowShows(grid[l], OnLine(content, l))
    BY <1>1 DEF RowsShow
  <2>3. ContentOf(l) = OnLine(content, l)
    BY DEF ContentOf, OnLine
  <2>4. Laid(grid[l]) /\ (AfterWide(ContentOf(l)) = {} => TextOf(grid[l]) = ContentOf(l))
    BY <2>2, <2>3 DEF RowShows
  <2> QED
    BY <2>1, <2>4, GlyphsApart
<1>3. AttrsFollowText
  <2> SUFFICES ASSUME interpret, whole, rest = CharsOfLine(Len(grid) + 1)
               PROVE  attrs = Meant(Len(grid))
    BY DEF AttrsFollowText
  <2>1. Meant(Len(grid)) = MeantBy(text, Len(grid))
    BY DEF Meant, MeantBy
  <2>2. CASE Reading
    <3>1. PICK base \in AllAttrs : /\ Positioned(text[Len(grid) + 1], rest, attrs, base)
                                   /\ base = MeantBy(text, Len(grid))
      BY <1>1, <2>2 DEF LineIsRead
    <3>2. Len(grid) + 1 \in 1..LinesToRead /\ Len(grid) + 1 <= LinesToRead
      BY <1>1, <2>2, LinesFacts DEF Reading
    <3>3. rest = CharsOf(text[Len(grid) + 1]) /\ text[Len(grid) + 1] \in GridLine
      BY <1>1, <3>2, LinesFacts DEF CharsOfLine
    <3>4. attrs = base
      BY <3>1, <3>3, LineNotRead
    <3> QED
      BY <2>1, <3>1, <3>4
  <2>3. CASE ~Reading
    BY <1>1, <2>1, <2>3 DEF LineIsRead
  <2> QED
    BY <2>2, <2>3
<1>4. CellsFollowText
  BY DEF GridInv, CellsMean
<1> QED
  BY <1>2, <1>3, <1>4 DEF GridShowsText

\* Whatever the pieces of its lines, the grid is the text in its places and its colours.
THEOREM GridAlwaysShowsText == GridSpec => []GridShowsText
<1>1. (\E pieces \in Seq(GridLine) : GridInit(pieces)) => GridInv
  BY GridStarts
<1>2. GridInv /\ [GridStep]_gridVars => GridInv'
  BY GridKeeps
<1>3. GridInv => GridShowsText
  BY GridInvShows
<1> QED
  BY <1>1, <1>2, <1>3, PTL DEF GridSpec

=================================================================================
