-------------------------- MODULE TextHelpersProofs --------------------------
(***************************************************************************)
(* Theorems about TextHelpers, for every content, path and parameter.      *)
(***************************************************************************)
EXTENDS TextHelpers, SequenceTheorems, WellFoundedInduction, TLAPS

\* Append adds one element.
LEMMA AppendElements ==
  ASSUME NEW S, NEW s \in Seq(S), NEW x \in S
  PROVE  /\ Append(s, x) \in Seq(S)
         /\ Elements(Append(s, x)) = Elements(s) \cup {x}
         /\ \A k \in DOMAIN s : Append(s, x)[k] = s[k]
         /\ Append(s, x)[Len(s) + 1] = x
         /\ Len(Append(s, x)) = Len(s) + 1
<1>1. /\ Append(s, x) \in Seq(S)
      /\ Len(Append(s, x)) = Len(s) + 1
      /\ \A k \in 1..Len(s) : Append(s, x)[k] = s[k]
      /\ Append(s, x)[Len(s) + 1] = x
  OBVIOUS
<1>2. DOMAIN s = 1..Len(s) /\ DOMAIN Append(s, x) = 1..(Len(s) + 1)
  BY <1>1
<1>3. Elements(Append(s, x)) = Elements(s) \cup {x}
  BY <1>1, <1>2 DEF Elements
<1> QED
  BY <1>1, <1>2, <1>3

\* A sequence has the type its elements have.
LEMMA ElementsTyped ==
  ASSUME NEW S, NEW T, NEW s \in Seq(S), \A k \in 1..Len(s) : s[k] \in T
  PROVE  s \in Seq(T)
<1>1. s = [k \in 1..Len(s) |-> s[k]] /\ Len(s) \in Nat
  OBVIOUS
<1>2. s \in [1..Len(s) -> T]
  BY <1>1
<1> QED
  BY <1>1, <1>2

\* A run of tag characters is a sequence of tag characters.
LEMMA RunTyped ==
  ASSUME NEW s \in Seq(Bytes), NEW b \in 1..(Len(s) + 1), NEW e \in 0..Len(s),
         \A k \in b..e : s[k] \in TagChars
  PROVE  /\ SubSeq(s, b, e) \in Seq(TagChars)
         /\ SubSeq(s, b, e) = <<>> <=> e < b
<1>1. CASE e < b
  BY <1>1
<1>2. CASE b <= e
  <2>1. /\ Len(SubSeq(s, b, e)) = e - b + 1
        /\ \A k \in 1..(e - b + 1) : SubSeq(s, b, e)[k] = s[b + k - 1]
    BY <1>2
  <2>2. SubSeq(s, b, e) \in Seq(Bytes)
    BY <1>2
  <2>3. \A k \in 1..Len(SubSeq(s, b, e)) : SubSeq(s, b, e)[k] \in TagChars
    BY <1>2, <2>1
  <2> HIDE DEF Bytes
  <2>4. SubSeq(s, b, e) \in Seq(TagChars)
    BY <2>2, <2>3, ElementsTyped
  <2> QED
    BY <1>2, <2>1, <2>4
<1> QED
  BY <1>1, <1>2

\* A hashtag is what some span with its shape holds.
LEMMA InHashtags ==
  ASSUME NEW s, NEW m, NEW t
  PROVE  t \in HashtagsBefore(s, m) <=>
           \E b, e \in 1..Len(s) :
             b < m /\ IsTag(s, b, e) /\ t = SubSeq(s, b, e)
<1> DEFINE spans == {x \in (1..Len(s)) \X (1..Len(s)) :
                       x[1] < m /\ IsTag(s, x[1], x[2])}
<1>1. HashtagsBefore(s, m) = {SubSeq(s, x[1], x[2]) : x \in spans}
  BY DEF HashtagsBefore
<1>2. ASSUME NEW x \in spans
      PROVE  /\ x[1] \in 1..Len(s) /\ x[2] \in 1..Len(s)
             /\ x[1] < m /\ IsTag(s, x[1], x[2])
  OBVIOUS
<1>3. ASSUME NEW b \in 1..Len(s), NEW e \in 1..Len(s), b < m, IsTag(s, b, e)
      PROVE  <<b, e>> \in spans /\ <<b, e>>[1] = b /\ <<b, e>>[2] = e
  BY <1>3
<1> HIDE DEF spans
<1>4. ASSUME t \in HashtagsBefore(s, m)
      PROVE  \E b, e \in 1..Len(s) :
               b < m /\ IsTag(s, b, e) /\ t = SubSeq(s, b, e)
  <2>1. PICK x \in spans : t = SubSeq(s, x[1], x[2])
    BY <1>1, <1>4
  <2> QED
    BY <1>2, <2>1
<1>5. ASSUME NEW b \in 1..Len(s), NEW e \in 1..Len(s),
             b < m, IsTag(s, b, e), t = SubSeq(s, b, e)
      PROVE  t \in HashtagsBefore(s, m)
  <2>1. \E x \in spans : t = SubSeq(s, x[1], x[2])
    BY <1>3, <1>5
  <2> QED
    BY <1>1, <2>1
<1> QED
  BY <1>4, <1>5

\* No hashtag begins behind a byte that is no '#', or behind the last byte.
LEMMA NoTagBehind ==
  ASSUME NEW s \in Seq(Bytes), NEW m \in 1..Len(s), ~(s[m] = Hash /\ m < Len(s))
  PROVE  HashtagsBefore(s, m + 2) = HashtagsBefore(s, m + 1)
<1>1. \A b, e \in 1..Len(s) : IsTag(s, b, e) /\ b < m + 2 => b < m + 1
  BY DEF IsTag
<1>2. \A t : t \in HashtagsBefore(s, m + 2) <=> t \in HashtagsBefore(s, m + 1)
  BY <1>1, InHashtags
<1> QED
  BY <1>2

\* A '#' and the run of tag characters behind it account for every hashtag
\* that begins up to the end of the run.
LEMMA TagBehind ==
  ASSUME NEW s \in Seq(Bytes), NEW m \in 1..Len(s), NEW p \in 1..(Len(s) + 1),
         s[m] = Hash, m < Len(s), m < p,
         \A k \in (m + 1)..(p - 1) : s[k] \in TagChars,
         ~(p <= Len(s) /\ s[p] \in TagChars)
  PROVE  HashtagsBefore(s, p + 1) =
           HashtagsBefore(s, m + 1)
             \cup (IF p = m + 1 THEN {} ELSE {SubSeq(s, m + 1, p - 1)})
<1>1. \A b, e \in 1..Len(s) :
        IsTag(s, b, e) /\ b < p + 1 =>
          b < m + 1 \/ (b = m + 1 /\ e = p - 1 /\ p # m + 1)
  <2> SUFFICES ASSUME NEW b \in 1..Len(s), NEW e \in 1..Len(s), IsTag(s, b, e),
                      b < p + 1, ~(b < m + 1)
               PROVE  b = m + 1 /\ e = p - 1 /\ p # m + 1
    OBVIOUS
  <2>1. b = m + 1
    BY TextAssumption DEF IsTag
  <2>2. p # m + 1
    BY <2>1 DEF IsTag
  <2>3. e < p
    BY <2>1 DEF IsTag
  <2>4. e >= p - 1
    BY <2>1, <2>3 DEF IsTag
  <2> QED
    BY <2>1, <2>2, <2>3, <2>4
<1>2. p # m + 1 => IsTag(s, m + 1, p - 1)
  BY DEF IsTag
<1>3. \A b, e \in 1..Len(s) : b < m + 1 => b < p + 1
  OBVIOUS
<1>4. ASSUME NEW t, t \in HashtagsBefore(s, p + 1)
      PROVE  \/ t \in HashtagsBefore(s, m + 1)
             \/ p # m + 1 /\ t = SubSeq(s, m + 1, p - 1)
  <2>1. PICK b, e \in 1..Len(s) :
          b < p + 1 /\ IsTag(s, b, e) /\ t = SubSeq(s, b, e)
    BY <1>4, InHashtags
  <2>2. b < m + 1 \/ (b = m + 1 /\ e = p - 1 /\ p # m + 1)
    BY <1>1, <2>1
  <2>3. CASE b < m + 1
    BY <2>1, <2>3, InHashtags
  <2>4. CASE b = m + 1 /\ e = p - 1 /\ p # m + 1
    BY <2>1, <2>4
  <2> QED
    BY <2>2, <2>3, <2>4
<1>5. ASSUME NEW t, t \in HashtagsBefore(s, m + 1)
      PROVE  t \in HashtagsBefore(s, p + 1)
  BY <1>3, <1>5, InHashtags
<1>6. p # m + 1 => SubSeq(s, m + 1, p - 1) \in HashtagsBefore(s, p + 1)
  <2> SUFFICES ASSUME p # m + 1
               PROVE  SubSeq(s, m + 1, p - 1) \in HashtagsBefore(s, p + 1)
    OBVIOUS
  <2>1. m + 1 \in 1..Len(s) /\ p - 1 \in 1..Len(s) /\ m + 1 < p + 1
    OBVIOUS
  <2> QED
    BY <1>2, <2>1, InHashtags
<1> QED
  BY <1>4, <1>5, <1>6

\* A tag that was not seen keeps the list in the order of the text.
LEMMA OrderKept ==
  ASSUME NEW s \in Seq(Bytes), NEW m \in 1..Len(s),
         NEW list \in Seq(Seq(TagChars)), NEW tag \in Seq(TagChars),
         InOrderOfText(s, list), Elements(list) = HashtagsBefore(s, m + 1),
         tag \notin Elements(list)
  PROVE  InOrderOfText(s, Append(list, tag))
<1> DEFINE new  == Append(list, tag)
           last == Len(list) + 1
<1>1. /\ \A k \in 1..Len(list) : new[k] = list[k]
      /\ new[last] = tag
      /\ DOMAIN new = 1..last /\ DOMAIN list = 1..Len(list)
      /\ Len(list) \in Nat
  BY AppendElements
<1>2. \A t \in Elements(list) :
        \E x, y \in 1..Len(s) : x < m + 1 /\ Occurs(s, t, x, y)
  <2> SUFFICES ASSUME NEW t \in HashtagsBefore(s, m + 1)
               PROVE  \E x, y \in 1..Len(s) : x < m + 1 /\ Occurs(s, t, x, y)
    OBVIOUS
  <2>1. \E x, y \in 1..Len(s) : x < m + 1 /\ IsTag(s, x, y) /\ t = SubSeq(s, x, y)
    BY InHashtags
  <2> QED
    BY <2>1 DEF Occurs
<1>3. \A b, e \in 1..Len(s) : Occurs(s, tag, b, e) => ~(b < m + 1)
  <2>1. tag \notin HashtagsBefore(s, m + 1)
    OBVIOUS
  <2>2. ~ \E b, e \in 1..Len(s) :
            b < m + 1 /\ IsTag(s, b, e) /\ tag = SubSeq(s, b, e)
    BY <2>1, InHashtags
  <2> QED
    BY <2>2 DEF Occurs
<1>4. \A k \in 1..Len(list) : list[k] \in Elements(list)
  BY <1>1 DEF Elements
<1>5. \A k, l \in 1..Len(list) : k < l => Precedes(s, list[k], list[l])
  BY <1>1 DEF InOrderOfText
<1> HIDE DEF new
<1>6. ASSUME NEW k \in 1..Len(list), NEW b \in 1..Len(s), NEW e \in 1..Len(s),
             Occurs(s, tag, b, e)
      PROVE  \E x, y \in 1..Len(s) : x < b /\ Occurs(s, list[k], x, y)
  <2>1. PICK x \in 1..Len(s), y \in 1..Len(s) : x < m + 1 /\ Occurs(s, list[k], x, y)
    BY <1>2, <1>4
  <2> QED
    BY <1>3, <1>6, <2>1
<1>7. ASSUME NEW k \in 1..last, NEW l \in 1..last, k < l
      PROVE  Precedes(s, new[k], new[l])
  <2>1. k \in 1..Len(list) /\ new[k] = list[k]
    BY <1>1, <1>7
  <2>2. CASE l \in 1..Len(list)
    <3>1. new[l] = list[l] /\ Precedes(s, list[k], list[l])
      BY <1>1, <1>5, <1>7, <2>1, <2>2
    <3> QED
      BY <2>1, <3>1
  <2>3. CASE l = last
    <3>1. new[l] = tag /\ list[k] # tag
      BY <1>1, <1>4, <2>1, <2>3
    <3> QED
      BY <1>6, <2>1, <3>1 DEF Precedes
  <2>4. l \in 1..Len(list) \/ l = last
    BY <1>1
  <2> QED
    BY <2>2, <2>3, <2>4, Zenon
<1>8. InOrderOfText(s, new)
  BY <1>1, <1>7 DEF InOrderOfText
<1> QED
  BY <1>8 DEF new

-----------------------------------------------------------------------------
(***************************************************************************)
(* The inductive invariant: where the loops of extractHashtags are, and    *)
(* what they have found of the part of the text they have passed.          *)
(***************************************************************************)
PostLabels == {"scan", "tag", "insert", "inserted"}

LoopInv ==
  /\ pc = "tag" =>
       /\ i < Len(text) /\ text[i] = Hash /\ i < j
       /\ \A k \in (i + 1)..(j - 1) : text[k] \in TagChars
  /\ pc \in {"insert", "inserted"} => i > Len(text)

TagsInv ==
  pc \in PostLabels =>
    /\ Elements(tags) = HashtagsBefore(text, i + 1)
    /\ InOrderOfText(text, tags)

PreviewInv ==
  /\ pc \in {"insert", "inserted"} => preview = TruncatePreview(text)
  /\ pc = "inserted" => stored = Accepts(preview)

Inv == TypeOK /\ LoopInv /\ TagsInv /\ PreviewInv

\* A text is a sequence; a content is one of bytes.
LEMMA TextTyped ==
  ASSUME TypeOK
  PROVE  /\ text \in Seq(DOMAIN Digits \cup Bytes)
         /\ pc \in PostLabels => text \in Seq(Bytes) /\ ValidUTF8(text)
         /\ Len(text) \in Nat
<1>1. /\ text \in Contents \cup Paths \cup Params
      /\ pc \in PostLabels => text \in Contents
  BY DEF TypeOK, PostLabels
<1>2. \A s \in Seq(Bytes) : s \in Seq(DOMAIN Digits \cup Bytes)
  OBVIOUS
<1>3. text \in Seq(DOMAIN Digits \cup Bytes)
  BY <1>1, <1>2, TextAssumption
<1>4. Len(text) \in Nat
  BY <1>3
<1> QED
  BY <1>1, <1>3, <1>4, TextAssumption

\* The preview is a sequence of bytes, at most an ellipsis too long.
LEMMA PreviewTyped ==
  ASSUME NEW s \in Seq(Bytes)
  PROVE  /\ TruncatePreview(s) \in Seq(Bytes)
         /\ Len(TruncatePreview(s)) <= MaxPreview + Len(Ellipsis)
<1>1. CASE Len(s) <= MaxPreview
  BY <1>1, TextAssumption DEF TruncatePreview, Ellipsis
<1>2. CASE Len(s) > MaxPreview
  <2>1. MaxPreview \in Nat /\ MaxPreview <= Len(s)
    BY <1>2, TextAssumption
  <2> DEFINE kept == SubSeq(s, 1, MaxPreview)
  <2>2. kept \in Seq(Bytes) /\ Len(kept) = MaxPreview
    BY <2>1
  <2>3. Ellipsis \in Seq(Bytes) /\ Len(Ellipsis) = 3
    BY DEF Ellipsis, Bytes
  <2>4. TruncatePreview(s) = kept \o Ellipsis
    BY <1>2, <2>1 DEF TruncatePreview
  <2> HIDE DEF kept
  <2>5. kept \o Ellipsis \in Seq(Bytes) /\ Len(kept \o Ellipsis) = MaxPreview + 3
    <3>1. Len(kept \o Ellipsis) = Len(kept) + Len(Ellipsis)
      BY <2>2, <2>3, ConcatProperties, Zenon
    <3> QED
      BY <2>2, <2>3, <3>1, ConcatProperties
  <2> QED
    BY <2>1, <2>3, <2>4, <2>5
<1> QED
  BY <1>1, <1>2, TextAssumption

\* What is assumed of the numbers.
LEMMA Numbers ==
  /\ Half \in Nat /\ Half > 0
  /\ DefaultLimit \in 1..(Half - 1) /\ Refused \notin Int
  /\ \A c \in DOMAIN Digits : Digits[c] \in 0..9
BY TextAssumption

\* Two's complement is within its width.
LEMMA WrapTyped ==
  ASSUME NEW x \in Int
  PROVE  Wrap(x) \in (-Half)..(Half - 1)
<1>1. 2 * Half \in Nat \ {0} /\ x + Half \in Int
  BY TextAssumption
<1>2. (x + Half) % (2 * Half) \in 0..(2 * Half - 1)
  BY <1>1
<1> QED
  BY <1>2, TextAssumption DEF Wrap

\* A limit is positive, whatever parseInt64 returned.
LEMMA LimitTyped ==
  ASSUME NEW x \in (-Half)..(Half - 1) \cup {Refused}
  PROVE  Limit(x) \in 1..(Half - 1)
BY TextAssumption DEF Limit

\* At the start nothing has been passed, so no hashtag can begin there.
LEMMA InitInv == Init => Inv
<1> SUFFICES ASSUME Init PROVE Inv
  OBVIOUS
<1>1. TypeOK
  <2>1. text \in Contents \cup Paths \cup Params /\ (pc = "scan" => text \in Contents)
    BY DEF Init
  <2>2. \A s \in Seq(Bytes) : s \in Seq(DOMAIN Digits \cup Bytes)
    OBVIOUS
  <2>3. text \in Seq(DOMAIN Digits \cup Bytes)
    BY <2>1, <2>2, TextAssumption
  <2>4. 1 \in 1..(Len(text) + 1)
    BY <2>3
  <2>5. 0 \in (-Half)..(Half - 1)
    BY Numbers
  <2>6. <<>> \in Seq(Seq(TagChars)) /\ <<>> \in Seq(Bytes)
    OBVIOUS
  <2> QED
    BY <2>1, <2>4, <2>5, <2>6 DEF Init, TypeOK
<1>2. Elements(tags) = {} /\ InOrderOfText(text, tags)
  BY DEF Init, Elements, InOrderOfText
<1>3. HashtagsBefore(text, 2) = {}
  <2>1. \A t : t \notin HashtagsBefore(text, 2)
    BY <1>1, TextTyped, InHashtags DEF IsTag
  <2> QED
    BY <2>1
<1>4. TagsInv
  <2>1. i + 1 = 2
    BY DEF Init
  <2> QED
    BY <1>2, <1>3, <2>1 DEF TagsInv
<1> QED
  BY <1>1, <1>4 DEF Init, Inv, LoopInv, PreviewInv

(***************************************************************************)
(* Every turn of a loop keeps the invariant: Scan passes a byte no hashtag *)
(* begins behind, TagEnd the whole of one hashtag, and the rest leaves the *)
(* tags alone.                                                             *)
(***************************************************************************)
LEMMA NextInv == Inv /\ [Next]_vars => Inv'
<1> SUFFICES ASSUME Inv, [Next]_vars PROVE Inv'
  OBVIOUS
<1> USE DEF postVars, numberVars
<1>0. /\ TypeOK /\ LoopInv /\ TagsInv /\ PreviewInv
      /\ Len(text) \in Nat
      /\ pc \in PostLabels => text \in Seq(Bytes)
      /\ i \in 1..(Len(text) + 1) /\ j \in 1..(Len(text) + 1)
  BY TextTyped DEF Inv, TypeOK
<1>1. CASE Scan
  <2>1. TypeOK'
    BY <1>0, <1>1 DEF TypeOK, Scan
  <2>2. LoopInv'
    BY <1>0, <1>1 DEF Scan, LoopInv
  <2>3. CASE UNCHANGED i
    BY <1>0, <1>1, <2>1, <2>2, <2>3
    DEF Inv, Scan, TagsInv, PreviewInv, PostLabels
  <2>4. CASE i' = i + 1 /\ pc' = pc /\ ~(text[i] = Hash /\ i < Len(text))
    <3>1. HashtagsBefore(text, i + 2) = HashtagsBefore(text, i + 1)
      BY <1>0, <1>1, <2>4, NoTagBehind DEF Scan, PostLabels
    <3>2. i' + 1 = i + 2
      BY <1>0, <2>4
    <3>3. TagsInv'
      BY <1>0, <1>1, <3>1, <3>2 DEF Scan, TagsInv, PostLabels
    <3> QED
      BY <1>0, <1>1, <2>1, <2>2, <2>4, <3>3 DEF Inv, Scan, PreviewInv
  <2> QED
    BY <1>1, <2>3, <2>4 DEF Scan
<1>2. CASE TagChar
  <2>1. TypeOK'
    BY <1>0, <1>2 DEF TypeOK, TagChar, AtTagChar
  <2>2. LoopInv'
    BY <1>0, <1>2 DEF TagChar, AtTagChar, IsTagChar, LoopInv
  <2> QED
    BY <1>0, <1>2, <2>1, <2>2 DEF Inv, TagChar, TagsInv, PreviewInv, PostLabels
<1>3. CASE TagEnd
  <2> DEFINE tag == SubSeq(text, i + 1, j - 1)
  <2>1. /\ text \in Seq(Bytes) /\ i \in 1..Len(text) /\ i < j
        /\ i < Len(text) /\ text[i] = Hash
        /\ \A k \in (i + 1)..(j - 1) : text[k] \in TagChars
        /\ ~(j <= Len(text) /\ text[j] \in TagChars)
        /\ pc = "tag" /\ pc' = "scan" /\ i' = j
        /\ UNCHANGED <<text, j, preview, stored, numberVars>>
    BY <1>0, <1>3 DEF TagEnd, AtTagChar, IsTagChar, LoopInv, PostLabels
  <2>2. tag \in Seq(TagChars) /\ (tag = <<>> <=> j = i + 1)
    BY <1>0, <2>1, RunTyped
  <2>3. tags \in Seq(Seq(TagChars))
    BY <1>0 DEF TypeOK
  <2>4. /\ Elements(tags) = HashtagsBefore(text, i + 1)
        /\ InOrderOfText(text, tags)
    BY <1>0, <2>1 DEF TagsInv, PostLabels
  <2>5. HashtagsBefore(text, j + 1) =
          HashtagsBefore(text, i + 1) \cup (IF j = i + 1 THEN {} ELSE {tag})
    BY <1>0, <2>1, TagBehind
  <2>6. tags' = IF tag = <<>> \/ tag \in Elements(tags) THEN tags
                ELSE Append(tags, tag)
    BY <1>3 DEF TagEnd
  <2> HIDE DEF tag
  <2>7. /\ tags' \in Seq(Seq(TagChars))
        /\ Elements(tags') = HashtagsBefore(text, j + 1)
        /\ InOrderOfText(text, tags')
    <3>1. CASE tag = <<>> \/ tag \in Elements(tags)
      BY <2>2, <2>3, <2>4, <2>5, <2>6, <3>1
    <3>2. CASE tag # <<>> /\ tag \notin Elements(tags)
      <4>1. tags' = Append(tags, tag)
        BY <2>6, <3>2
      <4>2. tags' \in Seq(Seq(TagChars)) /\ Elements(tags') = Elements(tags) \cup {tag}
        BY <2>2, <2>3, <4>1, AppendElements
      <4>3. InOrderOfText(text, tags')
        BY <2>1, <2>2, <2>3, <2>4, <3>2, <4>1, OrderKept
      <4> QED
        BY <2>2, <2>4, <2>5, <3>2, <4>2, <4>3
    <3> QED
      BY <3>1, <3>2
  <2>8. TypeOK'
    BY <1>0, <2>1, <2>7 DEF TypeOK
  <2>9. TagsInv'
    BY <2>1, <2>7 DEF TagsInv
  <2> QED
    BY <2>1, <2>8, <2>9 DEF Inv, LoopInv, PreviewInv
<1>4. CASE Truncate
  <2>1. TypeOK'
    BY <1>0, <1>4, PreviewTyped DEF TypeOK, Truncate, PostLabels
  <2> QED
    BY <1>0, <1>4, <2>1
    DEF Inv, Truncate, LoopInv, TagsInv, PreviewInv, PostLabels
<1>5. CASE Insert
  <2>1. stored' \in BOOLEAN
    BY <1>5 DEF Insert, Accepts, ValidUTF8
  <2>2. TypeOK'
    BY <1>0, <1>5, <2>1 DEF TypeOK, Insert
  <2> QED
    BY <1>0, <1>5, <2>2
    DEF Inv, Insert, LoopInv, TagsInv, PreviewInv, PostLabels
<1>6. CASE ParseDigit
  <2>1. n \in Int
    BY <1>0, Numbers DEF TypeOK
  <2>2. n' \in (-Half)..(Half - 1)
    <3>1. Digits[text[i]] \in 0..9 /\ n' = Wrap(n * 10 + Digits[text[i]])
      BY <1>6, Numbers DEF ParseDigit
    <3>2. n * 10 + Digits[text[i]] \in Int
      BY <2>1, <3>1
    <3> QED
      BY <3>1, <3>2, WrapTyped
  <2>3. TypeOK'
    BY <1>0, <1>6, <2>2 DEF TypeOK, ParseDigit
  <2> QED
    BY <1>0, <1>6, <2>3
    DEF Inv, ParseDigit, LoopInv, TagsInv, PreviewInv, PostLabels
<1>7. CASE ParseRefuses
  <2>1. result' \in (-Half)..(Half - 1) \cup {Refused}
    <3>1. Limit(Refused) \in 1..(Half - 1)
      BY LimitTyped
    <3> QED
      BY <1>7, <3>1, Numbers DEF ParseRefuses
  <2>2. TypeOK'
    BY <1>0, <1>7, <2>1 DEF TypeOK, ParseRefuses, ReadBy
  <2> QED
    BY <1>0, <1>7, <2>2
    DEF Inv, ParseRefuses, ReadBy, LoopInv, TagsInv, PreviewInv, PostLabels
<1>8. CASE ParseEnd
  <2>1. result' \in (-Half)..(Half - 1) \cup {Refused}
    BY <1>0, <1>8, LimitTyped, TextAssumption DEF TypeOK, ParseEnd
  <2>2. TypeOK'
    BY <1>0, <1>8, <2>1 DEF TypeOK, ParseEnd, ReadBy
  <2> QED
    BY <1>0, <1>8, <2>2
    DEF Inv, ParseEnd, ReadBy, LoopInv, TagsInv, PreviewInv, PostLabels
<1>9. CASE UNCHANGED vars
  BY <1>0, <1>9 DEF vars, Inv, TypeOK, LoopInv, TagsInv, PreviewInv
<1> QED
  BY <1>1, <1>2, <1>3, <1>4, <1>5, <1>6, <1>7, <1>8, <1>9 DEF Next

\* The invariant of the loops, for every content.
LEMMA Invariance == Spec => []Inv
BY InitInv, NextInv, PTL DEF Spec

-----------------------------------------------------------------------------
\* Postgres takes a preview unless the cut of its content left half a rune,
\* or a NUL is among the bytes that were kept.
LEMMA PreviewAccepted ==
  ASSUME NEW s \in Seq(Bytes), ValidUTF8(s)
  PROVE  Accepts(TruncatePreview(s)) <=>
           /\ \A k \in DOMAIN s : k <= MaxPreview => s[k] # Nul
           /\ Len(s) > MaxPreview => ~CutInsideRune(s)
<1>1. CASE Len(s) <= MaxPreview
  <2>1. MaxPreview \in Nat /\ Len(s) \in Nat /\ DOMAIN s = 1..Len(s)
    BY TextAssumption
  <2>2. TruncatePreview(s) = s
    BY <1>1 DEF TruncatePreview
  <2>3. Nul \notin Elements(s) <=> \A k \in DOMAIN s : k <= MaxPreview => s[k] # Nul
    BY <1>1, <2>1 DEF Elements
  <2>4. ~(Len(s) > MaxPreview)
    BY <1>1, <2>1
  <2> QED
    BY <2>2, <2>3, <2>4 DEF Accepts
<1>2. CASE Len(s) > MaxPreview
  <2> DEFINE kept == SubSeq(s, 1, MaxPreview)
             p == kept \o Ellipsis
  <2>1. MaxPreview \in Nat /\ Len(s) \in Nat /\ DOMAIN s = 1..Len(s)
    BY TextAssumption
  <2>2. /\ kept \in Seq(Bytes) /\ Len(kept) = MaxPreview
        /\ \A k \in 1..MaxPreview : kept[k] = s[k]
    BY <1>2, <2>1
  <2>3. /\ Ellipsis \in Seq(Bytes) /\ Len(Ellipsis) = 3
        /\ \A k \in 1..3 : Ellipsis[k] = Dot
    BY DEF Ellipsis, Bytes
  <2>4. TruncatePreview(s) = p
    BY <1>2, <2>1 DEF TruncatePreview
  <2> HIDE DEF kept
  <2>5. /\ p \in Seq(Bytes)
        /\ Len(p) = Len(kept) + Len(Ellipsis)
        /\ \A k \in 1..(Len(kept) + Len(Ellipsis)) :
             p[k] = IF k <= Len(kept) THEN kept[k] ELSE Ellipsis[k - Len(kept)]
    BY <2>2, <2>3, ConcatProperties, Zenon
  <2> HIDE DEF p
  <2>6. /\ Len(p) = MaxPreview + 3 /\ DOMAIN p = 1..(MaxPreview + 3)
        /\ \A k \in 1..MaxPreview : p[k] = s[k]
        /\ \A k \in (MaxPreview + 1)..(MaxPreview + 3) : p[k] = Dot
    <3>1. Len(p) = MaxPreview + 3 /\ DOMAIN p = 1..(MaxPreview + 3)
      BY <2>1, <2>2, <2>3, <2>5
    <3>2. ASSUME NEW k \in 1..MaxPreview PROVE p[k] = s[k]
      <4>1. p[k] = kept[k]
        BY <2>1, <2>2, <2>3, <2>5
      <4> QED
        BY <2>2, <4>1
    <3>3. ASSUME NEW k \in (MaxPreview + 1)..(MaxPreview + 3) PROVE p[k] = Dot
      <4>1. p[k] = Ellipsis[k - MaxPreview] /\ k - MaxPreview \in 1..3
        BY <2>1, <2>2, <2>3, <2>5
      <4> QED
        BY <2>3, <4>1
    <3> QED
      BY <3>1, <3>2, <3>3
  <2>7. /\ Cont \notin Leads /\ Dot \notin Leads
        /\ Dot # Cont /\ Dot # Nul
        /\ \A b \in Leads : Width[b] \in 2..4
    BY TextAssumption
  <2>8. Nul \notin Elements(p) <=> \A k \in DOMAIN s : k <= MaxPreview => s[k] # Nul
    BY <1>2, <2>1, <2>6, <2>7 DEF Elements
  <2>9. ASSUME ValidUTF8(p) PROVE ~CutInsideRune(s)
    <3> SUFFICES ASSUME NEW k \in 1..MaxPreview, s[k] \in Leads,
                        k + Width[s[k]] - 1 > MaxPreview
                 PROVE  FALSE
      BY DEF CutInsideRune
    <3>1. p[k] \in Leads /\ p[k] = s[k] /\ k \in DOMAIN p
      BY <2>1, <2>6
    <3>2. MaxPreview + 1 \in (k + 1)..(k + Width[p[k]] - 1)
      BY <2>1, <2>7, <3>1
    <3>3. p[MaxPreview + 1] = Cont
      BY <2>9, <3>1, <3>2 DEF ValidUTF8
    <3> QED
      BY <2>1, <2>6, <2>7, <3>3
  <2>10. ASSUME ~CutInsideRune(s) PROVE ValidUTF8(p)
    <3>1. ASSUME NEW k \in DOMAIN p, p[k] \in Leads
          PROVE  /\ k + Width[p[k]] - 1 <= Len(p)
                 /\ \A c \in (k + 1)..(k + Width[p[k]] - 1) : p[c] = Cont
      <4>1. k \in 1..MaxPreview /\ p[k] = s[k]
        BY <2>1, <2>6, <2>7, <3>1
      <4>2. k + Width[s[k]] - 1 <= MaxPreview
        BY <1>2, <2>1, <2>7, <2>10, <3>1, <4>1 DEF CutInsideRune
      <4>3. \A c \in (k + 1)..(k + Width[s[k]] - 1) : s[c] = Cont
        BY <1>2, <2>1, <3>1, <4>1 DEF ValidUTF8
      <4>4. Width[s[k]] \in 2..4
        BY <2>7, <3>1, <4>1
      <4>5. \A c \in (k + 1)..(k + Width[s[k]] - 1) : c \in 1..MaxPreview
        BY <2>1, <4>1, <4>2, <4>4
      <4>6. \A c \in (k + 1)..(k + Width[s[k]] - 1) : p[c] = Cont
        BY <2>6, <4>3, <4>5
      <4>7. k + Width[s[k]] - 1 <= Len(p)
        BY <2>1, <2>6, <4>1, <4>2, <4>4
      <4> QED
        BY <4>1, <4>6, <4>7
    <3>2. ASSUME NEW k \in DOMAIN p, p[k] = Cont
          PROVE  \E l \in 1..(k - 1) :
                   p[l] \in Leads /\ k <= l + Width[p[l]] - 1
      <4>1. k \in 1..MaxPreview /\ s[k] = Cont
        BY <2>1, <2>6, <2>7, <3>2
      <4>2. \E l \in 1..(k - 1) : s[l] \in Leads /\ k <= l + Width[s[l]] - 1
        BY <1>2, <2>1, <4>1 DEF ValidUTF8
      <4> QED
        BY <2>1, <2>6, <4>1, <4>2
    <3> QED
      BY <3>1, <3>2 DEF ValidUTF8
  <2> QED
    BY <1>2, <2>4, <2>8, <2>9, <2>10 DEF Accepts
<1>3. Len(s) <= MaxPreview \/ Len(s) > MaxPreview
  BY TextAssumption
<1> QED
  BY <1>1, <1>2, <1>3

(***************************************************************************)
(* extractHashtags finds exactly the hashtags of the content, each once    *)
(* and in the order of the text, for every content.                        *)
(***************************************************************************)
THEOREM HashtagsCorrect == Spec => []HashtagsExact
<1>1. Inv => HashtagsExact
  <2> SUFFICES ASSUME Inv, pc \in {"insert", "inserted"}
               PROVE  /\ Elements(tags) = HashtagsBefore(text, Len(text) + 1)
                      /\ InOrderOfText(text, tags)
    BY DEF HashtagsExact
  <2>1. /\ i = Len(text) + 1 /\ Len(text) \in Nat
        /\ Elements(tags) = HashtagsBefore(text, i + 1)
        /\ InOrderOfText(text, tags)
    BY TextTyped DEF Inv, TypeOK, LoopInv, TagsInv, PostLabels
  <2>2. HashtagsBefore(text, Len(text) + 2) = HashtagsBefore(text, Len(text) + 1)
    <3>1. \A t : t \in HashtagsBefore(text, Len(text) + 2)
                 <=> t \in HashtagsBefore(text, Len(text) + 1)
      BY <2>1, InHashtags
    <3> QED
      BY <3>1
  <2>3. i + 1 = Len(text) + 2
    BY <2>1
  <2> QED
    BY <2>1, <2>2, <2>3
<1> QED
  BY <1>1, Invariance, PTL

(***************************************************************************)
(* Whatever the content and the length truncatePreview is called with, the *)
(* statement fails exactly if the cut is inside a rune or a NUL is kept.   *)
(***************************************************************************)
THEOREM PreviewRefused == Spec => []RefusedIfCutInsideRune
<1>1. Inv => RefusedIfCutInsideRune
  <2> SUFFICES ASSUME Inv, pc = "inserted" PROVE RefusedIfCutInsideRune
    BY DEF RefusedIfCutInsideRune
  <2>1. text \in Seq(Bytes) /\ ValidUTF8(text)
    BY TextTyped DEF Inv, PostLabels
  <2>2. preview = TruncatePreview(text) /\ stored = Accepts(preview)
    BY DEF Inv, PreviewInv
  <2> QED
    BY <2>1, <2>2, PreviewTyped, PreviewAccepted DEF RefusedIfCutInsideRune
<1> QED
  BY <1>1, Invariance, PTL

(***************************************************************************)
(* The loops never index past the end of the text, and what parseInt64     *)
(* returns is an int64.                                                    *)
(***************************************************************************)
THEOREM TypeCorrect == Spec => []TypeOK
<1>1. Inv => TypeOK
  BY DEF Inv
<1> QED
  BY <1>1, Invariance, PTL

-----------------------------------------------------------------------------
(***************************************************************************)
(* The value of a number: ValueOf is a recursive function on the positions *)
(* of a text, and what it computes is proved by least counterexample.      *)
(***************************************************************************)

\* A set of numbers that is not empty has a least one.
LEMMA Least ==
  ASSUME NEW S, S \subseteq Nat, S # {}
  PROVE  \E m \in S : \A k \in S : ~(k < m)
<1>1. PICK m \in S : \A k \in S : <<k, m>> \notin OpToRel(<, Nat)
  BY WFMin, NatLessThanWellFounded, Zenon
<1>2. \A k \in S : k < m => <<k, m>> \in OpToRel(<, Nat)
  BY DEF OpToRel
<1> QED
  BY <1>1, <1>2

\* A set that holds 0, and k if it holds k - 1, holds all numbers up to m.
LEMMA UpTo ==
  ASSUME NEW m \in Nat, NEW A, 0 \in A, \A k \in 1..m : k - 1 \in A => k \in A
  PROVE  \A k \in 0..m : k \in A
<1> DEFINE S == {k \in 0..m : k \notin A}
<1> SUFFICES ASSUME S # {} PROVE FALSE
  OBVIOUS
<1>1. S \subseteq Nat /\ \A k \in S : k \in 0..m /\ k \notin A
  OBVIOUS
<1>2. \A k \in 0..m : k \notin S => k \in A
  OBVIOUS
<1> HIDE DEF S
<1>3. PICK k \in S : \A l \in S : ~(l < k)
  BY <1>1, Least
<1>4. k \in 1..m /\ k - 1 \notin S /\ k - 1 \in 0..m
  BY <1>1, <1>3
<1> QED
  BY <1>1, <1>2, <1>4

\* The recursive step of ValueOf, as an equation for the first m characters.
ReadValue(s, f, k) == IF k = 0 THEN 0 ELSE f[k - 1] * 10 + Digits[s[k]]

ValueTo(s, f, m) == f = [k \in 0..m |-> ReadValue(s, f, k)]

\* The first characters of a number have a value.
LEMMA ValueExists ==
  ASSUME NEW s \in Seq(DOMAIN Digits)
  PROVE  \A m \in 0..Len(s) : \E f \in [0..m -> Nat] : ValueTo(s, f, m)
<1> DEFINE A == {m \in 0..Len(s) : \E f \in [0..m -> Nat] : ValueTo(s, f, m)}
<1>1. 0 \in A
  <2> DEFINE f == [k \in 0..0 |-> 0]
  <2>1. f \in [0..0 -> Nat] /\ ValueTo(s, f, 0)
    BY DEF ValueTo, ReadValue
  <2> HIDE DEF f
  <2> QED
    BY <2>1
<1>2. ASSUME NEW m \in 1..Len(s), m - 1 \in A
      PROVE  m \in A
  <2>1. m \in Nat /\ m >= 1 /\ m \in 0..Len(s)
    OBVIOUS
  <2>2. PICK f \in [0..(m - 1) -> Nat] : ValueTo(s, f, m - 1)
    BY <1>2
  <2>3. Digits[s[m]] \in Nat
    <3>1. \A k \in 1..Len(s) : s[k] \in DOMAIN Digits
      OBVIOUS
    <3>2. \A c \in DOMAIN Digits : Digits[c] \in Nat
      BY Numbers
    <3> QED
      BY <3>1, <3>2, Zenon
  <2> DEFINE g == [k \in 0..m |-> IF k = m THEN f[m - 1] * 10 + Digits[s[m]] ELSE f[k]]
  <2>4. \A k \in 0..(m - 1) : f[k] = ReadValue(s, f, k)
    BY <2>2 DEF ValueTo
  <2>5. g \in [0..m -> Nat]
    BY <2>1, <2>3
  <2>6. \A k \in 0..m : g[k] = ReadValue(s, g, k)
    BY <2>1, <2>3, <2>4 DEF ReadValue
  <2>7. ValueTo(s, g, m)
    BY <2>6 DEF ValueTo
  <2> HIDE DEF g
  <2> QED
    BY <2>1, <2>5, <2>7
<1>3. \A m \in A : \E f \in [0..m -> Nat] : ValueTo(s, f, m)
  OBVIOUS
<1>4. Len(s) \in Nat
  OBVIOUS
<1> HIDE DEF A
<1> QED
  BY <1>1, <1>2, <1>3, <1>4, UpTo

\* The function that ValueOf defines satisfies the equation it is defined by.
LEMMA ValueUnfolds ==
  ASSUME NEW s \in Seq(DOMAIN Digits)
  PROVE  \E f \in [0..Len(s) -> Nat] : ValueTo(s, f, Len(s)) /\ ValueOf(s) = f[Len(s)]
<1> DEFINE value == CHOOSE value :
             value = [k \in 0..Len(s) |->
                        IF k = 0 THEN 0 ELSE value[k - 1] * 10 + Digits[s[k]]]
<1>1. Len(s) \in 0..Len(s)
  OBVIOUS
<1>2. PICK f \in [0..Len(s) -> Nat] : ValueTo(s, f, Len(s))
  BY <1>1, ValueExists
<1>3. f = [k \in 0..Len(s) |-> IF k = 0 THEN 0 ELSE f[k - 1] * 10 + Digits[s[k]]]
  BY <1>2 DEF ValueTo, ReadValue
<1>4. value = [k \in 0..Len(s) |->
                 IF k = 0 THEN 0 ELSE value[k - 1] * 10 + Digits[s[k]]]
  BY <1>3, Zenon
<1>5. ValueOf(s) = value[Len(s)]
  BY Zenon DEF ValueOf
<1> HIDE DEF value
<1>6. value[0] = f[0]
  BY <1>1, <1>3, <1>4
<1>7. \A k \in 1..Len(s) : value[k - 1] = f[k - 1] => value[k] = f[k]
  BY <1>3, <1>4
<1>8. value[Len(s)] = f[Len(s)]
  <2> DEFINE A == {k \in 0..Len(s) : value[k] = f[k]}
  <2>1. 0 \in A /\ Len(s) \in Nat
    BY <1>1, <1>6
  <2>2. \A k \in 1..Len(s) : k - 1 \in A => k \in A
    BY <1>7
  <2>3. \A k \in A : value[k] = f[k]
    OBVIOUS
  <2> HIDE DEF A
  <2>4. Len(s) \in A
    BY <1>1, <2>1, <2>2, UpTo
  <2> QED
    BY <2>3, <2>4
<1> QED
  BY <1>2, <1>5, <1>8

\* The empty text has the value 0.
LEMMA ValueEmpty == ValueOf(<<>>) = 0
<1>1. <<>> \in Seq(DOMAIN Digits) /\ Len(<<>>) = 0
  OBVIOUS
<1>2. PICK f \in [0..0 -> Nat] : ValueTo(<<>>, f, 0) /\ ValueOf(<<>>) = f[0]
  BY <1>1, ValueUnfolds
<1> QED
  BY <1>2 DEF ValueTo, ReadValue

\* One more digit takes the value times ten plus the digit.
LEMMA ValueAppend ==
  ASSUME NEW s \in Seq(DOMAIN Digits), NEW c \in DOMAIN Digits
  PROVE  /\ ValueOf(s) \in Nat
         /\ ValueOf(Append(s, c)) = ValueOf(s) * 10 + Digits[c]
<1> DEFINE t == Append(s, c)
           l == Len(s)
<1>1. /\ t \in Seq(DOMAIN Digits) /\ Len(t) = l + 1 /\ l \in Nat
      /\ t[l + 1] = c /\ \A k \in 1..l : t[k] = s[k]
  OBVIOUS
<1> HIDE DEF t, l
<1>2. PICK f \in [0..l -> Nat] : ValueTo(s, f, l) /\ ValueOf(s) = f[l]
  BY ValueUnfolds DEF l
<1>3. PICK g \in [0..(l + 1) -> Nat] : ValueTo(t, g, l + 1) /\ ValueOf(t) = g[l + 1]
  BY <1>1, ValueUnfolds
<1>4. \A k \in 0..l : f[k] = ReadValue(s, f, k)
  BY <1>2 DEF ValueTo
<1>5. \A k \in 0..(l + 1) : g[k] = ReadValue(t, g, k)
  BY <1>3 DEF ValueTo
<1>6. g[l] = f[l]
  <2>1. g[0] = f[0]
    BY <1>1, <1>4, <1>5 DEF ReadValue
  <2>2. ASSUME NEW k \in 1..l, g[k - 1] = f[k - 1]
        PROVE  g[k] = f[k]
    <3>1. k \in 0..l /\ k \in 0..(l + 1) /\ k # 0 /\ t[k] = s[k]
      BY <1>1
    <3>2. f[k] = f[k - 1] * 10 + Digits[s[k]]
      BY <1>4, <3>1 DEF ReadValue
    <3>3. g[k] = g[k - 1] * 10 + Digits[t[k]]
      BY <1>5, <3>1 DEF ReadValue
    <3> QED
      BY <2>2, <3>1, <3>2, <3>3
  <2> DEFINE A == {k \in 0..l : g[k] = f[k]}
  <2>3. 0 \in A
    BY <1>1, <2>1
  <2>4. \A k \in 1..l : k - 1 \in A => k \in A
    BY <1>1, <2>2
  <2>5. \A k \in A : g[k] = f[k]
    OBVIOUS
  <2> HIDE DEF A
  <2>6. l \in Nat /\ l \in 0..l
    BY <1>1
  <2>7. l \in A
    BY <2>3, <2>4, <2>6, UpTo
  <2> QED
    BY <2>5, <2>7
<1>7. g[l + 1] = g[l] * 10 + Digits[c]
  BY <1>1, <1>5 DEF ReadValue
<1> QED
  BY <1>1, <1>2, <1>3, <1>6, <1>7 DEF t

-----------------------------------------------------------------------------
\* A multiple of the width leaves no remainder.
LEMMA MultipleHasNoRemainder ==
  ASSUME NEW q \in Int
  PROVE  (q * (2 * Half)) % (2 * Half) = 0
<1> DEFINE m == 2 * Half
<1>1. m \in Int /\ m > 0
  BY Numbers
<1> HIDE DEF m
<1>2. (q * m) % m = 0
  BY <1>1
<1> QED
  BY <1>2 DEF m

\* Wrapping a number around takes a multiple of the width from it, and
\* nothing from one that is within the width.
LEMMA WrapRemainder ==
  ASSUME NEW x \in Int
  PROVE  /\ \E q \in Int : x - Wrap(x) = q * (2 * Half)
         /\ x \in 0..(Half - 1) => Wrap(x) = x
<1> DEFINE m == 2 * Half
<1>1. m \in Int /\ m > 0 /\ Half \in Int /\ m = 2 * Half /\ Half > 0
  BY Numbers
<1>2. Wrap(x) = ((x + Half) % m) - Half
  BY DEF Wrap
<1> HIDE DEF m
<1> DEFINE y == x + Half
           q == y \div m
<1>3. y \in Int /\ q \in Int /\ y = m * q + (y % m)
  BY <1>1
<1>4. x - Wrap(x) = q * m
  BY <1>1, <1>2, <1>3
<1>5. x \in 0..(Half - 1) => Wrap(x) = x
  BY <1>1, <1>2
<1> HIDE DEF q, y
<1> QED
  BY <1>1, <1>3, <1>4, <1>5

-----------------------------------------------------------------------------
(***************************************************************************)
(* The inductive invariant of the number: n stands for what has been read, *)
(* and what has been read is a number.                                     *)
(***************************************************************************)
Read == SubSeq(text, 1, i - 1)

\* x is the number v, or its remainder where v does not fit.
StandsFor(x, v) ==
  /\ \E q \in Int : v - x = q * (2 * Half)
  /\ v < Half => x = v

NumberInv ==
  /\ pc \in {"path", "param"} =>
       Read \in Seq(DOMAIN Digits) /\ StandsFor(n, ValueOf(Read))
  /\ PathReadModulo
  /\ LimitPositive

\* One more digit, read with wrapping, stands for one more digit of the value.
LEMMA DigitRead ==
  ASSUME NEW v \in Nat, NEW x \in Int, NEW d \in 0..9, StandsFor(x, v)
  PROVE  StandsFor(Wrap(x * 10 + d), v * 10 + d)
<1> DEFINE m == 2 * Half
           y == x * 10 + d
<1>1. m \in Int /\ Half \in Int /\ y \in Int /\ y = x * 10 + d
  BY Numbers
<1>2. PICK q \in Int : v - x = q * m
  BY DEF StandsFor
<1>3. PICK p \in Int : y - Wrap(y) = p * m
  BY <1>1, WrapRemainder
<1>4. Wrap(y) \in Int
  <2>1. Wrap(y) \in (-Half)..(Half - 1)
    BY <1>1, WrapTyped
  <2> QED
    BY <1>1, <2>1
<1> HIDE DEF m, y
<1>5. (v * 10 + d) - Wrap(y) = (10 * q + p) * m
  <2>1. (v * 10 + d) - Wrap(y) = 10 * (v - x) + (y - Wrap(y))
    BY <1>1, <1>4
  <2>2. 10 * (q * m) + p * m = (10 * q + p) * m
    BY <1>1
  <2> QED
    BY <1>2, <1>3, <2>1, <2>2
<1>6. ASSUME v * 10 + d < Half
      PROVE  Wrap(y) = v * 10 + d
  <2>1. v < Half
    BY <1>1, <1>6
  <2>2. y = v * 10 + d /\ y \in 0..(Half - 1)
    BY <1>1, <1>6, <2>1 DEF StandsFor
  <2> QED
    BY <1>1, <2>2, WrapRemainder
<1>7. 10 * q + p \in Int
  OBVIOUS
<1> QED
  BY <1>5, <1>6, <1>7 DEF StandsFor, m, y

\* The part read grows by the character at i.
LEMMA ReadGrows ==
  ASSUME NEW S, NEW s \in Seq(S), NEW k \in 1..Len(s)
  PROVE  SubSeq(s, 1, k) = Append(SubSeq(s, 1, k - 1), s[k])
<1> DEFINE a == SubSeq(s, 1, k)
           b == SubSeq(s, 1, k - 1)
<1>1. a \in Seq(S) /\ Len(a) = k /\ \A l \in 1..k : a[l] = s[l]
  OBVIOUS
<1>2. b \in Seq(S) /\ Len(b) = k - 1 /\ \A l \in 1..(k - 1) : b[l] = s[l]
  OBVIOUS
<1>3. s[k] \in S
  OBVIOUS
<1> HIDE DEF a, b
<1>4. /\ Append(b, s[k]) \in Seq(S) /\ Len(Append(b, s[k])) = k
      /\ \A l \in 1..k : Append(b, s[k])[l] = s[l]
  BY <1>2, <1>3
<1>5. a = Append(b, s[k])
  BY <1>1, <1>4, SeqEqual
<1> QED
  BY <1>5 DEF a, b

\* At the start nothing has been read, and the number is 0.
LEMMA InitNumber == Init => NumberInv
<1> SUFFICES ASSUME Init PROVE NumberInv
  OBVIOUS
<1>1. TypeOK
  BY InitInv DEF Inv
<1>2. Read = <<>>
  BY <1>1, TextTyped DEF Init, Read
<1>3. Read \in Seq(DOMAIN Digits)
  BY <1>2
<1>4. StandsFor(n, ValueOf(Read))
  <2>1. n = 0 /\ ValueOf(Read) = 0
    BY <1>2, ValueEmpty DEF Init
  <2>2. 0 - 0 = 0 * (2 * Half) /\ 0 \in Int
    BY Numbers
  <2> QED
    BY <2>1, <2>2 DEF StandsFor
<1> QED
  BY <1>3, <1>4 DEF Init, NumberInv, PathReadModulo, LimitPositive

(***************************************************************************)
(* Every step keeps it: ParseDigit reads one more digit, and ParseEnd and  *)
(* ParseRefuses say what the whole text is.                                *)
(***************************************************************************)
LEMMA NextNumber == Inv /\ NumberInv /\ [Next]_vars => NumberInv'
<1> SUFFICES ASSUME Inv, NumberInv, [Next]_vars PROVE NumberInv'
  OBVIOUS
<1> USE DEF postVars, numberVars
<1>0. /\ TypeOK
      /\ Len(text) \in Nat /\ text \in Seq(DOMAIN Digits \cup Bytes)
      /\ i \in 1..(Len(text) + 1) /\ n \in (-Half)..(Half - 1)
      /\ n \in Int
  <2>1. TypeOK
    BY DEF Inv
  <2> QED
    BY <2>1, TextTyped, Numbers DEF TypeOK
<1>1. CASE Scan
  BY <1>1 DEF Scan, NumberInv, PathReadModulo, LimitPositive
<1>2. CASE TagChar
  BY <1>2 DEF TagChar, NumberInv, PathReadModulo, LimitPositive
<1>3. CASE TagEnd
  BY <1>3 DEF TagEnd, NumberInv, PathReadModulo, LimitPositive
<1>4. CASE Truncate
  BY <1>4 DEF Truncate, NumberInv, PathReadModulo, LimitPositive
<1>5. CASE Insert
  BY <1>5 DEF Insert, NumberInv, PathReadModulo, LimitPositive
<1>6. CASE ParseDigit
  <2>1. /\ pc \in {"path", "param"} /\ i \in 1..Len(text)
        /\ text[i] \in DOMAIN Digits
        /\ n' = Wrap(n * 10 + Digits[text[i]])
        /\ i' = i + 1 /\ UNCHANGED <<pc, text>>
    BY <1>0, <1>6 DEF ParseDigit
  <2>2. Read \in Seq(DOMAIN Digits) /\ StandsFor(n, ValueOf(Read))
    BY <2>1 DEF NumberInv
  <2>3. Read' = Append(Read, text[i])
    <3>1. Read' = SubSeq(text, 1, i)
      BY <1>0, <2>1 DEF Read
    <3> QED
      BY <1>0, <2>1, <3>1, ReadGrows DEF Read
  <2>4. Read' \in Seq(DOMAIN Digits)
    BY <2>1, <2>2, <2>3, AppendProperties
  <2>5. /\ ValueOf(Read) \in Nat
        /\ ValueOf(Read)' = ValueOf(Read) * 10 + Digits[text[i]]
    BY <2>1, <2>2, <2>3, ValueAppend
  <2>6. StandsFor(n, ValueOf(Read))'
    <3>1. Digits[text[i]] \in 0..9
      BY <2>1, Numbers
    <3>2. StandsFor(n', ValueOf(Read) * 10 + Digits[text[i]])
      BY <1>0, <2>1, <2>2, <2>5, <3>1, DigitRead
    <3> QED
      BY <2>5, <3>2 DEF StandsFor
  <2> QED
    BY <2>1, <2>4, <2>6 DEF NumberInv, PathReadModulo, LimitPositive
<1>7. CASE ParseRefuses
  <2>1. /\ pc \in {"path", "param"} /\ i \in 1..Len(text)
        /\ text[i] \notin DOMAIN Digits
        /\ result' = IF pc = "path" THEN Refused ELSE Limit(Refused)
        /\ pc' = ReadBy(pc) /\ text' = text
    BY <1>0, <1>7 DEF ParseRefuses
  <2>2. ~IsNumber(text)
    BY <1>0, <2>1 DEF IsNumber
  <2>3. Limit(Refused) \in 1..(Half - 1)
    BY LimitTyped
  <2>4. PathReadModulo'
    BY <2>1, <2>2 DEF PathReadModulo, ReadBy, IsNumber
  <2>5. LimitPositive'
    BY <2>1, <2>2, <2>3 DEF LimitPositive, ReadBy, IsNumber
  <2> QED
    BY <2>1, <2>4, <2>5 DEF NumberInv, ReadBy
<1>8. CASE ParseEnd
  <2>1. /\ pc \in {"path", "param"} /\ i = Len(text) + 1
        /\ result' = IF pc = "path" THEN n ELSE Limit(n)
        /\ pc' = ReadBy(pc) /\ text' = text
    BY <1>0, <1>8 DEF ParseEnd
  <2>2. Read = text
    BY <1>0, <2>1 DEF Read
  <2>3. text \in Seq(DOMAIN Digits) /\ StandsFor(n, ValueOf(text))
    BY <2>1, <2>2 DEF NumberInv
  <2>4. ValueOf(text) \in Nat
    <3>1. PICK f \in [0..Len(text) -> Nat] : ValueOf(text) = f[Len(text)]
      BY <2>3, ValueUnfolds
    <3> QED
      BY <1>0, <3>1
  <2>5. (ValueOf(text) - n) % (2 * Half) = 0
    BY <2>3, MultipleHasNoRemainder DEF StandsFor
  <2>6. ValueOf(text) < Half => n = ValueOf(text)
    BY <2>3 DEF StandsFor
  <2>7. IsNumber(text)
    BY <2>3 DEF IsNumber
  <2>8. PathReadModulo'
    <3>1. CASE pc = "path"
      BY <2>1, <2>5, <2>6, <2>7, <3>1 DEF PathReadModulo
    <3>2. CASE pc = "param"
      BY <2>1, <3>2 DEF PathReadModulo, ReadBy
    <3> QED
      BY <2>1, <3>1, <3>2
  <2>9. LimitPositive'
    <3>1. Limit(n) \in 1..(Half - 1)
      BY <1>0, LimitTyped
    <3>2. ValueOf(text) \in 1..(Half - 1) => Limit(n) = ValueOf(text)
      BY <1>0, <2>4, <2>6, Numbers DEF Limit
    <3>3. pc' = "paramRead" => result' = Limit(n)
      BY <2>1 DEF ReadBy
    <3> QED
      BY <2>1, <3>1, <3>2, <3>3 DEF LimitPositive
  <2> QED
    BY <2>1, <2>8, <2>9 DEF NumberInv, ReadBy
<1>9. CASE UNCHANGED vars
  BY <1>9 DEF vars, NumberInv, Read, PathReadModulo, LimitPositive
<1> QED
  BY <1>1, <1>2, <1>3, <1>4, <1>5, <1>6, <1>7, <1>8, <1>9 DEF Next

\* The invariant of the number, for every path and every parameter.
LEMMA NumberInvariance == Spec => []NumberInv
BY InitNumber, NextNumber, Invariance, PTL DEF Spec

(***************************************************************************)
(* parseInt64 reads every path as the number it stands for, modulo 2^64,   *)
(* and refuses every path that is no number, whatever its length.          *)
(***************************************************************************)
THEOREM PathsRead == Spec => []PathReadModulo
<1>1. NumberInv => PathReadModulo
  BY DEF NumberInv
<1> QED
  BY <1>1, NumberInvariance, PTL

(***************************************************************************)
(* parseIntParam answers every parameter with a positive int64, and with   *)
(* the number itself where that is positive and fits, however long it is.  *)
(***************************************************************************)
THEOREM LimitsPositive == Spec => []LimitPositive
<1>1. NumberInv => LimitPositive
  BY DEF NumberInv
<1> QED
  BY <1>1, NumberInvariance, PTL
=============================================================================
