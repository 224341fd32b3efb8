----------------------------- MODULE TextHelpers -----------------------------
(***************************************************************************)
(* What a request's text goes through on its way to the database: the      *)
(* hashtags and the preview GlobalIndexService.InsertPost takes from a     *)
(* post's content, and the numbers the GET endpoints read from a path or a *)
(* query parameter.  One action is one turn of a loop, or the work between *)
(* two loops.                                                              *)
(*                                                                         *)
(* A text is a sequence of bytes.  A byte is one of the characters the     *)
(* code compares with, a lead byte of a longer UTF-8 sequence, or Cont, a  *)
(* continuation byte.                                                      *)
(***************************************************************************)
EXTENDS Naturals, Integers, Sequences

CONSTANTS Hash,         \* '#'
          TagChars,     \* letters, digits and '_'
          Others,       \* every other ASCII character but NUL
          Nul, Dot,     \* the NUL character, and the one of the ellipsis
          Leads, Width, \* lead bytes, and the length of the sequence of each
          Cont,         \* a continuation byte
          Contents,     \* the contents of posts
          MaxPreview,   \* 500 in InsertPost and UpdatePost
          Digits,       \* the value of each digit, a function on characters
          Paths,        \* ids in a path
          Params,       \* values of the query parameter "limit"
          Half,         \* 2^63: an int64 is in -Half..Half-1
          DefaultLimit, \* 20
          Refused       \* not a number

Bytes == {Hash, Nul, Dot, Cont} \cup TagChars \cup Others \cup Leads

\* A string that came through the JSON decoder, or a prefix of one, is UTF-8
\* if no sequence in it lacks a byte.
ValidUTF8(s) ==
  \A k \in DOMAIN s :
    /\ s[k] \in Leads =>
         /\ k + Width[s[k]] - 1 <= Len(s)
         /\ \A c \in (k + 1)..(k + Width[s[k]] - 1) : s[c] = Cont
    /\ s[k] = Cont =>
         \E l \in 1..(k - 1) : s[l] \in Leads /\ k <= l + Width[s[l]] - 1

ASSUME TextAssumption ==
  /\ Hash \notin TagChars
  /\ Cont \notin Leads /\ Dot \notin Leads \cup {Cont, Nul}
  /\ Width \in [Leads -> 2..4]
  /\ Contents \subseteq Seq(Bytes)
  /\ \A s \in Contents : ValidUTF8(s)
  /\ MaxPreview \in Nat
  /\ Paths \cup Params \subseteq Seq(DOMAIN Digits \cup Bytes)
  /\ \A s \in Paths : s # <<>>
  /\ \A c \in DOMAIN Digits : Digits[c] \in 0..9
  /\ Half \in Nat \ {0}
  /\ DefaultLimit \in 1..(Half - 1)
  /\ Refused \notin Int

VARIABLES
  pc,        \* the loop the request is in
  text,      \* the content, the path or the parameter
  i, j,      \* extractHashtags: the bytes looked at (the first is number 1)
  tags,      \* the hashtags found
  preview,   \* content_preview of the statement
  stored,    \* whether Postgres took the row
  n,         \* parseInt64: the number so far
  result     \* the number read, or Refused

postVars   == <<i, j, tags, preview, stored>>
numberVars == <<n, result>>
vars       == <<pc, text, postVars, numberVars>>

-----------------------------------------------------------------------------
\* extractHashtags; seen holds exactly the tags in the list.

IsTagChar(b) == b \in TagChars

\* The elements of a sequence.
Elements(s) == {s[k] : k \in DOMAIN s}

\* The outer loop: a '#' that is not the last byte starts a tag.
Scan ==
  /\ pc = "scan"
  /\ i <= Len(text)
  /\ IF text[i] = Hash /\ i < Len(text)
     THEN pc' = "tag" /\ j' = i + 1 /\ UNCHANGED i
     ELSE i' = i + 1 /\ UNCHANGED <<pc, j>>
  /\ UNCHANGED <<text, tags, preview, stored, numberVars>>

\* The condition of the inner loop.
AtTagChar == j <= Len(text) /\ IsTagChar(text[j])

\* The inner loop runs to the end of the tag.
TagChar ==
  /\ pc = "tag"
  /\ AtTagChar
  /\ j' = j + 1
  /\ UNCHANGED <<pc, text, i, tags, preview, stored, numberVars>>

\* Mutant of TagEnd: the scan goes on behind the byte that ended the tag.
TagEndSkips ==
  /\ pc = "tag"
  /\ ~AtTagChar
  /\ LET tag == SubSeq(text, i + 1, j - 1)
     IN  tags' = IF tag = <<>> \/ tag \in Elements(tags) THEN tags
                 ELSE Append(tags, tag)
  /\ pc' = "scan" /\ i' = j + 1
  /\ UNCHANGED <<text, j, preview, stored, numberVars>>

\* Mutant of TagEnd: a tag is added each time it occurs.
TagEndRepeats ==
  /\ pc = "tag"
  /\ ~AtTagChar
  /\ LET tag == SubSeq(text, i + 1, j - 1)
     IN  tags' = IF tag = <<>> THEN tags ELSE Append(tags, tag)
  /\ pc' = "scan" /\ i' = j
  /\ UNCHANGED <<text, j, preview, stored, numberVars>>

\* A tag that is not empty and was not seen is added; the scan goes on at j.
TagEnd ==
  /\ pc = "tag"
  /\ ~AtTagChar
  /\ LET tag == SubSeq(text, i + 1, j - 1)
     IN  tags' = IF tag = <<>> \/ tag \in Elements(tags) THEN tags
                 ELSE Append(tags, tag)
  /\ pc' = "scan" /\ i' = j
  /\ UNCHANGED <<text, j, preview, stored, numberVars>>

-----------------------------------------------------------------------------
\* truncatePreview and the insert.

Ellipsis == <<Dot, Dot, Dot>>

\* Mutant of TruncatePreview: a content of MaxPreview + 1 bytes is not cut.
TruncatePreviewLate(s) ==
  IF Len(s) <= MaxPreview + 1 THEN s
  ELSE SubSeq(s, 1, MaxPreview) \o Ellipsis

TruncatePreview(s) ==
  IF Len(s) <= MaxPreview THEN s ELSE SubSeq(s, 1, MaxPreview) \o Ellipsis

Truncate ==
  /\ pc = "scan" /\ i > Len(text)
  /\ preview' = TruncatePreview(text)
  /\ pc' = "insert"
  /\ UNCHANGED <<text, i, j, tags, stored, numberVars>>

\* Postgres takes a TEXT value that is UTF-8 and has no NUL.
Accepts(s) == ValidUTF8(s) /\ Nul \notin Elements(s)

\* The statement of InsertPost or UpdatePost; the preview is all it takes of
\* the content besides the hashtags, which are ASCII.
Insert ==
  /\ pc = "insert"
  /\ stored' = Accepts(preview)
  /\ pc' = "inserted"
  /\ UNCHANGED <<text, i, j, tags, preview, numberVars>>

-----------------------------------------------------------------------------
\* parseInt64, for HandleGetPost and others, and parseIntParam.

\* The value of x in two's complement.
Wrap(x) == ((x + Half) % (2 * Half)) - Half

\* Where a parser ends.
ReadBy(label) == IF label = "path" THEN "pathRead" ELSE "paramRead"

\* The answer of parseIntParam to a number of parseInt64, or to its error.
Limit(x) == IF x = Refused \/ x < 1 THEN DefaultLimit ELSE x

\* Mutant of ParseDigit: the loop stops at a character that is no digit.
ParseDigitLenient ==
  /\ pc \in {"path", "param"} /\ i <= Len(text)
  /\ IF text[i] \in DOMAIN Digits
     THEN n' = Wrap(n * 10 + Digits[text[i]]) /\ i' = i + 1
     ELSE i' = Len(text) + 1 /\ UNCHANGED n
  /\ UNCHANGED <<pc, text, j, tags, preview, stored, result>>

ParseDigit ==
  /\ pc \in {"path", "param"} /\ i <= Len(text)
  /\ text[i] \in DOMAIN Digits
  /\ n' = Wrap(n * 10 + Digits[text[i]])
  /\ i' = i + 1
  /\ UNCHANGED <<pc, text, j, tags, preview, stored, result>>

\* 400 for a path; the default for a parameter.
ParseRefuses ==
  /\ pc \in {"path", "param"} /\ i <= Len(text)
  /\ text[i] \notin DOMAIN Digits
  /\ result' = IF pc = "path" THEN Refused ELSE Limit(Refused)
  /\ pc' = ReadBy(pc)
  /\ UNCHANGED <<text, postVars, n>>

\* Mutant of ParseEnd: a limit is taken as it is.
ParseEndUnchecked ==
  /\ pc \in {"path", "param"} /\ i > Len(text)
  /\ result' = n
  /\ pc' = ReadBy(pc)
  /\ UNCHANGED <<text, postVars, n>>

\* An absent parameter is the empty one.
ParseEnd ==
  /\ pc \in {"path", "param"} /\ i > Len(text)
  /\ result' = IF pc = "path" THEN n ELSE Limit(n)
  /\ pc' = ReadBy(pc)
  /\ UNCHANGED <<text, postVars, n>>

-----------------------------------------------------------------------------
Init ==
  /\ \/ pc = "scan"  /\ text \in Contents
     \/ pc = "path"  /\ text \in Paths
     \/ pc = "param" /\ text \in Params
  /\ i = 1 /\ j = 1 /\ tags = <<>> /\ preview = <<>> /\ stored = FALSE
  /\ n = 0 /\ result = 0

Next == \/ Scan \/ TagChar \/ TagEnd \/ Truncate \/ Insert
        \/ ParseDigit \/ ParseRefuses \/ ParseEnd

Spec == Init /\ [][Next]_vars

-----------------------------------------------------------------------------
(***************************************************************************)
(* Properties.                                                             *)
(***************************************************************************)

\* Every variable has its type, and the indices stay within the text.
TypeOK ==
  /\ pc \in {"scan", "tag", "insert", "inserted", "path", "param", "pathRead",
             "paramRead"}
  /\ text \in Contents \cup Paths \cup Params
  /\ pc \in {"scan", "tag", "insert", "inserted"} => text \in Contents
  /\ i \in 1..(Len(text) + 1) /\ j \in 1..(Len(text) + 1)
  /\ tags \in Seq(Seq(TagChars))
  /\ preview \in Seq(Bytes)
  /\ stored \in BOOLEAN
  /\ n \in (-Half)..(Half - 1)
  /\ result \in (-Half)..(Half - 1) \cup {Refused}

(***************************************************************************)
(* Reference: a hashtag of s is a longest run of tag characters behind a   *)
(* '#', here as its first and its last position.                           *)
(***************************************************************************)
IsTag(s, b, e) ==
  /\ b \in 2..Len(s) /\ e \in b..Len(s)
  /\ s[b - 1] = Hash
  /\ \A k \in b..e : s[k] \in TagChars
  /\ e = Len(s) \/ s[e + 1] \notin TagChars

\* The hashtags of s that begin before position m.
HashtagsBefore(s, m) ==
  LET spans == {x \in (1..Len(s)) \X (1..Len(s)) :
                  x[1] < m /\ IsTag(s, x[1], x[2])}
  IN  {SubSeq(s, x[1], x[2]) : x \in spans}

\* The hashtag t is at b..e.
Occurs(s, t, b, e) == IsTag(s, b, e) /\ SubSeq(s, b, e) = t

\* Tag t differs from tag u and occurs before it does.
Precedes(s, t, u) ==
  /\ t # u
  /\ \A b, e \in 1..Len(s) : Occurs(s, u, b, e) =>
       \E x, y \in 1..Len(s) : x < b /\ Occurs(s, t, x, y)

\* The tags of list are distinct and in the order of their first occurrence.
InOrderOfText(s, list) ==
  \A k, l \in DOMAIN list : k < l => Precedes(s, list[k], list[l])

(***************************************************************************)
(* extractHashtags returns each hashtag of the content once, in the order  *)
(* of the text, and nothing else: no tag is lost where a '#' ends another  *)
(* tag or follows a '#', and no part of a tag is taken for one.            *)
(***************************************************************************)
HashtagsExact ==
  pc \in {"insert", "inserted"} =>
    /\ Elements(tags) = HashtagsBefore(text, Len(text) + 1)
    /\ InOrderOfText(text, tags)

\* Position MaxPreview is inside a UTF-8 sequence of s.
CutInsideRune(s) ==
  \E k \in 1..MaxPreview :
    /\ k <= Len(s) /\ s[k] \in Leads
    /\ k + Width[s[k]] - 1 > MaxPreview

(***************************************************************************)
(* Which contents the index can hold: truncatePreview counts bytes, so a   *)
(* post is refused, and its event fails on every retry, exactly if the cut *)
(* falls inside a rune, or a NUL is among the bytes that are kept.  The    *)
(* preview never exceeds MaxPreview by more than its ellipsis.             *)
(***************************************************************************)
RefusedIfCutInsideRune ==
  pc = "inserted" =>
    /\ Len(preview) <= MaxPreview + Len(Ellipsis)
    /\ stored <=>
         /\ \A k \in DOMAIN text : k <= MaxPreview => text[k] # Nul
         /\ Len(text) > MaxPreview => ~CutInsideRune(text)

\* Reference: the number the first k characters of s stand for.
ValueOf(s) ==
  LET value[k \in 0..Len(s)] ==
        IF k = 0 THEN 0 ELSE value[k - 1] * 10 + Digits[s[k]]
  IN  value[Len(s)]

IsNumber(s) == \A k \in DOMAIN s : s[k] \in DOMAIN Digits

(***************************************************************************)
(* A path is read as the number it stands for if that fits into an int64,  *)
(* and refused if it is none; a longer number is not refused but read as   *)
(* its remainder, and the request goes on with that row.                   *)
(***************************************************************************)
PathReadModulo ==
  pc = "pathRead" =>
    IF ~IsNumber(text) THEN result = Refused
    ELSE /\ (ValueOf(text) - result) % (2 * Half) = 0
         /\ ValueOf(text) < Half => result = ValueOf(text)

(***************************************************************************)
(* Whatever the parameter, the LIMIT of a tag query is a positive int64,   *)
(* also when the number wrapped around on the way.                         *)
(***************************************************************************)
LimitPositive ==
  pc = "paramRead" =>
    /\ result \in 1..(Half - 1)
    /\ IsNumber(text) /\ ValueOf(text) \in 1..(Half - 1) => result = ValueOf(text)
=============================================================================
