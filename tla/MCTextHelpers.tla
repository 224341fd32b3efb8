--------------------------- MODULE MCTextHelpers ---------------------------
(***************************************************************************)
(* An instance of TextHelpers for TLC: short texts over a small alphabet.  *)
(***************************************************************************)
EXTENDS TextHelpers, TLC

CONSTANTS a, b, space, two, three, zero, one, three3, nine,
          MaxContent, MaxNumber

MCWidth  == two :> 2 @@ three :> 3
MCDigits == zero :> 0 @@ one :> 1 @@ three3 :> 3 @@ nine :> 9

UpTo(S, m) == UNION {[1..l -> S] : l \in 0..m}

MCContents == {s \in UpTo(Bytes \ {Dot}, MaxContent) : ValidUTF8(s)}
MCParams   == UpTo(DOMAIN MCDigits \cup {a}, MaxNumber)
MCPaths    == MCParams \ {<<>>}
=============================================================================
