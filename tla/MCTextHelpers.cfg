\* Contents of up to 5 bytes, cut at 3; numbers of up to 4 digits in 6 bits.
CONSTANTS
  a = a  b = b  space = space  two = two  three = three
  zero = zero  one = one  three3 = three3  nine = nine
  Hash = Hash  Nul = Nul  Dot = Dot  Cont = Cont  Refused = Refused
  TagChars = {a, b}
  Others = {space}
  Leads = {two, three}
  Width <- MCWidth
  Contents <- MCContents
  MaxContent = 5
  MaxPreview = 3
  Digits <- MCDigits
  Paths <- MCPaths
  Params <- MCParams
  MaxNumber = 4
  Half = 32
  DefaultLimit = 20
SPECIFICATION Spec
CHECK_DEADLOCK FALSE
INVARIANTS
  TypeOK
  HashtagsExact
  RefusedIfCutInsideRune
  PathReadModulo
  LimitPositive
