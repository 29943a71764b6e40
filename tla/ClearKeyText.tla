----------------------------- MODULE ClearKeyText -----------------------------
(***************************************************************************)
(* The texts of the ClearKey backend: base64url, and the scanner that      *)
(* takes the strings of one field out of a JSON document.  A character is  *)
(* its value, 0 to 63; a document is its tokens, whitespace left out.      *)
(***************************************************************************)
EXTENDS Naturals, Sequences
LOCAL INSTANCE SequencesExt
LOCAL INSTANCE FiniteSetsExt
LOCAL INSTANCE Functions

Pad     == 64  \* '='
Foreign == 65  \* any other character

Octet(data, i) == IF i <= Len(data) THEN data[i] ELSE 0

Characters(data) == (8 * Len(data) + 5) \div 6

\* base64UrlEncode: four characters for three bytes, no padding.
UrlEncode(data) ==
  [j \in 1 .. Characters(data) |->
     LET g    == (j - 1) \div 4
         word == 65536 * Octet(data, 3 * g + 1) + 256 * Octet(data, 3 * g + 2)
                   + Octet(data, 3 * g + 3)
     IN (word \div 64 ^ (3 - ((j - 1) % 4))) % 64]

\* The accumulator wraps: at 32 bits in the code, at 24 here, where TLC's integers end
\* sooner.  Either holds the 12 bits still wanted of it.
AccBits == 24

\* base64UrlDecode, which tolerates padding.  A byte is taken as soon as its last bits
\* have come; the bits left over at the end are dropped.
UrlDecode(text) ==
  LET chars == SelectSeq(text, LAMBDA c : c # Pad)
      acc[i \in 0 .. Len(chars)] ==
        IF i = 0 THEN 0 ELSE (64 * acc[i - 1] + chars[i]) % 2 ^ AccBits
      LastOf(j) == (8 * j + 5) \div 6
  IN [j \in 1 .. (6 * Len(chars)) \div 8 |->
        (acc[LastOf(j)] \div 2 ^ ((6 * LastOf(j)) % 8)) % 256]

\* What the callers accept: a text that decodes, and not to nothing.
Readable(text) == Foreign \notin Range(text) /\ UrlDecode(text) # << >>

-----------------------------------------------------------------------------
Str(chars)    == [str |-> chars]
Punct(mark)   == [punct |-> mark]
IsStr(token)  == "str" \in DOMAIN token

Field(key, value) == <<Str(key), Punct(":")>> \o value
Object(fields) ==
  <<Punct("{")>> \o Head(fields)
    \o FlattenSeq([i \in 1 .. Len(fields) - 1 |-> <<Punct(",")>> \o fields[i + 1]])
    \o <<Punct("}")>>
Array(value) == <<Punct("[")>> \o value \o <<Punct("]")>>

\* The first token of the document that is this one, from p on; none is past its end.
Find(json, token, p) == Min({i \in p .. Len(json) : json[i] = token} \cup {Len(json) + 1})

Strings(tokens) ==
  LET strings == SelectSeq(tokens, IsStr) IN [i \in DOMAIN strings |-> strings[i].str]

\* The strings of the value that starts at p: its own, or those of its array.
ValueAt(json, p) ==
  IF p > Len(json) THEN << >>
  ELSE IF json[p] = Punct("[") THEN Strings(SubSeq(json, p, Find(json, Punct("]"), p)))
  ELSE Strings(<<json[p]>>)

\* jsonStringValues.  The search goes on behind a string taken as the value, or else
\* behind the field's name.
JsonStringValues(json, key) ==
  LET From[p \in 1 .. Len(json) + 2] ==
        LET at    == Find(json, Str(key), p)
            value == Find(json, Punct(":"), at) + 1
            taken == value <= Len(json) /\ IsStr(json[value])
        IN IF at > Len(json) \/ value > Len(json) + 1 THEN << >>
           ELSE ValueAt(json, value) \o From[IF taken THEN value + 1 ELSE at + 1]
  IN From[1]
===============================================================================
