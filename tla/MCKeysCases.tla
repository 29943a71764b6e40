------------------------------ MODULE MCKeysCases ------------------------------
(***************************************************************************)
(* All the cases of KeysCases, with the faults each is there to catch.     *)
(* TLC evaluates the two assumptions on the texts over small inputs.       *)
(***************************************************************************)
EXTENDS KeysCases

AllCases == DOMAIN Suite
Caught(c) == Suite[c].catches

Bytes == {0, 1, 63, 128, 255}
ShortData == UNION {[1 .. n -> Bytes] : n \in 0 .. 5}

\* base64UrlDecode undoes base64UrlEncode, whatever the length leaves over, padded or not.
ASSUME CodecRoundTrips ==
  \A data \in ShortData, pads \in {<< >>, <<Pad, Pad>>} :
    UrlDecode(UrlEncode(data) \o pads) = data

\* The fields of an entry of a licence, in any order.
Entries(id, value) ==
  {<<f, g, h>> : f, g, h \in {Field(kty, Of(oct)), Field(kid, Of(id)), Field(k, Of(value))}}
WholeEntries(id, value) ==
  {e \in Entries(id, value) : Cardinality({e[1], e[2], e[3]}) = 3}

\* Whatever the order of an entry's fields, the scanner finds the ids and the keys of a
\* licence in the same order, so they pair up by position.
ASSUME ScannerPairs ==
  \A first \in WholeEntries(KidText, KeyText), second \in WholeEntries(<<1, 2>>, <<3, 4>>) :
    LET licence == Object(<<Field(type, Of(temporary)),
                            Field(keys, Array(Object(first) \o <<Punct(",")>> \o Object(second)))>>)
    IN /\ JsonStringValues(licence, kid) = <<KidText, <<1, 2>>>>
       /\ JsonStringValues(licence, k) = <<KeyText, <<3, 4>>>>
===============================================================================
