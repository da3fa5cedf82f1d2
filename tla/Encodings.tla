----------------------------- MODULE Encodings -----------------------------
(***************************************************************************)
(* The conversions of libdevcore and libethcore that people and files see: *)
(* Base64, hexadecimal, big-endian numbers, and ICAP addresses with their  *)
(* check digits.  A string is a sequence of character codes.  A value is   *)
(* written, one character may be mistyped on the way, and it is read back. *)
(***************************************************************************)
EXTENDS Integers, Sequences, SequencesExt, FiniteSetsExt

CONSTANTS
    ByteStrings,    \* byte strings to write
    Numbers,        \* numbers to write big-endian
    c_addressBytes, \* Address::size, 20 in the code
    c_directDigits, \* base-36 digits every direct address is padded to, 30 in the code
    Directs,        \* addresses for direct ICAP
    Institutions, ClientIds,   \* names for indirect ICAP
    Mistypes        \* characters a character may be mistyped as

VARIABLES written, text, readBack

encodingVars == <<written, text, readBack>>

nothing == [kind |-> "nothing", value |-> <<>>]
rejected == [kind |-> "refused", value |-> <<>>]

EncodingsInit == written = nothing /\ text = <<>> /\ readBack = nothing

-----------------------------------------------------------------------------
\* Characters.

isDigit(c) == c \in 48..57
isUpper(c) == c \in 65..90
isLower(c) == c \in 97..122
toUpper(c) == IF isLower(c) THEN c - 32 ELSE c

base64_chars == [i \in 0..63 |->
    IF i < 26 THEN 65 + i ELSE IF i < 52 THEN 71 + i ELSE IF i < 62 THEN i - 4
    ELSE IF i = 62 THEN 43 ELSE 47]

\* the index of a character, 64 for one that is not of the alphabet
find_base64_char_index(c) ==
    IF \E i \in 0..63 : base64_chars[i] = c THEN CHOOSE i \in 0..63 : base64_chars[i] = c ELSE 64

fromHexChar(c) ==
    IF isDigit(c) THEN c - 48
    ELSE IF c \in 97..102 THEN c - 87 ELSE IF c \in 65..70 THEN c - 55 ELSE -1

\* A list cut into groups of n, the last one shorter
groups(s, n) ==
    [g \in 1..((Len(s) + n - 1) \div n) |-> SubSeq(s, n * g - n + 1, IF n * g < Len(s) THEN n * g ELSE Len(s))]

padded(s, n, filler) == s \o [i \in 1..(n - Len(s)) |-> filler]

-----------------------------------------------------------------------------
\* Base64: three bytes are four characters; what is left of the last group is
\* cut to one character more than it has bytes, and filled with '='.

sextets(b) == <<b[1] \div 4, (b[1] % 4) * 16 + (b[2] \div 16), (b[2] % 16) * 4 + (b[3] \div 64), b[3] % 64>>

toBase64(bytes) ==
    FlattenSeq([g \in 1..Len(groups(bytes, 3)) |->
        LET group == groups(bytes, 3)[g]
            six == sextets(padded(group, 3, 0))
        IN  padded([i \in 1..(Len(group) + 1) |-> base64_chars[six[i]]], 4, 61)])

octets(x) ==
    <<(x[1] * 4 + ((x[2] \div 16) % 4)) % 256,
      ((x[2] % 16) * 16 + ((x[3] \div 4) % 16)) % 256,
      ((x[3] % 4) * 64 + x[4]) % 256>>

\* mutant: the last group gives a byte for every character
keptOfAll(n) == IF n > 3 THEN 3 ELSE n

\* how many bytes a group of n characters gives
kept(n) == n - 1

fromBase64(string) ==
    LET stops == {i \in 1..Len(string) : find_base64_char_index(string[i]) = 64}
        body == IF stops = {} THEN string ELSE SubSeq(string, 1, Min(stops) - 1)
    IN  FlattenSeq([g \in 1..Len(groups(body, 4)) |->
            LET group == groups(body, 4)[g]
                x == [i \in 1..4 |-> IF i <= Len(group) THEN find_base64_char_index(group[i]) ELSE 64]
            IN  SubSeq(octets(x), 1, kept(Len(group)))])

-----------------------------------------------------------------------------
\* Hexadecimal, and big-endian numbers in as few bytes as they need.

hexDigit(n) == IF n < 10 THEN 48 + n ELSE 87 + n

toHex(bytes) == FlattenSeq([i \in 1..Len(bytes) |-> <<hexDigit(bytes[i] \div 16), hexDigit(bytes[i] % 16)>>])

\* an odd number of digits gives the first one a byte of its own; one bad
\* digit and the whole is the empty string
fromHex(string) ==
    LET body == IF Len(string) >= 2 /\ string[1] = 48 /\ string[2] = 120 THEN SubSeq(string, 3, Len(string)) ELSE string
        digits == [i \in 1..Len(body) |-> fromHexChar(body[i])]
        odd == Len(body) % 2
    IN  IF \E i \in 1..Len(body) : digits[i] = -1 THEN <<>>
        ELSE (IF odd = 1 THEN <<digits[1]>> ELSE <<>>)
             \o [i \in 1..(Len(body) \div 2) |-> digits[odd + 2 * i - 1] * 16 + digits[odd + 2 * i]]

\* the digits of n < 2^24
digitsOf(n, base) ==
    LET places == {k \in 0..(IF base = 256 THEN 2 ELSE 4) : base^k <= n}
    IN  [i \in 1..Cardinality(places) |-> (n \div base^(Cardinality(places) - i)) % base]

toCompactBigEndian(n) == digitsOf(n, 256)
fromBigEndian(bytes) == FoldLeft(LAMBDA n, b : n * 256 + b, 0, bytes)

-----------------------------------------------------------------------------
\* ICAP.

toBase36(n) == LET d == digitsOf(n, 36) IN
    [i \in 1..Len(d) |-> IF d[i] < 10 THEN 48 + d[i] ELSE 55 + d[i]]
fromBase36(string) ==
    FoldLeft(LAMBDA n, c : (n * 36 + (IF c < 65 THEN c - 48 ELSE c - 55)) % 256^c_addressBytes, 0, string)

\* the number the string is, letters counting two digits, modulo 97
checksum(string) ==
    FoldLeft(LAMBDA n, c : IF c >= 65 THEN (n * 100 + c - 55) % 97 ELSE (n * 10 + c - 48) % 97, 0, string)

iban(country, data) ==
    LET check == 98 - checksum(data \o country \o <<48, 48>>)
    IN  country \o <<48 + (check \div 10), 48 + (check % 10)>> \o data

XE == <<88, 69>>
XET == <<88, 69, 84>>

directICAP(address) ==
    LET d == toBase36(address)
    IN  iban(XE, IF Len(d) >= c_directDigits THEN d ELSE [i \in 1..(c_directDigits - Len(d)) |-> 48] \o d)

indirectICAP(institution, client) == iban(XE, XET \o institution \o client)

\* decoded: what fromIBAN makes of the string, and what the data stands for
decoded(string) ==
    LET upper == [i \in 1..Len(string) |-> toUpper(string[i])]
        country == SubSeq(upper, 1, 2)
        data == SubSeq(upper, 5, Len(upper))
    IN  IF Len(upper) < 4 \/ iban(country, data) # upper \/ country # XE THEN rejected
        ELSE IF Len(data) \in {c_directDigits, c_directDigits + 1}
             THEN [kind |-> "direct", value |-> <<fromBase36(data)>>]
        ELSE IF Len(data) = 16 /\ SubSeq(data, 1, 3) = XET
             THEN [kind |-> "indirect", value |-> <<SubSeq(data, 4, 7), SubSeq(data, 8, 16)>>]
        ELSE rejected

-----------------------------------------------------------------------------
WriteText(kind, value, string) ==
    /\ written = nothing
    /\ written' = [kind |-> kind, value |-> value] /\ text' = string
    /\ UNCHANGED readBack

Encode ==
    \/ \E b \in ByteStrings : WriteText("base64", b, toBase64(b)) \/ WriteText("hex", b, toHex(b))
    \/ \E n \in Numbers : WriteText("number", <<n>>, toCompactBigEndian(n))
    \/ \E a \in Directs : WriteText("direct", <<a>>, directICAP(a))
    \/ \E i \in Institutions, c \in ClientIds : WriteText("indirect", <<i, c>>, indirectICAP(i, c))

\* a digit of an ICAP mistyped as a digit, or a letter as a letter
Mistype ==
    /\ written.kind \in {"direct", "indirect"} /\ readBack = nothing
    /\ \E i \in 1..Len(text), c \in Mistypes :
         /\ c # text[i] /\ isDigit(c) = isDigit(text[i])
         /\ text' = [text EXCEPT ![i] = c]
    /\ written' = rejected
    /\ UNCHANGED readBack

Decode ==
    /\ written # nothing /\ readBack = nothing
    /\ readBack' = IF written.kind \in {"base64", "hex", "number"}
                   THEN [kind |-> written.kind,
                         value |-> IF written.kind = "base64" THEN fromBase64(text)
                                   ELSE IF written.kind = "hex" THEN fromHex(text) ELSE <<fromBigEndian(text)>>]
                   ELSE decoded(text)
    /\ UNCHANGED <<written, text>>

EncodingsNext == Encode \/ Mistype \/ Decode
EncodingsSpec == EncodingsInit /\ [][EncodingsNext]_encodingVars

-----------------------------------------------------------------------------
\* What is written is what is read, and an ICAP is refused in which one digit is
\* mistyped as another digit, or one letter as another letter, whichever it is.
\* Code: Base64.cpp:50-147, CommonData.cpp:79-107, ICAP.cpp:17-114.
WrittenIsReadBack == readBack # nothing => readBack = written
=============================================================================
