------------------------------- MODULE Base64 -------------------------------
(***************************************************************************)
(* base64.cpp and UrlDecode of server/Util.hpp as functions on sequences   *)
(* of character codes.  An exception or a failed assert is the value Bad.  *)
(***************************************************************************)
LOCAL INSTANCE Integers
LOCAL INSTANCE Sequences
LOCAL INSTANCE SequencesExt

Bad == <<-1>>
Newline == 10

(* base64_chars[url]: the character of a 6-bit value. *)
Char(i, url) ==
    CASE i < 26 -> 65 + i
      [] i \in 26 .. 51 -> 97 + (i - 26)
      [] i \in 52 .. 61 -> 48 + (i - 52)
      [] i = 62 -> IF url THEN 45 ELSE 43
      [] i = 63 -> IF url THEN 95 ELSE 47

(* Mutant: only the standard alphabet is accepted. *)
PosOfChar_strict(c) ==
    CASE c \in 65 .. 90 -> c - 65
      [] c \in 97 .. 122 -> (c - 97) + (90 - 65) + 1
      [] c \in 48 .. 57 -> (c - 48) + (90 - 65) + (122 - 97) + 2
      [] c = 43 -> 62
      [] c = 47 -> 63
      [] OTHER -> -1

(* pos_of_char: both alphabets are accepted. *)
PosOfChar(c) ==
    CASE c \in 65 .. 90 -> c - 65
      [] c \in 97 .. 122 -> (c - 97) + (90 - 65) + 1
      [] c \in 48 .. 57 -> (c - 48) + (90 - 65) + (122 - 97) + 2
      [] c \in {43, 45} -> 62
      [] c \in {47, 95} -> 63
      [] OTHER -> -1

(* base64_encode: each group of up to three bytes gives four characters. *)
Encode(s, url) ==
    LET pad == IF url THEN 46 ELSE 61
        in(p) == p <= Len(s)
        Group(p) ==
            <<Char(s[p] \div 4, url),
              Char((s[p] % 4) * 16 + (IF in(p + 1) THEN s[p + 1] \div 16 ELSE 0), url),
              IF in(p + 1)
                THEN Char((s[p + 1] % 16) * 4
                          + (IF in(p + 2) THEN s[p + 2] \div 64 ELSE 0), url)
                ELSE pad,
              IF in(p + 2) THEN Char(s[p + 2] % 64, url) ELSE pad>>
    IN FlattenSeq([k \in 1 .. (Len(s) + 2) \div 3 |-> Group(3 * k - 2)])

(* insert_linebreaks: a newline after every distance characters but the    *)
(* last.                                                                   *)
InsertLinebreaks(s, distance) ==
    IF s = <<>> THEN s ELSE
    [i \in 1 .. Len(s) + (Len(s) - 1) \div distance |->
        IF i % (distance + 1) = 0 THEN Newline
                                  ELSE s[i - i \div (distance + 1)]]

(* base64_decode: at() throws on a group of one character, pos_of_char on  *)
(* a character that is not in the alphabet.                                *)
Decode(e, removeLinebreaks) ==
    LET s == IF removeLinebreaks
               THEN SelectSeq(e, LAMBDA c : c # Newline) ELSE e
        used(p) == p <= Len(s) /\ s[p] \notin {61, 46}
        pos(p) == PosOfChar(s[p])
        Group(p) ==
            <<pos(p) * 4 + pos(p + 1) \div 16>>
            \o (IF used(p + 2)
                  THEN <<(pos(p + 1) % 16) * 16 + pos(p + 2) \div 4>>
                       \o (IF used(p + 3)
                             THEN <<(pos(p + 2) % 4) * 64 + pos(p + 3)>>
                             ELSE <<>>)
                  ELSE <<>>)
        groups == (Len(s) + 3) \div 4
        read(p) == {p, p + 1} \cup (IF used(p + 2)
                      THEN {p + 2} \cup (IF used(p + 3) THEN {p + 3} ELSE {})
                      ELSE {})
    IN IF \A k \in 1 .. groups : \A p \in read(4 * k - 3) :
              p <= Len(s) /\ pos(p) # -1
         THEN FlattenSeq([k \in 1 .. groups |-> Group(4 * k - 3)])
         ELSE Bad

(* ToHex and FromHex. *)
ToHex(x) == IF x > 9 THEN x + 55 ELSE x + 48
FromHex(c) ==
    CASE c \in 65 .. 90 -> c - 65 + 10
      [] c \in 97 .. 122 -> c - 97 + 10
      [] c \in 48 .. 57 -> c - 48
      [] OTHER -> -1

(* UrlDecode: decoded[i] is what is made of the characters before i; a     *)
(* char holds its value modulo 256.                                        *)
UrlDecode(s) ==
    LET hex(i) == i <= Len(s) /\ FromHex(s[i]) # -1
        rest[i \in 1 .. Len(s) + 1] ==
            IF i > Len(s) THEN <<>>
            ELSE IF s[i] # 37
              THEN IF rest[i + 1] = Bad THEN Bad ELSE <<s[i]>> \o rest[i + 1]
            ELSE IF ~hex(i + 1) \/ ~hex(i + 2) THEN Bad
            ELSE IF rest[i + 3] = Bad THEN Bad
            ELSE <<(FromHex(s[i + 1]) * 16 + FromHex(s[i + 2])) % 256>>
                 \o rest[i + 3]
    IN rest[1]

(* What a browser's percent-encoding sends for a byte sequence. *)
UrlEncode(s) == FlattenSeq([i \in DOMAIN s |->
                   <<37, ToHex(s[i] \div 16), ToHex(s[i] % 16)>>])
=============================================================================
