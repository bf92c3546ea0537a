-------------------------------- MODULE Base64 --------------------------------
(***************************************************************************)
(* base64_encode and base64_decode (src/src/base64.c).  A byte is a number *)
(* below 256, a character of the text its value in _base64_invcharmap:     *)
(* below 64 in the alphabet, PAD for '=', INVALID for the rest below 128.  *)
(* char is signed, as on the platforms the library is built for: HIGH, any *)
(* char from 128 up, is negative, and reads what stands before the table.  *)
(* Callers encode two bytes at least (xmpp-sasl.c), so that len - 2 does   *)
(* not wrap.                                                               *)
(***************************************************************************)
EXTENDS Integers, SequencesExt

(* The NULL of a decoder that gives up, and what comes of a decoder that   *)
(* writes beyond the bytes it has allocated: anything.                     *)
Nothing == <<-1>>
Overrun == <<-2>>

PAD == 64
INVALID == 65
HIGH == 66

(* The readings of a text: a HIGH char reads as any of the values that may *)
(* stand before the table, where -1 is for those below 0.                  *)
Readings(t, before) ==
  LET high == {i \in 1 .. Len(t) : t[i] = HIGH}
  IN  {[i \in 1 .. Len(t) |-> IF i \in high THEN r[i] ELSE t[i]] : r \in [high -> before]}

Coded(c) == c \in 0 .. PAD - 1

base64_encoded_len(len) == ((len + 2) \div 3) * 4

\* Faulty variant: bytes are taken as unsigned.
WordUnsigned(b0, b1, b2) == b0 * 65536 + b1 * 256 + b2

(* The 24 bits of buffer[i] << 16 | buffer[i + 1] << 8 | buffer[i + 2]: a  *)
(* byte from 128 up is negative, and its sign fills all that stands above. *)
Word(b0, b1, b2) ==
  IF b2 >= 128 THEN 255 * 65536 + 255 * 256 + b2
  ELSE IF b1 >= 128 THEN 255 * 65536 + b1 * 256 + b2
  ELSE b0 * 65536 + b1 * 256 + b2

Hextets(w) == <<w \div 262144, (w \div 4096) % 64, (w \div 64) % 64, w % 64>>

(* The bytes that remain are masked one by one, whatever their sign.       *)
base64_encode(b) ==
  LET groups == Len(b) \div 3
      group(i) == Hextets(Word(b[3 * i - 2], b[3 * i - 1], b[3 * i]))
      x == b[Len(b) - 1]
      y == b[Len(b)]
      rest == CASE Len(b) % 3 = 0 -> <<>>
                [] Len(b) % 3 = 1 -> <<y \div 4, (y % 4) * 16, PAD, PAD>>
                [] Len(b) % 3 = 2 -> <<x \div 4, (x % 4) * 16 + y \div 16, (y % 16) * 4, PAD>>
  IN  FlattenSeq([i \in 1 .. groups |-> group(i)]) \o rest

(* 0 for an ending that no encoding has.  A reading below 0 passes for     *)
(* data here, where it is compared as an int.                              *)
base64_decoded_len(t) ==
  LET n == Len(t)
      nudge == CASE t[n] < PAD -> 0
                 [] t[n] = PAD /\ t[n - 1] < PAD -> 1
                 [] t[n] = PAD /\ t[n - 1] = PAD /\ t[n - 2] < PAD -> 2
                 [] OTHER -> -1
  IN  IF nudge < 0 THEN 0 ELSE 3 * (n \div 4) - nudge

(* The whole quartets before the first character outside the alphabet, as  *)
(* bytes, and that character; no such character reads as 0.                *)
Outside(t) == {i \in 1 .. Len(t) : ~Coded(t[i])}
FirstOutside(t) == CHOOSE i \in Outside(t) : \A j \in Outside(t) : i <= j

Quartets(t) ==
  LET whole == IF Outside(t) = {} THEN Len(t) \div 4 ELSE (FirstOutside(t) - 1) \div 4
      bytes(q) == <<t[q - 3] * 4 + t[q - 2] \div 16,
                    (t[q - 2] % 16) * 16 + t[q - 1] \div 4,
                    (t[q - 1] % 4) * 64 + t[q]>>
  IN  [bytes |-> FlattenSeq([i \in 1 .. whole |-> bytes(4 * i)]),
       stop |-> IF Outside(t) = {} THEN 0 ELSE t[FirstOutside(t)]]

(* The bytes of a last quartet with k of them; <<>> when it is not of that *)
(* form, where the code gives up.                                          *)
Remainder(q, k) ==
  CASE k = 1 /\ Coded(q[1]) /\ Coded(q[2]) /\ q[3] = PAD /\ q[4] = PAD ->
         <<q[1] * 4 + q[2] \div 16>>
    [] k = 2 /\ Coded(q[1]) /\ Coded(q[2]) /\ Coded(q[3]) /\ q[4] = PAD ->
         <<q[1] * 4 + q[2] \div 16, (q[2] % 16) * 16 + q[3] \div 4>>
    [] OTHER -> <<>>

Rest(t) == Remainder(SubSeq(t, Len(t) - 3, Len(t)), base64_decoded_len(t) % 3)

(* The bytes that are stored, also by a decoder that gives up later: they  *)
(* are never held against the room, which is dlen and one for the NUL.     *)
Stored(t) == Quartets(t).bytes \o Rest(t)

(* An empty text is read before its start, and gives up.                   *)
base64_decode(t) ==
  LET dlen == base64_decoded_len(t)
      stop == Quartets(t).stop
  IN  IF t = <<>> \/ Len(t) % 4 # 0 THEN Nothing
      ELSE IF Len(Stored(t)) > dlen THEN Overrun
      ELSE IF stop \notin {0, PAD} THEN Nothing
      ELSE IF dlen % 3 # 0 /\ Rest(t) = <<>> THEN Nothing
      ELSE Stored(t)
-----------------------------------------------------------------------------
(* A whole group has only 7-bit bytes, but for bytes with nothing but ones *)
(* before them.                                                            *)
SignIsHarmless(b) ==
  \A g \in 0 .. (Len(b) \div 3) - 1 : \A p \in 2 .. 3 :
    b[3 * g + p] >= 128 => \A q \in 1 .. p - 1 : b[3 * g + q] = 255
=============================================================================
