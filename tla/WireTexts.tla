------------------------------ MODULE WireTexts ------------------------------
(***************************************************************************)
(* The two texts of an index entry that the tool makes itself, digest and  *)
(* time of publication, with the readers that accept them.  Both writers   *)
(* skip their reader: sha256_of_bytes unwraps its verdict and              *)
(* from_utc_datetime does not ask for it.                                  *)
(*                                                                         *)
(* A text is the sequence of its bytes.                                    *)
(***************************************************************************)
EXTENDS Integers, Sequences

Byte == 0 .. 255

Digit(n) == 48 + n

IsDigit(b) == b \in Digit(0) .. Digit(9)

-----------------------------------------------------------------------------
(* ArtifactHash                                                             *)

PREFIX == <<115, 104, 97, 50, 53, 54, 58>>   \* sha256:

Digest == [1 .. 32 -> Byte]

nibble_to_hex(n) == IF n <= 9 THEN Digit(n) ELSE 97 + (n - 10)

\* The high nibble of a byte, then the low one.
encode_lowercase_hex(bytes) ==
  [i \in 1 .. 2 * Len(bytes) |->
     LET byte == bytes[(i + 1) \div 2]
     IN  nibble_to_hex(IF i % 2 = 1 THEN byte \div 16 ELSE byte % 16)]

\* sha256_of_bytes and sha256_of_reader, from the digest on.
sha256_text(digest) == PREFIX \o encode_lowercase_hex(digest)

zero_hash == PREFIX \o [i \in 1 .. 64 |-> Digit(0)]

IsLowerHex(b) == IsDigit(b) \/ b \in 97 .. 102

ArtifactHash_accepts(raw) ==
  /\ Len(raw) = Len(PREFIX) + 64
  /\ \A i \in 1 .. Len(PREFIX) : raw[i] = PREFIX[i]
  /\ \A i \in Len(PREFIX) + 1 .. Len(raw) : IsLowerHex(raw[i])

-----------------------------------------------------------------------------
(* PublishedAt: YYYY-MM-DDTHH:MM:SSZ                                        *)

Dash == 45
Colon == 58
T == 84
Z == 90

IsLeap(year) == year % 4 = 0 /\ (year % 100 # 0 \/ year % 400 = 0)

DaysIn(year, month) ==
  CASE month = 2 -> IF IsLeap(year) THEN 29 ELSE 28
    [] month \in {4, 6, 9, 11} -> 30
    [] OTHER -> 31

IsTime(year, month, day, hour, minute, second) ==
  /\ month \in 1 .. 12 /\ day \in 1 .. DaysIn(year, month)
  /\ hour \in 0 .. 23 /\ minute \in 0 .. 59 /\ second \in 0 .. 59

\* What a clock that keeps UTC can show.
DateTime ==
  {t \in [year : Int, month : 1 .. 12, day : 1 .. 31, hour : 0 .. 23,
          minute : 0 .. 59, second : 0 .. 59] :
     IsTime(t.year, t.month, t.day, t.hour, t.minute, t.second)}

\* {:04} and {:02}
Thousands(n) == Digit(n \div 1000)
Hundreds(n) == Digit((n \div 100) % 10)
Tens(n) == Digit((n \div 10) % 10)
Ones(n) == Digit(n % 10)

\* The text, or none for a year that four digits do not hold.
from_utc_datetime(t) ==
  IF t.year < 0 \/ t.year > 9999 THEN {}
  ELSE {<<Thousands(t.year), Hundreds(t.year), Tens(t.year), Ones(t.year),
          Dash, Tens(t.month), Ones(t.month), Dash, Tens(t.day), Ones(t.day),
          T, Tens(t.hour), Ones(t.hour), Colon, Tens(t.minute), Ones(t.minute),
          Colon, Tens(t.second), Ones(t.second), Z>>}

has_cargo_pubtime_shape(raw) ==
  /\ Len(raw) = 20
  /\ raw[5] = Dash /\ raw[8] = Dash /\ raw[11] = T
  /\ raw[14] = Colon /\ raw[17] = Colon /\ raw[20] = Z
  /\ \A i \in (1 .. 20) \ {5, 8, 11, 14, 17, 20} : IsDigit(raw[i])

Two(raw, i) == 10 * (raw[i] - Digit(0)) + raw[i + 1] - Digit(0)

Year(raw) == 100 * Two(raw, 1) + Two(raw, 3)

PublishedAt_accepts(raw) ==
  /\ has_cargo_pubtime_shape(raw)
  /\ IsTime(Year(raw), Two(raw, 6), Two(raw, 9), Two(raw, 12), Two(raw, 15), Two(raw, 18))

=============================================================================
