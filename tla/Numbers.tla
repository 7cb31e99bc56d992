-------------------------------- MODULE Numbers --------------------------------
(* convert() and convertHex() of base/log/LogStream.cc: integers to text. *)
EXTENDS CDivision, Sequences, SequencesExt

(* The table runs both ways from its zero, for remainders of either sign. *)
digits == <<"9", "8", "7", "6", "5", "4", "3", "2", "1", "0",
            "1", "2", "3", "4", "5", "6", "7", "8", "9">>

(* Mutant of zero: the table holds each digit once, as digitsHex does. *)
zero_OneSided(lsd) == digits[10 + (lsd % 10)]

zero(lsd) == digits[10 + lsd]

(* The digits of i, the least significant first *)
Digits[i \in Int] ==
  LET q == CDiv(i, 10)
  IN <<zero(CMod(i, 10))>> \o IF q = 0 THEN <<>> ELSE Digits[q]

convert(value) == Reverse(Digits[value] \o IF value < 0 THEN <<"-">> ELSE <<>>)

digitsHex == <<"0", "1", "2", "3", "4", "5", "6", "7", "8", "9", "A", "B", "C", "D", "E", "F">>

HexDigits[i \in Nat] ==
  <<digitsHex[(i % 16) + 1]>> \o IF i < 16 THEN <<>> ELSE HexDigits[i \div 16]

convertHex(value) == Reverse(HexDigits[value])

=============================================================================
