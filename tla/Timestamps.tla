----------------------------- MODULE Timestamps -----------------------------
(***************************************************************************)
(* The instants the session store keeps, and the text it keeps them as:    *)
(* formatTimestamp (internal/session/values.go) writes time.RFC3339Nano,   *)
(* which drops the trailing zeros of the fraction, and the queries compare *)
(* the columns as text.                                                    *)
(*                                                                         *)
(* An instant is a number of ticks.  A second has Base^Digits of them (in  *)
(* the program 10^9): its fraction is Digits digits below Base.  Everything *)
(* in front of the fraction has a fixed width and is one symbol.           *)
(***************************************************************************)
EXTENDS Integers, Sequences, SequencesExt

CONSTANTS
  Base,    \* digits of the fraction are 0 .. Base - 1
  Digits   \* digits of the fraction

ASSUME RadixAssumption == Base \in Nat \ {0, 1} /\ Digits \in Nat \ {0}

Second == Base^Digits

\* Arithmetic that the provers do not know.
ASSUME SecondAssumption == Second \in Nat \ {0}

Seconds(t) == t \div Second
Fraction(t) ==
  [i \in 1..Digits |-> ((t % Second) \div Base^(Digits - i)) % Base]

\* The symbols of a timestamp in the order of their ASCII codes: the point, the
\* digits, the Z.
Point == -1
Zulu == Base

\* The fraction up to its last digit that is not zero.
Trimmed(digits) ==
  LET kept == {i \in DOMAIN digits : digits[i] # 0}
  IN  SubSeq(digits, 1, Max(kept \union {0}))

formatTimestamp(t) ==
  LET fraction == Trimmed(Fraction(t))
  IN  <<Seconds(t)>>
      \o (IF fraction = <<>> THEN <<>> ELSE <<Point>> \o fraction)
      \o <<Zulu>>

\* parseTimestamp: the instant a text denotes.
parseTimestamp(text) ==
  LET fraction == SubSeq(text, 3, Len(text) - 1)
      Place(i, digit) == digit * Base^(Digits - i)
  IN  text[1] * Second + FoldFunction(+, 0, [i \in DOMAIN fraction |-> Place(i, fraction[i])])

\* The comparison of two texts by SQLite (BINARY collation).
TextBefore(a, b) ==
  \E i \in 1..Len(b) :
     /\ \A j \in 1..(i - 1) : j <= Len(a) /\ a[j] = b[j]
     /\ i <= Len(a) => a[i] < b[i]
     /\ i > Len(a) => i = Len(a) + 1

=============================================================================
