------------------------------- MODULE Amounts -------------------------------
(***************************************************************************)
(* Amounts as the Python code writes them: a node or a collector counts in *)
(* the smallest unit of a coin, rows and answers hold a decimal text.  The *)
(* conversions cut the digits of the number with slices, so that it is     *)
(* their borders that matter: numbers with fewer digits than the coin has  *)
(* decimals, with as many, and those that end in zeros.                    *)
(***************************************************************************)
EXTENDS Naturals, Sequences, SequencesExt

CONSTANT MaxUnits     \* bound of the numbers that are looked at

\* str(n)
digits[n \in 0..MaxUnits] ==
    IF n < 10 THEN <<n>> ELSE Append(digits[n \div 10], n % 10)

Zeros(k) == [j \in 1..k |-> 0]

\* s[:-p] and s[-p:]
WholeOf(s, p) == SubSeq(s, 1, Len(s) - p)
FracOf(s, p)  == SubSeq(s, Len(s) - p + 1, Len(s))

\* s.rstrip('0')
Stripped(s) == SubSeq(s, 1, Max({0} \cup {j \in DOMAIN s : s[j] # 0}))

\* Mutant of FixedText: the fraction is not filled up with zeros.
FixedTextBare(n, p) ==
    LET s == digits[n] IN
    IF Len(s) <= p THEN [whole |-> <<0>>, frac |-> s]
                   ELSE [whole |-> WholeOf(s, p), frac |-> FracOf(s, p)]

\* to_btm_precision_str: all p decimals.  "%.8f" gives the same text.
FixedText(n, p) ==
    LET s == digits[n] IN
    IF Len(s) <= p THEN [whole |-> <<0>>, frac |-> Zeros(p - Len(s)) \o s]
                   ELSE [whole |-> WholeOf(s, p), frac |-> FracOf(s, p)]

\* Mutant of ShortText: the zeros of the whole number are stripped too.
ShortTextEager(n, p) ==
    LET s == digits[n] IN
    IF Len(s) <= p THEN [whole |-> <<0>>, frac |-> Zeros(p - Len(s)) \o Stripped(s)]
                   ELSE [whole |-> Stripped(WholeOf(s, p)), frac |-> Stripped(FracOf(s, p))]

\* TurnAmountFromEth: without the zeros at the end, but for 0 itself.
ShortText(n, p) ==
    LET s     == digits[n]
        short == IF Stripped(s) = << >> THEN s ELSE Stripped(s)
    IN  IF Len(s) <= p THEN [whole |-> <<0>>, frac |-> Zeros(p - Len(s)) \o short]
                       ELSE [whole |-> WholeOf(s, p), frac |-> Stripped(FracOf(s, p))]

\* What a text is worth, in units of p decimals.
UnitsOf(text, p) ==
    FoldLeft(LAMBDA n, d : 10 * n + d, 0, text.whole \o text.frac \o Zeros(p - Len(text.frac)))
=============================================================================
