------------------------------ MODULE MCBitMap ------------------------------
(* Two bitmaps and two threads; a word of four bits, an int of three.          *)
EXTENDS BitMap

CONSTANTS x, y, t1, t2

Pair(m, n) == [b \in Maps |-> IF b = x THEN m ELSE n]
\* No step depends on what the last one answered.
AllButAnswer == <<size, words, lock, at>>

\* Within a word, with a word to spare, and two words; equal sizes and different ones.
MCSizes == {Pair(6, 4), Pair(5, 3), Pair(2, 4)}

\* The positions for which 1 << pos is one bit, that bit; and all positions.
FitPositions == {p \in 0 .. 6 : p % WordBits < IntBits - 1}
AllPositions == 0 .. 6

\* The sizes whose smaller one is less than a word or a number of whole words.
FitMerges == {<<m, n>> \in (1 .. 6) \X (1 .. 6) :
                LET least == IF m < n THEN m ELSE n
                IN  least < WordBits \/ least % WordBits = 0}
===============================================================================
