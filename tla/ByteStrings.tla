----------------------------- MODULE ByteStrings -----------------------------
(* Byte sequences as a stream is read: positions count from 0.               *)
EXTENDS Integers, Sequences

Least(a, b) == IF a < b THEN a ELSE b

Take(s, n) == SubSeq(s, 1, Least(n, Len(s)))

Drop(s, n) == SubSeq(s, n + 1, Len(s))

(* The n bytes from position pos on; fewer where the sequence ends. *)
Slice(s, pos, n) == Take(Drop(s, pos), n)

Positions(s, b) == {i \in 0 .. Len(s) - 1 : s[i + 1] = b}

(* The position of the first b, -1 if there is none. *)
Find(s, b) ==
  IF Positions(s, b) = {} THEN -1
  ELSE CHOOSE i \in Positions(s, b) : \A j \in Positions(s, b) : i <= j
=============================================================================
