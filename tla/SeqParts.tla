------------------------------- MODULE SeqParts -------------------------------
(***************************************************************************)
(* What the histories do with the arrays of an answer: Array.prototype     *)
(* filter and sort, and sums over one, as recursive functions over         *)
(* first-order arguments, so that theorems can be stated about them.       *)
(***************************************************************************)
EXTENDS Integers, Sequences

\* The items of s at the positions is, in their order.
Those(s, is) ==
  LET those[n \in 0..Len(s)] ==
        IF n = 0 THEN <<>>
        ELSE IF n \in is THEN Append(those[n - 1], s[n]) ELSE those[n - 1]
  IN  those[Len(s)]

\* The positions 1..n by their keys; those of one key stay in their order.
Ranked(key, m) ==
  LET ranked[n \in 0..m] ==
        IF n = 0 THEN <<>>
        ELSE LET r == ranked[n - 1] IN
             [i \in 1..n |->
                IF i < n /\ key[r[i]] <= key[n] THEN r[i]
                ELSE IF i = 1 \/ key[r[i - 1]] <= key[n] THEN n
                ELSE r[i - 1]]
  IN  ranked[m]

\* The items of s by their keys.
Sorted(s, key) == [i \in 1..Len(s) |-> s[Ranked(key, Len(s))[i]]]

\* f[1] + ... + f[m]
SumOf(f, m) ==
  LET sum[n \in 0..m] == IF n = 0 THEN 0 ELSE sum[n - 1] + f[n]
  IN  sum[m]
=============================================================================
