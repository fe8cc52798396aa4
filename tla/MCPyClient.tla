----------------------------- MODULE MCPyClient -----------------------------
(* Small instances of PyClient: two generators over filings with lines of     *)
(* every kind, asked for rows in any order.                                   *)
EXTENDS PyClient

CONSTANTS g1, g2, A, B

Line(f, odd, bad) == [form |-> f, odd |-> odd, bad |-> bad]
AllLines == {Line(f, odd, bad) : f \in {A, B}, odd \in BOOLEAN, bad \in BOOLEAN}
UpTo(n, S) == UNION {[1..k -> S] : k \in 0..n}

\* Up to two lines of any kind, and three that are even, odd, or odd but the last.
MCFilings == UpTo(2, AllLines)
               \cup [1..3 -> {Line(f, FALSE, FALSE) : f \in {A, B}}]
               \cup {[i \in 1..3 |-> Line(A, TRUE, i = b)] : b \in 0..3}
               \cup {[i \in 1..3 |-> Line(A, i < 3, FALSE)]}

\* Filings whose lines are all even, or all odd.
MCPairs == UpTo(3, {Line(f, FALSE, FALSE) : f \in {A, B}})
             \cup {[i \in 1..k |-> Line(A, TRUE, FALSE)] : k \in 1..3}
=============================================================================
