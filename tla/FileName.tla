------------------------------ MODULE FileName ------------------------------
(***************************************************************************)
(* The names of the data files, "<number>.db", and the order in which a    *)
(* start goes through them.                                                *)
(***************************************************************************)
EXTENDS Integers, Sequences

(* std::string comparison of the file names "<a>.db" and "<b>.db": the     *)
(* decimal digits are compared from the left, and '.' precedes all digits. *)
PowersOf10 ==    \* BOUND: file numbers have at most nine digits
    <<1, 10, 100, 1000, 10000, 100000, 1000000, 10000000, 100000000, 1000000000>>

Digits(n) == CHOOSE d \in 1..9 :
                 n < PowersOf10[d + 1] /\ (d = 1 \/ PowersOf10[d] <= n)

Digit(n, i) == (n \div PowersOf10[Digits(n) - i + 1]) % 10

NameLess(a, b) ==
    \E p \in 1..Digits(b) :
        /\ \A i \in 1..(p - 1) : i <= Digits(a) /\ Digit(a, i) = Digit(b, i)
        /\ p > Digits(a) \/ Digit(a, p) < Digit(b, p)

(* File f is scanned before file g: the stable files in the order of their *)
(* names, then the active one.                                             *)
FileBefore(active, f, g) == f # active /\ (g = active \/ NameLess(f, g))
=============================================================================
