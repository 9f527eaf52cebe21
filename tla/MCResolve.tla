----------------------------- MODULE MCResolve -----------------------------
(* Small instances of Resolve.  The byte values of the characters used.    *)
EXTENDS Resolve

CONSTANTS main, sub

a == 97
b == 98
c == 99
l == 108
m == 109
w == 119
U == 95
D0 == 48
D1 == 49
D2 == 50
D9 == 57
o == Dot

MCSuffix == [d \in DBs |-> IF d = main THEN <<o, l, o, m>> ELSE <<o, w, o, m>>]
In(d, names) == {[db |-> d, name |-> x \o MCSuffix[d]] : x \in names}
Pin(d, ch, p, v) == [db |-> d, channel |-> ch, prefix |-> p, version |-> v]

\* versions of a.b: 1.9, 1.10, 1.9_2, 2, 02; other packages: a.bc, a.b2
MainNames == {<<a, o, b, o, D1, o, D9>>, <<a, o, b, o, D1, o, D1, D0>>,
              <<a, o, b, o, D1, o, D9, U, D2>>, <<a, o, b, o, D2>>,
              <<a, o, b, o, D0, D2>>, <<a, o, b, c, o, D1>>, <<a, o, b, D2, o, D1>>}
SubNames == {<<a, o, b, o, D2>>, <<a, o, b, o, D1, o, D9>>}
MCFiles == In(main, MainNames) \cup In(sub, SubNames)
MCPins == {Pin(main, "stable", <<a, o, b>>, <<D1>>),
           Pin(main, "stable", <<a, o, b>>, <<D1, o, D9>>),
           Pin(main, "testing", <<a, o, b>>, <<D2>>),
           Pin(sub, "stable", <<a, o, b>>, <<D1, o, D9>>)}

\* the names of this instance are those the theorems are about
ASSUME MCNames == AsciiNames /\ ShortNames /\ SuffixLast
============================================================================
