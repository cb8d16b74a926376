------------------------------ MODULE MCManBase ------------------------------
(***************************************************************************)
(* Small instances of ManBase for TLC.                                     *)
(***************************************************************************)
EXTENDS ManBase

\* Filled is what the loop of proFillReservedPool does, checked on pools with
\* an empty and with a filled spare list: one AddToFront for each new node.
FilledOneByOne(p, count) ==
  LET f[k \in 0..count] ==
        IF k = 0 THEN p.mem ELSE AddToFront(f[k - 1], reserve, p.total + k)
  IN  f[count]

ASSUME FilledIsTheLoop ==
  LET none == [mem |-> Empty, name |-> [n \in Node |-> Washed],
               total |-> 0, reserved |-> 0, active |-> 0]
  IN  \A first, second \in 0..(MaxNodes \div 2) :
        LET some == Filled(none, first)
        IN  Filled(some, second).mem = FilledOneByOne(some, second)
==============================================================================
