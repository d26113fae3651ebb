------------------------------ MODULE MCLoader ------------------------------
(***************************************************************************)
(* Small instances of Loader.                                              *)
(***************************************************************************)
EXTENDS Loader

\* A whole file, one without users, one with users written as an empty list,
\* one whose prefix section has the wrong type, one with a syntax error.
MCShapes ==
    {Whole,
     [Whole EXCEPT !.given = {"secrets", "prefix"}],
     [Whole EXCEPT !.empty = {"users"}],
     [Whole EXCEPT !.broken = {"prefix"}],
     [Whole EXCEPT !.ok = FALSE]}

\* The third edit serves nobody; the second denies everyone.
MCServes == [e \in 1..(MaxEdits + 1) |-> IF e = 3 THEN {} ELSE Remote]
MCDenies == [e \in 1..(MaxEdits + 1) |-> IF e = 2 THEN Remote ELSE {}]

=============================================================================
