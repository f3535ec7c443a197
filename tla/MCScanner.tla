----------------------------- MODULE MCScanner -----------------------------
(* Instances of Scanner for TLC.                                           *)
EXTENDS Scanner, TLC

CONSTANTS a, b, c, d

\* Race 1 is between a and b, race 2 between c and d, race 3 between b and d.
First  == [r \in Races |-> <<a, c, b>>[r]]
Second == [r \in Races |-> <<b, d, d>>[r]]

Meetings == {{a, b}, {a, b, c}}

=============================================================================
