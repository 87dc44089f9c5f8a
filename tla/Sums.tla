-------------------------------- MODULE Sums --------------------------------
(***************************************************************************)
(* The SQL SUM of a column.  The services and repositories take a sum over *)
(* the rows of a table in several places; here it is counted in units of   *)
(* money, so that no recursion and no order of the rows comes into it: a   *)
(* row of +3 has three units in, a row of -2 two units out.                *)
(***************************************************************************)
EXTENDS Integers, FiniteSets

Units(f) == UNION {{r} \X (1 .. f[r]) : r \in DOMAIN f}

Negated(f) == [r \in DOMAIN f |-> -f[r]]

SumOf(f) == Cardinality(Units(f)) - Cardinality(Units(Negated(f)))
=============================================================================
