------------------------------- MODULE MCGrid -------------------------------
(* The screens of Grid's runs: from one column, where a wide character has    *)
(* no room, to three, so that a resize breaks lines anew in both directions;  *)
(* each has two rows at least, for a line to continue on.                     *)
EXTENDS Grid

Columns == 1..3
RowsFor(columns) == AtLeast(columns, 2)

GridSizes == {<<columns, RowsFor(columns)>> : columns \in Columns}
=============================================================================
