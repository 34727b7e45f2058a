--------------------------- MODULE MCApplication ----------------------------
(***************************************************************************)
(* Instances of Application.  The state space is finite without bounds.     *)
(***************************************************************************)
EXTENDS Application

\* A version row lives in schema_meta, a column in its table.
Real(f) ==
  /\ f.version # 0 => "schema_meta" \in f.has
  /\ "deleted_at" \in f.has => "core" \in f.has

\* Every file, whoever wrote it.
RealFiles == {f \in File : Real(f)}

\* Version 1 files that have a structure of version 3 already.
HalfFiles == {f \in RealFiles : HasLater(f)}

\* No file yet.
NoFile == {[version |-> 0, has |-> {}]}

-----------------------------------------------------------------------------
\* The docstring of Database.initialize: reopening what it has made is
\* idempotent.  So what it began to create opens again.
CreatedIsOpen == Verdict(file) # "refuse"

\* The header of database.py: an incompatible file is refused with zero
\* mutation.
RefusedIsUntouched == Compatible(found) \/ file = found

=============================================================================
