----------------------------- MODULE UnitOfWork -----------------------------
(***************************************************************************)
(* What SQLAlchemy's unit of work stores in a column when a session          *)
(* commits: the UPDATE names the columns whose attribute differs from what  *)
(* the session loaded, and leaves every other column as it is now.          *)
(***************************************************************************)

(* Seeded fault: the UPDATE writes every column of a changed row.            *)
FlushedWhole(stored, asLoaded, assigned) == assigned

Flushed(stored, asLoaded, assigned) == IF assigned = asLoaded THEN stored ELSE assigned
=============================================================================
