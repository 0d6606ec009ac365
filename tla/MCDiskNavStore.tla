--------------------------- MODULE MCDiskNavStore ---------------------------
(***************************************************************************)
(* DiskNavStore on navState values that record which operations have been  *)
(* applied, and from which migration, so that a lost, repeated or          *)
(* half-applied one shows.  "add" and "tick" refuse to run twice, as       *)
(* AddLocation does.                                                       *)
(***************************************************************************)
EXTENDS DiskNavStore

MCOps == {"add", "clear", "tick"}
MCUserOps == {"add", "clear"}

Blank == [base |-> "new", done |-> {}]
MCValues == [base : {"new", "old1", "old2"}, done : SUBSET {"add", "tick"}]
MCMigrations == [base : {"old1", "old2"}, done : {{}}]

MCApply(o, v) ==
  CASE o \in v.done -> Rejected
    [] o = "clear"  -> [v EXCEPT !.done = {}]
    [] OTHER        -> [v EXCEPT !.done = @ \cup {o}]
=============================================================================
