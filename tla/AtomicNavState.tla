--------------------------- MODULE AtomicNavState ---------------------------
(***************************************************************************)
(* What the nav service needs of its store, without files, locks or        *)
(* rollback: one navState value that operations transform atomically.  An  *)
(* operation that reports success has been applied and survives a restart, *)
(* one that reports an error left no trace, and mutations never overlap.   *)
(* DiskNavStore implements this.                                           *)
(***************************************************************************)

CONSTANTS
  Clients,      \* goroutines that call into the store
  Ops,          \* the mutations the service passes to mutate
  Values,       \* navState values
  Empty,        \* the state of a store that never had a file
  Migrations,   \* what migrating the pre-v2 file yields (StartedAt is "now")
  Rejected,     \* the result of a mutation that returns an error
  None,         \* no mutation
  Apply(_, _)   \* Apply(op, value): the new value, or Rejected

VARIABLES
  val,          \* the navState every client agrees on
  migrated,     \* FALSE while val only exists as a migration of the old file
  phase,        \* where each client's mutation is
  op,           \* the mutation each client asked for
  reply         \* how each client's last mutation ended

avars == <<val, migrated, phase, op, reply>>

Init ==
  /\ \/ migrated = TRUE  /\ val = Empty
     \/ migrated = FALSE /\ val \in Migrations
  /\ phase = [c \in Clients |-> "idle"]
  /\ op = [c \in Clients |-> None]
  /\ reply = [c \in Clients |-> "none"]

Invoke(c, o) ==
  /\ phase[c] = "idle"
  /\ phase' = [phase EXCEPT ![c] = "asked"]
  /\ op' = [op EXCEPT ![c] = o]
  /\ reply' = [reply EXCEPT ![c] = "none"]
  /\ UNCHANGED <<val, migrated>>

Commit(c) ==
  /\ phase[c] = "asked"
  /\ Apply(op[c], val) # Rejected
  /\ val' = Apply(op[c], val)
  /\ migrated' = TRUE
  /\ phase' = [phase EXCEPT ![c] = "committed"]
  /\ UNCHANGED <<op, reply>>

Succeed(c) ==
  /\ phase[c] = "committed"
  /\ phase' = [phase EXCEPT ![c] = "idle"]
  /\ op' = [op EXCEPT ![c] = None]
  /\ reply' = [reply EXCEPT ![c] = "ok"]
  /\ UNCHANGED <<val, migrated>>

Fail(c) ==
  /\ phase[c] = "asked"
  /\ phase' = [phase EXCEPT ![c] = "idle"]
  /\ op' = [op EXCEPT ![c] = None]
  /\ reply' = [reply EXCEPT ![c] = "error"]
  /\ UNCHANGED <<val, migrated>>

(* A restart forgets the calls in progress and keeps the value; a value    *)
(* that was only ever migrated is migrated afresh.                         *)
Restart ==
  /\ IF migrated THEN val' = val ELSE val' \in Migrations
  /\ phase' = [c \in Clients |-> "idle"]
  /\ op' = [c \in Clients |-> None]
  /\ reply' = [c \in Clients |-> "none"]
  /\ UNCHANGED migrated

Next ==
  \/ \E c \in Clients :
       \/ \E o \in Ops : Invoke(c, o)
       \/ Commit(c) \/ Succeed(c) \/ Fail(c)
  \/ Restart

Spec == Init /\ [][Next]_avars
=============================================================================
