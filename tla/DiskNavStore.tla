---------------------------- MODULE DiskNavStore ----------------------------
(***************************************************************************)
(* diskNavStore (nav_store.go): the nav service's state in memory, guarded *)
(* by one mutex and mirrored to a JSON file by write-to-tmp-then-rename.   *)
(*                                                                         *)
(* mutate is split where something else can happen: another goroutine      *)
(* queues for the mutex, a file operation fails, or the process dies.  The *)
(* navState itself is opaque: Apply stands for the function mutate is      *)
(* given, and the functions the service really passes are in NavService.   *)
(***************************************************************************)
CONSTANTS
  Clients,      \* goroutines: API handlers and the arrival poller
  Ops,          \* the functions passed to mutate
  UserOps,      \* those passed with userDriven = true
  Values,       \* navState values
  Empty,        \* the zero navState
  Migrations,   \* results of goalFromLegacy on the old file, one per "now"
  Rejected,     \* a function's error
  Apply(_, _),  \* Apply(op, value): the new value, or Rejected
  NoFile, Partial, LegacyFile,  \* file contents other than a whole navState
  None          \* no goroutine, no function

ASSUME StoreAssumption ==
  /\ Empty \in Values
  /\ Migrations \subseteq Values /\ Migrations # {}
  /\ UserOps \subseteq Ops
  /\ Rejected \notin Values
  /\ {NoFile, Partial, LegacyFile} \cap Values = {}
  /\ NoFile # Partial /\ NoFile # LegacyFile /\ Partial # LegacyFile
  /\ None \notin Clients \cup Ops
  /\ \A o \in Ops, v \in Values : Apply(o, v) \in Values \cup {Rejected}

VARIABLES
  up,       \* is a module process running
  mem,      \* s.state
  disk,     \* the file at s.path
  tmp,      \* the file at s.path + ".tmp"
  holder,   \* who holds s.mu
  pc,       \* where each client is in mutate
  op,       \* the function each client passes
  prev,     \* mutate's prev: the clone to roll back to
  backup,   \* the timestamped copy the mutation in progress wrote, if any
  reply     \* how each client's last mutate returned

vars == <<up, mem, disk, tmp, holder, pc, op, prev, backup, reply>>

Files == Values \cup {NoFile, Partial, LegacyFile}
Stages == {"idle", "want", "locked", "applied", "saving", "written", "renamed"}

(* load: what a starting process makes of the file.  A half-written file   *)
(* does not unmarshal and the service does not start.                      *)
Loads(file) ==
  CASE file = NoFile     -> {Empty}
    [] file = LegacyFile -> Migrations
    [] file = Partial    -> {}
    [] OTHER             -> {file}

Init ==
  /\ up = TRUE
  /\ disk \in {NoFile, LegacyFile}
  /\ mem \in Loads(disk)
  /\ tmp = NoFile
  /\ holder = None
  /\ pc = [c \in Clients |-> "idle"]
  /\ op = [c \in Clients |-> None]
  /\ prev = Empty
  /\ backup = NoFile
  /\ reply = [c \in Clients |-> "none"]

Invoke(c, o) ==
  /\ up /\ pc[c] = "idle"
  /\ pc' = [pc EXCEPT ![c] = "want"]
  /\ op' = [op EXCEPT ![c] = o]
  /\ reply' = [reply EXCEPT ![c] = "none"]
  /\ UNCHANGED <<up, mem, disk, tmp, holder, prev, backup>>

(* Mutants: the mutex is not taken; the clone is not made.                 *)
LockShared(c) ==
  /\ pc[c] = "want"
  /\ holder' = c
  /\ prev' = mem
  /\ pc' = [pc EXCEPT ![c] = "locked"]
  /\ UNCHANGED <<up, mem, disk, tmp, op, backup, reply>>

LockWithoutClone(c) ==
  /\ pc[c] = "want" /\ holder = None
  /\ holder' = c
  /\ pc' = [pc EXCEPT ![c] = "locked"]
  /\ UNCHANGED <<up, mem, disk, tmp, op, prev, backup, reply>>

(* s.mu.Lock(); prev := cloneState(s.state)                                *)
Lock(c) ==
  /\ pc[c] = "want" /\ holder = None
  /\ holder' = c
  /\ prev' = mem
  /\ pc' = [pc EXCEPT ![c] = "locked"]
  /\ UNCHANGED <<up, mem, disk, tmp, op, backup, reply>>

(* fn(&s.state) succeeds: memory is ahead of the file from here            *)
ApplyFn(c) ==
  /\ pc[c] = "locked"
  /\ Apply(op[c], mem) # Rejected
  /\ mem' = Apply(op[c], mem)
  /\ pc' = [pc EXCEPT ![c] = IF op[c] \in UserOps THEN "applied" ELSE "saving"]
  /\ UNCHANGED <<up, disk, tmp, holder, op, prev, backup, reply>>

(* The deferred Unlock of a return from mutate.                            *)
Release(c, outcome) ==
  /\ holder' = None
  /\ backup' = NoFile
  /\ pc' = [pc EXCEPT ![c] = "idle"]
  /\ op' = [op EXCEPT ![c] = None]
  /\ reply' = [reply EXCEPT ![c] = outcome]

RejectFn(c) ==
  /\ pc[c] = "locked"
  /\ Apply(op[c], mem) = Rejected
  /\ mem' = prev
  /\ Release(c, "error")
  /\ UNCHANGED <<up, disk, tmp, prev>>

(* Mutant: the copy is of the new state.                                   *)
SnapshotLate(c) ==
  /\ pc[c] = "applied"
  /\ backup' \in {NoFile, Partial, mem}
  /\ pc' = [pc EXCEPT ![c] = "saving"]
  /\ UNCHANGED <<up, mem, disk, tmp, holder, op, prev, reply>>

(* snapshot: best effort; it may leave no copy, or a truncated one         *)
Snapshot(c) ==
  /\ pc[c] = "applied"
  /\ backup' \in {NoFile, Partial, disk}
  /\ pc' = [pc EXCEPT ![c] = "saving"]
  /\ UNCHANGED <<up, mem, disk, tmp, holder, op, prev, reply>>

(* Mutant: WriteFile's error is not looked at.                             *)
WriteTmpUnchecked(c) ==
  /\ pc[c] = "saving"
  /\ tmp' \in {mem, Partial}
  /\ pc' = [pc EXCEPT ![c] = "written"]
  /\ UNCHANGED <<up, mem, disk, holder, op, prev, backup, reply>>

WriteTmp(c) ==
  /\ pc[c] = "saving"
  /\ tmp' = mem
  /\ pc' = [pc EXCEPT ![c] = "written"]
  /\ UNCHANGED <<up, mem, disk, holder, op, prev, backup, reply>>

(* Mutants: memory is not rolled back; the error path keeps the mutex.     *)
SaveFailsAhead(c) ==
  /\ \/ pc[c] = "saving" /\ tmp' \in {tmp, Partial}
     \/ pc[c] = "written" /\ tmp' = tmp
  /\ Release(c, "error")
  /\ UNCHANGED <<up, mem, disk, prev>>

SaveFailsLocked(c) ==
  /\ \/ pc[c] = "saving" /\ tmp' \in {tmp, Partial}
     \/ pc[c] = "written" /\ tmp' = tmp
  /\ mem' = prev
  /\ pc' = [pc EXCEPT ![c] = "idle"]
  /\ op' = [op EXCEPT ![c] = None]
  /\ reply' = [reply EXCEPT ![c] = "error"]
  /\ UNCHANGED <<up, disk, prev, holder, backup>>

(* MkdirAll, WriteFile or Rename returns an error                          *)
SaveFails(c) ==
  /\ \/ pc[c] = "saving" /\ tmp' \in {tmp, Partial}
     \/ pc[c] = "written" /\ tmp' = tmp
  /\ mem' = prev
  /\ Release(c, "error")
  /\ UNCHANGED <<up, disk, prev>>

RenameTmp(c) ==
  /\ pc[c] = "written"
  /\ disk' = tmp
  /\ tmp' = NoFile
  /\ pc' = [pc EXCEPT ![c] = "renamed"]
  /\ UNCHANGED <<up, mem, holder, op, prev, backup, reply>>

Return(c) ==
  /\ pc[c] = "renamed"
  /\ Release(c, "ok")
  /\ UNCHANGED <<up, mem, disk, tmp, prev>>

(* The process dies; a tmp file being written may be left truncated.       *)
Crash ==
  /\ up
  /\ up' = FALSE
  /\ tmp' \in {tmp} \cup (IF \E c \in Clients : pc[c] = "saving" THEN {Partial} ELSE {})
  /\ holder' = None
  /\ pc' = [c \in Clients |-> "idle"]
  /\ reply' = [c \in Clients |-> "none"]
  /\ op' = [c \in Clients |-> None]
  /\ mem' = Empty
  /\ prev' = Empty
  /\ backup' = NoFile
  /\ UNCHANGED disk

(* newDiskNavStore                                                         *)
Start ==
  /\ ~up
  /\ mem' \in Loads(disk)
  /\ up' = TRUE
  /\ UNCHANGED <<disk, tmp, holder, pc, op, prev, backup, reply>>

(* mutate once it has the mutex                                            *)
Proceed(c) ==
  \/ ApplyFn(c) \/ RejectFn(c) \/ Snapshot(c)
  \/ WriteTmp(c) \/ SaveFails(c) \/ RenameTmp(c) \/ Return(c)

Next ==
  \/ \E c \in Clients : (\E o \in Ops : Invoke(c, o)) \/ Lock(c) \/ Proceed(c)
  \/ Crash
  \/ Start

Spec == Init /\ [][Next]_vars

(* sync.Mutex hands the lock to a waiter that has starved for 1 ms, so a   *)
(* waiting goroutine gets it; past that mutate runs straight through.      *)
Fairness ==
  \A c \in Clients : SF_vars(Lock(c)) /\ WF_vars(Proceed(c))

FairSpec == Spec /\ Fairness

-----------------------------------------------------------------------------
TypeOK ==
  /\ up \in BOOLEAN
  /\ mem \in Values /\ prev \in Values
  /\ disk \in Files /\ tmp \in Files
  /\ holder \in Clients \cup {None}
  /\ pc \in [Clients -> Stages]
  /\ op \in [Clients -> Ops \cup {None}]
  /\ backup \in Files
  /\ reply \in [Clients -> {"none", "ok", "error"}]

(* "rolling memory back if fn or the write fails so disk and memory stay   *)
(* in sync" (nav_store.go:260): whenever the mutex is free, memory is what *)
(* a restart would load.                                                   *)
MemoryMatchesFile ==
  up /\ holder = None => mem \in Loads(disk)

(* "tmp+rename to avoid leaving a half-written file on crash"              *)
(* (nav_store.go:124): the file the next start reads is always whole,      *)
(* wherever a previous run died and whatever it left in the tmp file.      *)
FileAlwaysWhole == disk # Partial

(* When a user's change is in place, a whole copy left by its snapshot is  *)
(* of the state it replaced, not of the new one: getting back what a user  *)
(* changed is what the copies are for (nav_store.go:204-226).              *)
BackupHoldsReplacedState ==
  \A c \in Clients :
    pc[c] = "renamed" /\ backup \in Values => backup = prev

(* Every mutation returns unless the process dies: no return path keeps    *)
(* the mutex.                                                              *)
MutateReturns == \A c \in Clients : pc[c] # "idle" ~> pc[c] = "idle"

-----------------------------------------------------------------------------
(* Why the properties hold: what is true at each point of mutate.          *)
Holding == {"locked", "applied", "saving", "written", "renamed"}

(* The mutex is held exactly by the client between Lock and Release.       *)
LockDiscipline ==
  /\ \A c \in Clients : pc[c] \in Holding <=> holder = c
  /\ \A c \in Clients : pc[c] # "idle" => up /\ op[c] \in Ops
  /\ holder = None => backup = NoFile
  /\ ~up => \A c \in Clients : op[c] = None /\ reply[c] = "none"

(* What memory, the clone and the two files are to each other.             *)
StageFacts ==
  \A c \in Clients :
    /\ pc[c] \in Holding \ {"renamed"} => prev \in Loads(disk)
    /\ pc[c] = "locked" => mem = prev
    /\ pc[c] \in Holding \ {"locked"} => mem = Apply(op[c], prev)
    /\ pc[c] = "written" => tmp = mem
    /\ pc[c] = "renamed" => disk = mem
    /\ pc[c] \in {"locked", "applied"} => backup = NoFile
    /\ pc[c] \in Holding /\ backup \in Values => backup = prev

IInv ==
  /\ TypeOK /\ LockDiscipline /\ StageFacts
  /\ MemoryMatchesFile /\ FileAlwaysWhole /\ BackupHoldsReplacedState

-----------------------------------------------------------------------------
(* The refinement: the agreed value is the file's, except that until the   *)
(* first write after a migration it is the state mutations roll back to.   *)
MidMutation == \E c \in Clients : pc[c] \in {"locked", "applied", "saving", "written"}

AbstractVal ==
  CASE disk \in Values   -> disk
    [] disk = NoFile     -> Empty
    [] disk = LegacyFile -> IF ~up THEN CHOOSE m \in Migrations : TRUE
                            ELSE IF MidMutation THEN prev ELSE mem
    [] OTHER             -> Empty

AbstractPhase ==
  [c \in Clients |->
    CASE pc[c] = "idle"    -> "idle"
      [] pc[c] = "renamed" -> "committed"
      [] OTHER             -> "asked"]

Atomic == INSTANCE AtomicNavState
  WITH val <- AbstractVal, migrated <- (disk # LegacyFile), phase <- AbstractPhase

(* Locking, rollback and the rename together make the store atomic and     *)
(* durable: it implements AtomicNavState.                                  *)
ImplementsAtomic == Atomic!Spec
=============================================================================
