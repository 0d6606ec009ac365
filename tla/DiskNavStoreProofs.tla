------------------------- MODULE DiskNavStoreProofs -------------------------
(***************************************************************************)
(* Proofs about DiskNavStore for any number of clients, any states and any *)
(* mutations: the inductive invariant, and that the store is atomic and    *)
(* durable (it implements AtomicNavState).                                 *)
(***************************************************************************)
EXTENDS DiskNavStore, TLAPS

(* load yields only navStates, and one for every file that is whole.       *)
LEMMA LoadsFacts ==
  /\ \A f \in Files : Loads(f) \subseteq Values
  /\ Loads(NoFile) = {Empty}
  /\ Loads(LegacyFile) = Migrations
  /\ \A v \in Values : Loads(v) = {v}
  BY StoreAssumption DEF Loads, Files

(* The store starts in a state the invariant describes.                    *)
LEMMA InitIInv == Init => IInv
<1> SUFFICES ASSUME Init PROVE IInv
  OBVIOUS
<1>1. mem \in Values
  BY StoreAssumption, LoadsFacts DEF Init, Files
<1>2. TypeOK
  BY <1>1, StoreAssumption DEF Init, TypeOK, Files, Stages
<1>3. LockDiscipline /\ StageFacts /\ BackupHoldsReplacedState
  BY StoreAssumption DEF Init, LockDiscipline, StageFacts, Holding, BackupHoldsReplacedState
<1>4. MemoryMatchesFile /\ FileAlwaysWhole
  BY StoreAssumption DEF Init, MemoryMatchesFile, FileAlwaysWhole
<1> QED
  BY <1>2, <1>3, <1>4 DEF IInv

(* Every operation keeps its variables in their types.                     *)
LEMMA TypeStep == IInv /\ [Next]_vars => TypeOK'
<1> SUFFICES ASSUME IInv, [Next]_vars PROVE TypeOK'
  OBVIOUS
<1> USE DEF IInv, TypeOK
<1>1. ASSUME NEW c \in Clients, NEW o \in Ops, Invoke(c, o) PROVE TypeOK'
  BY <1>1 DEF Invoke, Stages
<1>2. ASSUME NEW c \in Clients, Lock(c) PROVE TypeOK'
  BY <1>2 DEF Lock, Stages
<1>3. ASSUME NEW c \in Clients, ApplyFn(c) PROVE TypeOK'
  <2>1. op[c] \in Ops
    BY <1>3, StoreAssumption DEF ApplyFn, LockDiscipline
  <2>2. mem' \in Values
    BY <1>3, <2>1, StoreAssumption DEF ApplyFn
  <2> QED
    BY <1>3, <2>2 DEF ApplyFn, Stages
<1>4. ASSUME NEW c \in Clients, RejectFn(c) PROVE TypeOK'
  BY <1>4 DEF RejectFn, Release, Stages, Files
<1>5. ASSUME NEW c \in Clients, Snapshot(c) PROVE TypeOK'
  BY <1>5 DEF Snapshot, Stages, Files
<1>6. ASSUME NEW c \in Clients, WriteTmp(c) PROVE TypeOK'
  BY <1>6 DEF WriteTmp, Stages, Files
<1>7. ASSUME NEW c \in Clients, SaveFails(c) PROVE TypeOK'
  BY <1>7 DEF SaveFails, Release, Stages, Files
<1>8. ASSUME NEW c \in Clients, RenameTmp(c) PROVE TypeOK'
  BY <1>8 DEF RenameTmp, Stages, Files
<1>9. ASSUME NEW c \in Clients, Return(c) PROVE TypeOK'
  BY <1>9 DEF Return, Release, Stages, Files
<1>10. CASE Crash
  BY <1>10, StoreAssumption DEF Crash, Stages, Files
<1>11. CASE Start
  BY <1>11, LoadsFacts DEF Start
<1>12. CASE UNCHANGED vars
  BY <1>12 DEF vars
<1> QED
  BY <1>1, <1>2, <1>3, <1>4, <1>5, <1>6, <1>7, <1>8, <1>9, <1>10, <1>11, <1>12
  DEF Next, Proceed

(* The mutex passes from client to client only through Lock and Release.   *)
LEMMA LockStep == IInv /\ [Next]_vars => LockDiscipline'
<1> SUFFICES ASSUME IInv, [Next]_vars PROVE LockDiscipline'
  OBVIOUS
<1> USE StoreAssumption DEF IInv, TypeOK, LockDiscipline, Holding
<1>1. ASSUME NEW c \in Clients, NEW o \in Ops, Invoke(c, o) PROVE LockDiscipline'
  BY <1>1 DEF Invoke
<1>2. ASSUME NEW c \in Clients, Lock(c) PROVE LockDiscipline'
  BY <1>2 DEF Lock
<1>3. ASSUME NEW c \in Clients, ApplyFn(c) PROVE LockDiscipline'
  BY <1>3 DEF ApplyFn
<1>4. ASSUME NEW c \in Clients, RejectFn(c) PROVE LockDiscipline'
  BY <1>4 DEF RejectFn, Release
<1>5. ASSUME NEW c \in Clients, Snapshot(c) PROVE LockDiscipline'
  BY <1>5 DEF Snapshot
<1>6. ASSUME NEW c \in Clients, WriteTmp(c) PROVE LockDiscipline'
  BY <1>6 DEF WriteTmp
<1>7. ASSUME NEW c \in Clients, SaveFails(c) PROVE LockDiscipline'
  BY <1>7 DEF SaveFails, Release
<1>8. ASSUME NEW c \in Clients, RenameTmp(c) PROVE LockDiscipline'
  BY <1>8 DEF RenameTmp
<1>9. ASSUME NEW c \in Clients, Return(c) PROVE LockDiscipline'
  BY <1>9 DEF Return, Release
<1>10. CASE Crash
  BY <1>10 DEF Crash
<1>11. CASE Start
  BY <1>11 DEF Start
<1>12. CASE UNCHANGED vars
  BY <1>12 DEF vars
<1> QED
  BY <1>1, <1>2, <1>3, <1>4, <1>5, <1>6, <1>7, <1>8, <1>9, <1>10, <1>11, <1>12
  DEF Next, Proceed

(* Each stage of mutate establishes what the next one relies on; a client  *)
(* outside the mutex changes none of it.                                   *)
LEMMA StageStep == IInv /\ [Next]_vars => StageFacts'
<1> SUFFICES ASSUME IInv, [Next]_vars PROVE StageFacts'
  OBVIOUS
<1> USE StoreAssumption DEF IInv, TypeOK, LockDiscipline, StageFacts, Holding
<1>1. ASSUME NEW c \in Clients, NEW o \in Ops, Invoke(c, o) PROVE StageFacts'
  BY <1>1 DEF Invoke
<1>2. ASSUME NEW c \in Clients, Lock(c) PROVE StageFacts'
  <2>1. mem \in Loads(disk)
    BY <1>2 DEF Lock, MemoryMatchesFile
  <2> QED
    BY <1>2, <2>1 DEF Lock
<1>3. ASSUME NEW c \in Clients, ApplyFn(c) PROVE StageFacts'
  <2>1. mem = prev /\ backup \in Values => backup = prev
    BY <1>3 DEF ApplyFn
  <2> QED
    BY <1>3, <2>1 DEF ApplyFn
<1>4. ASSUME NEW c \in Clients, RejectFn(c) PROVE StageFacts'
  BY <1>4 DEF RejectFn, Release
<1>5. ASSUME NEW c \in Clients, Snapshot(c) PROVE StageFacts'
  BY <1>5, LoadsFacts DEF Snapshot
<1>6. ASSUME NEW c \in Clients, WriteTmp(c) PROVE StageFacts'
  BY <1>6 DEF WriteTmp
<1>7. ASSUME NEW c \in Clients, SaveFails(c) PROVE StageFacts'
  BY <1>7 DEF SaveFails, Release
<1>8. ASSUME NEW c \in Clients, RenameTmp(c) PROVE StageFacts'
  BY <1>8 DEF RenameTmp
<1>9. ASSUME NEW c \in Clients, Return(c) PROVE StageFacts'
  BY <1>9 DEF Return, Release
<1>10. CASE Crash
  BY <1>10 DEF Crash
<1>11. CASE Start
  BY <1>11 DEF Start
<1>12. CASE UNCHANGED vars
  BY <1>12 DEF vars
<1> QED
  BY <1>1, <1>2, <1>3, <1>4, <1>5, <1>6, <1>7, <1>8, <1>9, <1>10, <1>11, <1>12
  DEF Next, Proceed

(* The three claims of the comments, from the stage facts.                 *)
LEMMA ClaimStep ==
  IInv /\ [Next]_vars
    => MemoryMatchesFile' /\ FileAlwaysWhole' /\ BackupHoldsReplacedState'
<1> SUFFICES ASSUME IInv, [Next]_vars
             PROVE  MemoryMatchesFile' /\ FileAlwaysWhole' /\ BackupHoldsReplacedState'
  OBVIOUS
<1>0. BackupHoldsReplacedState'
  BY StageStep, TypeStep DEF StageFacts, BackupHoldsReplacedState, Holding
<1> USE StoreAssumption, LoadsFacts
    DEF IInv, TypeOK, LockDiscipline, StageFacts, Holding, MemoryMatchesFile, FileAlwaysWhole
<1>1. ASSUME NEW c \in Clients, NEW o \in Ops, Invoke(c, o)
      PROVE  MemoryMatchesFile' /\ FileAlwaysWhole'
  BY <1>1 DEF Invoke
<1>2. ASSUME NEW c \in Clients, Lock(c) PROVE MemoryMatchesFile' /\ FileAlwaysWhole'
  BY <1>2 DEF Lock
<1>3. ASSUME NEW c \in Clients, ApplyFn(c) PROVE MemoryMatchesFile' /\ FileAlwaysWhole'
  BY <1>3 DEF ApplyFn
<1>4. ASSUME NEW c \in Clients, RejectFn(c) PROVE MemoryMatchesFile' /\ FileAlwaysWhole'
  BY <1>4 DEF RejectFn, Release
<1>5. ASSUME NEW c \in Clients, Snapshot(c) PROVE MemoryMatchesFile' /\ FileAlwaysWhole'
  BY <1>5 DEF Snapshot
<1>6. ASSUME NEW c \in Clients, WriteTmp(c) PROVE MemoryMatchesFile' /\ FileAlwaysWhole'
  BY <1>6 DEF WriteTmp
<1>7. ASSUME NEW c \in Clients, SaveFails(c) PROVE MemoryMatchesFile' /\ FileAlwaysWhole'
  BY <1>7 DEF SaveFails, Release
<1>8. ASSUME NEW c \in Clients, RenameTmp(c) PROVE MemoryMatchesFile' /\ FileAlwaysWhole'
  BY <1>8 DEF RenameTmp
<1>9. ASSUME NEW c \in Clients, Return(c) PROVE MemoryMatchesFile' /\ FileAlwaysWhole'
  BY <1>9 DEF Return, Release
<1>10. ASSUME Crash PROVE MemoryMatchesFile' /\ FileAlwaysWhole'
  BY <1>10, Zenon DEF Crash
<1>11. ASSUME Start PROVE MemoryMatchesFile' /\ FileAlwaysWhole'
  BY <1>11, Zenon DEF Start
<1>12. ASSUME UNCHANGED vars PROVE MemoryMatchesFile' /\ FileAlwaysWhole'
  BY <1>12, Zenon DEF vars
<1> QED
  BY <1>0, <1>1, <1>2, <1>3, <1>4, <1>5, <1>6, <1>7, <1>8, <1>9, <1>10, <1>11, <1>12
  DEF Next, Proceed

(* What the store keeps true between two steps, whoever takes them: types, *)
(* who holds the mutex, what each stage of mutate has left in memory and   *)
(* files, and the promises below.                                          *)
THEOREM StoreInvariant == Spec => []IInv
<1>1. IInv /\ [Next]_vars => IInv'
  BY TypeStep, LockStep, StageStep, ClaimStep DEF IInv
<1> QED
  BY InitIInv, <1>1, PTL DEF Spec

(* Every variable of the store keeps its type.                             *)
THEOREM StoreTypes == Spec => []TypeOK
<1>1. IInv => TypeOK
  BY DEF IInv
<1> QED
  BY StoreInvariant, <1>1, PTL

(* Whenever no mutation is in progress, memory holds exactly what a        *)
(* restart would load: "so disk and memory stay in sync".                  *)
THEOREM MemoryStaysInSync == Spec => []MemoryMatchesFile
<1>1. IInv => MemoryMatchesFile
  BY DEF IInv
<1> QED
  BY StoreInvariant, <1>1, PTL

(* No crash or failed write ever leaves a half-written file to load.       *)
THEOREM FileStaysWhole == Spec => []FileAlwaysWhole
<1>1. IInv => FileAlwaysWhole
  BY DEF IInv
<1> QED
  BY StoreInvariant, <1>1, PTL

(* A whole copy taken for a change is of the state before the change.      *)
THEOREM BackupsAreOfReplacedState == Spec => []BackupHoldsReplacedState
<1>1. IInv => BackupHoldsReplacedState
  BY DEF IInv
<1> QED
  BY StoreInvariant, <1>1, PTL

-----------------------------------------------------------------------------
(* The refinement.  First, what the abstract value is in terms of memory.  *)
AbstractValIs ==
  /\ holder = None => AbstractVal = mem
  /\ \A c \in Clients :
       /\ pc[c] \in Holding \ {"renamed"} => AbstractVal = prev
       /\ pc[c] = "renamed" => AbstractVal = mem

(* What a running store refines to, case by case of the file.              *)
LEMMA AbstractValFacts == IInv /\ up => AbstractValIs
<1> SUFFICES ASSUME IInv, up PROVE AbstractValIs
  OBVIOUS
<1> USE StoreAssumption, LoadsFacts
    DEF IInv, TypeOK, LockDiscipline, StageFacts, Holding, MemoryMatchesFile,
        FileAlwaysWhole, Files, AbstractValIs
<1>1. CASE disk \in Values
  BY <1>1 DEF AbstractVal
<1>2. CASE disk = NoFile
  BY <1>2 DEF AbstractVal
<1>3. CASE disk = LegacyFile
  BY <1>3 DEF AbstractVal, MidMutation
<1> QED
  BY <1>1, <1>2, <1>3

(* A store that starts is an atomic state that starts.                     *)
LEMMA RefineInit == Init => Atomic!Init
<1> SUFFICES ASSUME Init PROVE Atomic!Init
  OBVIOUS
<1>1. AbstractVal = mem /\ AbstractPhase = [c \in Clients |-> "idle"]
  BY StoreAssumption, LoadsFacts DEF Init, AbstractVal, AbstractPhase, MidMutation
<1>2. \/ (disk # LegacyFile) = TRUE /\ AbstractVal = Empty
      \/ (disk # LegacyFile) = FALSE /\ AbstractVal \in Migrations
  BY <1>1, StoreAssumption, LoadsFacts DEF Init
<1> QED
  BY <1>1, <1>2 DEF Init, Atomic!Init

(* The same facts, of the next state.                                      *)
LEMMA AbstractValFactsNext == (IInv /\ up => AbstractValIs)'
  BY AbstractValFacts, PTL

(* A step that neither moves the file to a new state nor ends a call is    *)
(* invisible; the rename is the commit.                                    *)
LEMMA RefineStep == IInv /\ IInv' /\ [Next]_vars => [Atomic!Next]_(Atomic!avars)
<1> SUFFICES ASSUME IInv, IInv', [Next]_vars PROVE [Atomic!Next]_(Atomic!avars)
  OBVIOUS
<1> USE StoreAssumption, LoadsFacts
<1>a. (up => AbstractValIs) /\ (up' => AbstractValIs')
  BY AbstractValFacts, AbstractValFactsNext
<1> DEFINE Quiet == UNCHANGED Atomic!avars
<1>1. ASSUME NEW c \in Clients, NEW o \in Ops, Invoke(c, o) PROVE Atomic!Invoke(c, o)
  <2>1. AbstractVal' = AbstractVal
    BY <1>1, <1>a DEF AbstractValIs, Invoke, AbstractVal, MidMutation, IInv, TypeOK
  <2>2. AbstractPhase[c] = "idle" /\ AbstractPhase' = [AbstractPhase EXCEPT ![c] = "asked"]
    BY <1>1 DEF Invoke, AbstractPhase, IInv, TypeOK
  <2> QED
    BY <1>1, <2>1, <2>2 DEF Invoke, Atomic!Invoke
<1>2. ASSUME NEW c \in Clients, Lock(c) PROVE Quiet
  <2>1. AbstractVal' = AbstractVal
    BY <1>2, <1>a DEF AbstractValIs, Lock, IInv, TypeOK, LockDiscipline, Holding
  <2>2. AbstractPhase' = AbstractPhase
    BY <1>2 DEF Lock, AbstractPhase, IInv, TypeOK
  <2> QED
    BY <1>2, <2>1, <2>2 DEF Lock, Atomic!avars
<1>3. ASSUME NEW c \in Clients, ApplyFn(c) PROVE Quiet
  <2>1. AbstractVal' = AbstractVal
    BY <1>3, <1>a DEF AbstractValIs, ApplyFn, IInv, TypeOK, LockDiscipline, Holding
  <2>2. AbstractPhase' = AbstractPhase
    BY <1>3 DEF ApplyFn, AbstractPhase, IInv, TypeOK
  <2> QED
    BY <1>3, <2>1, <2>2 DEF ApplyFn, Atomic!avars
<1>4. ASSUME NEW c \in Clients, RejectFn(c) PROVE Atomic!Fail(c)
  <2>1. AbstractVal' = AbstractVal
    BY <1>4, <1>a DEF AbstractValIs, RejectFn, Release, IInv, TypeOK, LockDiscipline, Holding
  <2>2. AbstractPhase[c] = "asked" /\ AbstractPhase' = [AbstractPhase EXCEPT ![c] = "idle"]
    BY <1>4 DEF RejectFn, Release, AbstractPhase, IInv, TypeOK
  <2> QED
    BY <1>4, <2>1, <2>2 DEF RejectFn, Release, Atomic!Fail
<1>5. ASSUME NEW c \in Clients, Snapshot(c) PROVE Quiet
  <2>1. AbstractVal' = AbstractVal
    BY <1>5, <1>a DEF AbstractValIs, Snapshot, IInv, TypeOK, LockDiscipline, Holding
  <2>2. AbstractPhase' = AbstractPhase
    BY <1>5 DEF Snapshot, AbstractPhase, IInv, TypeOK
  <2> QED
    BY <1>5, <2>1, <2>2 DEF Snapshot, Atomic!avars
<1>6. ASSUME NEW c \in Clients, WriteTmp(c) PROVE Quiet
  <2>1. AbstractVal' = AbstractVal
    BY <1>6, <1>a DEF AbstractValIs, WriteTmp, IInv, TypeOK, LockDiscipline, Holding
  <2>2. AbstractPhase' = AbstractPhase
    BY <1>6 DEF WriteTmp, AbstractPhase, IInv, TypeOK
  <2> QED
    BY <1>6, <2>1, <2>2 DEF WriteTmp, Atomic!avars
<1>7. ASSUME NEW c \in Clients, SaveFails(c) PROVE Atomic!Fail(c)
  <2>1. AbstractVal' = AbstractVal
    BY <1>7, <1>a DEF AbstractValIs, SaveFails, Release, IInv, TypeOK, LockDiscipline, Holding
  <2>2. AbstractPhase[c] = "asked" /\ AbstractPhase' = [AbstractPhase EXCEPT ![c] = "idle"]
    BY <1>7 DEF SaveFails, Release, AbstractPhase, IInv, TypeOK
  <2> QED
    BY <1>7, <2>1, <2>2 DEF SaveFails, Release, Atomic!Fail
<1>8. ASSUME NEW c \in Clients, RenameTmp(c) PROVE Atomic!Commit(c)
  <2>1. /\ AbstractVal = prev /\ AbstractVal' = mem
        /\ mem = Apply(op[c], prev) /\ mem # Rejected
    BY <1>8, <1>a DEF AbstractValIs, RenameTmp, IInv, TypeOK, LockDiscipline, StageFacts, Holding
  <2>2. AbstractPhase[c] = "asked" /\ AbstractPhase' = [AbstractPhase EXCEPT ![c] = "committed"]
    BY <1>8 DEF RenameTmp, AbstractPhase, IInv, TypeOK
  <2>3. (disk' # LegacyFile) = TRUE
    BY <1>8 DEF RenameTmp, IInv, TypeOK, StageFacts
  <2> QED
    BY <1>8, <2>1, <2>2, <2>3 DEF RenameTmp, Atomic!Commit
<1>9. ASSUME NEW c \in Clients, Return(c) PROVE Atomic!Succeed(c)
  <2>1. AbstractVal' = AbstractVal
    BY <1>9, <1>a DEF AbstractValIs, Return, Release, IInv, TypeOK, LockDiscipline, Holding
  <2>2. AbstractPhase[c] = "committed" /\ AbstractPhase' = [AbstractPhase EXCEPT ![c] = "idle"]
    BY <1>9 DEF Return, Release, AbstractPhase, IInv, TypeOK
  <2> QED
    BY <1>9, <2>1, <2>2 DEF Return, Release, Atomic!Succeed
<1>10. ASSUME Crash PROVE Atomic!Restart
  <2>1. AbstractPhase' = [c \in Clients |-> "idle"]
    BY <1>10 DEF Crash, AbstractPhase
  <2>2. IF disk # LegacyFile THEN AbstractVal' = AbstractVal ELSE AbstractVal' \in Migrations
    BY <1>10 DEF Crash, AbstractVal
  <2> QED
    BY <1>10, <2>1, <2>2 DEF Crash, Atomic!Restart
<1>11. ASSUME Start PROVE Atomic!Restart
  <2>1. /\ pc = [c \in Clients |-> "idle"]
        /\ op = [c \in Clients |-> None]
        /\ reply = [c \in Clients |-> "none"]
    BY <1>11 DEF Start, IInv, TypeOK, LockDiscipline
  <2>2. AbstractPhase' = [c \in Clients |-> "idle"]
    BY <1>11, <2>1 DEF Start, AbstractPhase
  <2>3. IF disk # LegacyFile THEN AbstractVal' = AbstractVal ELSE AbstractVal' \in Migrations
    BY <1>11, <2>1 DEF Start, AbstractVal, MidMutation, IInv, FileAlwaysWhole
  <2> QED
    BY <1>11, <2>1, <2>2, <2>3 DEF Start, Atomic!Restart
<1>12. ASSUME UNCHANGED vars PROVE Quiet
  BY <1>12 DEF vars, AbstractVal, AbstractPhase, MidMutation, Atomic!avars
<1> QED
  BY <1>1, <1>2, <1>3, <1>4, <1>5, <1>6, <1>7, <1>8, <1>9, <1>10, <1>11, <1>12
  DEF Next, Proceed, Atomic!Next

(* Mutations through diskNavStore are atomic and durable: for any clients, *)
(* states and mutation functions, whatever fails and wherever the process  *)
(* dies, the store behaves as AtomicNavState.                              *)
THEOREM StoreIsAtomic == Spec => ImplementsAtomic
<1>1. []IInv /\ [][Next]_vars => [][Atomic!Next]_(Atomic!avars)
  BY RefineStep, PTL
<1> QED
  BY RefineInit, StoreInvariant, <1>1, PTL DEF Spec, ImplementsAtomic, Atomic!Spec
=============================================================================
