---------------------------- MODULE CurateProofs ----------------------------
(***************************************************************************)
(* Proofs about incremental curation: its types, and the invariants the    *)
(* runs check, for any number of operators, batches and rows, any filter   *)
(* and any number of runs.                                                 *)
(***************************************************************************)
EXTENDS CurateIncremental, TLAPS
-----------------------------------------------------------------------------
\* TypeOK is not inductive: a run that works on a batch works on one there is.
TypeInv == TypeOK /\ \A o \in Operators : run[o].pc \in {"filter", "bloom"} => run[o].batch \in Ids

\* Nothing but the marks of the operators changes from r to s.
SameRun(r, s) ==
  /\ s.pc = r.pc /\ s.batch = r.batch /\ s.bits = r.bits /\ s.sample = r.sample
  /\ s.fate = r.fate
-----------------------------------------------------------------------------
(* What the updates of a run do. *)

LEMMA IdleTyped ==
  \A pc \in Phases :
    /\ [Idle EXCEPT !.pc = pc] \in RunState
    /\ \A k \in Keys : [Idle EXCEPT !.pc = pc].fate[k] = "none"
    /\ [Idle EXCEPT !.pc = pc].pc = pc /\ [Idle EXCEPT !.pc = pc].batch = 0
    /\ [Idle EXCEPT !.pc = pc].sample = {} /\ [Idle EXCEPT !.pc = pc].disturbed = FALSE
<1>1. [k \in Keys |-> "none"] \in [Keys -> Fates]  BY DEF Fates
<1>2. Idle \in RunState  BY <1>1, CurateAssumption DEF Idle, RunState, Phases
<1> QED  BY <1>2 DEF Idle, RunState

LEMMA BecomeRun ==
  ASSUME run \in [Operators -> RunState], NEW o \in Operators, NEW pc \in Phases, Become(o, pc)
  PROVE  /\ run' \in [Operators -> RunState]
         /\ \A p \in Operators : p # o => run'[p] = run[p]
         /\ run'[o].pc = pc /\ run'[o].batch = run[o].batch /\ run'[o].bits = run[o].bits
         /\ run'[o].sample = run[o].sample /\ run'[o].fate = run[o].fate
         /\ run'[o].disturbed = run[o].disturbed
  BY DEF Become, RunState

LEMMA SettleRun ==
  ASSUME run \in [Operators -> RunState], NEW o \in Operators, NEW k \in Keys,
         NEW fate \in Fates, Settle(o, k, fate)
  PROVE  /\ run' \in [Operators -> RunState]
         /\ \A p \in Operators : p # o => run'[p] = run[p]
         /\ run'[o].pc = run[o].pc /\ run'[o].batch = run[o].batch /\ run'[o].bits = run[o].bits
         /\ run'[o].sample = run[o].sample /\ run'[o].disturbed = run[o].disturbed
         /\ run'[o].fate[k] = fate
         /\ \A j \in Keys : j # k => run'[o].fate[j] = run[o].fate[j]
<1> DEFINE f == [run[o].fate EXCEPT ![k] = fate]
<1>1. /\ f \in [Keys -> Fates] /\ f[k] = fate
      /\ \A j \in Keys : j # k => f[j] = run[o].fate[j]
  BY DEF RunState
<1>2. run' = [run EXCEPT ![o] = [run[o] EXCEPT !.fate = f]]  BY DEF Settle
<1> HIDE DEF f
<1> QED  BY <1>1, <1>2 DEF RunState

\* Disturbing the other writers of a dataset changes nothing but their mark.
LEMMA DisturbRun ==
  ASSUME run \in [Operators -> RunState], NEW o \in Operators, NEW b
  PROVE  /\ Disturb(o, b) \in [Operators -> RunState]
         /\ \A p \in Operators : SameRun(run[p], Disturb(o, b)[p])
         /\ Disturb(o, b)[o] = run[o]
         /\ \A p \in Operators : run[p].pc # "filter" => Disturb(o, b)[p] = run[p]
<1>1. \A r \in RunState : /\ [r EXCEPT !.disturbed = TRUE] \in RunState
                          /\ SameRun(r, [r EXCEPT !.disturbed = TRUE])
  BY DEF RunState, SameRun
<1> QED  BY <1>1 DEF Disturb, SameRun

\* The fates StartBatch gives the keys.
FirstFate(o, replays) ==
  [k \in Keys |-> IF k \notin Input(run[o].batch) \cup replays THEN "none"
                  ELSE IF MightContain(run[o].bits, k) THEN "maybe" ELSE "new"]

LEMMA StartBatchRun ==
  ASSUME run \in [Operators -> RunState], NEW o \in Operators, StartBatch(o)
  PROVE  \E replays \in SUBSET run[o].sample :
           /\ run' \in [Operators -> RunState]
           /\ \A p \in Operators : p # o =>
                SameRun(run[p], run'[p]) /\ (run[p].pc # "filter" => run'[p] = run[p])
           /\ run'[o].pc = "filter" /\ run'[o].batch = run[o].batch /\ run'[o].bits = run[o].bits
           /\ run'[o].sample = run[o].sample /\ run'[o].disturbed = FALSE
           /\ run'[o].fate = FirstFate(o, replays)
<1> DEFINE D == Disturb(o, run[o].batch)
<1>1. PICK replays \in Replays(run[o].sample) :
        run' = [D EXCEPT ![o].pc = "filter", ![o].disturbed = FALSE,
                  ![o].fate = FirstFate(o, replays)]
  BY DEF StartBatch, FirstFate
<1>2. replays \in SUBSET run[o].sample  BY DEF Replays
<1>3. FirstFate(o, replays) \in [Keys -> Fates]  BY DEF FirstFate, Fates
<1>4. /\ D \in [Operators -> RunState] /\ D[o] = run[o]
      /\ \A p \in Operators : p # o =>
           SameRun(run[p], D[p]) /\ (run[p].pc # "filter" => D[p] = run[p])
  BY DisturbRun
<1> HIDE DEF D
<1>5. run' = [D EXCEPT ![o] = [D[o] EXCEPT !.pc = "filter", !.disturbed = FALSE,
                                 !.fate = FirstFate(o, replays)]]
  BY <1>1, <1>4 DEF RunState
<1>6. [D[o] EXCEPT !.pc = "filter", !.disturbed = FALSE, !.fate = FirstFate(o, replays)]
        \in RunState
  <2>1. D[o] \in RunState /\ "filter" \in Phases  BY <1>4 DEF Phases
  <2> QED  BY <2>1, <1>3 DEF RunState
<1> QED  BY <1>2, <1>4, <1>5, <1>6 DEF RunState

LEMMA CommitRun ==
  ASSUME run \in [Operators -> RunState], NEW o \in Operators, Commit(o)
  PROVE  /\ run' \in [Operators -> RunState]
         /\ \A p \in Operators : p # o =>
              SameRun(run[p], run'[p]) /\ (run[p].pc # "filter" => run'[p] = run[p])
         /\ run'[o].pc = "bloom" /\ run'[o].batch = run[o].batch /\ run'[o].bits = run[o].bits
         /\ run'[o].sample = run[o].sample /\ run'[o].disturbed = run[o].disturbed
         /\ run'[o].fate = run[o].fate
<1> DEFINE D == Disturb(o, run[o].batch)
<1>1. run' = [D EXCEPT ![o].pc = "bloom"]  BY DEF Commit
<1>2. /\ D \in [Operators -> RunState] /\ D[o] = run[o]
      /\ \A p \in Operators : p # o =>
           SameRun(run[p], D[p]) /\ (run[p].pc # "filter" => D[p] = run[p])
  BY DisturbRun
<1> HIDE DEF D
<1> QED  BY <1>1, <1>2 DEF RunState, Phases

LEMMA AddToBloomRun ==
  ASSUME TypeInv, NEW o \in Operators, AddToBloom(o)
  PROVE  /\ run' \in [Operators -> RunState]
         /\ \A p \in Operators : p # o => run'[p] = run[p]
         /\ run'[o].pc = "next" /\ run'[o].batch = run[o].batch + 1
         /\ run'[o].bits = AddAll(run[o].bits, NewKeys(o)) /\ run'[o].sample = NewKeys(o)
         /\ run'[o].disturbed = FALSE /\ run'[o].fate = [k \in Keys |-> "none"]
<1>1. /\ run \in [Operators -> RunState] /\ NewKeys(o) \in SUBSET Keys
      /\ run[o].bits \in SUBSET Bits /\ run[o].batch \in Ids
  BY DEF TypeInv, TypeOK, NewKeys, RunState, AddToBloom
<1>2. AddAll(run[o].bits, NewKeys(o)) \in SUBSET Bits  BY <1>1 DEF AddAll, Bits
<1>3. run[o].batch + 1 \in 0 .. Batches  BY <1>1, CurateAssumption DEF Ids
<1>4. [k \in Keys |-> "none"] \in [Keys -> Fates]  BY DEF Fates
<1>5. Idle \in RunState /\ Idle.fate = [k \in Keys |-> "none"] /\ Idle.disturbed = FALSE
  BY <1>4, CurateAssumption DEF Idle, RunState, Phases
<1> DEFINE r == [Idle EXCEPT !.pc = "next", !.batch = run[o].batch + 1,
                   !.bits = AddAll(run[o].bits, NewKeys(o)), !.sample = NewKeys(o)]
<1>6. /\ r \in RunState /\ r.pc = "next" /\ r.batch = run[o].batch + 1
      /\ r.bits = AddAll(run[o].bits, NewKeys(o)) /\ r.sample = NewKeys(o)
      /\ r.disturbed = FALSE /\ r.fate = [k \in Keys |-> "none"]
  <2>1. "next" \in Phases  BY DEF Phases
  <2> QED  BY <1>1, <1>2, <1>3, <1>5, <2>1 DEF RunState
<1>7. run' = [run EXCEPT ![o] = r]  BY DEF AddToBloom
<1> HIDE DEF r
<1> QED  BY <1>1, <1>6, <1>7

LEMMA WriteTyped ==
  ASSUME TypeOK, NEW o \in Operators, NEW keys \in SUBSET Keys, Write(o, keys)
  PROVE  /\ data' \in [Ids -> SUBSET (Operators \X Keys)]
         /\ \A b \in Ids : data'[b] = data[b] \cup
              (IF b = run[o].batch THEN {<<o, k>> : k \in keys} ELSE {})
<1>1. {<<o, k>> : k \in keys} \in SUBSET (Operators \X Keys)  OBVIOUS
<1>2. data \in [Ids -> SUBSET (Operators \X Keys)]  BY DEF TypeOK
<1>3. data' = [b \in Ids |-> IF b = run[o].batch THEN data[b] \cup {<<o, k>> : k \in keys}
                             ELSE data[b]]
  BY <1>2 DEF Write
<1> QED  BY <1>1, <1>2, <1>3
-----------------------------------------------------------------------------
\* Every step of an operator keeps the types.
LEMMA TypeStep == TypeInv /\ [Next]_vars => TypeInv'
<1> SUFFICES ASSUME TypeInv, [Next]_vars PROVE TypeInv'  OBVIOUS
<1> USE CurateAssumption
<1>r. run \in [Operators -> RunState] /\ TypeOK  BY DEF TypeInv, TypeOK
<1>p. /\ "list" \in Phases /\ "next" \in Phases /\ "create" \in Phases
      /\ "stopped" \in Phases /\ "done" \in Phases
  BY DEF Phases
<1>1. ASSUME NEW o \in Operators, Start(o) PROVE TypeInv'
  <2>1. run' = [run EXCEPT ![o] = [Idle EXCEPT !.pc = "list"]]  BY <1>1 DEF Start
  <2> QED  BY <1>1, <1>r, <1>p, <2>1, IdleTyped DEF TypeInv, TypeOK, Start
<1>2. ASSUME NEW o \in Operators, ListTables(o) \/ CreateTable(o) PROVE TypeInv'
  <2>1. \E pc \in Phases \ {"filter", "bloom"} : Become(o, pc)
    BY <1>2, <1>p DEF ListTables, CreateTable
  <2>2. /\ run' \in [Operators -> RunState]
        /\ \A p \in Operators : p # o => run'[p] = run[p]
        /\ run'[o].pc \notin {"filter", "bloom"}
    BY <1>r, <2>1, BecomeRun
  <2> QED  BY <1>2, <2>2 DEF TypeInv, TypeOK, ListTables, CreateTable, history
<1>3. ASSUME NEW o \in Operators, StartBatch(o) PROVE TypeInv'
  <2>1. run[o].batch \in Ids  BY <1>3, <1>r DEF StartBatch, RunState, Ids
  <2>2. data' \in [Ids -> SUBSET (Operators \X Keys)]
    <3>1. data' = [data EXCEPT ![run[o].batch] = {}]  BY <1>3 DEF StartBatch
    <3>2. data \in [Ids -> SUBSET (Operators \X Keys)]  BY DEF TypeInv, TypeOK
    <3> QED  BY <3>1, <3>2
  <2> QED  BY <1>3, <1>r, <2>1, <2>2, StartBatchRun DEF TypeInv, TypeOK, StartBatch, SameRun, history
<1>4. ASSUME NEW o \in Operators, NEW k \in Keys, Lookup(o, k) \/ Register(o, k) PROVE TypeInv'
  <2>1. \E fate \in Fates : Settle(o, k, fate)  BY <1>4 DEF Lookup, Register, Fates
  <2> QED  BY <1>4, <1>r, <2>1, SettleRun DEF TypeInv, TypeOK, Lookup, Register
<1>5. ASSUME NEW o \in Operators, Commit(o) PROVE TypeInv'
  <2>1. data' \in [Ids -> SUBSET (Operators \X Keys)]
    BY <1>5, <1>r, WriteTyped DEF Commit, NewKeys
  <2>2. run[o].batch \in Ids  BY <1>5 DEF TypeInv, Commit, Filtered
  <2> QED  BY <1>5, <1>r, <2>1, <2>2, CommitRun DEF TypeInv, TypeOK, Commit, SameRun, history
<1>6. ASSUME NEW o \in Operators, AddToBloom(o) PROVE TypeInv'
  BY <1>6, AddToBloomRun DEF TypeInv, TypeOK, AddToBloom, history
<1>7. ASSUME NEW o \in Operators, Finish(o) PROVE TypeInv'
  <2>1. run' = [run EXCEPT ![o] = [Idle EXCEPT !.pc = "done"]]  BY <1>7 DEF Finish
  <2> QED  BY <1>7, <1>r, <1>p, <2>1, IdleTyped DEF TypeInv, TypeOK, Finish, history
<1>8. ASSUME NEW o \in Operators, Stop(o) PROVE TypeInv'
  <2>1. run' = [run EXCEPT ![o] = [Idle EXCEPT !.pc = "stopped"]]  BY <1>8 DEF Stop
  <2>2. data' \in [Ids -> SUBSET (Operators \X Keys)]
    BY <1>8, <1>r, WriteTyped DEF Stop, NewKeys
  <2> QED  BY <1>8, <1>r, <1>p, <2>1, <2>2, IdleTyped DEF TypeInv, TypeOK, Stop, history
<1>9. CASE UNCHANGED vars  BY <1>9 DEF TypeInv, TypeOK, vars, history
<1> QED  BY <1>1, <1>2, <1>3, <1>4, <1>5, <1>6, <1>7, <1>8, <1>9 DEF Next

LEMMA TypeInit == Init => TypeInv
<1> SUFFICES ASSUME Init PROVE TypeInv  OBVIOUS
<1>1. [k \in Keys |-> "none"] \in [Keys -> Fates]  BY DEF Fates
<1>2. Idle \in RunState /\ Idle.pc = "idle"
  BY <1>1, CurateAssumption DEF Idle, RunState, Phases
<1>3. run \in [Operators -> RunState] /\ \A o \in Operators : run[o].pc = "idle"
  BY <1>2 DEF Init
<1>4. /\ store \subseteq Keys /\ data \in [Ids -> SUBSET (Operators \X Keys)]
      /\ starts \in 0 .. MaxRuns
  BY CurateAssumption DEF Init
<1> QED  BY <1>3, <1>4 DEF Init, TypeInv, TypeOK

LEMMA TypesHold == Spec => []TypeInv
  BY TypeInit, TypeStep, PTL DEF Spec

\* Type correctness of incremental curation, for every number of operators, batches,
\* rows and runs (curate_incremental.py:339-359).
THEOREM TypeCorrect == Spec => []TypeOK
<1>1. TypeInv => TypeOK  BY DEF TypeInv
<1> QED  BY <1>1, TypesHold, PTL
-----------------------------------------------------------------------------
(***************************************************************************)
(* While DynamoDB does not throttle: what a run replays is in the table and *)
(* in its filter; a key it takes for new is of its batch, one it still has *)
(* to look up is of its batch or in the table; what is written was         *)
(* registered, from its own batch.                                         *)
(***************************************************************************)
RunSound(r, keys) ==
  /\ \A k \in r.sample : k \in keys /\ MightContain(r.bits, k)
  /\ \A k \in Keys :
       /\ r.fate[k] = "registered" => k \in keys
       /\ r.fate[k] \in {"new", "registered"} => BatchOf(k) = r.batch
       /\ r.fate[k] = "maybe" => BatchOf(k) = r.batch \/ k \in keys

DataSound == \A b \in Ids : \A row \in data[b] : BatchOf(row[2]) = b /\ row[2] \in store

Sound == ~throttled => (\A o \in Operators : RunSound(run[o], store)) /\ DataSound

LEMMA SoundKept ==
  ASSUME NEW r, NEW s, NEW keys, NEW more, SameRun(r, s), keys \subseteq more,
         RunSound(r, keys)
  PROVE  RunSound(s, more)
  BY DEF SameRun, RunSound

LEMMA IdleSound == \A pc \in Phases : \A keys : RunSound([Idle EXCEPT !.pc = pc], keys)
  BY IdleTyped DEF RunSound

LEMMA InputOfBatch ==
  ASSUME TypeOK, NEW b \in Ids
  PROVE  \A k \in Input(b) : k \in Keys /\ BatchOf(k) = b
  BY CurateAssumption DEF TypeOK, RetryOrigins, Input, Keys, BatchOf, Ids

LEMMA SoundStep == TypeInv /\ Sound /\ [Next]_vars => Sound'
<1> SUFFICES ASSUME TypeInv, Sound, [Next]_vars, ~throttled'
             PROVE  (\A o \in Operators : RunSound(run'[o], store')) /\ DataSound'
  BY DEF Sound
<1>r. run \in [Operators -> RunState] /\ TypeOK  BY DEF TypeInv, TypeOK
<1>p. /\ "list" \in Phases /\ "next" \in Phases /\ "create" \in Phases
      /\ "stopped" \in Phases /\ "done" \in Phases
  BY DEF Phases
<1>1. ASSUME NEW o \in Operators, Start(o)
      PROVE  (\A p \in Operators : RunSound(run'[p], store')) /\ DataSound'
  <2>1. run' = [run EXCEPT ![o] = [Idle EXCEPT !.pc = "list"]] /\ UNCHANGED <<throttled, store, data>>
    BY <1>1 DEF Start
  <2>2. RunSound(run'[o], store')
    <3>1. \E pc \in Phases : run'[o] = [Idle EXCEPT !.pc = pc]  BY <1>r, <1>p, <2>1
    <3> QED  BY <3>1, IdleSound
  <2>3. \A p \in Operators : p # o => RunSound(run'[p], store')  BY <1>r, <2>1 DEF Sound
  <2> QED  BY <2>1, <2>2, <2>3 DEF Sound, DataSound
<1>2. ASSUME NEW o \in Operators, ListTables(o) \/ CreateTable(o)
      PROVE  (\A p \in Operators : RunSound(run'[p], store')) /\ DataSound'
  <2>1. \E pc \in Phases : Become(o, pc)  BY <1>2, <1>p DEF ListTables, CreateTable
  <2>2. UNCHANGED <<throttled, store, data>>  BY <1>2 DEF ListTables, CreateTable, history
  <2>3. \A p \in Operators : SameRun([run[p] EXCEPT !.pc = run'[p].pc], run'[p])
    BY <1>r, <2>1, BecomeRun DEF SameRun, RunState
  <2>4. \A p \in Operators : RunSound([run[p] EXCEPT !.pc = run'[p].pc], store')
    BY <1>r, <2>2 DEF Sound, RunSound, RunState
  <2> QED  BY <2>2, <2>3, <2>4, SoundKept DEF Sound, DataSound
<1>3. ASSUME NEW o \in Operators, StartBatch(o)
      PROVE  (\A p \in Operators : RunSound(run'[p], store')) /\ DataSound'
  <2>1. UNCHANGED <<throttled, store>> /\ data' = [data EXCEPT ![run[o].batch] = {}]
    BY <1>3 DEF StartBatch, history
  <2>2. PICK replays \in SUBSET run[o].sample :
          /\ \A p \in Operators : p # o => SameRun(run[p], run'[p])
          /\ run'[o].batch = run[o].batch /\ run'[o].bits = run[o].bits
          /\ run'[o].sample = run[o].sample /\ run'[o].fate = FirstFate(o, replays)
    BY <1>3, <1>r, StartBatchRun
  <2>3. run[o].batch \in Ids  BY <1>3, <1>r, CurateAssumption DEF StartBatch, RunState, Ids
  <2>4. \A k \in Input(run[o].batch) : BatchOf(k) = run[o].batch  BY <1>r, <2>3, InputOfBatch
  <2>5. \A k \in replays : k \in store /\ MightContain(run[o].bits, k)
    BY <2>1, <2>2 DEF Sound, RunSound
  <2>6. RunSound(run'[o], store')
    BY <2>1, <2>2, <2>4, <2>5 DEF Sound, RunSound, FirstFate
  <2>7. \A p \in Operators : p # o => RunSound(run'[p], store')
    BY <2>1, <2>2, SoundKept DEF Sound
  <2>8. DataSound'  BY <1>r, <2>1 DEF Sound, DataSound, TypeOK
  <2> QED  BY <2>6, <2>7, <2>8
<1>4. ASSUME NEW o \in Operators, NEW k \in Keys, Lookup(o, k)
      PROVE  (\A p \in Operators : RunSound(run'[p], store')) /\ DataSound'
  <2>1. UNCHANGED <<store, data>> /\ ~throttled /\ run[o].fate[k] = "maybe"
    BY <1>4 DEF Lookup, Fate
  <2>2. Settle(o, k, IF k \in store THEN "dropped" ELSE "new")  BY <1>4 DEF Lookup
  <2>3. (IF k \in store THEN "dropped" ELSE "new") \in Fates  BY DEF Fates
  <2>4. /\ \A p \in Operators : p # o => run'[p] = run[p]
        /\ run'[o].batch = run[o].batch /\ run'[o].bits = run[o].bits
        /\ run'[o].sample = run[o].sample
        /\ run'[o].fate[k] = IF k \in store THEN "dropped" ELSE "new"
        /\ \A j \in Keys : j # k => run'[o].fate[j] = run[o].fate[j]
    BY <1>r, <2>2, <2>3, SettleRun
  <2>5. RunSound(run'[o], store')  BY <2>1, <2>4 DEF Sound, RunSound
  <2> QED  BY <2>1, <2>4, <2>5 DEF Sound, DataSound
<1>5. ASSUME NEW o \in Operators, NEW k \in Keys, Register(o, k)
      PROVE  (\A p \in Operators : RunSound(run'[p], store')) /\ DataSound'
  <2>1. /\ store' = store \cup {k} /\ UNCHANGED data /\ ~throttled
        /\ run[o].fate[k] = "new" /\ Settle(o, k, "registered")
    BY <1>5 DEF Register, Fate
  <2>2. "registered" \in Fates  BY DEF Fates
  <2>3. /\ \A p \in Operators : p # o => run'[p] = run[p]
        /\ run'[o].batch = run[o].batch /\ run'[o].bits = run[o].bits
        /\ run'[o].sample = run[o].sample /\ run'[o].fate[k] = "registered"
        /\ \A j \in Keys : j # k => run'[o].fate[j] = run[o].fate[j]
    BY <1>r, <2>1, <2>2, SettleRun
  <2>4. RunSound(run'[o], store')  BY <2>1, <2>3 DEF Sound, RunSound
  <2>5. \A p \in Operators : p # o => RunSound(run'[p], store')
    BY <2>1, <2>3 DEF Sound, RunSound
  <2> QED  BY <2>1, <2>4, <2>5 DEF Sound, DataSound
<1>6. ASSUME NEW o \in Operators, Commit(o)
      PROVE  (\A p \in Operators : RunSound(run'[p], store')) /\ DataSound'
  <2>1. UNCHANGED <<throttled, store>>  BY <1>6 DEF Commit, history
  <2>2. \A p \in Operators : SameRun([run[p] EXCEPT !.pc = run'[p].pc], run'[p])
    BY <1>6, <1>r, CommitRun DEF SameRun, RunState
  <2>3. \A p \in Operators : RunSound([run[p] EXCEPT !.pc = run'[p].pc], store')
    BY <1>r, <2>1 DEF Sound, RunSound, RunState
  <2>4. PICK written \in SUBSET NewKeys(o) : Write(o, written)  BY <1>6 DEF Commit
  <2>5. \A k \in written : k \in Keys /\ BatchOf(k) = run[o].batch /\ k \in store
    BY <2>1, <2>4 DEF NewKeys, Fate, Sound, RunSound
  <2>6. DataSound'  BY <1>r, <2>1, <2>4, <2>5, WriteTyped DEF Sound, DataSound
  <2> QED  BY <2>2, <2>3, <2>6, SoundKept
<1>7. ASSUME NEW o \in Operators, AddToBloom(o)
      PROVE  (\A p \in Operators : RunSound(run'[p], store')) /\ DataSound'
  <2>1. UNCHANGED <<throttled, store, data>>  BY <1>7 DEF AddToBloom, history
  <2>2. \A k \in NewKeys(o) : k \in store /\ MightContain(run'[o].bits, k)
    <3>1. \A k \in NewKeys(o) : k \in Keys /\ run[o].fate[k] = "registered"
      BY DEF NewKeys, Fate
    <3>2. run'[o].bits = AddAll(run[o].bits, NewKeys(o))  BY <1>7, AddToBloomRun
    <3>3. \A k \in NewKeys(o) : MightContain(run'[o].bits, k)
      BY <3>2 DEF MightContain, AddAll
    <3> QED  BY <2>1, <3>1, <3>3 DEF Sound, RunSound
  <2>3. RunSound(run'[o], store')  BY <1>7, <2>1, <2>2, AddToBloomRun DEF RunSound
  <2> QED  BY <1>7, <2>1, <2>3, AddToBloomRun DEF Sound, DataSound
<1>8. ASSUME NEW o \in Operators, Finish(o)
      PROVE  (\A p \in Operators : RunSound(run'[p], store')) /\ DataSound'
  <2>1. run' = [run EXCEPT ![o] = [Idle EXCEPT !.pc = "done"]] /\ UNCHANGED <<throttled, store, data>>
    BY <1>8 DEF Finish, history
  <2>2. RunSound(run'[o], store')
    <3>1. \E pc \in Phases : run'[o] = [Idle EXCEPT !.pc = pc]  BY <1>r, <1>p, <2>1
    <3> QED  BY <3>1, IdleSound
  <2>3. \A p \in Operators : p # o => RunSound(run'[p], store')  BY <1>r, <2>1 DEF Sound
  <2> QED  BY <2>1, <2>2, <2>3 DEF Sound, DataSound
<1>9. ASSUME NEW o \in Operators, Stop(o)
      PROVE  (\A p \in Operators : RunSound(run'[p], store')) /\ DataSound'
  <2>1. run' = [run EXCEPT ![o] = [Idle EXCEPT !.pc = "stopped"]] /\ UNCHANGED <<throttled, store>>
    BY <1>9 DEF Stop, history
  <2>2. RunSound(run'[o], store')
    <3>1. \E pc \in Phases : run'[o] = [Idle EXCEPT !.pc = pc]  BY <1>r, <1>p, <2>1
    <3> QED  BY <3>1, IdleSound
  <2>3. \A p \in Operators : p # o => RunSound(run'[p], store')  BY <1>r, <2>1 DEF Sound
  <2>4. PICK written \in SUBSET NewKeys(o) : Write(o, written)  BY <1>9 DEF Stop
  <2>5. \A k \in written : k \in Keys /\ BatchOf(k) = run[o].batch /\ k \in store
    BY <2>1, <2>4 DEF NewKeys, Fate, Sound, RunSound
  <2>6. DataSound'  BY <1>r, <2>1, <2>4, <2>5, WriteTyped DEF Sound, DataSound
  <2> QED  BY <2>2, <2>3, <2>6
<1>10. CASE UNCHANGED vars  BY <1>10 DEF Sound, DataSound, vars, history
<1> QED  BY <1>1, <1>2, <1>3, <1>4, <1>5, <1>6, <1>7, <1>8, <1>9, <1>10 DEF Next

LEMMA SoundInit == Init => Sound
<1> SUFFICES ASSUME Init PROVE Sound  OBVIOUS
<1>1. Idle.sample = {} /\ \A k \in Keys : Idle.fate[k] = "none"  BY DEF Idle
<1>2. \A o \in Operators : RunSound(run[o], store)  BY <1>1 DEF Init, RunSound
<1> QED  BY <1>2 DEF Init, Sound, DataSound

LEMMA SoundHolds == Spec => []Sound
  BY SoundInit, SoundStep, TypesHold, PTL DEF Spec

\* Unless DynamoDB throttled, a key has rows in the dataset of its own batch only,
\* for every filter, number of runs, overlap and failure (curate_incremental.py:125-183).
THEOREM OnlyOwnBatch == Spec => []RowsInOwnBatch
<1>1. Sound => RowsInOwnBatch  BY DEF Sound, DataSound, RowsInOwnBatch
<1> QED  BY <1>1, SoundHolds, PTL

\* Unless DynamoDB throttled, what is written is registered (curate_incremental.py:170-183).
THEOREM RegisteredFirst == Spec => []WrittenIsRegistered
<1>1. Sound => WrittenIsRegistered  BY DEF Sound, DataSound, WrittenIsRegistered
<1> QED  BY <1>1, SoundHolds, PTL
-----------------------------------------------------------------------------
(***************************************************************************)
(* While runs do not overlap, one operator is at work; the dataset he      *)
(* filters for is empty, and each dataset is one run's.                    *)
(***************************************************************************)
Alone ==
  ~overlapped =>
    /\ \A o, p \in Operators : Active(o) /\ Active(p) => o = p
    /\ \A o \in Operators : run[o].pc = "filter" => data[run[o].batch] = {}
    /\ \A b \in Ids : \A row, other \in data[b] : row[1] = other[1]

LEMMA AloneStep == TypeInv /\ Alone /\ [Next]_vars => Alone'
<1> SUFFICES ASSUME TypeInv, Alone, [Next]_vars, ~overlapped' PROVE Alone'  BY DEF Alone
<1>r. run \in [Operators -> RunState] /\ TypeOK  BY DEF TypeInv, TypeOK
<1>p. /\ "list" \in Phases /\ "next" \in Phases /\ "create" \in Phases
      /\ "stopped" \in Phases /\ "done" \in Phases
  BY DEF Phases
<1>1. ASSUME NEW o \in Operators, Start(o) PROVE Alone'
  <2>1. /\ run' = [run EXCEPT ![o] = [Idle EXCEPT !.pc = "list"]] /\ UNCHANGED data
        /\ ~overlapped /\ \A p \in Operators : ~Active(p)
    BY <1>1 DEF Start
  <2>2. run'[o].pc = "list" /\ \A p \in Operators : p # o => run'[p] = run[p]
    BY <1>r, <1>p, <2>1, IdleTyped
  <2> QED  BY <2>1, <2>2 DEF Alone, Active
<1>2. ASSUME NEW o \in Operators, ListTables(o) \/ CreateTable(o) PROVE Alone'
  <2>1. PICK pc \in {"next", "create", "stopped"} : Become(o, pc)
    BY <1>2 DEF ListTables, CreateTable
  <2>2. /\ UNCHANGED <<data, overlapped>> /\ Active(o)
    BY <1>2 DEF ListTables, CreateTable, history, Active
  <2>3. run'[o].pc = pc /\ \A p \in Operators : p # o => run'[p] = run[p]
    BY <1>r, <1>p, <2>1, BecomeRun
  <2> QED  BY <2>1, <2>2, <2>3 DEF Alone, Active
<1>3. ASSUME NEW o \in Operators, StartBatch(o) PROVE Alone'
  <2>1. /\ data' = [data EXCEPT ![run[o].batch] = {}] /\ UNCHANGED overlapped /\ Active(o)
    BY <1>3 DEF StartBatch, history, Active
  <2>2. /\ run'[o].pc = "filter" /\ run'[o].batch = run[o].batch
        /\ \A p \in Operators : p # o => SameRun(run[p], run'[p])
    BY <1>3, <1>r, StartBatchRun
  <2>3. run[o].batch \in Ids  BY <1>3, <1>r, CurateAssumption DEF StartBatch, RunState, Ids
  <2>4. /\ data'[run[o].batch] = {}
        /\ \A b \in Ids : data'[b] = {} \/ data'[b] = data[b]
    BY <1>r, <2>1, <2>3 DEF TypeOK
  <2> QED  BY <2>1, <2>2, <2>4 DEF Alone, Active, SameRun
<1>4. ASSUME NEW o \in Operators, NEW k \in Keys, Lookup(o, k) \/ Register(o, k) PROVE Alone'
  <2>1. PICK fate \in Fates : Settle(o, k, fate)  BY <1>4 DEF Lookup, Register, Fates
  <2>2. UNCHANGED <<data, overlapped>>  BY <1>4 DEF Lookup, Register
  <2>3. \A p \in Operators : run'[p].pc = run[p].pc /\ run'[p].batch = run[p].batch
    BY <1>r, <2>1, SettleRun
  <2> QED  BY <2>2, <2>3 DEF Alone, Active
<1>5. ASSUME NEW o \in Operators, Commit(o) PROVE Alone'
  <2>1. UNCHANGED overlapped /\ Active(o) /\ run[o].pc = "filter"
    BY <1>5 DEF Commit, Filtered, history, Active
  <2>2. run'[o].pc = "bloom" /\ \A p \in Operators : p # o => SameRun(run[p], run'[p])
    BY <1>5, <1>r, CommitRun
  <2>3. \A b \in Ids : data'[b] = data[b] \/
          (data[b] = {} /\ \A row \in data'[b] : row[1] = o)
    <3>1. PICK written \in SUBSET NewKeys(o) : Write(o, written)  BY <1>5 DEF Commit
    <3>2. written \in SUBSET Keys  BY <3>1 DEF NewKeys
    <3>3. \A b \in Ids : data'[b] = data[b] \cup
            (IF b = run[o].batch THEN {<<o, k>> : k \in written} ELSE {})
      BY <1>r, <3>1, <3>2, WriteTyped
    <3>4. data[run[o].batch] = {}  BY <2>1 DEF Alone
    <3>5. \A row \in {<<o, k>> : k \in written} : row[1] = o  OBVIOUS
    <3> QED  BY <3>3, <3>4, <3>5
  <2> QED  BY <2>1, <2>2, <2>3 DEF Alone, Active, SameRun
<1>6. ASSUME NEW o \in Operators, AddToBloom(o) PROVE Alone'
  <2>1. UNCHANGED <<data, overlapped>> /\ Active(o)  BY <1>6 DEF AddToBloom, history, Active
  <2>2. /\ run'[o].pc = "next" /\ \A p \in Operators : p # o => run'[p] = run[p]
    BY <1>6, AddToBloomRun
  <2>3. \A p \in Operators : (Active(p)' => Active(p)) /\
          (run'[p].pc = "filter" => run[p].pc = "filter" /\ run'[p].batch = run[p].batch)
    BY <2>1, <2>2 DEF Active
  <2> QED  BY <2>1, <2>3 DEF Alone
<1>7. ASSUME NEW o \in Operators, Finish(o) PROVE Alone'
  <2>1. run' = [run EXCEPT ![o] = [Idle EXCEPT !.pc = "done"]] /\ UNCHANGED <<data, overlapped>>
    BY <1>7 DEF Finish, history
  <2>2. run'[o].pc = "done" /\ \A p \in Operators : p # o => run'[p] = run[p]
    BY <1>r, <1>p, <2>1, IdleTyped
  <2> QED  BY <2>1, <2>2 DEF Alone, Active
<1>8. ASSUME NEW o \in Operators, Stop(o) PROVE Alone'
  <2>1. /\ run' = [run EXCEPT ![o] = [Idle EXCEPT !.pc = "stopped"]] /\ UNCHANGED overlapped
        /\ Active(o)
    BY <1>8 DEF Stop, history
  <2>2. run'[o].pc = "stopped" /\ \A p \in Operators : p # o => run'[p] = run[p]
    BY <1>r, <1>p, <2>1, IdleTyped
  <2>3. PICK written \in SUBSET (IF Filtered(o) THEN NewKeys(o) ELSE {}) : Write(o, written)
    BY <1>8 DEF Stop
  <2>4. written \in SUBSET Keys /\ (run[o].pc # "filter" => written = {})
    BY <2>3 DEF NewKeys, Filtered
  <2>5. \A b \in Ids : data'[b] = data[b] \/
          (data[b] = {} /\ \A row \in data'[b] : row[1] = o)
    <3>1. \A b \in Ids : data'[b] = data[b] \cup
            (IF b = run[o].batch THEN {<<o, k>> : k \in written} ELSE {})
      BY <1>r, <2>3, <2>4, WriteTyped
    <3>2. CASE run[o].pc = "filter"
      <4>1. data[run[o].batch] = {}  BY <2>1, <3>2 DEF Alone
      <4>2. \A row \in {<<o, k>> : k \in written} : row[1] = o  OBVIOUS
      <4> QED  BY <3>1, <4>1, <4>2
    <3>3. CASE run[o].pc # "filter"  BY <2>4, <3>1, <3>3
    <3> QED  BY <3>2, <3>3
  <2>6. \A p \in Operators : ~Active(p)'
    BY <2>1, <2>2 DEF Alone, Active
  <2> QED  BY <2>1, <2>5, <2>6 DEF Alone, Active
<1>9. CASE UNCHANGED vars  BY <1>9 DEF Alone, Active, vars, history
<1> QED  BY <1>1, <1>2, <1>3, <1>4, <1>5, <1>6, <1>7, <1>8, <1>9 DEF Next

LEMMA AloneHolds == Spec => []Alone
<1>1. Init => Alone  BY DEF Init, Alone, Active, Idle
<1> QED  BY <1>1, AloneStep, TypesHold, PTL DEF Spec

\* Unless runs overlapped, no dataset ever holds the rows of two runs, wherever they
\* failed (curate_incremental.py:276-283).
THEOREM NoMixedDatasets == Spec => []OneWriter
<1>1. Alone => OneWriter  BY DEF Alone, OneWriter
<1> QED  BY <1>1, AloneHolds, PTL
-----------------------------------------------------------------------------
(***************************************************************************)
(* The first run.  The table holds keys of batches that are done and those *)
(* the run registered in this one; a batch's own keys are never dropped,   *)
(* the others it filters are replayed from earlier batches.                *)
(***************************************************************************)
Written(b) == {row[2] : row \in data[b]}

Progress(o) ==
  LET r == run[o] IN
  /\ \A k \in store : \/ BatchOf(k) < r.batch
                      \/ r.pc \in {"filter", "bloom"} /\ r.fate[k] = "registered"
  /\ \A k \in r.sample : BatchOf(k) < r.batch
  /\ \A b \in Ids : b < r.batch => Input(b) \subseteq Written(b)
  /\ r.pc = "bloom" => Input(r.batch) \subseteq Written(r.batch)
  /\ r.pc \in {"filter", "bloom"} => \A k \in Keys :
       /\ k \in Input(r.batch) => r.fate[k] \in {"maybe", "new", "registered"}
       /\ k \notin Input(r.batch) /\ r.fate[k] # "none" => BatchOf(k) < r.batch
  /\ r.pc = "bloom" => \A k \in Keys : r.fate[k] \notin {"maybe", "new"}

First ==
  /\ starts = 0 => store = {} /\ \A o \in Operators : run[o].pc = "idle"
  /\ starts <= 1 =>
       /\ ~overlapped
       /\ \A o \in Operators :
            /\ ~run[o].disturbed /\ (Active(o) => Progress(o))
            /\ run[o].pc \notin {"next", "filter", "bloom"} => run[o].batch = 0

\* A step of the only operator at work disturbs no one.
LEMMA OnlyOne ==
  ASSUME TypeInv, Alone, First, starts <= 1, UNCHANGED <<origin, starts, overlapped>>,
         NEW o \in Operators, Active(o), ~run'[o].disturbed,
         \A p \in Operators : p # o => (run[p].pc # "filter" => run'[p] = run[p]),
         Active(o)' => Progress(o)',
         run'[o].pc \notin {"next", "filter", "bloom"} => run'[o].batch = 0
  PROVE  First'
<1>1. starts = 1
  <2>1. run[o].pc # "idle"  BY DEF Active
  <2>2. starts \in Nat  BY CurateAssumption DEF TypeInv, TypeOK
  <2> QED  BY <2>1, <2>2 DEF First
<1>2. ~overlapped  BY DEF First
<1>3. \A p \in Operators : p # o => ~Active(p)  BY <1>2 DEF Alone
<1>4. \A p \in Operators : p # o => run'[p] = run[p]  BY <1>3 DEF Active
<1>5. \A p \in Operators : p # o => ~Active(p)' /\ run'[p].batch = 0 /\ ~run'[p].disturbed
  BY <1>3, <1>4 DEF Active, First
<1> QED  BY <1>1, <1>2, <1>5 DEF First

LEMMA FirstStep == TypeInv /\ Alone /\ First /\ [Next]_vars => First'
<1> SUFFICES ASSUME TypeInv, Alone, First, [Next]_vars PROVE First'  OBVIOUS
<1> SUFFICES ASSUME starts' <= 1 PROVE First'
  <2>1. starts' \in Nat  BY TypeStep, CurateAssumption DEF TypeInv, TypeOK
  <2> QED  BY <2>1 DEF First
<1>r. run \in [Operators -> RunState] /\ TypeOK /\ starts \in Nat
  BY CurateAssumption DEF TypeInv, TypeOK
<1>p. /\ "list" \in Phases /\ "next" \in Phases /\ "create" \in Phases
      /\ "stopped" \in Phases /\ "done" \in Phases
  BY DEF Phases
<1>1. ASSUME NEW o \in Operators, Start(o) PROVE First'
  <2>1. /\ run' = [run EXCEPT ![o] = [Idle EXCEPT !.pc = "list"]] /\ UNCHANGED <<store, data>>
        /\ starts' = starts + 1 /\ overlapped' = (overlapped \/ \E p \in Operators : Active(p))
    BY <1>1 DEF Start
  <2>2. starts = 0  BY <1>r, <2>1
  <2>3. store = {} /\ ~overlapped /\ \A p \in Operators : run[p].pc = "idle" /\ ~Active(p)
                                                     /\ ~run[p].disturbed /\ run[p].batch = 0
    BY <2>2 DEF First, Active
  <2>4. /\ run'[o].pc = "list" /\ run'[o].batch = 0 /\ run'[o].sample = {}
        /\ ~run'[o].disturbed /\ \A p \in Operators : p # o => run'[p] = run[p]
    BY <1>r, <1>p, <2>1, IdleTyped
  <2>5. Progress(o)'
    BY <2>1, <2>3, <2>4 DEF Progress, Ids
  <2>6. \A p \in Operators : ~run'[p].disturbed /\ run'[p].batch = 0 /\ (Active(p)' => p = o)
    BY <2>3, <2>4 DEF Active
  <2>7. starts' # 0 /\ ~overlapped'
    <3>1. starts' # 0  BY <2>1, <2>2
    <3>2. ~overlapped'  BY <2>1, <2>3, Zenon
    <3> QED  BY <3>1, <3>2
  <2> QED  BY <2>5, <2>6, <2>7 DEF First
<1>2. ASSUME NEW o \in Operators, ListTables(o) \/ CreateTable(o) PROVE First'
  <2>1. PICK pc \in {"next", "create", "stopped"} : Become(o, pc)
    BY <1>2 DEF ListTables, CreateTable
  <2>2. /\ UNCHANGED <<origin, store, data, overlapped, starts>> /\ Active(o)
        /\ run[o].pc \in {"list", "create"}
    BY <1>2 DEF ListTables, CreateTable, history, Active
  <2>3. /\ run'[o].pc = pc /\ run'[o].batch = run[o].batch
        /\ run'[o].sample = run[o].sample /\ run'[o].fate = run[o].fate
        /\ run'[o].disturbed = run[o].disturbed
        /\ \A p \in Operators : p # o => run'[p] = run[p]
    BY <1>r, <1>p, <2>1, BecomeRun
  <2>4. Progress(o) /\ ~run[o].disturbed  BY <2>2 DEF First
  <2>5. Progress(o)'
    BY <2>1, <2>2, <2>3, <2>4 DEF Progress, Written, Input
  <2> QED  BY <2>1, <2>2, <2>3, <2>4, <2>5, OnlyOne DEF First
<1>3. ASSUME NEW o \in Operators, StartBatch(o) PROVE First'
  <2> DEFINE b == run[o].batch
  <2>1. /\ data' = [data EXCEPT ![b] = {}] /\ UNCHANGED <<origin, store, overlapped, starts>>
        /\ Active(o) /\ run[o].pc = "next"
    BY <1>3 DEF StartBatch, history, Active
  <2>2. PICK replays \in SUBSET run[o].sample :
          /\ \A p \in Operators : p # o => (run[p].pc # "filter" => run'[p] = run[p])
          /\ run'[o].pc = "filter" /\ run'[o].batch = b
          /\ run'[o].sample = run[o].sample /\ run'[o].disturbed = FALSE
          /\ run'[o].fate = FirstFate(o, replays)
    BY <1>3, <1>r, StartBatchRun
  <2>3. b \in Ids  BY <1>3, <1>r, CurateAssumption DEF StartBatch, RunState, Ids
  <2>4. Progress(o)  BY <2>1 DEF First
  <2>5. \A c \in Ids : c < b => data'[c] = data[c]  BY <1>r, <2>1, <2>3 DEF TypeOK, Ids
  <2>6. \A k \in replays : BatchOf(k) < b  BY <2>2, <2>4 DEF Progress
  <2>7. \A k \in Keys :
          /\ k \in Input(b) => FirstFate(o, replays)[k] \in {"maybe", "new"}
          /\ k \notin Input(b) /\ FirstFate(o, replays)[k] # "none" => BatchOf(k) < b
    BY <2>6 DEF FirstFate
  <2>8. \A c : Input(c)' = Input(c)  BY <2>1 DEF Input
  <2>9. \A c \in Ids : c < b => Written(c)' = Written(c)  BY <2>5 DEF Written
  <2>10. Progress(o)'
    <3> DEFINE f == FirstFate(o, replays)
    <3> HIDE DEF f
    <3>1. run'[o].fate = f /\ \A k \in Keys :
            /\ k \in Input(b) => f[k] \in {"maybe", "new"}
            /\ k \notin Input(b) /\ f[k] # "none" => BatchOf(k) < b
      BY <2>2, <2>7 DEF f
    <3>2. \A k \in store : BatchOf(k) < b  BY <2>1, <2>4 DEF Progress
    <3>3. \A k \in run[o].sample : BatchOf(k) < b  BY <2>4 DEF Progress
    <3>4. \A c \in Ids : c < b => Input(c)' \subseteq Written(c)'
      BY <2>4, <2>8, <2>9 DEF Progress
    <3>5. Input(b)' = Input(b)  BY <2>2, <2>8
    <3> QED  BY <2>1, <2>2, <3>1, <3>2, <3>3, <3>4, <3>5 DEF Progress
  <2> QED  BY <2>1, <2>2, <2>10, OnlyOne
<1>4. ASSUME NEW o \in Operators, NEW k \in Keys, Lookup(o, k) PROVE First'
  <2>1. /\ UNCHANGED <<origin, store, data, overlapped, starts>> /\ Active(o)
        /\ run[o].pc = "filter" /\ run[o].fate[k] = "maybe"
    BY <1>4 DEF Lookup, Active, Fate
  <2>2. PICK fate \in {"dropped", "new"} :
          Settle(o, k, fate) /\ (fate = "dropped" => k \in store)
    BY <1>4 DEF Lookup
  <2>3. /\ \A p \in Operators : p # o => run'[p] = run[p]
        /\ run'[o].pc = run[o].pc /\ run'[o].batch = run[o].batch
        /\ run'[o].sample = run[o].sample /\ run'[o].disturbed = run[o].disturbed
        /\ run'[o].fate[k] = fate
        /\ \A j \in Keys : j # k => run'[o].fate[j] = run[o].fate[j]
    BY <1>r, <2>2, SettleRun DEF Fates
  <2>4. Progress(o) /\ ~run[o].disturbed  BY <2>1 DEF First
  <2>5. fate = "dropped" => k \notin Input(run[o].batch)
    <3>1. SUFFICES ASSUME k \in store, k \in Input(run[o].batch) PROVE FALSE  BY <2>2
    <3>2. run[o].batch \in Ids  BY <2>1 DEF TypeInv
    <3>3. BatchOf(k) = run[o].batch  BY <1>r, <3>1, <3>2, InputOfBatch
    <3>4. BatchOf(k) < run[o].batch  BY <2>1, <2>4, <3>1 DEF Progress
    <3> QED  BY <3>2, <3>3, <3>4 DEF Ids
  <2>6. \A c : Input(c)' = Input(c) /\ Written(c)' = Written(c)  BY <2>1 DEF Input, Written
  <2>7. \A j \in store : j \in Keys  BY <1>r DEF TypeOK
  <2>8. Progress(o)'
    BY <2>1, <2>2, <2>3, <2>4, <2>5, <2>6, <2>7 DEF Progress
  <2> QED  BY <2>1, <2>3, <2>4, <2>8, OnlyOne
<1>5. ASSUME NEW o \in Operators, NEW k \in Keys, Register(o, k) PROVE First'
  <2>1. /\ UNCHANGED <<origin, data, overlapped, starts>> /\ Active(o)
        /\ run[o].pc = "filter" /\ run[o].fate[k] = "new" /\ Settle(o, k, "registered")
        /\ \A j \in store' : j = k \/ j \in store
    BY <1>5 DEF Register, Active, Fate
  <2>2. /\ \A p \in Operators : p # o => run'[p] = run[p]
        /\ run'[o].pc = run[o].pc /\ run'[o].batch = run[o].batch
        /\ run'[o].sample = run[o].sample /\ run'[o].disturbed = run[o].disturbed
        /\ run'[o].fate[k] = "registered"
        /\ \A j \in Keys : j # k => run'[o].fate[j] = run[o].fate[j]
    BY <1>r, <2>1, SettleRun DEF Fates
  <2>3. Progress(o) /\ ~run[o].disturbed  BY <2>1 DEF First
  <2>4. \A c : Input(c)' = Input(c) /\ Written(c)' = Written(c)  BY <2>1 DEF Input, Written
  <2>5. \A j \in store : j \in Keys  BY <1>r DEF TypeOK
  <2>6. Progress(o)'  BY <2>1, <2>2, <2>3, <2>4, <2>5 DEF Progress
  <2> QED  BY <2>1, <2>2, <2>3, <2>6, OnlyOne
<1>6. ASSUME NEW o \in Operators, Commit(o) PROVE First'
  <2> DEFINE b == run[o].batch
  <2>1. /\ UNCHANGED <<origin, store, overlapped, starts>> /\ Active(o) /\ run[o].pc = "filter"
        /\ \A k \in Keys : run[o].fate[k] \notin {"maybe", "new"}
    BY <1>6 DEF Commit, Filtered, Fate, history, Active
  <2>2. /\ \A p \in Operators : p # o => (run[p].pc # "filter" => run'[p] = run[p])
        /\ run'[o].pc = "bloom" /\ run'[o].batch = b /\ run'[o].sample = run[o].sample
        /\ run'[o].disturbed = run[o].disturbed /\ run'[o].fate = run[o].fate
    BY <1>6, <1>r, CommitRun
  <2>3. Progress(o) /\ ~run[o].disturbed  BY <2>1 DEF First
  <2>4. Write(o, NewKeys(o))  BY <1>6, <2>3 DEF Commit
  <2>5. \A c \in Ids : data'[c] = data[c] \cup (IF c = b THEN {<<o, k>> : k \in NewKeys(o)} ELSE {})
    <3>1. NewKeys(o) \in SUBSET Keys  BY DEF NewKeys
    <3> QED  BY <1>r, <2>4, <3>1, WriteTyped
  <2>6. b \in Ids  BY <2>1 DEF TypeInv
  <2>7. \A k \in NewKeys(o) : k \in Written(b)'
    <3>1. ASSUME NEW k \in NewKeys(o) PROVE k \in Written(b)'
      <4>1. <<o, k>> \in data'[b]  BY <2>5, <2>6
      <4> QED  BY <4>1, <2>2 DEF Written
    <3> QED  BY <3>1
  <2>8. Input(b) \subseteq NewKeys(o)
    BY <1>r, <2>1, <2>3, <2>6, InputOfBatch DEF Progress, NewKeys, Fate
  <2>9. \A c \in Ids : Written(c) \subseteq Written(c)'  BY <2>5 DEF Written
  <2>10. \A c : Input(c)' = Input(c)  BY <2>1 DEF Input
  <2>11. Progress(o)'
    BY <2>1, <2>2, <2>3, <2>7, <2>8, <2>9, <2>10 DEF Progress
  <2> QED  BY <2>1, <2>2, <2>3, <2>11, OnlyOne
<1>7. ASSUME NEW o \in Operators, AddToBloom(o) PROVE First'
  <2>1. /\ UNCHANGED <<origin, store, data, overlapped, starts>> /\ Active(o)
        /\ run[o].pc = "bloom"
    BY <1>7 DEF AddToBloom, history, Active
  <2>2. /\ \A p \in Operators : p # o => run'[p] = run[p]
        /\ run'[o].pc = "next" /\ run'[o].batch = run[o].batch + 1
        /\ run'[o].sample = NewKeys(o) /\ run'[o].disturbed = FALSE
    BY <1>7, AddToBloomRun
  <2>3. Progress(o)  BY <2>1 DEF First
  <2>4. run[o].batch \in Ids /\ run[o].batch \in Nat  BY <2>1 DEF TypeInv, Ids
  <2>5. \A k \in Keys : run[o].fate[k] = "registered" => BatchOf(k) < run[o].batch + 1
    <3>1. ASSUME NEW k \in Keys, run[o].fate[k] = "registered"
          PROVE  BatchOf(k) < run[o].batch + 1
      <4>1. BatchOf(k) \in Nat  BY DEF Keys, BatchOf, Ids
      <4>2. BatchOf(k) = run[o].batch \/ BatchOf(k) < run[o].batch
        BY <1>r, <2>1, <2>3, <2>4, <3>1, InputOfBatch DEF Progress
      <4> QED  BY <2>4, <4>1, <4>2
    <3> QED  BY <3>1
  <2>6. \A k \in store : BatchOf(k) < run[o].batch + 1
    <3>1. \A k \in store : k \in Keys /\ BatchOf(k) \in Nat
      BY <1>r DEF TypeOK, Keys, BatchOf, Ids
    <3> QED  BY <2>3, <2>4, <2>5, <3>1 DEF Progress
  <2>7. \A b \in Ids : b < run[o].batch + 1 => Input(b) \subseteq Written(b)
    <3>1. \A b \in Ids : b < run[o].batch + 1 => b < run[o].batch \/ b = run[o].batch
      BY <2>4 DEF Ids
    <3> QED  BY <2>1, <2>3, <3>1 DEF Progress
  <2>8. \A c : Input(c)' = Input(c) /\ Written(c)' = Written(c)  BY <2>1 DEF Input, Written
  <2>9. Progress(o)'
    <3>1. \A k \in NewKeys(o) : BatchOf(k) < run[o].batch + 1  BY <2>5 DEF NewKeys, Fate
    <3>2. \A b \in Ids : b < run[o].batch + 1 => Input(b)' \subseteq Written(b)'
      BY <2>7, <2>8
    <3>3. /\ \A k \in store' : BatchOf(k) < run'[o].batch
          /\ \A k \in run'[o].sample : BatchOf(k) < run'[o].batch
      BY <2>1, <2>2, <2>6, <3>1
    <3>4. \A b \in Ids : b < run'[o].batch => Input(b)' \subseteq Written(b)'  BY <2>2, <3>2
    <3> QED  BY <2>2, <3>3, <3>4 DEF Progress
  <2> QED  BY <2>1, <2>2, <2>9, OnlyOne
<1>8. ASSUME NEW o \in Operators, Finish(o) PROVE First'
  <2>1. /\ run' = [run EXCEPT ![o] = [Idle EXCEPT !.pc = "done"]]
        /\ UNCHANGED <<origin, overlapped, starts>> /\ Active(o)
    BY <1>8 DEF Finish, history, Active
  <2>2. /\ run'[o].pc = "done" /\ run'[o].batch = 0 /\ run'[o].disturbed = FALSE
        /\ \A p \in Operators : p # o => run'[p] = run[p]
    BY <1>r, <1>p, <2>1, IdleTyped
  <2>3. ~Active(o)'  BY <2>2 DEF Active
  <2> QED  BY <2>1, <2>2, <2>3, OnlyOne
<1>9. ASSUME NEW o \in Operators, Stop(o) PROVE First'
  <2>1. /\ run' = [run EXCEPT ![o] = [Idle EXCEPT !.pc = "stopped"]]
        /\ UNCHANGED <<origin, overlapped, starts>> /\ Active(o)
    BY <1>9 DEF Stop, history
  <2>2. /\ run'[o].pc = "stopped" /\ run'[o].batch = 0 /\ run'[o].disturbed = FALSE
        /\ \A p \in Operators : p # o => run'[p] = run[p]
    BY <1>r, <1>p, <2>1, IdleTyped
  <2>3. ~Active(o)'  BY <2>2 DEF Active
  <2> QED  BY <2>1, <2>2, <2>3, OnlyOne
<1>10. CASE UNCHANGED vars
  <2>1. \A c : Input(c)' = Input(c) /\ Written(c)' = Written(c)
    BY <1>10 DEF vars, history, Input, Written
  <2> QED  BY <1>10, <2>1 DEF First, Active, Progress, vars, history
<1> QED  BY <1>1, <1>2, <1>3, <1>4, <1>5, <1>6, <1>7, <1>8, <1>9, <1>10 DEF Next

LEMMA FirstHolds == Spec => []First
<1>1. Init => First  BY DEF Init, First, Active, Idle
<1> QED  BY <1>1, FirstStep, AloneHolds, TypesHold, PTL DEF Spec

\* The first run loses nothing, whatever the filter and a throttled table answer: each
\* key of a batch it is past has a row (curate_incremental.py:186-317).
THEOREM NothingLostAtFirst == Spec => []FirstRunComplete
<1>1. TypeInv /\ First => FirstRunComplete
  <2> SUFFICES ASSUME TypeInv, First, starts = 1, NEW o \in Operators, NEW b \in Ids,
                      b < run[o].batch
               PROVE  Input(b) \subseteq Written(b)
    BY DEF FirstRunComplete, Written
  <2>1. Active(o) => Progress(o)  BY DEF First
  <2>2. ~Active(o) => run[o].batch = 0  BY DEF First, Active
  <2> QED  BY <2>1, <2>2 DEF Progress, Ids
<1> QED  BY <1>1, FirstHolds, TypesHold, PTL

\* The cross-batch duplicates the first run reports are the rows it replayed, "a predictable
\* count you can verify by construction" (curate_incremental.py:230).
THEOREM ReplaysAreCaught == Spec => []CaughtIsReplayed
<1>1. TypeInv /\ First /\ Sound => CaughtIsReplayed
  <2> SUFFICES ASSUME TypeInv, First, Sound, starts = 1, ~throttled, NEW o \in Operators,
                      run[o].pc = "bloom", NEW k \in Keys
               PROVE  run[o].fate[k] = "dropped"
                        <=> run[o].fate[k] # "none" /\ k \notin Input(run[o].batch)
    BY DEF CaughtIsReplayed, Fate
  <2>1. Progress(o)  BY DEF First, Active
  <2>2. run[o].fate[k] \in Fates  BY DEF TypeInv, TypeOK, RunState
  <2>3. BatchOf(k) \in Nat  BY DEF Keys, BatchOf, Ids
  <2>4. run[o].fate[k] = "registered" => BatchOf(k) = run[o].batch  BY DEF Sound, RunSound
  <2> QED  BY <2>1, <2>2, <2>3, <2>4 DEF Progress, Fates
<1> QED  BY <1>1, FirstHolds, SoundHolds, TypesHold, PTL
=============================================================================
