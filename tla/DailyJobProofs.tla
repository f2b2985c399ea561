--------------------------- MODULE DailyJobProofs ---------------------------
(***************************************************************************)
(* Proofs about the daily job: its types, and the invariants its run       *)
(* checks, for any number of jobs and publishers that overlap in any way,  *)
(* any objects, attempts, failures and writes applied late.                *)
(***************************************************************************)
EXTENDS DailyJob, FiniteSetTheorems, TLAPS
-----------------------------------------------------------------------------
Curation  == [pc : CurateStates, read : SUBSET Objects, disturbed : BOOLEAN]
ExecState == [state : ExecStates, tries : 0 .. MaxAttempts, saw : SUBSET Objects]
Publisher == [pc : {"idle", "publish", "mark"}, pending : SUBSET Jobs, cur : SUBSET Jobs]

(* What the updates of driver, execution, curation and publisher do. *)

LEMMA DriveMoves ==
  ASSUME driver \in [Jobs -> DriverStates], NEW j \in Jobs, NEW from, NEW to \in DriverStates,
         Drive(j, from, to)
  PROVE  /\ driver' \in [Jobs -> DriverStates] /\ driver[j] = from /\ driver'[j] = to
         /\ \A i \in Jobs : i # j => driver'[i] = driver[i]
  BY DEF Drive

LEMMA ExecMoves ==
  ASSUME exec \in [Jobs -> ExecState], NEW j \in Jobs, NEW state \in ExecStates,
         ExecGoes(j, state)
  PROVE  /\ exec' \in [Jobs -> ExecState]
         /\ exec'[j].state = state /\ exec'[j].tries = 0 /\ exec'[j].saw = exec[j].saw
         /\ \A i \in Jobs : i # j => exec'[i] = exec[i]
<1> DEFINE e == [exec[j] EXCEPT !.state = state, !.tries = 0]
<1>1. /\ e \in ExecState /\ e.state = state /\ e.tries = 0 /\ e.saw = exec[j].saw
  <2>1. 0 \in 0 .. MaxAttempts  BY DailyJobAssumption
  <2> QED  BY <2>1 DEF ExecState
<1>2. exec' = [exec EXCEPT ![j] = e]  BY DEF ExecGoes, ExecState
<1> HIDE DEF e
<1> QED  BY <1>1, <1>2

LEMMA TaskFailsMoves ==
  ASSUME exec \in [Jobs -> ExecState], NEW j \in Jobs, TaskFails(j),
         exec[j].tries < MaxAttempts
  PROVE  /\ exec' \in [Jobs -> ExecState]
         /\ exec'[j].tries = exec[j].tries + 1 /\ exec'[j].saw = exec[j].saw
         /\ exec'[j].state = IF exec[j].tries + 1 < MaxAttempts THEN exec[j].state ELSE "FAILED"
         /\ \A i \in Jobs : i # j => exec'[i] = exec[i]
<1> DEFINE next == IF exec[j].tries + 1 < MaxAttempts THEN exec[j].state ELSE "FAILED"
           e == [exec[j] EXCEPT !.tries = exec[j].tries + 1, !.state = next]
<1>1. /\ e \in ExecState /\ e.state = next /\ e.tries = exec[j].tries + 1
      /\ e.saw = exec[j].saw
  <2>1. exec[j].tries + 1 \in 0 .. MaxAttempts  BY DailyJobAssumption DEF ExecState
  <2>2. next \in ExecStates  BY DEF ExecStates, ExecState
  <2> HIDE DEF next
  <2> QED  BY <2>1, <2>2 DEF ExecState
<1>2. exec' = [exec EXCEPT ![j] = e]  BY DEF TaskFails, ExecState
<1> HIDE DEF e
<1> QED  BY <1>1, <1>2

\* Only somebody who saw an object goes on to RecordStarted.
LEMMA CheckDataReadyMoves ==
  ASSUME exec \in [Jobs -> ExecState], raw \subseteq Objects, NEW j \in Jobs, CheckDataReady(j)
  PROVE  /\ exec' \in [Jobs -> ExecState]
         /\ exec'[j].state \in {"RecordStarted", "nodata"} /\ exec'[j].tries = 0
         /\ exec'[j].saw = raw /\ (exec'[j].state = "RecordStarted" => raw # {})
         /\ \A i \in Jobs : i # j => exec'[i] = exec[i]
<1>1. PICK state \in {"RecordStarted", "nodata"} :
        /\ state = "RecordStarted" => raw # {}
        /\ exec' = [exec EXCEPT ![j] = [state |-> state, tries |-> 0, saw |-> raw]]
  <2> DEFINE state == IF KeyCount(raw) > 0 THEN "RecordStarted" ELSE "nodata"
  <2>1. raw = {} => KeyCount(raw) = 0  BY DailyJobAssumption, FS_EmptySet DEF KeyCount
  <2>2. state = "RecordStarted" => raw # {}  BY <2>1
  <2>3. exec' = [exec EXCEPT ![j] = [state |-> state, tries |-> 0, saw |-> raw]]
    BY DEF CheckDataReady
  <2>4. state \in {"RecordStarted", "nodata"}  OBVIOUS
  <2> HIDE DEF state
  <2> QED  BY <2>2, <2>3, <2>4
<1>2. [state |-> state, tries |-> 0, saw |-> raw] \in ExecState
  BY DailyJobAssumption DEF ExecState, ExecStates, Tasks
<1> QED  BY <1>1, <1>2

LEMMA StartExecutionMoves ==
  ASSUME driver \in [Jobs -> DriverStates], exec \in [Jobs -> ExecState], NEW j \in Jobs,
         StartExecution(j)
  PROVE  /\ driver' \in [Jobs -> DriverStates]
         /\ \A i \in Jobs : i # j => driver'[i] = driver[i]
         /\ exec' \in [Jobs -> ExecState] /\ exec'[j].tries = 0 /\ exec'[j].saw = exec[j].saw
         /\ \A i \in Jobs : i # j => exec'[i] = exec[i]
         /\ \/ /\ driver[j] = "new" /\ driver'[j] = "preflight"
               /\ exec'[j].state = "CheckDataReady"
            \/ /\ driver[j] = "curating" /\ driver'[j] = "postflight"
               /\ curation[j].pc = "done" /\ exec'[j].state = "RecordCompleted"
<1>1. /\ "preflight" \in DriverStates /\ "postflight" \in DriverStates
      /\ "CheckDataReady" \in ExecStates /\ "RecordCompleted" \in ExecStates
  BY DEF DriverStates, ExecStates, Waiting, Tasks
<1>2. CASE Drive(j, "new", "preflight") /\ ExecGoes(j, "CheckDataReady")
  BY <1>1, <1>2, DriveMoves, ExecMoves
<1>3. CASE /\ curation[j].pc = "done"
           /\ Drive(j, "curating", "postflight") /\ ExecGoes(j, "RecordCompleted")
  BY <1>1, <1>3, DriveMoves, ExecMoves
<1> QED  BY <1>2, <1>3 DEF StartExecution

LEMMA DriverStopsMoves ==
  ASSUME driver \in [Jobs -> DriverStates], exec \in [Jobs -> ExecState], NEW j \in Jobs,
         DriverStops(j)
  PROVE  /\ driver' \in [Jobs -> DriverStates] /\ driver'[j] = "raised"
         /\ \A i \in Jobs : i # j => driver'[i] = driver[i]
         /\ exec' \in [Jobs -> ExecState] /\ exec'[j].saw = exec[j].saw
         /\ \A i \in Jobs : i # j => exec'[i] = exec[i]
         /\ \/ UNCHANGED <<lake, exec>>
            \/ /\ driver[j] = "new" /\ UNCHANGED lake
               /\ exec'[j].state = "CheckDataReady" /\ exec'[j].tries = 0
            \/ /\ driver[j] = "curating" /\ curation[j].pc = "done" /\ UNCHANGED lake
               /\ exec'[j].state = "RecordCompleted" /\ exec'[j].tries = 0
            \/ driver[j] = "curating" /\ CurationDies(j) /\ UNCHANGED <<raw, exec>>
<1>1. "raised" \in DriverStates /\ "CheckDataReady" \in ExecStates /\ "RecordCompleted" \in ExecStates
  BY DEF DriverStates, ExecStates, Ended, Tasks
<1>2. CASE driver' = [driver EXCEPT ![j] = "raised"] /\ UNCHANGED <<lake, exec>>
  BY <1>1, <1>2
<1>3. CASE Drive(j, "new", "raised") /\ ExecGoes(j, "CheckDataReady") /\ UNCHANGED lake
  BY <1>1, <1>3, DriveMoves, ExecMoves
<1>4. CASE /\ curation[j].pc = "done"
           /\ Drive(j, "curating", "raised") /\ ExecGoes(j, "RecordCompleted") /\ UNCHANGED lake
  BY <1>1, <1>4, DriveMoves, ExecMoves
<1>5. CASE Drive(j, "curating", "raised") /\ CurationDies(j) /\ UNCHANGED <<raw, exec>>
  BY <1>1, <1>5, DriveMoves
<1> QED  BY <1>2, <1>3, <1>4, <1>5 DEF DriverStops

\* The other curations go on, though their files may be gone if they are to be committed.
OthersGoOn(j) ==
  \A i \in Jobs : i # j =>
    /\ curation'[i].pc = curation[i].pc /\ curation'[i].read = curation[i].read
    /\ curation[i].pc # "commit" => curation'[i] = curation[i]

LEMMA Disturbs ==
  ASSUME curation \in [Jobs -> Curation], NEW j \in Jobs, NEW left \in {curation, Disturb(j)}
  PROVE  /\ left \in [Jobs -> Curation] /\ left[j] = curation[j]
         /\ \A i \in Jobs : /\ left[i].pc = curation[i].pc /\ left[i].read = curation[i].read
                            /\ curation[i].pc # "commit" => left[i] = curation[i]
<1>1. ASSUME NEW i \in Jobs
      PROVE  /\ Disturb(j)[i] \in Curation /\ (i = j => Disturb(j)[i] = curation[i])
             /\ Disturb(j)[i].pc = curation[i].pc /\ Disturb(j)[i].read = curation[i].read
             /\ curation[i].pc # "commit" => Disturb(j)[i] = curation[i]
  BY DEF Disturb, Curation
<1>2. Disturb(j) \in [Jobs -> Curation]
  <2>1. Disturb(j) = [i \in Jobs |-> Disturb(j)[i]]  BY DEF Disturb
  <2> QED  BY <1>1, <2>1
<1> QED  BY <1>1, <1>2

\* curation[j] becomes c.
LEMMA CurationMoves ==
  ASSUME curation \in [Jobs -> Curation], NEW j \in Jobs, NEW left \in {curation, Disturb(j)},
         NEW c \in Curation, curation' = [left EXCEPT ![j] = c]
  PROVE  curation' \in [Jobs -> Curation] /\ curation'[j] = c /\ OthersGoOn(j)
  BY Disturbs DEF OthersGoOn

LEMMA PreflightEndsMoves ==
  ASSUME driver \in [Jobs -> DriverStates], curation \in [Jobs -> Curation], NEW j \in Jobs,
         PreflightEnds(j)
  PROVE  /\ driver' \in [Jobs -> DriverStates] /\ curation' \in [Jobs -> Curation]
         /\ driver[j] = "preflight" /\ OthersGoOn(j)
         /\ \A i \in Jobs : i # j => driver'[i] = driver[i]
         /\ \/ /\ exec[j].state = "started" /\ driver'[j] = "curating"
               /\ curation'[j].pc = "read" /\ curation'[j].read = curation[j].read
               /\ curation'[j].disturbed = curation[j].disturbed
            \/ /\ UNCHANGED curation
               /\ \/ exec[j].state = "nodata" /\ driver'[j] = "no_data_to_curate"
                  \/ exec[j].state = "FAILED" /\ driver'[j] = "preflight_failed"
<1>1. /\ "curating" \in DriverStates /\ "no_data_to_curate" \in DriverStates
      /\ "preflight_failed" \in DriverStates
  BY DEF DriverStates, Ended
<1>2. CASE /\ exec[j].state = "started" /\ Drive(j, "preflight", "curating")
           /\ curation' = [curation EXCEPT ![j].pc = "read"]
  <2> DEFINE c == [curation[j] EXCEPT !.pc = "read"]
  <2>1. /\ c \in Curation /\ c.pc = "read" /\ c.read = curation[j].read
        /\ c.disturbed = curation[j].disturbed
    BY DEF Curation, CurateStates
  <2>2. curation' = [curation EXCEPT ![j] = c]  BY <1>2 DEF Curation
  <2> HIDE DEF c
  <2>3. curation' \in [Jobs -> Curation] /\ curation'[j] = c /\ OthersGoOn(j)
    BY <2>1, <2>2, CurationMoves
  <2> QED  BY <1>1, <1>2, <2>1, <2>3, DriveMoves
<1>3. CASE UNCHANGED curation /\ Drive(j, "preflight", "no_data_to_curate")
           /\ exec[j].state = "nodata"
  BY <1>1, <1>3, DriveMoves DEF OthersGoOn
<1>4. CASE UNCHANGED curation /\ Drive(j, "preflight", "preflight_failed")
           /\ exec[j].state = "FAILED"
  BY <1>1, <1>4, DriveMoves DEF OthersGoOn
<1> QED  BY <1>2, <1>3, <1>4 DEF PreflightEnds

LEMMA CurateReadMoves ==
  ASSUME curation \in [Jobs -> Curation], raw \subseteq Objects, NEW j \in Jobs, CurateRead(j)
  PROVE  /\ curation' \in [Jobs -> Curation] /\ OthersGoOn(j)
         /\ curation[j].pc = "read" /\ curation'[j].pc = "overwrite" /\ curation'[j].read = raw
         /\ curation'[j].disturbed = curation[j].disturbed
<1> DEFINE c == [curation[j] EXCEPT !.pc = "overwrite", !.read = raw]
<1>1. /\ c \in Curation /\ c.pc = "overwrite" /\ c.read = raw
      /\ c.disturbed = curation[j].disturbed
  BY DEF Curation, CurateStates
<1>2. curation' = [curation EXCEPT ![j] = c]  BY DEF CurateRead, Curation
<1> HIDE DEF c
<1> QED  BY <1>1, <1>2, CurationMoves DEF CurateRead

LEMMA CurateDeleteMoves ==
  ASSUME curation \in [Jobs -> Curation], NEW j \in Jobs, CurateDelete(j)
  PROVE  /\ curation' \in [Jobs -> Curation] /\ OthersGoOn(j)
         /\ curation[j].pc = "overwrite" /\ curation'[j].pc = "commit"
         /\ curation'[j].read = curation[j].read
         /\ curation'[j].disturbed = curation[j].disturbed
<1> DEFINE c == [curation[j] EXCEPT !.pc = "commit"]
<1>1. /\ c \in Curation /\ c.pc = "commit" /\ c.read = curation[j].read
      /\ c.disturbed = curation[j].disturbed
  BY DEF Curation, CurateStates
<1>2. curation' = [Disturb(j) EXCEPT ![j] = c]  BY Disturbs DEF CurateDelete, Curation
<1> HIDE DEF c
<1> QED  BY <1>1, <1>2, CurationMoves DEF CurateDelete

LEMMA CurateCommitMoves ==
  ASSUME curation \in [Jobs -> Curation], NEW j \in Jobs, CurateCommit(j)
  PROVE  /\ curation' \in [Jobs -> Curation] /\ OthersGoOn(j)
         /\ curation[j].pc = "commit" /\ curation'[j].pc = "done"
         /\ curation'[j].read = curation[j].read /\ ~curation'[j].disturbed
         /\ \E rows \in Deduped(curation[j].read) : \E written \in SUBSET rows :
              /\ ~curation[j].disturbed => written = rows
              /\ curated' = curated \cup ({j} \X written)
<1> DEFINE c == [curation[j] EXCEPT !.pc = "done", !.disturbed = FALSE]
<1>1. /\ c \in Curation /\ c.pc = "done" /\ c.read = curation[j].read /\ ~c.disturbed
  BY DEF Curation, CurateStates
<1>2. curation' = [Disturb(j) EXCEPT ![j] = c]  BY Disturbs DEF CurateCommit, Curation
<1>3. \E rows \in Deduped(curation[j].read) : \E written \in SUBSET rows :
        /\ ~curation[j].disturbed => written = rows
        /\ curated' = curated \cup ({j} \X written)
  BY DEF CurateCommit
<1> HIDE DEF c
<1> QED  BY <1>1, <1>2, <1>3, CurationMoves DEF CurateCommit

LEMMA CurationDiesMoves ==
  ASSUME curation \in [Jobs -> Curation], NEW j \in Jobs, CurationDies(j)
  PROVE  /\ curation' \in [Jobs -> Curation] /\ OthersGoOn(j)
         /\ curation[j].pc \in {"read", "overwrite", "commit"} /\ curation'[j].pc = "failed"
         /\ curation'[j].read = {} /\ ~curation'[j].disturbed
         /\ curation[j].pc # "commit" => \A i \in Jobs : i # j => curation'[i] = curation[i]
         /\ \/ UNCHANGED <<curated, settled>>
            \/ /\ curation[j].pc \in {"overwrite", "commit"} /\ ~settled'
               /\ curated' \subseteq curated \cup ({j} \X curation[j].read)
<1> DEFINE c == [pc |-> "failed", read |-> {}, disturbed |-> FALSE]
<1>1. c \in Curation /\ c.pc = "failed" /\ c.read = {} /\ ~c.disturbed
  BY DEF Curation, CurateStates
<1>2. PICK left \in {curation, Disturb(j)} :
        (curation[j].pc # "commit" => left = curation) /\ curation' = [left EXCEPT ![j] = c]
  BY DEF CurationDies
<1> HIDE DEF c
<1>3. /\ curation' \in [Jobs -> Curation] /\ curation'[j] = c /\ OthersGoOn(j)
      /\ curation[j].pc # "commit" => \A i \in Jobs : i # j => curation'[i] = curation[i]
  BY <1>1, <1>2, CurationMoves
<1>4. /\ curation[j].pc \in {"read", "overwrite", "commit"}
      /\ \/ UNCHANGED <<curated, settled>>
         \/ /\ curation[j].pc \in {"overwrite", "commit"} /\ ~settled'
            /\ curated' \subseteq curated \cup ({j} \X curation[j].read)
  <2>1. CASE curation[j].pc \in {"read", "overwrite"} /\ UNCHANGED <<curated, settled>>
    BY <2>1
  <2>2. CASE curation[j].pc = "overwrite" /\ curated' \in SUBSET curated /\ settled' = FALSE
    BY <2>2
  <2>3. CASE /\ curation[j].pc = "commit" /\ settled' = FALSE
             /\ \E rows \in Deduped(curation[j].read) : \E written \in SUBSET rows :
                  curated' = curated \cup ({j} \X written)
    <3>1. PICK rows \in Deduped(curation[j].read) : \E written \in SUBSET rows :
            curated' = curated \cup ({j} \X written)
      BY <2>3
    <3>2. rows \subseteq curation[j].read  BY <3>1 DEF Deduped
    <3> QED  BY <2>3, <3>1, <3>2
  <2> QED  BY <2>1, <2>2, <2>3 DEF CurationDies
<1> QED  BY <1>1, <1>3, <1>4

LEMMA ScanMoves ==
  ASSUME publisher \in [Publishers -> Publisher], NEW p \in Publishers, Scan(p)
  PROVE  /\ publisher' \in [Publishers -> Publisher]
         /\ publisher'[p].pc = "publish" /\ publisher'[p].cur = publisher[p].cur
         /\ \A j \in publisher'[p].pending : j \in Jobs /\ OnPage(j)
         /\ \A q \in Publishers : q # p => publisher'[q] = publisher[q]
<1> DEFINE found == {j \in FirstPage : OnPage(j)}
           new == [publisher[p] EXCEPT !.pc = "publish", !.pending = found]
<1>1. FirstPage \subseteq Jobs
  <2>1. \A i \in DOMAIN Order : Order[i] \in Jobs  BY DailyJobAssumption
  <2> QED  BY <2>1 DEF FirstPage
<1>2. found \in SUBSET Jobs /\ \A j \in found : j \in Jobs /\ OnPage(j)  BY <1>1
<1>3. publisher' = [publisher EXCEPT ![p] = new]  BY DEF Scan, Publisher
<1> HIDE DEF found
<1>4. new \in Publisher /\ new.pc = "publish" /\ new.pending = found /\ new.cur = publisher[p].cur
  BY <1>2 DEF Publisher
<1> HIDE DEF new
<1> QED  BY <1>2, <1>3, <1>4

LEMMA PublishEventMoves ==
  ASSUME publisher \in [Publishers -> Publisher], published \in [Jobs -> Nat],
         NEW p \in Publishers, PublishEvent(p)
  PROVE  \E j \in publisher[p].pending :
           /\ publisher' \in [Publishers -> Publisher] /\ published' \in [Jobs -> Nat]
           /\ publisher'[p].pc = "mark" /\ publisher'[p].cur = {j}
           /\ publisher'[p].pending = publisher[p].pending \ {j}
           /\ \A q \in Publishers : q # p => publisher'[q] = publisher[q]
           /\ j \in Jobs /\ published'[j] = published[j] + 1
           /\ \A i \in Jobs : i # j => published'[i] = published[i]
<1>1. PICK j \in publisher[p].pending :
        /\ published' = [published EXCEPT ![j] = @ + 1]
        /\ publisher' = [publisher EXCEPT ![p] = [pc |-> "mark", cur |-> {j},
                                                  pending |-> publisher[p].pending \ {j}]]
  BY DEF PublishEvent
<1>2. j \in Jobs  BY DEF Publisher
<1>3. [pc |-> "mark", cur |-> {j}, pending |-> publisher[p].pending \ {j}] \in Publisher
  BY <1>2 DEF Publisher
<1> QED  BY <1>1, <1>2, <1>3

LEMMA MarkMoves ==
  ASSUME publisher \in [Publishers -> Publisher], NEW p \in Publishers, Mark(p)
  PROVE  /\ publisher' \in [Publishers -> Publisher]
         /\ publisher'[p].pc = IF publisher[p].pending = {} THEN "idle" ELSE "publish"
         /\ publisher'[p].cur = {} /\ publisher'[p].pending = publisher[p].pending
         /\ \A q \in Publishers : q # p => publisher'[q] = publisher[q]
<1> DEFINE pc == IF publisher[p].pending = {} THEN "idle" ELSE "publish"
           new == [publisher[p] EXCEPT !.pc = pc, !.cur = {}]
<1>1. pc \in {"idle", "publish", "mark"}  OBVIOUS
<1>2. publisher' = [publisher EXCEPT ![p] = new]  BY DEF Mark, Publisher
<1> HIDE DEF pc
<1>3. new \in Publisher /\ new.pc = pc /\ new.cur = {} /\ new.pending = publisher[p].pending
  BY <1>1 DEF Publisher
<1> HIDE DEF new
<1> QED  BY <1>2, <1>3 DEF pc

LEMMA PublisherStopsMoves ==
  ASSUME publisher \in [Publishers -> Publisher], NEW p \in Publishers, PublisherStops(p)
  PROVE  /\ publisher' \in [Publishers -> Publisher]
         /\ publisher'[p].pc = "idle" /\ publisher'[p].cur = {} /\ publisher'[p].pending = {}
         /\ \A q \in Publishers : q # p => publisher'[q] = publisher[q]
  BY DEF PublisherStops, Publisher, Quiet
-----------------------------------------------------------------------------
\* TypeOK is not inductive: the tasks whose writes are adrift do write.
Writing == \A w \in adrift : w[2] # "CheckDataReady"
TypeInv == TypeOK /\ Writing

LEMMA TypeFacts ==
  ASSUME TypeOK
  PROVE  /\ driver \in [Jobs -> DriverStates] /\ exec \in [Jobs -> ExecState]
         /\ curation \in [Jobs -> Curation] /\ publisher \in [Publishers -> Publisher]
         /\ raw \subseteq Objects
  BY DEF TypeOK, Curation, ExecState, Publisher

\* Keys, and what KeyCount makes of them, are at most as many as there are objects.
LEMMA CountFacts ==
  ASSUME NEW objects \in SUBSET Objects
  PROVE  /\ IsFiniteSet(objects) /\ IsFiniteSet(KeysOf(objects))
         /\ KeyCount(objects) \in Counts /\ Cardinality(KeysOf(objects)) \in Counts
<1>1. /\ IsFiniteSet(objects) /\ Cardinality(objects) <= Cardinality(Objects)
      /\ Cardinality(objects) \in Nat /\ Cardinality(Objects) \in Nat
  BY DailyJobAssumption, FS_Subset, FS_CardinalityType
<1>2. IsFiniteSet(KeysOf(objects)) /\ Cardinality(KeysOf(objects)) <= Cardinality(objects)
  <2> DEFINE f == [o \in objects |-> Key[o]]
  <2>1. f \in Surjection(objects, KeysOf(objects))  BY DEF Surjection, KeysOf
  <2> HIDE DEF f
  <2> QED  BY <1>1, <2>1, FS_Surjection
<1>3. Cardinality(KeysOf(objects)) \in Nat  BY <1>2, FS_CardinalityType
<1>4. KeyCount(objects) \in Nat /\ KeyCount(objects) <= Cardinality(objects)
  BY <1>1, DailyJobAssumption DEF KeyCount
<1> QED  BY <1>1, <1>2, <1>3, <1>4 DEF Counts

LEMMA JobCounts ==
  ASSUME TypeOK, NEW j \in Jobs
  PROVE  KeyCount(exec[j].saw) \in Counts /\ RowsOut(j) \in Counts
<1>1. exec[j].saw \in SUBSET Objects /\ curation[j].read \in SUBSET Objects
  BY TypeFacts DEF ExecState, Curation
<1> QED  BY <1>1, CountFacts DEF RowsOut

\* Every step keeps the types.
LEMMA TypeStep == TypeInv /\ [Next]_vars => TypeInv'
<1> SUFFICES ASSUME TypeInv, [Next]_vars PROVE TypeInv'  OBVIOUS
<1> USE DailyJobAssumption
<1>t. /\ driver \in [Jobs -> DriverStates] /\ exec \in [Jobs -> ExecState]
      /\ curation \in [Jobs -> Curation] /\ publisher \in [Publishers -> Publisher]
      /\ raw \subseteq Objects /\ TypeOK /\ Writing
  BY TypeFacts DEF TypeInv
<1> DEFINE Lake == /\ raw' \subseteq Objects /\ curated' \subseteq Jobs \X Objects
                   /\ settled' \in BOOLEAN /\ curation' \in [Jobs -> Curation]
           Rest == /\ started' \in [Jobs -> Counts \cup {Absent}]
                   /\ completed' \in [Jobs -> Counts \cup {Absent}]
                   /\ outbox' \in [Jobs -> {"none", "PENDING", "PUBLISHED"}]
                   /\ published' \in [Jobs -> Nat]
                   /\ adrift' \subseteq Jobs \X Tasks \X (0 .. MaxAttempts) /\ Writing'
           Past == failures' \in Nat /\ overlaps' \in Nat /\ failures' + overlaps' <= MaxMishaps
           Machines == /\ driver' \in [Jobs -> DriverStates] /\ exec' \in [Jobs -> ExecState]
                       /\ \A j \in Jobs : exec'[j].state \in Tasks => exec'[j].tries < MaxAttempts
           Senders == publisher' \in [Publishers -> Publisher]
<1>e. ASSUME Lake, Rest, Past, Machines, Senders PROVE TypeInv'
  BY <1>e DEF TypeInv, TypeOK, Curation, ExecState, Publisher
<1>d. ASSUME UNCHANGED exec, driver' \in [Jobs -> DriverStates] PROVE Machines
  BY <1>d, <1>t DEF TypeOK
<1>x. ASSUME NEW j \in Jobs, exec'[j].state \in Tasks => exec'[j].tries < MaxAttempts,
             \A i \in Jobs : i # j => exec'[i] = exec[i],
             driver' \in [Jobs -> DriverStates], exec' \in [Jobs -> ExecState]
      PROVE  Machines
  <2>1. ASSUME NEW i \in Jobs PROVE exec'[i].state \in Tasks => exec'[i].tries < MaxAttempts
    BY <1>x, <1>t DEF TypeOK
  <2> QED  BY <1>x, <2>1
<1>z. 0 < MaxAttempts  OBVIOUS
<1>q. UNCHANGED publisher => Senders  BY <1>t
<1>l. UNCHANGED lake => Lake  BY <1>t DEF lake, TypeOK
<1>h. UNCHANGED history => Past  BY <1>t DEF history, TypeOK
<1>f. Failure => Past  BY <1>t DEF TypeOK, Failure, Bounded
<1>b. ASSUME NEW others, Beside(others) PROVE Past
  BY <1>b, <1>h, <1>t DEF TypeOK, Beside, Bounded
<1>p. ASSUME UNCHANGED <<tables, adrift>>, published' \in [Jobs -> Nat] PROVE Rest
  BY <1>p, <1>t DEF TypeOK, Writing, tables
<1>r. UNCHANGED <<tables, published, adrift>> => Rest  BY <1>p, <1>t DEF TypeOK
<1>1. CASE AddRaw
  <2>1. raw' \subseteq Objects  BY <1>1, <1>t DEF AddRaw
  <2>2. Lake  BY <1>1, <1>t, <2>1 DEF AddRaw, TypeOK
  <2>3. Machines /\ Rest  BY <1>1, <1>d, <1>r, <1>t DEF AddRaw
  <2> QED  BY <1>1, <1>e, <1>h, <1>q, <2>2, <2>3 DEF AddRaw
<1>2. ASSUME NEW j \in Jobs, StartExecution(j) PROVE TypeInv'
  <2>1. Machines  BY <1>2, <1>t, <1>x, <1>z, StartExecutionMoves, ZenonT(40)
  <2> QED  BY <1>2, <1>e, <1>h, <1>l, <1>q, <1>r, <2>1 DEF StartExecution
<1>3. ASSUME NEW j \in Jobs, CurationDies(j), UNCHANGED raw PROVE Lake
  <2>1. curation[j].read \subseteq Objects  BY <1>t DEF Curation
  <2>2. curated \subseteq Jobs \X Objects /\ settled \in BOOLEAN  BY <1>t DEF TypeOK
  <2>5. {j} \X curation[j].read \subseteq Jobs \X Objects  BY <2>1
  <2>6. curated' = curated \/ curated' \subseteq curated \cup ({j} \X curation[j].read)
    BY <1>3, <1>t, CurationDiesMoves
  <2>3. curated' \subseteq Jobs \X Objects  BY <2>2, <2>5, <2>6
  <2>4. settled' \in BOOLEAN  BY <1>3, <2>2 DEF CurationDies
  <2> QED  BY <1>3, <1>t, <2>3, <2>4, CurationDiesMoves
<1>4. ASSUME NEW j \in Jobs, DriverStops(j) PROVE TypeInv'
  <2>1. exec' = exec => Machines  BY <1>4, <1>d, <1>t, DriverStopsMoves
  <2>2. Machines  BY <1>4, <1>t, <1>x, <1>z, <2>1, DriverStopsMoves, ZenonT(40)
  <2>3. Lake  BY <1>3, <1>4, <1>l, <1>t, DriverStopsMoves
  <2> QED  BY <1>4, <1>e, <1>f, <1>q, <1>r, <2>2, <2>3 DEF DriverStops
<1>5. ASSUME NEW j \in Jobs, PreflightEnds(j) PROVE TypeInv'
  <2>1. Lake  BY <1>5, <1>t, PreflightEndsMoves DEF PreflightEnds, TypeOK
  <2>2. driver' \in [Jobs -> DriverStates]  BY <1>5, <1>t, PreflightEndsMoves
  <2> QED  BY <1>5, <1>d, <1>e, <1>h, <1>q, <1>r, <2>1, <2>2 DEF PreflightEnds
<1>6. ASSUME NEW j \in Jobs, CurateFailed(j) \/ PostflightEnds(j) PROVE TypeInv'
  <2>1. \E from, to \in DriverStates : Drive(j, from, to)
    BY <1>6 DEF CurateFailed, PostflightEnds, DriverStates, Waiting, Ended
  <2>2. driver' \in [Jobs -> DriverStates]  BY <1>t, <2>1, DriveMoves
  <2> QED
    BY <1>6, <1>d, <1>e, <1>h, <1>l, <1>q, <1>r, <2>2 DEF CurateFailed, PostflightEnds
<1>7. ASSUME NEW j \in Jobs, CurateRead(j) PROVE TypeInv'
  <2>1. Lake  BY <1>7, <1>t, CurateReadMoves DEF CurateRead, TypeOK
  <2>2. Past  BY <1>7, <1>b DEF CurateRead
  <2> QED  BY <1>7, <1>d, <1>e, <1>q, <1>r, <1>t, <2>1, <2>2 DEF CurateRead
<1>8. ASSUME NEW j \in Jobs, CurateDelete(j) PROVE TypeInv'
  <2>1. Lake  BY <1>8, <1>t, CurateDeleteMoves DEF CurateDelete, TypeOK
  <2> QED  BY <1>8, <1>d, <1>e, <1>h, <1>q, <1>r, <1>t, <2>1 DEF CurateDelete
<1>9. ASSUME NEW j \in Jobs, CurateCommit(j) PROVE TypeInv'
  <2>0. PICK rows \in Deduped(curation[j].read) : \E written \in SUBSET rows :
          /\ ~curation[j].disturbed => written = rows
          /\ curated' = curated \cup ({j} \X written)
    BY <1>9, <1>t, CurateCommitMoves
  <2>1. PICK written \in SUBSET rows : curated' = curated \cup ({j} \X written)
    BY <2>0
  <2>2. written \subseteq Objects  BY <1>t, <2>1 DEF Deduped, Curation
  <2>5. {j} \X written \subseteq Jobs \X Objects  BY <2>2
  <2>3. curated' \subseteq Jobs \X Objects  BY <1>t, <2>1, <2>5 DEF TypeOK
  <2>4. Lake  BY <1>9, <1>t, <2>3, CurateCommitMoves DEF CurateCommit, TypeOK
  <2> QED  BY <1>9, <1>d, <1>e, <1>h, <1>q, <1>r, <1>t, <2>4 DEF CurateCommit
<1>10. ASSUME NEW j \in Jobs, CurateFails(j) PROVE TypeInv'
  BY <1>10, <1>3, <1>d, <1>e, <1>f, <1>q, <1>r, <1>t DEF CurateFails
<1>11. ASSUME NEW j \in Jobs, CheckDataReady(j) PROVE TypeInv'
  <2>1. Machines  BY <1>11, <1>t, <1>x, <1>z, CheckDataReadyMoves DEF CheckDataReady
  <2> QED  BY <1>11, <1>e, <1>h, <1>l, <1>q, <1>r, <2>1 DEF CheckDataReady
<1>c. ASSUME NEW j \in Jobs, RecordRow(j) \/ RecordRowAndEvent(j)
      PROVE  /\ started' \in [Jobs -> Counts \cup {Absent}]
             /\ completed' \in [Jobs -> Counts \cup {Absent}]
             /\ outbox' \in [Jobs -> {"none", "PENDING", "PUBLISHED"}]
  <2>1. KeyCount(exec[j].saw) \in Counts /\ RowsOut(j) \in Counts  BY <1>t, JobCounts
  <2>2. /\ started \in [Jobs -> Counts \cup {Absent}]
        /\ completed \in [Jobs -> Counts \cup {Absent}]
        /\ outbox \in [Jobs -> {"none", "PENDING", "PUBLISHED"}]
    BY <1>t DEF TypeOK
  <2>3. CASE RecordRow(j)  BY <2>1, <2>2, <2>3 DEF RecordRow
  <2>4. CASE RecordRowAndEvent(j)  BY <2>1, <2>2, <2>4 DEF RecordRowAndEvent
  <2> QED  BY <1>c, <2>3, <2>4
<1>12. ASSUME NEW j \in Jobs, RecordStatus(j) PROVE TypeInv'
  <2>1. Rest  BY <1>12, <1>c, <1>t DEF RecordStatus, TypeOK, Writing
  <2>2. \E state \in {"started", "done"} : ExecGoes(j, state)  BY <1>12 DEF RecordStatus
  <2>3. Machines
    BY <1>12, <1>t, <1>x, <1>z, <2>2, ExecMoves, ZenonT(40) DEF RecordStatus, ExecStates
  <2> QED  BY <1>12, <1>e, <1>h, <1>l, <1>q, <2>1, <2>3 DEF RecordStatus
<1>13. ASSUME NEW j \in Jobs, TaskFails(j) PROVE TypeInv'
  <2>1. exec[j].state \in Tasks /\ exec[j].tries \in 0 .. MaxAttempts /\ exec[j].tries < MaxAttempts
    BY <1>13, <1>t DEF TaskFails, TypeOK, ExecState
  <2>2. /\ adrift' \subseteq Jobs \X Tasks \X (0 .. MaxAttempts) /\ Writing'
    <3> DEFINE w == <<j, exec[j].state, exec[j].tries>>
    <3>1. adrift' = adrift \/ (exec[j].state # "CheckDataReady" /\ adrift' = adrift \cup {w})
      BY <1>13 DEF TaskFails
    <3>2. w \in Jobs \X Tasks \X (0 .. MaxAttempts) /\ w[2] = exec[j].state  BY <2>1
    <3>3. adrift \subseteq Jobs \X Tasks \X (0 .. MaxAttempts)  BY <1>t DEF TypeOK
    <3> HIDE DEF w
    <3> QED  BY <1>t, <3>1, <3>2, <3>3 DEF Writing
  <2>3. Rest  BY <1>13, <1>t, <2>2 DEF TaskFails, TypeOK, tables
  <2>4. Machines
    <3>1. exec[j].tries + 1 < MaxAttempts \/ exec'[j].state = "FAILED"
      BY <1>13, <1>t, <2>1, TaskFailsMoves
    <3>2. exec'[j].state \in Tasks => exec'[j].tries < MaxAttempts
      BY <1>13, <1>t, <2>1, <3>1, TaskFailsMoves DEF Tasks
    <3> QED  BY <1>13, <1>t, <1>x, <2>1, <3>2, TaskFailsMoves DEF TaskFails
  <2> QED  BY <1>13, <1>e, <1>f, <1>l, <1>q, <2>3, <2>4 DEF TaskFails
<1>14. ASSUME NEW w \in adrift, ApplyAdrift(w) PROVE TypeInv'
  <2>1. w[1] \in Jobs  BY <1>t DEF TypeOK
  <2>2. RecordRow(w[1]) \/ RecordRowAndEvent(w[1])  BY <1>14 DEF ApplyAdrift
  <2>3. Rest  BY <1>14, <1>c, <1>t, <2>1, <2>2 DEF ApplyAdrift, TypeOK, Writing
  <2> QED  BY <1>14, <1>d, <1>e, <1>h, <1>l, <1>q, <1>t, <2>3 DEF ApplyAdrift
<1>15. ASSUME NEW p \in Publishers, Scan(p) PROVE TypeInv'
  <2>1. Past  BY <1>15, <1>b DEF Scan
  <2> QED  BY <1>15, <1>d, <1>e, <1>l, <1>r, <1>t, <2>1, ScanMoves DEF Scan
<1>16. ASSUME NEW p \in Publishers, PublishEvent(p) PROVE TypeInv'
  <2>1. published \in [Jobs -> Nat]  BY <1>t DEF TypeOK
  <2>2. published' \in [Jobs -> Nat] /\ Senders  BY <1>16, <1>t, <2>1, PublishEventMoves
  <2>3. Rest  BY <1>16, <1>p, <2>2 DEF PublishEvent
  <2> QED  BY <1>16, <1>d, <1>e, <1>h, <1>l, <1>t, <2>2, <2>3 DEF PublishEvent
<1>17. ASSUME NEW p \in Publishers, Mark(p) PROVE TypeInv'
  <2>1. Rest  BY <1>17, <1>t DEF Mark, TypeOK, Writing
  <2>2. Senders  BY <1>17, <1>t, MarkMoves
  <2>3. Machines  BY <1>17, <1>d, <1>t DEF Mark
  <2> QED  BY <1>17, <1>e, <1>h, <1>l, <2>1, <2>2, <2>3 DEF Mark
<1>18. ASSUME NEW p \in Publishers, PublisherStops(p) PROVE TypeInv'
  <2>1. published' \in [Jobs -> Nat] /\ outbox' \in [Jobs -> {"none", "PENDING", "PUBLISHED"}]
    <3>1. /\ published \in [Jobs -> Nat] /\ outbox \in [Jobs -> {"none", "PENDING", "PUBLISHED"}]
          /\ publisher[p].pending \subseteq Jobs
      BY <1>18, <1>t DEF TypeOK
    <3>2. \/ UNCHANGED <<published, outbox>>
          \/ /\ UNCHANGED outbox
             /\ \E j \in publisher[p].pending : published' = [published EXCEPT ![j] = @ + 1]
          \/ /\ UNCHANGED published
             /\ outbox' = [j \in Jobs |-> IF j \in publisher[p].cur THEN "PUBLISHED" ELSE outbox[j]]
      BY <1>18 DEF PublisherStops
    <3> QED  BY <3>1, <3>2
  <2>2. Rest  BY <1>18, <1>t, <2>1 DEF PublisherStops, TypeOK, Writing
  <2> QED  BY <1>18, <1>d, <1>e, <1>f, <1>l, <1>t, <2>2, PublisherStopsMoves DEF PublisherStops
<1>19. CASE UNCHANGED vars
  BY <1>19, <1>d, <1>e, <1>h, <1>l, <1>q, <1>r, <1>t DEF vars
<1> QED
  BY <1>1, <1>2, <1>4, <1>5, <1>6, <1>7, <1>8, <1>9, <1>10, <1>11, <1>12, <1>13, <1>14,
     <1>15, <1>16, <1>17, <1>18, <1>19
  DEF Next, Drives, Executes, Publishes

LEMMA TypeInit == Init => TypeInv
<1> SUFFICES ASSUME Init PROVE TypeOK /\ Writing  BY DEF TypeInv
<1>1. driver \in [Jobs -> DriverStates]  BY DEF Init, DriverStates
<1>2. /\ curation \in [Jobs -> [pc : CurateStates, read : SUBSET Objects, disturbed : BOOLEAN]]
      /\ exec \in [Jobs -> [state : ExecStates, tries : 0 .. MaxAttempts, saw : SUBSET Objects]]
      /\ \A j \in Jobs : exec[j].state \notin Tasks
  BY DailyJobAssumption DEF Init, CurateStates, ExecStates, Tasks
<1>3. publisher \in [Publishers -> [pc : {"idle", "publish", "mark"},
                                   pending : SUBSET Jobs, cur : SUBSET Jobs]]
  BY DEF Init, Quiet
<1>4. /\ started \in [Jobs -> Counts \cup {Absent}] /\ completed \in [Jobs -> Counts \cup {Absent}]
      /\ outbox \in [Jobs -> {"none", "PENDING", "PUBLISHED"}] /\ published \in [Jobs -> Nat]
  BY DEF Init
<1>5. failures \in Nat /\ overlaps \in Nat /\ failures + overlaps <= MaxMishaps
  BY DailyJobAssumption DEF Init
<1>6. /\ raw \subseteq Objects /\ curated \subseteq Jobs \X Objects /\ settled \in BOOLEAN
      /\ adrift \subseteq Jobs \X Tasks \X (0 .. MaxAttempts) /\ Writing
  BY DEF Init, Writing
<1> QED  BY <1>1, <1>2, <1>3, <1>4, <1>5, <1>6 DEF TypeOK

\* Every variable of the daily job stays in its type, and Step Functions attempts no
\* task of an execution more often than MaxAttempts.
THEOREM TypeCorrect == Spec => []TypeOK
<1>1. Spec => []TypeInv  BY TypeInit, TypeStep, PTL DEF Spec
<1> QED  BY <1>1, PTL DEF TypeInv
-----------------------------------------------------------------------------
(* A driver, its execution and its curation keep step, and the rows of a job with them. *)

\* A write of the task for job j may still be applied.
Asked(j, task) == \E w \in adrift : w[1] = j /\ w[2] = task
\* The completed row of j is there, or may still appear.
Posted(j) == completed[j] # Absent \/ Asked(j, "RecordCompleted")

\* What the driver has seen of the execution and of curate.py is so.
InStep(j) ==
  /\ driver[j] = "new" => exec[j].state = "none"
  /\ driver[j] = "preflight" =>
       exec[j].state \in {"CheckDataReady", "RecordStarted", "started", "nodata", "FAILED"}
  /\ driver[j] \in {"new", "preflight", "preflight_failed", "no_data_to_curate"} =>
       curation[j].pc = "none"
  /\ driver[j] \in {"curating", "curate_failed"} =>
       exec[j].state = "started" /\ curation[j].pc # "none"
  /\ driver[j] = "postflight" => exec[j].state \in {"RecordCompleted", "done", "FAILED"}
  /\ driver[j] = "completed" => exec[j].state = "done"
  /\ driver[j] \in {"preflight_failed", "postflight_failed"} => exec[j].state = "FAILED"
  /\ driver[j] = "no_data_to_curate" => exec[j].state = "nodata"

\* curate.py runs after the pre-flight and before the post-flight, driver or no driver.
BetweenFlights(j) ==
  /\ exec[j].state \in {"none", "CheckDataReady", "RecordStarted", "nodata"} =>
       curation[j].pc = "none"
  /\ curation[j].pc \in {"read", "overwrite", "commit", "failed"} => exec[j].state = "started"
  /\ \/ exec[j].state \in {"RecordCompleted", "done"} \/ Posted(j)
     \/ driver[j] \in {"postflight", "completed", "postflight_failed"}
     => curation[j].pc = "done"

\* The started row: what the pre-flight counted, from RecordStarted on.
StartedInv(j) ==
  /\ started[j] \in {Absent, KeyCount(exec[j].saw)}
  /\ exec[j].state \in {"none", "CheckDataReady", "nodata"} =>
       started[j] = Absent /\ ~Asked(j, "RecordStarted")
  /\ exec[j].state \in {"started", "RecordCompleted", "done"} \/ Posted(j) =>
       started[j] # Absent

\* The completed row and the event: what curate.py reported, from RecordCompleted on.
CompletedInv(j) ==
  /\ completed[j] \in {Absent, RowsOut(j)}
  /\ completed[j] = Absent <=> outbox[j] = "none"
  /\ exec[j].state = "done" => completed[j] # Absent
  /\ exec[j].state = "RecordCompleted" => driver[j] \in {"postflight", "raised"}
  /\ Posted(j) => /\ driver[j] \in {"postflight", "completed", "postflight_failed", "raised"}
                  /\ exec[j].state \in {"RecordCompleted", "done", "FAILED"}

\* Objects are only added, so a curation reads what its pre-flight saw, and something.
RowsInv(j) ==
  /\ exec[j].saw \subseteq raw /\ curation[j].read \subseteq raw
  /\ curation[j].pc \in {"overwrite", "commit", "done"} => exec[j].saw \subseteq curation[j].read
  /\ exec[j].state \in {"RecordStarted", "started"} \/ curation[j].pc # "none" =>
       exec[j].saw # {}

JobInv(j) ==
  InStep(j) /\ BetweenFlights(j) /\ StartedInv(j) /\ CompletedInv(j) /\ RowsInv(j)

\* A publisher holds rows that are there, and marks what it has published.
PublisherInv(p) ==
  /\ publisher[p].pc = "idle" => publisher[p].pending = {}
  /\ publisher[p].pc # "mark" => publisher[p].cur = {}
  /\ \A j \in publisher[p].pending : outbox[j] # "none"
  /\ \A j \in publisher[p].cur : outbox[j] # "none" /\ published[j] > 0

EventInv(j) ==
  /\ published[j] > 0 => outbox[j] # "none"
  /\ outbox[j] = "PUBLISHED" => published[j] > 0

DailyInv ==
  /\ TypeInv
  /\ \A j \in Jobs : JobInv(j) /\ EventInv(j)
  /\ \A p \in Publishers : PublisherInv(p)

(* A step keeps the invariant of the jobs it is not about ... *)

CurationKept(i) == curation'[i].pc = curation[i].pc /\ curation'[i].read = curation[i].read
Kept(i) ==
  /\ driver'[i] = driver[i] /\ exec'[i] = exec[i] /\ started'[i] = started[i]
  /\ CurationKept(i)
  /\ completed'[i] = completed[i] /\ (outbox'[i] = "none" <=> outbox[i] = "none")
  /\ \A task \in Tasks : Asked(i, task)' => Asked(i, task)

LEMMA KeptInv ==
  ASSUME NEW i \in Jobs, JobInv(i), Kept(i), raw \subseteq raw'
  PROVE  JobInv(i)'
<1>1. "RecordStarted" \in Tasks /\ "RecordCompleted" \in Tasks  BY DEF Tasks
<1>2. Posted(i)' => Posted(i)  BY <1>1 DEF Posted, Kept
<1>3. RowsOut(i)' = RowsOut(i) /\ KeyCount(exec[i].saw)' = KeyCount(exec[i].saw)
  BY DEF RowsOut, KeysOf, KeyCount, Kept, CurationKept
<1>4. InStep(i)'  BY DEF JobInv, InStep, Kept, CurationKept
<1>5. BetweenFlights(i)'  BY <1>2 DEF JobInv, BetweenFlights, Kept, CurationKept
<1>6. StartedInv(i)'  BY <1>1, <1>2, <1>3 DEF JobInv, StartedInv, Kept
<1>7. CompletedInv(i)'  BY <1>1, <1>2, <1>3 DEF JobInv, CompletedInv, Kept
<1>8. RowsInv(i)'  BY DEF JobInv, RowsInv, Kept, CurationKept
<1> QED  BY <1>4, <1>5, <1>6, <1>7, <1>8 DEF JobInv

(* ... and that of the one it is about. *)

\* The tables, the writes adrift and the objects are left alone.
TablesKept == UNCHANGED <<raw, started, completed, outbox, adrift>>

LEMMA TablesKeptAsked ==
  ASSUME TablesKept
  PROVE  /\ \A i, task : Asked(i, task)' <=> Asked(i, task)
         /\ \A i : Posted(i)' <=> Posted(i)
  BY DEF TablesKept, Asked, Posted

\* What the rows are made of is left alone.
LEMMA CountsKept ==
  ASSUME NEW i \in Jobs, exec'[i].saw = exec[i].saw, CurationKept(i)
  PROVE  RowsOut(i)' = RowsOut(i) /\ KeyCount(exec[i].saw)' = KeyCount(exec[i].saw)
  BY DEF RowsOut, KeysOf, KeyCount, CurationKept

LEMMA StartExecutionInv ==
  ASSUME TypeInv, NEW j \in Jobs, JobInv(j), StartExecution(j)
  PROVE  JobInv(j)'
<1>1. TablesKept /\ CurationKept(j)
  BY DEF StartExecution, TablesKept, CurationKept, lake, tables
<1>2. /\ exec'[j].saw = exec[j].saw
      /\ \/ /\ driver[j] = "new" /\ driver'[j] = "preflight"
            /\ exec'[j].state = "CheckDataReady"
         \/ /\ driver[j] = "curating" /\ driver'[j] = "postflight"
            /\ curation[j].pc = "done" /\ exec'[j].state = "RecordCompleted"
  BY TypeFacts, StartExecutionMoves DEF TypeInv
<1>3. RowsOut(j)' = RowsOut(j) /\ KeyCount(exec[j].saw)' = KeyCount(exec[j].saw)
  BY <1>1, <1>2, CountsKept
<1>4. InStep(j)' /\ BetweenFlights(j)'
  BY <1>1, <1>2, TablesKeptAsked
  DEF JobInv, InStep, BetweenFlights, CompletedInv, TablesKept, CurationKept
<1>5. StartedInv(j)' /\ CompletedInv(j)' /\ RowsInv(j)'
  BY <1>1, <1>2, <1>3, TablesKeptAsked
  DEF JobInv, InStep, StartedInv, CompletedInv, RowsInv, TablesKept, CurationKept
<1> QED  BY <1>4, <1>5 DEF JobInv

\* curate.py of a job that has not posted anything goes on, or dies.
LEMMA CurationInv ==
  ASSUME TypeInv, NEW j \in Jobs, JobInv(j), TablesKept, UNCHANGED exec,
         driver'[j] = driver[j] \/ driver'[j] = "raised",
         curation[j].pc \in {"read", "overwrite", "commit"},
         \/ curation[j].pc # "read" /\ curation'[j].read = curation[j].read
         \/ curation'[j].read = raw
         \/ curation'[j].read = {} /\ curation'[j].pc = "failed",
         curation'[j].pc \in {"overwrite", "commit", "done", "failed"}
  PROVE  JobInv(j)'
<1>1. ~Posted(j) /\ completed[j] = Absent /\ exec[j].state = "started"
  BY DEF JobInv, BetweenFlights, Posted
<1>2. driver[j] \notin {"postflight", "completed", "postflight_failed"}
  BY DEF JobInv, BetweenFlights
<1>3. KeyCount(exec[j].saw)' = KeyCount(exec[j].saw)  BY DEF KeyCount
<1>4. ~Posted(j)' /\ \A task : Asked(j, task)' <=> Asked(j, task)  BY <1>1, TablesKeptAsked
<1>5. InStep(j)'  BY <1>1 DEF JobInv, InStep
<1>6. BetweenFlights(j)'  BY <1>1, <1>2, <1>4 DEF JobInv, InStep, BetweenFlights
<1>7. StartedInv(j)'  BY <1>1, <1>3, <1>4 DEF JobInv, StartedInv, TablesKept
<1>8. CompletedInv(j)'  BY <1>1, <1>4 DEF JobInv, CompletedInv, TablesKept
<1>9. RowsInv(j)'  BY <1>1 DEF JobInv, RowsInv, TablesKept
<1> QED  BY <1>5, <1>6, <1>7, <1>8, <1>9 DEF JobInv

LEMMA CurateInv ==
  ASSUME TypeInv, NEW j \in Jobs, JobInv(j),
         CurateRead(j) \/ CurateDelete(j) \/ CurateCommit(j) \/ CurateFails(j)
  PROVE  JobInv(j)'
<1>1. TablesKept /\ UNCHANGED <<driver, exec>>
  BY DEF CurateRead, CurateDelete, CurateCommit, CurateFails, TablesKept, tables
<1>2. curation \in [Jobs -> Curation] /\ raw \subseteq Objects  BY TypeFacts DEF TypeInv
<1>3. CASE CurateRead(j)  BY <1>1, <1>2, <1>3, CurateReadMoves, CurationInv
<1>4. CASE CurateDelete(j)  BY <1>1, <1>2, <1>4, CurateDeleteMoves, CurationInv
<1>5. CASE CurateCommit(j)  BY <1>1, <1>2, <1>5, CurateCommitMoves, CurationInv
<1>6. CASE CurateFails(j)
  BY <1>1, <1>2, <1>6, CurationDiesMoves, CurationInv DEF CurateFails
<1> QED  BY <1>3, <1>4, <1>5, <1>6

LEMMA DriverStopsInv ==
  ASSUME TypeInv, NEW j \in Jobs, JobInv(j), DriverStops(j)
  PROVE  JobInv(j)'
<1>1. TablesKept  BY DriverStopsMoves, TypeFacts DEF DriverStops, TablesKept, TypeInv, lake, tables
<1>2. /\ driver'[j] = "raised" /\ driver[j] \notin Ended /\ exec'[j].saw = exec[j].saw
      /\ \/ UNCHANGED <<lake, exec>>
         \/ driver[j] = "new" /\ UNCHANGED lake /\ exec'[j].state = "CheckDataReady"
         \/ /\ driver[j] = "curating" /\ curation[j].pc = "done" /\ UNCHANGED lake
            /\ exec'[j].state = "RecordCompleted"
         \/ driver[j] = "curating" /\ CurationDies(j) /\ UNCHANGED <<raw, exec>>
  BY TypeFacts, DriverStopsMoves DEF TypeInv, DriverStops
<1>3. CASE CurationDies(j) /\ UNCHANGED exec
  BY <1>1, <1>2, <1>3, TypeFacts, CurationDiesMoves, CurationInv DEF TypeInv
<1>4. ASSUME UNCHANGED lake,
             \/ UNCHANGED exec
             \/ driver[j] = "new" /\ exec'[j].state = "CheckDataReady"
             \/ /\ driver[j] = "curating" /\ curation[j].pc = "done"
                /\ exec'[j].state = "RecordCompleted"
      PROVE  JobInv(j)'
  <2>1. CurationKept(j)  BY <1>4 DEF CurationKept, lake
  <2>2. RowsOut(j)' = RowsOut(j) /\ KeyCount(exec[j].saw)' = KeyCount(exec[j].saw)
    BY <1>2, <2>1, CountsKept
  <2>3. InStep(j)'  BY <1>2 DEF InStep
  <2>4. BetweenFlights(j)'
    BY <1>1, <1>2, <1>4, <2>1, TablesKeptAsked
    DEF JobInv, InStep, BetweenFlights, CompletedInv, TablesKept, CurationKept
  <2>5. StartedInv(j)' /\ CompletedInv(j)' /\ RowsInv(j)'
    BY <1>1, <1>2, <1>4, <2>1, <2>2, TablesKeptAsked
    DEF JobInv, InStep, StartedInv, CompletedInv, RowsInv, TablesKept, CurationKept, Ended
  <2> QED  BY <2>3, <2>4, <2>5 DEF JobInv
<1> QED  BY <1>2, <1>3, <1>4

\* The driver goes on, its execution does not.
LEMMA DriveInv ==
  ASSUME TypeInv, NEW j \in Jobs, JobInv(j),
         PreflightEnds(j) \/ CurateFailed(j) \/ PostflightEnds(j)
  PROVE  JobInv(j)'
<1>1. TablesKept /\ UNCHANGED exec
  BY DEF PreflightEnds, PostflightEnds, CurateFailed, TablesKept, lake, tables
<1>2. /\ curation'[j].read = curation[j].read
      /\ \/ /\ driver[j] = "preflight" /\ exec[j].state = "started"
            /\ driver'[j] = "curating" /\ curation'[j].pc = "read"
         \/ /\ curation'[j].pc = curation[j].pc
            /\ \/ /\ driver[j] = "preflight"
                  /\ \/ exec[j].state = "nodata" /\ driver'[j] = "no_data_to_curate"
                     \/ exec[j].state = "FAILED" /\ driver'[j] = "preflight_failed"
               \/ /\ driver[j] = "curating" /\ curation[j].pc = "failed"
                  /\ driver'[j] = "curate_failed"
               \/ /\ driver[j] = "postflight"
                  /\ \/ exec[j].state = "done" /\ driver'[j] = "completed"
                     \/ exec[j].state = "FAILED" /\ driver'[j] = "postflight_failed"
  <2>1. "completed" \in DriverStates /\ "postflight_failed" \in DriverStates
        /\ "curate_failed" \in DriverStates
    BY DEF DriverStates, Ended
  <2>2. CASE PreflightEnds(j)  BY <2>2, TypeFacts, PreflightEndsMoves DEF TypeInv
  <2>3. CASE CurateFailed(j) \/ PostflightEnds(j)
    BY <2>1, <2>3, TypeFacts, DriveMoves DEF TypeInv, CurateFailed, PostflightEnds, lake
  <2> QED  BY <2>2, <2>3
<1>3. RowsOut(j)' = RowsOut(j) /\ KeyCount(exec[j].saw)' = KeyCount(exec[j].saw)
  BY <1>1, <1>2 DEF RowsOut, KeysOf, KeyCount
<1>4. curation[j].pc = "none" \/ curation'[j].pc = curation[j].pc
  BY <1>2 DEF JobInv, InStep
<1>5. InStep(j)'  BY <1>1, <1>2 DEF JobInv, InStep
<1>6. BetweenFlights(j)'
  BY <1>1, <1>2, <1>4, TablesKeptAsked DEF JobInv, InStep, BetweenFlights, TablesKept
<1>7. StartedInv(j)'  BY <1>1, <1>3, TablesKeptAsked DEF JobInv, StartedInv, TablesKept
<1>8. CompletedInv(j)'
  BY <1>1, <1>2, <1>3, TablesKeptAsked DEF JobInv, InStep, BetweenFlights, CompletedInv, TablesKept
<1>9. RowsInv(j)'  BY <1>1, <1>2 DEF JobInv, RowsInv, TablesKept
<1> QED  BY <1>5, <1>6, <1>7, <1>8, <1>9 DEF JobInv

LEMMA CheckDataReadyInv ==
  ASSUME TypeInv, NEW j \in Jobs, JobInv(j), CheckDataReady(j)
  PROVE  JobInv(j)'
<1>1. TablesKept /\ UNCHANGED <<driver, curation>>
  BY DEF CheckDataReady, TablesKept, lake, tables
<1>2. /\ exec[j].state = "CheckDataReady" /\ exec'[j].state \in {"RecordStarted", "nodata"}
      /\ exec'[j].saw = raw /\ (exec'[j].state = "RecordStarted" => raw # {})
  BY TypeFacts, CheckDataReadyMoves DEF TypeInv, CheckDataReady
<1>3. /\ ~Posted(j) /\ driver[j] \in {"preflight", "raised"} /\ curation[j].pc = "none"
      /\ started[j] = Absent /\ ~Asked(j, "RecordStarted") /\ completed[j] = Absent
  <2>1. driver[j] \in DriverStates  BY TypeFacts DEF TypeInv
  <2> QED
    BY <1>2, <2>1
    DEF JobInv, InStep, BetweenFlights, StartedInv, CompletedInv, Posted, DriverStates, Waiting, Ended
<1>4. ~Posted(j)' /\ ~Asked(j, "RecordStarted")'  BY <1>1, <1>3, TablesKeptAsked
<1>5. InStep(j)'  BY <1>1, <1>2, <1>3 DEF InStep
<1>6. BetweenFlights(j)'  BY <1>1, <1>2, <1>3, <1>4 DEF BetweenFlights
<1>7. StartedInv(j)'  BY <1>1, <1>2, <1>3, <1>4 DEF StartedInv, TablesKept
<1>8. CompletedInv(j)'  BY <1>1, <1>2, <1>3, <1>4 DEF JobInv, CompletedInv, TablesKept
<1>9. RowsInv(j)'  BY <1>1, <1>2, <1>3 DEF JobInv, RowsInv, TablesKept
<1> QED  BY <1>5, <1>6, <1>7, <1>8, <1>9 DEF JobInv

\* A row is written: by the task of the execution, or by an attempt given up before.
LEMMA RecordInv ==
  ASSUME TypeInv, NEW j \in Jobs, JobInv(j), UNCHANGED <<raw, curation, driver>>,
         \A task \in Tasks : Asked(j, task)' => Asked(j, task),
         exec'[j].saw = exec[j].saw,
         \/ /\ RecordRow(j)
            /\ \/ exec[j].state = "RecordStarted" /\ exec'[j].state = "started"
               \/ Asked(j, "RecordStarted") /\ exec'[j].state = exec[j].state
         \/ /\ RecordRowAndEvent(j)
            /\ \/ exec[j].state = "RecordCompleted" /\ exec'[j].state = "done"
               \/ Asked(j, "RecordCompleted") /\ exec'[j].state = exec[j].state
  PROVE  JobInv(j)'
<1>1. /\ started \in [Jobs -> Counts \cup {Absent}] /\ completed \in [Jobs -> Counts \cup {Absent}]
      /\ outbox \in [Jobs -> {"none", "PENDING", "PUBLISHED"}]
      /\ KeyCount(exec[j].saw) \in Counts /\ RowsOut(j) \in Counts
  BY JobCounts DEF TypeInv, TypeOK
<1>2. Absent \notin Counts  BY DEF Absent, Counts
<1>3. "RecordStarted" \in Tasks /\ "RecordCompleted" \in Tasks  BY DEF Tasks
<1>c. RowsOut(j)' = RowsOut(j) /\ KeyCount(exec[j].saw)' = KeyCount(exec[j].saw)
  BY CountsKept DEF CurationKept
<1>4. CASE RecordRow(j) /\ (\/ exec[j].state = "RecordStarted" /\ exec'[j].state = "started"
                            \/ Asked(j, "RecordStarted") /\ exec'[j].state = exec[j].state)
  <2>1. /\ started'[j] = KeyCount(exec[j].saw) /\ started'[j] # Absent
        /\ completed'[j] = completed[j] /\ outbox'[j] = outbox[j]
    BY <1>1, <1>2, <1>4 DEF RecordRow
  <2>2. Posted(j)' => Posted(j)  BY <1>3, <2>1 DEF Posted
  <2>3. InStep(j)'  BY <1>4 DEF JobInv, InStep, CompletedInv
  <2>4. BetweenFlights(j)'  BY <1>4, <2>2 DEF JobInv, BetweenFlights
  <2>5. StartedInv(j)'  BY <1>3, <1>4, <1>c, <2>1, <2>2 DEF JobInv, StartedInv
  <2>6. CompletedInv(j)'  BY <1>3, <1>4, <1>c, <2>1, <2>2 DEF JobInv, CompletedInv
  <2>7. RowsInv(j)'  BY <1>4 DEF JobInv, RowsInv
  <2> QED  BY <2>3, <2>4, <2>5, <2>6, <2>7 DEF JobInv
<1>5. CASE RecordRowAndEvent(j)
             /\ (\/ exec[j].state = "RecordCompleted" /\ exec'[j].state = "done"
                 \/ Asked(j, "RecordCompleted") /\ exec'[j].state = exec[j].state)
  <2>1. /\ completed'[j] = RowsOut(j) /\ completed'[j] # Absent
        /\ outbox'[j] = "PENDING" /\ started'[j] = started[j]
    BY <1>1, <1>2, <1>5 DEF RecordRowAndEvent
  <2>2. started[j] # Absent  BY <1>5 DEF JobInv, StartedInv, Posted
  <2>3. curation[j].pc = "done"  BY <1>5 DEF JobInv, BetweenFlights, Posted
  <2>4. /\ driver[j] \in {"postflight", "completed", "postflight_failed", "raised"}
        /\ exec[j].state \in {"RecordCompleted", "done", "FAILED"}
    BY <1>5 DEF JobInv, CompletedInv, Posted
  <2>5. InStep(j)'  BY <1>5, <2>4 DEF JobInv, InStep
  <2>6. BetweenFlights(j)'  BY <1>5, <2>3, <2>4 DEF BetweenFlights
  <2>7. StartedInv(j)'  BY <1>3, <1>5, <1>c, <2>1, <2>2, <2>4 DEF JobInv, StartedInv
  <2>8. CompletedInv(j)'  BY <1>3, <1>5, <1>c, <2>1, <2>4 DEF JobInv, CompletedInv
  <2>9. RowsInv(j)'  BY <1>5, <2>3 DEF JobInv, RowsInv
  <2> QED  BY <2>5, <2>6, <2>7, <2>8, <2>9 DEF JobInv
<1> QED  BY <1>4, <1>5

LEMMA TaskFailsInv ==
  ASSUME TypeInv, NEW j \in Jobs, JobInv(j), TaskFails(j)
  PROVE  /\ JobInv(j)'
         /\ \A i \in Jobs, task \in Tasks : i # j => (Asked(i, task)' => Asked(i, task))
<1>1. /\ UNCHANGED <<raw, curation, started, completed, outbox, driver>>
      /\ exec[j].state \in Tasks
  BY DEF TaskFails, lake, tables
<1>2. /\ exec'[j].saw = exec[j].saw
      /\ exec'[j].state = exec[j].state \/ exec'[j].state = "FAILED"
  BY TypeFacts, TaskFailsMoves DEF TypeInv, TypeOK, TaskFails
<1>3. \A w \in adrift' : \/ w \in adrift
                         \/ /\ w[1] = j /\ w[2] = exec[j].state
                            /\ exec[j].state # "CheckDataReady"
  BY DEF TaskFails
<1>4. \A i \in Jobs, task \in Tasks :
        Asked(i, task)' => \/ Asked(i, task)
                           \/ i = j /\ task = exec[j].state /\ task # "CheckDataReady"
  BY <1>3 DEF Asked
<1>5. /\ Asked(j, "RecordStarted")' => Asked(j, "RecordStarted") \/ exec[j].state = "RecordStarted"
      /\ Posted(j)' => Posted(j) \/ exec[j].state = "RecordCompleted"
  BY <1>1, <1>4 DEF Posted, Tasks
<1>c. RowsOut(j)' = RowsOut(j) /\ KeyCount(exec[j].saw)' = KeyCount(exec[j].saw)
  BY <1>1, <1>2, CountsKept DEF CurationKept
<1>6. InStep(j)'  BY <1>1, <1>2 DEF JobInv, InStep, CompletedInv, Tasks
<1>7. BetweenFlights(j)'  BY <1>1, <1>2, <1>5 DEF JobInv, BetweenFlights, Tasks
<1>8. StartedInv(j)'  BY <1>1, <1>2, <1>5, <1>c DEF JobInv, StartedInv, Tasks
<1>9. CompletedInv(j)'  BY <1>1, <1>2, <1>5, <1>c DEF JobInv, CompletedInv, Tasks
<1>10. RowsInv(j)'  BY <1>1, <1>2 DEF JobInv, RowsInv, Tasks
<1> QED  BY <1>4, <1>6, <1>7, <1>8, <1>9, <1>10 DEF JobInv
-----------------------------------------------------------------------------
(* Publishers and events. *)

EventsInv == (\A j \in Jobs : EventInv(j)) /\ (\A p \in Publishers : PublisherInv(p))

\* No publisher does anything; rows appear, or are written anew.
LEMMA EventsKept ==
  ASSUME TypeInv, EventsInv, UNCHANGED <<publisher, published>>,
         \A j \in Jobs : outbox'[j] = outbox[j] \/ outbox'[j] = "PENDING"
  PROVE  EventsInv'
<1>1. ASSUME NEW j \in Jobs PROVE EventInv(j)'  BY DEF EventsInv, EventInv
<1>2. ASSUME NEW p \in Publishers PROVE PublisherInv(p)'
  <2>1. publisher[p] \in Publisher  BY TypeFacts DEF TypeInv
  <2> QED  BY <2>1 DEF EventsInv, PublisherInv, Publisher
<1> QED  BY <1>1, <1>2 DEF EventsInv

LEMMA ScanEvents ==
  ASSUME TypeInv, EventsInv, NEW p \in Publishers, Scan(p)
  PROVE  EventsInv'
<1>1. UNCHANGED <<published, outbox>>  BY DEF Scan, tables
<1>2. ASSUME NEW j \in Jobs PROVE EventInv(j)'  BY <1>1 DEF EventsInv, EventInv
<1>3. ASSUME NEW q \in Publishers PROVE PublisherInv(q)'
  <2>1. publisher[p].cur = {}  BY DEF Scan, EventsInv, PublisherInv
  <2>2. CASE q = p
    BY <1>1, <2>1, <2>2, TypeFacts, ScanMoves DEF TypeInv, PublisherInv, OnPage
  <2>3. CASE q # p
    BY <1>1, <2>3, TypeFacts, ScanMoves DEF TypeInv, EventsInv, PublisherInv
  <2> QED  BY <2>2, <2>3
<1> QED  BY <1>2, <1>3 DEF EventsInv

LEMMA PublishEventEvents ==
  ASSUME TypeInv, EventsInv, NEW p \in Publishers, PublishEvent(p)
  PROVE  EventsInv'
<1>1. UNCHANGED outbox /\ published \in [Jobs -> Nat]
  BY DEF PublishEvent, tables, TypeInv, TypeOK
<1>2. PICK j \in publisher[p].pending :
        /\ publisher' \in [Publishers -> Publisher]
        /\ publisher'[p].pc = "mark" /\ publisher'[p].cur = {j}
        /\ publisher'[p].pending = publisher[p].pending \ {j}
        /\ \A q \in Publishers : q # p => publisher'[q] = publisher[q]
        /\ j \in Jobs /\ published'[j] = published[j] + 1
        /\ \A i \in Jobs : i # j => published'[i] = published[i]
  BY <1>1, TypeFacts, PublishEventMoves DEF TypeInv
<1>3. outbox[j] # "none"  BY DEF EventsInv, PublisherInv
<1>4. published[j] \in Nat /\ published'[j] > 0  BY <1>1, <1>2
<1>5. ASSUME NEW i \in Jobs PROVE EventInv(i)'
  BY <1>1, <1>2, <1>3, <1>4 DEF EventsInv, EventInv
<1>6. ASSUME NEW q \in Publishers PROVE PublisherInv(q)'
  <2>1. CASE q = p  BY <1>1, <1>2, <1>3, <1>4, <2>1 DEF EventsInv, PublisherInv
  <2>2. CASE q # p
    <3>1. publisher[q] \in Publisher  BY TypeFacts DEF TypeInv
    <3>2. \A i \in publisher[q].cur : i \in Jobs /\ published'[i] > 0
      BY <1>2, <1>4, <3>1 DEF EventsInv, PublisherInv, Publisher
    <3> QED  BY <1>1, <1>2, <2>2, <3>2 DEF EventsInv, PublisherInv
  <2> QED  BY <2>1, <2>2
<1> QED  BY <1>5, <1>6 DEF EventsInv

\* Rows that are there and published are marked.
LEMMA MarkRows ==
  ASSUME TypeInv, EventsInv, NEW p \in Publishers, UNCHANGED published,
         \/ UNCHANGED outbox
         \/ outbox' = [j \in Jobs |-> IF j \in publisher[p].cur THEN "PUBLISHED" ELSE outbox[j]]
  PROVE  /\ \A j \in Jobs : EventInv(j)'
         /\ \A j \in Jobs : outbox'[j] = "none" <=> outbox[j] = "none"
         /\ \A q \in Publishers : publisher'[q] = publisher[q] => PublisherInv(q)'
<1>1. ASSUME NEW j \in Jobs PROVE EventInv(j)' /\ (outbox'[j] = "none" <=> outbox[j] = "none")
  BY DEF EventsInv, EventInv, PublisherInv
<1>2. ASSUME NEW q \in Publishers, publisher'[q] = publisher[q] PROVE PublisherInv(q)'
  <2>1. publisher[q] \in Publisher  BY TypeFacts DEF TypeInv
  <2> QED  BY <1>1, <1>2, <2>1 DEF EventsInv, PublisherInv, Publisher
<1> QED  BY <1>1, <1>2

LEMMA MarkEvents ==
  ASSUME TypeInv, EventsInv, NEW p \in Publishers, Mark(p)
  PROVE  EventsInv' /\ \A j \in Jobs : outbox'[j] = "none" <=> outbox[j] = "none"
<1>1. /\ UNCHANGED published
      /\ outbox' = [j \in Jobs |-> IF j \in publisher[p].cur THEN "PUBLISHED" ELSE outbox[j]]
  BY DEF Mark
<1>2. /\ publisher'[p].pc = IF publisher[p].pending = {} THEN "idle" ELSE "publish"
      /\ publisher'[p].cur = {} /\ publisher'[p].pending = publisher[p].pending
      /\ \A q \in Publishers : q # p => publisher'[q] = publisher[q]
  BY TypeFacts, MarkMoves DEF TypeInv
<1>3. \A j \in Jobs : outbox'[j] = "none" <=> outbox[j] = "none"  BY <1>1, MarkRows
<1>4. PublisherInv(p)'
  <2>1. publisher[p] \in Publisher  BY TypeFacts DEF TypeInv
  <2> QED  BY <1>2, <1>3, <2>1 DEF EventsInv, PublisherInv, Publisher
<1> QED  BY <1>1, <1>2, <1>3, <1>4, MarkRows DEF EventsInv

LEMMA PublisherStopsEvents ==
  ASSUME TypeInv, EventsInv, NEW p \in Publishers, PublisherStops(p)
  PROVE  EventsInv' /\ \A j \in Jobs : outbox'[j] = "none" <=> outbox[j] = "none"
<1>1. /\ publisher'[p].pc = "idle" /\ publisher'[p].cur = {} /\ publisher'[p].pending = {}
      /\ \A q \in Publishers : q # p => publisher'[q] = publisher[q]
  BY TypeFacts, PublisherStopsMoves DEF TypeInv
<1>2. PublisherInv(p)'  BY <1>1 DEF PublisherInv
<1>3. CASE UNCHANGED published
             /\ (\/ UNCHANGED outbox
                 \/ outbox' = [j \in Jobs |-> IF j \in publisher[p].cur THEN "PUBLISHED"
                                              ELSE outbox[j]])
  BY <1>1, <1>2, <1>3, MarkRows DEF EventsInv
<1>4. ASSUME UNCHANGED outbox, NEW j \in publisher[p].pending,
             published' = [published EXCEPT ![j] = @ + 1]
      PROVE  EventsInv' /\ \A i \in Jobs : outbox'[i] = "none" <=> outbox[i] = "none"
  <2>1. j \in Jobs /\ outbox[j] # "none" /\ published \in [Jobs -> Nat]
    BY TypeFacts DEF TypeInv, TypeOK, EventsInv, PublisherInv, Publisher
  <2>2. /\ \A i \in Jobs : published'[i] >= published[i] /\ published[i] \in Nat
                           /\ published'[i] \in Nat
        /\ \A i \in Jobs : i # j => published'[i] = published[i]
    BY <1>4, <2>1
  <2>3. ASSUME NEW i \in Jobs PROVE EventInv(i)'
    BY <1>4, <2>1, <2>2 DEF EventsInv, EventInv
  <2>4. ASSUME NEW q \in Publishers, q # p PROVE PublisherInv(q)'
    <3>1. publisher[q] \in Publisher  BY TypeFacts DEF TypeInv
    <3>2. \A i \in publisher[q].cur : i \in Jobs /\ published'[i] > 0
      BY <2>2, <3>1 DEF EventsInv, PublisherInv, Publisher
    <3> QED  BY <1>1, <1>4, <2>4, <3>2 DEF EventsInv, PublisherInv
  <2> QED  BY <1>2, <1>4, <2>3, <2>4 DEF EventsInv
<1> QED  BY <1>3, <1>4 DEF PublisherStops
-----------------------------------------------------------------------------
\* Every step keeps the invariant of every job, every event and every publisher.
LEMMA DailyStep == DailyInv /\ [Next]_vars => DailyInv'
<1> SUFFICES ASSUME DailyInv, [Next]_vars PROVE DailyInv'  OBVIOUS
<1>t. /\ TypeInv /\ TypeInv' /\ EventsInv /\ \A i \in Jobs : JobInv(i)
      /\ driver \in [Jobs -> DriverStates] /\ exec \in [Jobs -> ExecState]
      /\ curation \in [Jobs -> Curation] /\ raw \subseteq Objects
  BY TypeStep, TypeFacts DEF DailyInv, EventsInv, TypeInv
<1>e. EventsInv' /\ (\A i \in Jobs : JobInv(i)') => DailyInv'
  BY <1>t DEF DailyInv, EventsInv
<1>k. ASSUME NEW i \in Jobs, Kept(i), raw \subseteq raw' PROVE JobInv(i)'
  BY <1>k, <1>t, KeptInv
<1>o. /\ UNCHANGED curation => \A i \in Jobs : CurationKept(i)
      /\ UNCHANGED lake => UNCHANGED <<raw, curation>>
      /\ UNCHANGED tables => UNCHANGED <<started, completed, outbox>>
      /\ \A j \in Jobs : OthersGoOn(j) => \A i \in Jobs : i # j => CurationKept(i)
  BY DEF CurationKept, OthersGoOn, lake, tables
<1>m. ASSUME NEW j \in Jobs, JobInv(j)', UNCHANGED raw, UNCHANGED <<publisher, published>>,
             \A i \in Jobs : i # j =>
               /\ driver'[i] = driver[i] /\ exec'[i] = exec[i] /\ CurationKept(i)
               /\ started'[i] = started[i] /\ completed'[i] = completed[i]
               /\ outbox'[i] = outbox[i]
               /\ \A task \in Tasks : Asked(i, task)' => Asked(i, task),
             outbox'[j] = outbox[j] \/ outbox'[j] = "PENDING"
      PROVE  DailyInv'
  <2>1. ASSUME NEW i \in Jobs PROVE JobInv(i)'
    BY <1>m, <1>k DEF Kept
  <2>2. EventsInv'  BY <1>m, <1>t, EventsKept
  <2> QED  BY <1>e, <2>1, <2>2
<1>a. UNCHANGED adrift => \A i, task : Asked(i, task)' <=> Asked(i, task)  BY DEF Asked
<1>1. CASE AddRaw
  <2>1. raw \subseteq raw'  BY <1>1 DEF AddRaw
  <2>2. ASSUME NEW i \in Jobs PROVE JobInv(i)'
    BY <1>1, <1>a, <1>k, <1>o, <2>1 DEF AddRaw, Kept
  <2>3. EventsInv'  BY <1>1, <1>o, <1>t, EventsKept DEF AddRaw
  <2> QED  BY <1>e, <2>2, <2>3
<1>2. ASSUME NEW j \in Jobs, StartExecution(j) PROVE DailyInv'
  <2>1. JobInv(j)'  BY <1>2, <1>t, StartExecutionInv
  <2> QED  BY <1>2, <1>a, <1>m, <1>o, <1>t, <2>1, StartExecutionMoves DEF StartExecution
<1>3. ASSUME NEW j \in Jobs, DriverStops(j) PROVE DailyInv'
  <2>1. JobInv(j)'  BY <1>3, <1>t, DriverStopsInv
  <2>2. UNCHANGED raw /\ \A i \in Jobs : i # j => CurationKept(i)
    BY <1>3, <1>o, <1>t, DriverStopsMoves, CurationDiesMoves
  <2> QED  BY <1>3, <1>a, <1>m, <1>o, <1>t, <2>1, <2>2, DriverStopsMoves DEF DriverStops
<1>4. ASSUME NEW j \in Jobs, PreflightEnds(j) PROVE DailyInv'
  <2>1. JobInv(j)'  BY <1>4, <1>t, DriveInv
  <2> QED  BY <1>4, <1>a, <1>m, <1>o, <1>t, <2>1, PreflightEndsMoves DEF PreflightEnds
<1>5. ASSUME NEW j \in Jobs, CurateFailed(j) \/ PostflightEnds(j) PROVE DailyInv'
  <2>1. \E from, to \in DriverStates : Drive(j, from, to)
    BY <1>5 DEF CurateFailed, PostflightEnds, DriverStates, Waiting, Ended
  <2>2. \A i \in Jobs : i # j => driver'[i] = driver[i]  BY <1>t, <2>1, DriveMoves
  <2>3. JobInv(j)'  BY <1>5, <1>t, DriveInv
  <2> QED  BY <1>5, <1>a, <1>m, <1>o, <2>2, <2>3 DEF CurateFailed, PostflightEnds
<1>6. ASSUME NEW j \in Jobs,
             CurateRead(j) \/ CurateDelete(j) \/ CurateCommit(j) \/ CurateFails(j)
      PROVE  DailyInv'
  <2>1. JobInv(j)'  BY <1>6, <1>t, CurateInv
  <2>2. OthersGoOn(j)
    BY <1>6, <1>t, CurateReadMoves, CurateDeleteMoves, CurateCommitMoves, CurationDiesMoves
    DEF CurateFails
  <2> QED
    BY <1>6, <1>a, <1>m, <1>o, <2>1, <2>2
    DEF CurateRead, CurateDelete, CurateCommit, CurateFails
<1>7. ASSUME NEW j \in Jobs, CheckDataReady(j) PROVE DailyInv'
  <2>1. JobInv(j)'  BY <1>7, <1>t, CheckDataReadyInv
  <2> QED  BY <1>7, <1>a, <1>m, <1>o, <1>t, <2>1, CheckDataReadyMoves DEF CheckDataReady
<1>r. ASSUME NEW j \in Jobs, RecordRow(j) \/ RecordRowAndEvent(j)
      PROVE  /\ \A i \in Jobs : i # j => /\ started'[i] = started[i]
                                         /\ completed'[i] = completed[i]
                                         /\ outbox'[i] = outbox[i]
             /\ outbox'[j] = outbox[j] \/ outbox'[j] = "PENDING"
  BY <1>r, <1>t DEF RecordRow, RecordRowAndEvent, TypeInv, TypeOK
<1>8. ASSUME NEW j \in Jobs, RecordStatus(j) PROVE DailyInv'
  <2>1. \E state \in {"started", "done"} : ExecGoes(j, state)  BY <1>8 DEF RecordStatus
  <2>2. /\ exec'[j].saw = exec[j].saw /\ \A i \in Jobs : i # j => exec'[i] = exec[i]
        /\ \/ exec[j].state = "RecordStarted" /\ RecordRow(j) /\ exec'[j].state = "started"
           \/ exec[j].state = "RecordCompleted" /\ RecordRowAndEvent(j) /\ exec'[j].state = "done"
    <3>1. "started" \in ExecStates /\ "done" \in ExecStates  BY DEF ExecStates
    <3> QED  BY <1>8, <1>t, <2>1, <3>1, ExecMoves DEF RecordStatus
  <2>3. UNCHANGED <<raw, curation, driver, adrift, publisher, published>>
    BY <1>8 DEF RecordStatus, lake
  <2>4. JobInv(j)'  BY <1>a, <1>t, <2>2, <2>3, RecordInv
  <2> QED  BY <1>a, <1>m, <1>o, <1>r, <2>2, <2>3, <2>4
<1>9. ASSUME NEW j \in Jobs, TaskFails(j) PROVE DailyInv'
  <2>1. exec[j].tries < MaxAttempts  BY <1>9, <1>t DEF TaskFails, TypeInv, TypeOK
  <2>2. JobInv(j)' /\ \A i \in Jobs, task \in Tasks : i # j => (Asked(i, task)' => Asked(i, task))
    BY <1>9, <1>t, TaskFailsInv
  <2> QED  BY <1>9, <1>m, <1>o, <1>t, <2>1, <2>2, TaskFailsMoves DEF TaskFails
<1>10. ASSUME NEW w \in adrift, ApplyAdrift(w) PROVE DailyInv'
  <2>1. w[1] \in Jobs /\ w[2] \in {"RecordStarted", "RecordCompleted"}
    BY <1>t DEF TypeInv, TypeOK, Writing, Tasks
  <2>2. Asked(w[1], w[2])  BY DEF Asked
  <2>3. /\ \/ Asked(w[1], "RecordStarted") /\ RecordRow(w[1])
           \/ Asked(w[1], "RecordCompleted") /\ RecordRowAndEvent(w[1])
        /\ UNCHANGED <<raw, curation, driver, exec, publisher, published>>
    BY <1>10, <2>1, <2>2 DEF ApplyAdrift, lake
  <2>4. \A i, task : Asked(i, task)' => Asked(i, task)  BY <1>10 DEF ApplyAdrift, Asked
  <2>5. JobInv(w[1])'  BY <1>t, <2>1, <2>3, <2>4, RecordInv
  <2> QED  BY <1>m, <1>o, <1>r, <2>1, <2>3, <2>4, <2>5
<1>s. ASSUME \A j \in Jobs : outbox'[j] = "none" <=> outbox[j] = "none", EventsInv',
             UNCHANGED <<lake, started, completed, driver, exec, adrift>>
      PROVE  DailyInv'
  BY <1>s, <1>a, <1>e, <1>k, <1>o DEF Kept
<1>11. ASSUME NEW p \in Publishers, Scan(p) PROVE DailyInv'
  BY <1>11, <1>s, <1>t, ScanEvents DEF Scan, tables
<1>12. ASSUME NEW p \in Publishers, PublishEvent(p) PROVE DailyInv'
  BY <1>12, <1>s, <1>t, PublishEventEvents DEF PublishEvent, tables
<1>13. ASSUME NEW p \in Publishers, Mark(p) PROVE DailyInv'
  BY <1>13, <1>s, <1>t, MarkEvents DEF Mark
<1>14. ASSUME NEW p \in Publishers, PublisherStops(p) PROVE DailyInv'
  BY <1>14, <1>s, <1>t, PublisherStopsEvents DEF PublisherStops
<1>15. CASE UNCHANGED vars
  <2>1. EventsInv'  BY <1>15, <1>t, EventsKept DEF vars, tables
  <2> QED  BY <1>15, <1>s, <2>1 DEF vars, tables
<1> QED
  BY <1>1, <1>2, <1>3, <1>4, <1>5, <1>6, <1>7, <1>8, <1>9, <1>10, <1>11, <1>12, <1>13, <1>14,
     <1>15
  DEF Next, Drives, Executes, Publishes

LEMMA DailyInit == Init => DailyInv
<1> SUFFICES ASSUME Init PROVE DailyInv  OBVIOUS
<1>1. TypeInv  BY TypeInit
<1>2. ASSUME NEW j \in Jobs PROVE JobInv(j) /\ EventInv(j)
  BY DEF Init, JobInv, InStep, BetweenFlights, StartedInv, CompletedInv, RowsInv, EventInv,
         Asked, Posted
<1>3. ASSUME NEW p \in Publishers PROVE PublisherInv(p)  BY DEF Init, PublisherInv, Quiet
<1> QED  BY <1>1, <1>2, <1>3 DEF DailyInv

LEMMA DailyInvariant == Spec => []DailyInv
  BY DailyInit, DailyStep, PTL DEF Spec

\* record_status.py and outbox_publisher.py: the event never runs ahead of the fact, nor
\* the status of its row ahead of the event, whatever dies, is retried or applied late.
THEOREM EventsFollow == Spec => []EventsFollowFacts
<1>1. DailyInv => EventsFollowFacts
  BY DEF DailyInv, EventInv, JobInv, CompletedInv, EventsFollowFacts
<1> QED  BY <1>1, DailyInvariant, PTL

\* What run_daily_job reports agrees with the tables, through the retries of Step
\* Functions and the writes of attempts it has given up.
THEOREM ReportCorrect == Spec => []ReportIsTrue
<1>1. DailyInv => ReportIsTrue
  <2> SUFFICES ASSUME DailyInv, NEW j \in Jobs
               PROVE  /\ driver[j] = "completed" =>
                           started[j] # Absent /\ completed[j] # Absent /\ outbox[j] # "none"
                      /\ driver[j] \in {"preflight_failed", "no_data_to_curate",
                                        "curate_failed"} => completed[j] = Absent
                      /\ driver[j] = "no_data_to_curate" => started[j] = Absent
    BY DEF ReportIsTrue
  <2> QED  BY DEF DailyInv, JobInv, InStep, StartedInv, CompletedInv, Posted
<1> QED  BY <1>1, DailyInvariant, PTL
-----------------------------------------------------------------------------
(* While nothing has failed or overlapped, of the events. *)

\* One publisher at a time; a row is in its hands, published or not yet.
OncePending ==
  /\ adrift = {}
  /\ \A p, q \in Publishers : publisher[p].pc # "idle" /\ publisher[q].pc # "idle" => p = q
  /\ \A j \in Jobs :
       /\ outbox[j] # "none" => exec[j].state = "done"
       /\ published[j] <= 1
       /\ outbox[j] = "PENDING" /\ published[j] > 0 =>
            \E p \in Publishers : j \in publisher[p].cur
  /\ \A p \in Publishers :
       /\ \A j \in publisher[p].pending : outbox[j] = "PENDING" /\ published[j] = 0

(* While no runs have overlapped, of the dataset. *)

Covered(o) == \E row \in curated : Key[row[2]] = Key[o] /\ Ts[row[2]] <= Ts[o]
OneEach    == \A row, other \in curated : Key[row[2]] = Key[other[2]] => row = other

\* One curation at a time, and nobody deletes its files.  It has read what the ones before
\* it had read, and its rows stand for all of that once it has gone through.
OneCuration ==
  /\ \A i, j \in Curating : i = j
  /\ \A j \in Jobs : ~curation[j].disturbed
  /\ \A j \in Jobs : curation[j].pc = "commit" => curated = {} /\ ~settled
  /\ \A row \in curated : row[2] \in raw
  /\ settled => /\ OneEach
                /\ \A j \in Jobs : curation[j].pc = "done" => \A o \in curation[j].read : Covered(o)
  /\ \A i \in Curating, j \in Jobs :
       curation[j].pc = "done" => curation[j].read \subseteq curation[i].read

Undisturbed ==
  /\ failures + overlaps = 0 => OncePending
  /\ overlaps = 0 => OneCuration

\* Mishaps are never forgotten, and these are mishaps.
LEMMA Calm ==
  ASSUME TypeInv, TypeInv', [Next]_vars, overlaps' = 0
  PROVE  /\ overlaps = 0
         /\ failures' = 0 => failures = 0 /\ ~Failure
         /\ \A p \in Publishers : Scan(p) => \A q \in Publishers : publisher[q].pc = "idle"
         /\ \A j \in Jobs : CurateRead(j) => Curating = {}
<1>1. /\ failures \in Nat /\ overlaps \in Nat /\ failures' \in Nat  BY DEF TypeInv, TypeOK
<1>2. ASSUME NEW others, Beside(others)
      PROVE  overlaps = 0 /\ failures' = failures /\ others = {}
  BY <1>1, <1>2 DEF Beside, history
<1>3. Failure => overlaps = 0 /\ failures' > 0  BY <1>1 DEF Failure
<1>4. \A j \in Jobs : CurateRead(j) => Curating = {}  BY <1>2 DEF CurateRead
<1>5. \A p \in Publishers : Scan(p) => \A q \in Publishers : publisher[q].pc = "idle"
  BY <1>2 DEF Scan
<1>6. overlaps = 0 /\ (failures' = 0 => failures = 0)
  <2>1. CASE UNCHANGED history  BY <2>1 DEF history
  <2>2. CASE Failure  BY <1>1, <1>3, <2>2
  <2>3. CASE \E others : Beside(others)  BY <1>2, <2>3
  <2>4. \/ UNCHANGED history \/ Failure \/ \E others : Beside(others)
    <3>1. CASE \E j \in Jobs : CurateRead(j)  BY <3>1 DEF CurateRead
    <3>2. CASE \E p \in Publishers : Scan(p)  BY <3>2 DEF Scan
    <3>3. CASE /\ ~ \E j \in Jobs : CurateRead(j)
               /\ ~ \E p \in Publishers : Scan(p)
      BY <3>3, ZenonT(40)
      DEF Next, vars, Drives, Executes, Publishes, AddRaw, StartExecution, DriverStops,
          PreflightEnds, CurateFailed, PostflightEnds, CurateDelete, CurateCommit, CurateFails,
          CheckDataReady, RecordStatus, TaskFails, ApplyAdrift, PublishEvent, Mark,
          PublisherStops, history
    <3> QED  BY <3>1, <3>2, <3>3
  <2> QED  BY <2>1, <2>2, <2>3, <2>4
<1> QED  BY <1>1, <1>3, <1>4, <1>5, <1>6

(* Of the events. *)

\* Nothing but an execution moves, and no execution leaves done.
LEMMA OnceKept ==
  ASSUME OncePending, UNCHANGED <<adrift, publisher, published, outbox>>,
         \A j \in Jobs : exec[j].state = "done" => exec'[j].state = "done"
  PROVE  OncePending'
  BY DEF OncePending

LEMMA RecordOnce ==
  ASSUME DailyInv, OncePending, NEW j \in Jobs, RecordStatus(j)
  PROVE  OncePending'
<1>1. UNCHANGED <<adrift, publisher, published>>  BY DEF RecordStatus
<1>2. \E state \in {"started", "done"} : ExecGoes(j, state)  BY DEF RecordStatus
<1>3. /\ \A i \in Jobs : i # j => exec'[i] = exec[i]
      /\ \/ exec[j].state = "RecordStarted" /\ UNCHANGED outbox
         \/ /\ exec[j].state = "RecordCompleted" /\ exec'[j].state = "done"
            /\ outbox' = [outbox EXCEPT ![j] = "PENDING"]
  <2>1. "started" \in ExecStates /\ "done" \in ExecStates  BY DEF ExecStates
  <2> QED
    BY <1>2, <2>1, TypeFacts, ExecMoves
    DEF DailyInv, TypeInv, RecordStatus, RecordRow, RecordRowAndEvent
<1>4. CASE exec[j].state = "RecordStarted" /\ UNCHANGED outbox
  BY <1>1, <1>3, <1>4, OnceKept
<1>5. CASE exec[j].state = "RecordCompleted"
  <2>1. /\ outbox[j] = "none" /\ outbox \in [Jobs -> {"none", "PENDING", "PUBLISHED"}]
        /\ published[j] \in Nat
    BY <1>5 DEF OncePending, DailyInv, TypeInv, TypeOK
  <2>2. ~(published[j] > 0)  BY <2>1 DEF DailyInv, EventInv
  <2>3. /\ outbox'[j] = "PENDING" /\ exec'[j].state = "done"
        /\ \A i \in Jobs : i # j => outbox'[i] = outbox[i]
    BY <1>3, <1>5, <2>1
  <2>4. \A p \in Publishers : publisher[p] \in Publisher  BY TypeFacts DEF DailyInv, TypeInv
  <2>5. \A i \in Jobs : /\ outbox'[i] # "none" => exec'[i].state = "done"
                        /\ published'[i] <= 1
                        /\ outbox'[i] = "PENDING" /\ published'[i] > 0 =>
                             \E p \in Publishers : i \in publisher'[p].cur
    BY <1>1, <1>3, <2>2, <2>3 DEF OncePending
  <2>6. \A p \in Publishers : \A i \in publisher'[p].pending :
          outbox'[i] = "PENDING" /\ published'[i] = 0
    BY <1>1, <2>1, <2>3, <2>4 DEF OncePending, Publisher
  <2> QED  BY <1>1, <2>5, <2>6 DEF OncePending
<1> QED  BY <1>3, <1>4, <1>5

LEMMA ScanOnce ==
  ASSUME DailyInv, OncePending, NEW p \in Publishers, Scan(p),
         \A q \in Publishers : publisher[q].pc = "idle"
  PROVE  OncePending'
<1>1. UNCHANGED <<adrift, published, outbox, exec>>  BY DEF Scan, tables
<1>2. /\ publisher'[p].pc = "publish" /\ publisher'[p].cur = publisher[p].cur
      /\ \A j \in publisher'[p].pending : j \in Jobs /\ outbox[j] = "PENDING"
      /\ \A q \in Publishers : q # p => publisher'[q] = publisher[q]
  BY TypeFacts, ScanMoves DEF DailyInv, TypeInv, OnPage
<1>3. \A q \in Publishers : publisher[q].cur = {} /\ publisher[q].pending = {}
  BY DEF DailyInv, PublisherInv
<1>4. \A j \in Jobs : published[j] \in Nat  BY DEF DailyInv, TypeInv, TypeOK
<1>5. \A j \in publisher'[p].pending : outbox'[j] = "PENDING" /\ published'[j] = 0
  BY <1>1, <1>2, <1>3, <1>4 DEF OncePending
<1> QED  BY <1>1, <1>2, <1>3, <1>5 DEF OncePending

LEMMA PublishOnce ==
  ASSUME DailyInv, OncePending, NEW p \in Publishers, PublishEvent(p)
  PROVE  OncePending'
<1>1. UNCHANGED <<adrift, outbox, exec>> /\ published \in [Jobs -> Nat]
  BY DEF PublishEvent, tables, DailyInv, TypeInv, TypeOK
<1>2. PICK j \in publisher[p].pending :
        /\ publisher'[p].pc = "mark" /\ publisher'[p].cur = {j}
        /\ publisher'[p].pending = publisher[p].pending \ {j}
        /\ \A q \in Publishers : q # p => publisher'[q] = publisher[q]
        /\ j \in Jobs /\ published'[j] = published[j] + 1
        /\ \A i \in Jobs : i # j => published'[i] = published[i]
  BY <1>1, TypeFacts, PublishEventMoves DEF DailyInv, TypeInv
<1>3. publisher[p].pc = "publish" /\ publisher[p].cur = {}
  BY DEF PublishEvent, DailyInv, PublisherInv
<1>4. \A q \in Publishers : q # p => publisher[q].pc = "idle" /\ publisher[q].pending = {}
  BY <1>3 DEF OncePending, DailyInv, PublisherInv
<1>5. published'[j] = 1  BY <1>1, <1>2 DEF OncePending
<1>6. \A i \in Jobs : /\ outbox'[i] # "none" => exec'[i].state = "done"
                      /\ published'[i] <= 1
                      /\ outbox'[i] = "PENDING" /\ published'[i] > 0 =>
                           \E q \in Publishers : i \in publisher'[q].cur
  <2> SUFFICES ASSUME NEW i \in Jobs
               PROVE  /\ outbox'[i] # "none" => exec'[i].state = "done"
                      /\ published'[i] <= 1
                      /\ outbox'[i] = "PENDING" /\ published'[i] > 0 =>
                           \E q \in Publishers : i \in publisher'[q].cur
    OBVIOUS
  <2>1. CASE i = j  BY <1>1, <1>2, <1>5, <2>1 DEF OncePending
  <2>2. CASE i # j
    <3>1. \A q \in Publishers : i \in publisher[q].cur => i \in publisher'[q].cur
      BY <1>2, <1>3
    <3> QED  BY <1>1, <1>2, <2>2, <3>1 DEF OncePending
  <2> QED  BY <2>1, <2>2
<1>7. \A q \in Publishers : \A i \in publisher'[q].pending :
        outbox'[i] = "PENDING" /\ published'[i] = 0
  <2>1. publisher[p].pending \subseteq Jobs  BY TypeFacts DEF DailyInv, TypeInv, Publisher
  <2> QED  BY <1>1, <1>2, <1>4, <2>1 DEF OncePending
<1>8. \A q, r \in Publishers : publisher'[q].pc # "idle" /\ publisher'[r].pc # "idle" => q = r
  BY <1>2, <1>4
<1> QED  BY <1>1, <1>6, <1>7, <1>8 DEF OncePending

LEMMA MarkOnce ==
  ASSUME DailyInv, OncePending, NEW p \in Publishers, Mark(p)
  PROVE  OncePending'
<1>1. /\ UNCHANGED <<adrift, exec, published>>
      /\ outbox' = [j \in Jobs |-> IF j \in publisher[p].cur THEN "PUBLISHED" ELSE outbox[j]]
  BY DEF Mark
<1>2. /\ publisher'[p].cur = {} /\ publisher'[p].pending = publisher[p].pending
      /\ \A q \in Publishers : q # p => publisher'[q] = publisher[q]
  BY TypeFacts, MarkMoves DEF DailyInv, TypeInv
<1>3. publisher[p].pc = "mark"  BY DEF Mark
<1>4. /\ \A q \in Publishers : q # p => publisher[q].pc = "idle" /\ publisher[q].pending = {}
                                        /\ publisher[q].cur = {}
      /\ \A j \in publisher[p].cur : outbox[j] # "none" /\ published[j] > 0
      /\ publisher[p].pending \subseteq Jobs /\ published \in [Jobs -> Nat]
  BY <1>3, TypeFacts DEF OncePending, DailyInv, PublisherInv, TypeInv, TypeOK, Publisher
<1>5. \A j \in Jobs : /\ outbox'[j] # "none" => exec'[j].state = "done"
                      /\ published'[j] <= 1
                      /\ ~(outbox'[j] = "PENDING" /\ published'[j] > 0)
  BY <1>1, <1>4 DEF OncePending
<1>6. \A q \in Publishers : \A i \in publisher'[q].pending :
        outbox'[i] = "PENDING" /\ published'[i] = 0
  <2>1. \A i \in publisher[p].pending : i \notin publisher[p].cur
    BY <1>4 DEF OncePending
  <2> QED  BY <1>1, <1>2, <1>4, <2>1 DEF OncePending
<1>7. \A q, r \in Publishers : publisher'[q].pc # "idle" /\ publisher'[r].pc # "idle" => q = r
  BY <1>2, <1>4
<1> QED  BY <1>1, <1>5, <1>6, <1>7 DEF OncePending

\* Every step that is no mishap keeps it.
LEMMA OnceStep ==
  ASSUME DailyInv, OncePending, [Next]_vars, ~Failure,
         \A p \in Publishers : Scan(p) => \A q \in Publishers : publisher[q].pc = "idle"
  PROVE  OncePending'
<1>t. /\ driver \in [Jobs -> DriverStates] /\ exec \in [Jobs -> ExecState] /\ raw \subseteq Objects
  BY TypeFacts DEF DailyInv, TypeInv
<1>o. UNCHANGED <<adrift, publisher, published, tables, exec>> => OncePending'
  BY OnceKept DEF tables
<1>1. CASE AddRaw  BY <1>1, <1>o DEF AddRaw
<1>2. ASSUME NEW j \in Jobs, StartExecution(j) PROVE OncePending'
  <2>1. \A i \in Jobs : exec[i].state = "done" => exec'[i].state = "done"
    <3>1. exec[j].state \in {"none", "started"}
      BY <1>2, <1>t, StartExecutionMoves DEF DailyInv, JobInv, InStep
    <3> QED  BY <1>2, <1>t, <3>1, StartExecutionMoves
  <2> QED  BY <1>2, <2>1, OnceKept DEF StartExecution, tables
<1>3. ASSUME NEW j \in Jobs,
             \/ PreflightEnds(j) \/ CurateFailed(j) \/ PostflightEnds(j)
             \/ CurateRead(j) \/ CurateDelete(j) \/ CurateCommit(j)
      PROVE  OncePending'
  BY <1>3, <1>o
  DEF PreflightEnds, CurateFailed, PostflightEnds, CurateRead, CurateDelete, CurateCommit
<1>4. ASSUME NEW j \in Jobs, CheckDataReady(j) PROVE OncePending'
  <2>1. \A i \in Jobs : exec[i].state = "done" => exec'[i].state = "done"
    BY <1>4, <1>t, CheckDataReadyMoves DEF CheckDataReady
  <2> QED  BY <1>4, <2>1, OnceKept DEF CheckDataReady, tables
<1>5. ASSUME NEW j \in Jobs, RecordStatus(j) PROVE OncePending'  BY <1>5, RecordOnce
<1>6. ASSUME NEW w \in adrift PROVE FALSE  BY <1>6 DEF OncePending
<1>7. ASSUME NEW p \in Publishers, Publishes(p) PROVE OncePending'
  BY <1>7, ScanOnce, PublishOnce, MarkOnce DEF Publishes
<1>8. CASE UNCHANGED vars  BY <1>8, <1>o DEF vars
<1> QED
  BY <1>1, <1>2, <1>3, <1>4, <1>5, <1>6, <1>7, <1>8
  DEF Next, Drives, Executes, DriverStops, CurateFails, TaskFails, PublisherStops

(* The dataset. *)

\* Nobody begins, commits or ends a curation.
LEMMA CurationsKept ==
  ASSUME OneCuration, UNCHANGED <<curated, settled>>, raw \subseteq raw',
         \A j \in Jobs : /\ curation'[j].read = curation[j].read
                         /\ curation'[j].disturbed = curation[j].disturbed
                         /\ \A pc \in {"overwrite", "commit", "done"} :
                              curation'[j].pc = pc <=> curation[j].pc = pc
  PROVE  OneCuration'
<1>1. /\ Curating' = Curating
      /\ \A j \in Jobs : /\ curation'[j].pc = "commit" <=> curation[j].pc = "commit"
                         /\ curation'[j].pc = "done" <=> curation[j].pc = "done"
  BY DEF Curating
<1>2. \A o : Covered(o)' <=> Covered(o)  BY DEF Covered
<1>3. OneEach' <=> OneEach  BY DEF OneEach
<1>4. Curating \subseteq Jobs  BY DEF Curating
<1> QED  BY <1>1, <1>2, <1>3, <1>4 DEF OneCuration

LEMMA ReadAlone ==
  ASSUME DailyInv, OneCuration, NEW j \in Jobs, CurateRead(j), Curating = {}
  PROVE  OneCuration'
<1>1. UNCHANGED <<raw, curated, settled>>  BY DEF CurateRead
<1>2. /\ OthersGoOn(j) /\ curation'[j].pc = "overwrite" /\ curation'[j].read = raw
      /\ curation'[j].disturbed = curation[j].disturbed
  BY TypeFacts, CurateReadMoves DEF DailyInv, TypeInv
<1>3. \A i \in Jobs : i # j => curation'[i] = curation[i]
  BY <1>2 DEF OthersGoOn, Curating
<1>4. Curating' = {j}  BY <1>2, <1>3 DEF Curating
<1>5. \A i \in Jobs : curation'[i].read \subseteq raw
  BY <1>2, <1>3 DEF DailyInv, JobInv, RowsInv
<1>6. \A i \in Jobs : curation'[i].pc \in {"commit", "done"} =>
                        i # j /\ curation'[i] = curation[i]
  BY <1>2, <1>3
<1>7. \A o : Covered(o)' <=> Covered(o)  BY <1>1 DEF Covered
<1>8. OneEach' <=> OneEach  BY <1>1 DEF OneEach
<1>9. \A i \in Jobs : ~curation'[i].disturbed  BY <1>2, <1>3 DEF OneCuration
<1> QED  BY <1>1, <1>2, <1>4, <1>5, <1>6, <1>7, <1>8, <1>9 DEF OneCuration

LEMMA DeleteAlone ==
  ASSUME DailyInv, OneCuration, NEW j \in Jobs, CurateDelete(j)
  PROVE  OneCuration'
<1>1. curated' = {} /\ ~settled' /\ UNCHANGED raw  BY DEF CurateDelete
<1>2. /\ OthersGoOn(j) /\ curation[j].pc = "overwrite" /\ curation'[j].pc = "commit"
      /\ curation'[j].read = curation[j].read
      /\ curation'[j].disturbed = curation[j].disturbed
  BY TypeFacts, CurateDeleteMoves DEF DailyInv, TypeInv
<1>3. \A i \in Jobs : i # j => curation'[i] = curation[i]
  BY <1>2 DEF OthersGoOn, OneCuration, Curating
<1>4. Curating' = Curating /\ Curating \subseteq Jobs  BY <1>2, <1>3 DEF Curating
<1>5. \A i \in Jobs : /\ curation'[i].read = curation[i].read
                      /\ curation'[i].disturbed = curation[i].disturbed
                      /\ curation'[i].pc = "done" => curation[i].pc = "done"
  BY <1>2, <1>3
<1> QED  BY <1>1, <1>4, <1>5 DEF OneCuration

LEMMA CommitAlone ==
  ASSUME DailyInv, OneCuration, NEW j \in Jobs, CurateCommit(j)
  PROVE  OneCuration'
<1>1. /\ OthersGoOn(j) /\ curation[j].pc = "commit" /\ curation'[j].pc = "done"
      /\ curation'[j].read = curation[j].read /\ ~curation'[j].disturbed
  BY TypeFacts, CurateCommitMoves DEF DailyInv, TypeInv
<1>2. j \in Curating /\ Curating \subseteq {j}  BY <1>1 DEF OneCuration, Curating
<1>3. \A i \in Jobs : i # j => curation'[i] = curation[i]
  BY <1>1, <1>2 DEF OthersGoOn, Curating
<1>4. Curating' = {}  BY <1>1, <1>2, <1>3 DEF Curating
<1>5. curated = {} /\ ~curation[j].disturbed /\ UNCHANGED raw
  BY <1>1 DEF OneCuration, CurateCommit
<1>6. PICK rows \in Deduped(curation[j].read) : curated' = {j} \X rows
  <2>1. PICK rows \in Deduped(curation[j].read) : \E written \in SUBSET rows :
          /\ ~curation[j].disturbed => written = rows
          /\ curated' = curated \cup ({j} \X written)
    BY TypeFacts, CurateCommitMoves DEF DailyInv, TypeInv
  <2> QED  BY <1>5, <2>1
<1>7. /\ rows \subseteq curation[j].read
      /\ \A o \in curation[j].read : \E r \in rows : Key[r] = Key[o] /\ Ts[r] <= Ts[o]
      /\ \A r, t \in rows : Key[r] = Key[t] => r = t
  BY <1>6 DEF Deduped
<1>8. \A row \in curated' : row[2] \in rows /\ row = <<j, row[2]>>  BY <1>6
<1>9. \A row \in curated' : row[2] \in raw'
  BY <1>5, <1>7, <1>8 DEF DailyInv, JobInv, RowsInv
<1>10. OneEach'  BY <1>7, <1>8 DEF OneEach
<1>11. \A o \in curation[j].read : Covered(o)'
  <2> SUFFICES ASSUME NEW o \in curation[j].read PROVE Covered(o)'  OBVIOUS
  <2>1. PICK r \in rows : Key[r] = Key[o] /\ Ts[r] <= Ts[o]  BY <1>7
  <2>2. <<j, r>> \in curated'  BY <1>6, <2>1
  <2>3. \E row \in curated' : Key[row[2]] = Key[o] /\ Ts[row[2]] <= Ts[o]
    BY <2>1, <2>2
  <2> QED  BY <2>3 DEF Covered
<1>12. \A i \in Jobs : curation'[i].pc = "done" => curation'[i].read \subseteq curation[j].read
  BY <1>1, <1>2, <1>3 DEF OneCuration
<1>13. \A i \in Jobs : curation'[i].pc # "commit" /\ ~curation'[i].disturbed
  <2>1. \A i \in Jobs : curation'[i].pc # "commit"  BY <1>4 DEF Curating
  <2> QED  BY <1>1, <1>3, <2>1 DEF OneCuration
<1> QED  BY <1>4, <1>9, <1>10, <1>11, <1>12, <1>13 DEF OneCuration

LEMMA DiesAlone ==
  ASSUME DailyInv, OneCuration, NEW j \in Jobs, CurationDies(j), UNCHANGED raw
  PROVE  OneCuration'
<1>1. /\ OthersGoOn(j) /\ curation'[j].pc = "failed" /\ ~curation'[j].disturbed
      /\ curation[j].pc # "commit" => \A i \in Jobs : i # j => curation'[i] = curation[i]
      /\ \/ UNCHANGED <<curated, settled>>
         \/ /\ curation[j].pc \in {"overwrite", "commit"} /\ ~settled'
            /\ curated' \subseteq curated \cup ({j} \X curation[j].read)
  BY TypeFacts, CurationDiesMoves DEF DailyInv, TypeInv
<1>2. \A i \in Jobs : i # j => curation'[i] = curation[i]
  BY <1>1 DEF OthersGoOn, OneCuration, Curating
<1>3. Curating' = Curating \ {j} /\ Curating \subseteq Jobs  BY <1>1, <1>2 DEF Curating
<1>4. \A i \in Jobs : /\ ~curation'[i].disturbed
                      /\ curation'[i].pc \in {"commit", "done"} =>
                           i # j /\ curation'[i] = curation[i]
                      /\ i \in Curating' => i # j /\ curation'[i] = curation[i]
  BY <1>1, <1>2, <1>3 DEF OneCuration
<1>5. curation[j].read \subseteq raw  BY DEF DailyInv, JobInv, RowsInv
<1>6. \A row \in {j} \X curation[j].read : row[2] \in raw  BY <1>5
<1>7. CASE UNCHANGED <<curated, settled>>
  <2>1. /\ \A o : Covered(o)' <=> Covered(o)
        /\ OneEach' <=> OneEach
    BY <1>7 DEF Covered, OneEach
  <2> QED  BY <1>3, <1>4, <1>7, <2>1 DEF OneCuration
<1>8. CASE /\ curation[j].pc \in {"overwrite", "commit"} /\ ~settled'
           /\ curated' \subseteq curated \cup ({j} \X curation[j].read)
  <2>1. \A i \in Jobs : curation'[i].pc # "commit"
    <3>1. j \in Curating  BY <1>8 DEF Curating
    <3> QED  BY <1>3, <1>4, <3>1 DEF OneCuration, Curating
  <2>2. \A row \in curated' : row[2] \in raw'  BY <1>6, <1>8 DEF OneCuration
  <2> QED  BY <1>3, <1>4, <1>8, <2>1, <2>2 DEF OneCuration
<1> QED  BY <1>1, <1>7, <1>8

\* Every step without an overlap keeps it, failures included.
LEMMA CurationStep ==
  ASSUME DailyInv, OneCuration, [Next]_vars, \A j \in Jobs : CurateRead(j) => Curating = {}
  PROVE  OneCuration'
<1>t. /\ driver \in [Jobs -> DriverStates] /\ exec \in [Jobs -> ExecState]
      /\ curation \in [Jobs -> Curation] /\ raw \subseteq Objects
  BY TypeFacts DEF DailyInv, TypeInv
<1>k. UNCHANGED lake => OneCuration'  BY CurationsKept DEF lake
<1>1. CASE AddRaw
  <2>1. raw \subseteq raw' /\ UNCHANGED <<curated, curation, settled>>  BY <1>1 DEF AddRaw
  <2> QED  BY <2>1, CurationsKept
<1>2. ASSUME NEW j \in Jobs, DriverStops(j) PROVE OneCuration'
  <2>1. UNCHANGED lake \/ (CurationDies(j) /\ UNCHANGED raw)
    BY <1>2, <1>t, DriverStopsMoves
  <2> QED  BY <1>k, <2>1, DiesAlone
<1>3. ASSUME NEW j \in Jobs, PreflightEnds(j) PROVE OneCuration'
  <2>1. UNCHANGED <<raw, curated, settled>>  BY <1>3 DEF PreflightEnds
  <2>2. curation[j].pc = "none"
    BY <1>3, <1>t, PreflightEndsMoves DEF DailyInv, JobInv, InStep
  <2>3. \A i \in Jobs : i # j => curation'[i] = curation[i]
    BY <1>3, <1>t DEF PreflightEnds
  <2>4. \A i \in Jobs : /\ curation'[i].read = curation[i].read
                        /\ curation'[i].disturbed = curation[i].disturbed
                        /\ \A pc \in {"overwrite", "commit", "done"} :
                             curation'[i].pc = pc <=> curation[i].pc = pc
    BY <1>3, <1>t, <2>2, <2>3, PreflightEndsMoves
  <2> QED  BY <2>1, <2>4, CurationsKept
<1>4. ASSUME NEW j \in Jobs, CurateRead(j) PROVE OneCuration'  BY <1>4, ReadAlone
<1>5. ASSUME NEW j \in Jobs, CurateDelete(j) PROVE OneCuration'  BY <1>5, DeleteAlone
<1>6. ASSUME NEW j \in Jobs, CurateCommit(j) PROVE OneCuration'  BY <1>6, CommitAlone
<1>7. ASSUME NEW j \in Jobs, CurateFails(j) PROVE OneCuration'
  BY <1>7, DiesAlone DEF CurateFails
<1>8. ASSUME NEW j \in Jobs,
             \/ StartExecution(j) \/ CurateFailed(j) \/ PostflightEnds(j)
             \/ CheckDataReady(j) \/ RecordStatus(j) \/ TaskFails(j)
      PROVE  OneCuration'
  BY <1>8, <1>k
  DEF StartExecution, CurateFailed, PostflightEnds, CheckDataReady, RecordStatus, TaskFails
<1>9. ASSUME NEW w \in adrift, ApplyAdrift(w) PROVE OneCuration'
  BY <1>9, <1>k DEF ApplyAdrift
<1>10. ASSUME NEW p \in Publishers, Publishes(p) \/ PublisherStops(p) PROVE OneCuration'
  BY <1>10, <1>k DEF Publishes, Scan, PublishEvent, Mark, PublisherStops
<1>11. CASE UNCHANGED vars  BY <1>11, <1>k DEF vars
<1> QED
  BY <1>1, <1>2, <1>3, <1>4, <1>5, <1>6, <1>7, <1>8, <1>9, <1>10, <1>11
  DEF Next, Drives, Executes

LEMMA UndisturbedStep == DailyInv /\ Undisturbed /\ [Next]_vars => Undisturbed'
<1> SUFFICES ASSUME DailyInv, Undisturbed, [Next]_vars PROVE Undisturbed'  OBVIOUS
<1>1. TypeInv /\ TypeInv'  BY TypeStep DEF DailyInv
<1>2. /\ failures \in Nat /\ overlaps \in Nat /\ failures' \in Nat /\ overlaps' \in Nat
  BY <1>1 DEF TypeInv, TypeOK
<1>3. ASSUME overlaps' = 0 PROVE OneCuration'
  BY <1>1, <1>3, Calm, CurationStep DEF Undisturbed
<1>4. ASSUME failures' + overlaps' = 0 PROVE OncePending'
  <2>0. \A m, n \in Nat : m + n = 0 => m = 0 /\ n = 0  OBVIOUS
  <2>1. failures' = 0 /\ overlaps' = 0  BY <1>2, <1>4, <2>0
  <2>2. failures + overlaps = 0 /\ ~Failure  BY <1>1, <1>2, <2>1, Calm
  <2> QED  BY <1>1, <2>1, <2>2, Calm, OnceStep DEF Undisturbed
<1> QED  BY <1>3, <1>4 DEF Undisturbed

LEMMA UndisturbedInit == Init => Undisturbed
<1> SUFFICES ASSUME Init PROVE OncePending /\ OneCuration  BY DEF Undisturbed
<1>1. Curating = {}  BY DEF Init, Curating
<1> QED  BY <1>1 DEF Init, OncePending, OneCuration, Quiet

LEMMA UndisturbedInvariant == Spec => [](DailyInv /\ Undisturbed)
  BY DailyInit, DailyStep, UndisturbedInit, UndisturbedStep, PTL DEF Spec

\* Events are published twice only because something failed or two publishers ran at
\* once: what publish_pending, which has no conditional update, relies on.
THEOREM PublishedOnce == Spec => []OnceUnlessMishap
<1>1. Undisturbed => OnceUnlessMishap  BY DEF Undisturbed, OncePending, OnceUnlessMishap
<1> QED  BY <1>1, UndisturbedInvariant, PTL

\* Curation loses no rows and keeps one per key: once the curation that emptied the dataset
\* last has gone through, whatever the pre-flight of any curated job counted is there,
\* unless runs overlapped.
THEOREM NothingLost == Spec => []NoRowsLost
<1>1. DailyInv /\ Undisturbed => NoRowsLost
  <2> SUFFICES ASSUME DailyInv, Undisturbed, settled, overlaps = 0 PROVE
          /\ \A j \in Jobs : curation[j].pc = "done" => \A o \in exec[j].saw : Covered(o)
          /\ OneEach
    BY DEF NoRowsLost, Covered, OneEach
  <2>1. OneCuration  BY DEF Undisturbed
  <2> QED  BY <2>1 DEF OneCuration, DailyInv, JobInv, RowsInv
<1> QED  BY <1>1, UndisturbedInvariant, PTL

\* In the same circumstances GET /metrics/sla counts no fewer rows than any completed job
\* has reported, and none of a key twice.
THEOREM SlaCorrect == Spec => []SlaIsTrue
<1>1. ASSUME DailyInv, Undisturbed, settled, overlaps = 0
      PROVE  /\ SlaRows <= Cardinality(KeysOf(raw))
             /\ \A j \in Jobs : completed[j] # Absent => SlaRows >= completed[j]
  <2> DEFINE KeyOf(row) == Key[row[2]]
             keys == {KeyOf(row) : row \in curated}
  <2>1. /\ OneEach
        /\ \A row \in curated : row[2] \in raw
        /\ \A j \in Jobs : curation[j].pc = "done" => \A o \in curation[j].read : Covered(o)
    BY <1>1 DEF Undisturbed, OneCuration
  <2>2. /\ raw \in SUBSET Objects
        /\ \A j \in Jobs : curation[j].read \in SUBSET Objects
    BY <1>1, TypeFacts DEF DailyInv, TypeInv, Curation
  <2>3. keys \subseteq KeysOf(raw)  BY <2>1 DEF KeysOf
  <2>4. /\ IsFiniteSet(KeysOf(raw)) /\ Cardinality(KeysOf(raw)) \in Nat
        /\ IsFiniteSet(keys) /\ Cardinality(keys) \in Nat
        /\ Cardinality(keys) <= Cardinality(KeysOf(raw))
    <3>1. IsFiniteSet(KeysOf(raw))  BY <2>2, CountFacts
    <3> HIDE DEF keys
    <3> QED  BY <2>3, <3>1, FS_Subset, FS_CardinalityType
  <2>5. Cardinality(curated) = Cardinality(keys)
    <3> DEFINE f == [row \in curated |-> KeyOf(row)]
    <3>1. f \in Bijection(curated, keys)
      <4>1. f \in [curated -> keys] /\ \A k \in keys : \E row \in curated : f[row] = k  OBVIOUS
      <4>2. \A row, other \in curated : f[row] = f[other] => row = other
        BY <2>1 DEF OneEach
      <4> HIDE DEF keys, f
      <4> QED  BY <4>1, <4>2 DEF Bijection, Injection, Surjection, IsInjective
    <3>2. IsFiniteSet(curated)
      <4>1. curated \in SUBSET (Jobs \X Objects)  BY <1>1 DEF DailyInv, TypeInv, TypeOK
      <4>2. IsFiniteSet(Jobs \X Objects)  BY DailyJobAssumption, FS_Product
      <4> QED  BY <4>1, <4>2, FS_Subset
    <3>3. ExistsBijection(curated, keys)  BY <3>1 DEF ExistsBijection
    <3> HIDE DEF keys, f
    <3> QED  BY <3>2, <3>3, FS_Bijection
  <2>6. SlaRows <= Cardinality(KeysOf(raw))
    <3> HIDE DEF keys
    <3> QED  BY <2>4, <2>5 DEF SlaRows, StubView, Absent
  <2>7. ASSUME NEW j \in Jobs, completed[j] # Absent PROVE SlaRows >= completed[j]
    <3>1. /\ completed[j] = Cardinality(KeysOf(curation[j].read))
          /\ curation[j].pc = "done" /\ exec[j].saw # {} /\ exec[j].saw \subseteq curation[j].read
      BY <1>1, <2>7
      DEF DailyInv, JobInv, CompletedInv, BetweenFlights, RowsInv, Posted, RowsOut
    <3>2. KeysOf(curation[j].read) \in SUBSET keys
      BY <2>1, <3>1 DEF KeysOf, Covered
    <3>3. curated # {}  BY <2>1, <3>1 DEF Covered
    <3> HIDE DEF keys
    <3>4. /\ Cardinality(KeysOf(curation[j].read)) <= Cardinality(keys)
      BY <2>4, <3>2, FS_Subset
    <3> QED  BY <2>4, <2>5, <3>1, <3>3, <3>4 DEF SlaRows, StubView
  <2> QED  BY <2>6, <2>7
<1>2. DailyInv /\ Undisturbed => SlaIsTrue  BY <1>1 DEF SlaIsTrue
<1> QED  BY <1>2, UndisturbedInvariant, PTL
=============================================================================
