----------------------- MODULE PaidAcquisitionProofs -----------------------
(***************************************************************************)
(* Proofs about PaidAcquisition, for every set of processes, requests and  *)
(* keys and every ceiling.                                                 *)
(***************************************************************************)
EXTENDS PaidAcquisition, TLAPS

(* The key of the next task is one of the plan's keys. *)
LEMMA TaskIsKey ==
  ASSUME IInv, NEW p \in Processes, pc[p] \in {"next"} \cup Transport
  PROVE  Task(p) \in Keys /\ req[p] \in Requests
  <1>1. req[p] \in Requests
    BY DEF IInv, TypeOK, Transport
  <1>2. KeyOf[req[p]] \in Seq(Keys)
    BY <1>1, KeyAssumption DEF KeyAssumption
  <1>3. Len(run[p].rows) \in Nat /\ Len(run[p].rows) < Len(KeyOf[req[p]])
    BY DEF IInv, TypeOK, TaskLeft, Plan
  <1>4. KeyOf[req[p]][Len(run[p].rows) + 1] \in Keys
    BY <1>2, <1>3
  <1> QED BY <1>1, <1>4 DEF Task, Plan

USE DEF files, provider, history, local, GoTo, PC, InLock, Running, Transport
(* The initial values have the types of what they initialise. *)
LEMMA Values == NoRun \in Progress /\ EmptyLedger \in Ledger
  <1>1. <<>> \in Seq(Outcomes)
    OBVIOUS
  <1> QED BY <1>1, MoneyAssumption DEF MoneyAssumption, NoRun, Progress, EmptyLedger, Ledger, Days

(* Before the lock, a step concerns no run and no ledger. *)
LEMMA OutsideStep ==
  ASSUME IInv,
         \/ NextDay \/ \E r \in Requests : Prepare(r)
         \/ \E p \in Processes : \/ \E r \in Requests : Invoke(p, r)
                                 \/ ConsumeReads(p) \/ ConsumeWrites(p) \/ Acquire(p)
  PROVE  IInv'
  <1>1. TypeOK'
    <2>1. CASE NextDay
      BY <2>1, MoneyAssumption DEF MoneyAssumption, NextDay, IInv, TypeOK, Days
    <2>2. ASSUME NEW r \in Requests, Prepare(r) PROVE TypeOK'
      <3>1. ledger.spent[today] \in Nat
        BY DEF IInv, TypeOK, Ledger
      <3> QED BY <2>2, <3>1 DEF Prepare, IInv, TypeOK
    <2>3. ASSUME NEW p \in Processes, NEW r \in Requests, Invoke(p, r) PROVE TypeOK'
      BY <2>3 DEF Invoke, IInv, TypeOK
    <2>4. ASSUME NEW p \in Processes, ConsumeReads(p) \/ ConsumeWrites(p) \/ Acquire(p) PROVE TypeOK'
      BY <2>4 DEF ConsumeReads, ConsumeWrites, Acquire, Lock!Enter, IInv, TypeOK
    <2> QED BY <2>1, <2>2, <2>3, <2>4
  <1>2. AloneInLock'
    <2>1. ASSUME NEW p \in Processes, Acquire(p) PROVE AloneInLock'
      BY <2>1 DEF Acquire, Lock!Enter, IInv, TypeOK, AloneInLock
    <2>2. ASSUME NEW p \in Processes, (\E r \in Requests : Invoke(p, r)) \/ ConsumeReads(p) \/ ConsumeWrites(p)
          PROVE  AloneInLock'
      BY <2>2 DEF Invoke, ConsumeReads, ConsumeWrites, IInv, TypeOK, AloneInLock
    <2> QED BY <2>1, <2>2 DEF NextDay, Prepare, IInv, AloneInLock
  <1>3. PlanIsPrepared'
    BY DEF NextDay, Prepare, Invoke, ConsumeReads, ConsumeWrites, Acquire, Lock!Enter, IInv, TypeOK, PlanIsPrepared
  <1>4. FreshRun'
    BY DEF NextDay, Prepare, Invoke, ConsumeReads, ConsumeWrites, Acquire, Lock!Enter, IInv, TypeOK, FreshRun
  <1>5. TaskLeft'
    BY DEF NextDay, Prepare, Invoke, ConsumeReads, ConsumeWrites, Acquire, Lock!Enter, IInv, TypeOK, TaskLeft, Plan
  <1>6. ReadIsCurrent'
    BY DEF NextDay, Prepare, Invoke, ConsumeReads, ConsumeWrites, Acquire, Lock!Enter, IInv, TypeOK, ReadIsCurrent, AloneInLock, Ran, PlanIsPrepared
  <1>7. WithinBudget'
    <2>1. ASSUME NEW q \in Processes, pc[q] \in Running PROVE snapshot'[req[q]] = snapshot[req[q]]
      BY <2>1 DEF NextDay, Prepare, Invoke, ConsumeReads, ConsumeWrites, Acquire, IInv, TypeOK, PlanIsPrepared
    <2>2. /\ run' = run
          /\ \A q \in Processes : pc'[q] \in Running => pc'[q] = pc[q] /\ req'[q] = req[q]
      BY DEF NextDay, Prepare, Invoke, ConsumeReads, ConsumeWrites, Acquire, IInv, TypeOK
    <2> QED BY <2>1, <2>2 DEF IInv, WithinBudget, BudgetAllows
  <1>8. CeilingsHold'
    BY DEF NextDay, Prepare, Invoke, ConsumeReads, ConsumeWrites, Acquire, Lock!Enter, IInv, TypeOK, CeilingsHold
  <1>9. OneRunPerPlan'
    BY DEF NextDay, Prepare, Invoke, ConsumeReads, ConsumeWrites, Acquire, Lock!Enter, IInv, TypeOK, OneRunPerPlan
  <1> QED BY <1>1, <1>2, <1>3, <1>4, <1>5, <1>6, <1>7, <1>8, <1>9 DEF IInv

(* A run starts on the spend it has just read. *)
LEMMA StartStep ==
  ASSUME IInv, NEW p \in Processes, Start(p)
  PROVE  IInv'
  <1>b. run \in [Processes -> Progress] /\ run' = [run EXCEPT ![p].day = today] /\ today \in Days
    BY DEF Start, IInv, TypeOK
  <1>c. run[p] = NoRun
    BY DEF Start, IInv, FreshRun
  <1>d. run' \in [Processes -> Progress]
    BY <1>b DEF Progress
  <1>a. run'[p].day = today /\ run'[p].spent = 0 /\ run'[p].rows = <<>>
    BY <1>b, <1>c DEF Progress, NoRun
  <1>1. TypeOK'
    BY <1>d DEF Start, IInv, TypeOK
  <1>2. AloneInLock'
    BY DEF Start, MayStart, IInv, TypeOK, AloneInLock
  <1>3. PlanIsPrepared'
    BY DEF Start, MayStart, IInv, TypeOK, PlanIsPrepared
  <1>4. FreshRun'
    BY DEF Start, MayStart, IInv, TypeOK, FreshRun
  <1>5. TaskLeft'
    <2>1. run'[p].rows = <<>> /\ req[p] \in Requests
      BY <1>a DEF Start, IInv, TypeOK
    <2>2. Len(run'[p].rows) < Len(KeyOf[req[p]])
      BY <2>1, KeyAssumption DEF KeyAssumption
    <2> QED BY <2>2 DEF Start, IInv, TypeOK, TaskLeft, Plan
  <1>6. ReadIsCurrent'
    BY <1>a, <1>b DEF Start, MayStart, IInv, TypeOK, ReadIsCurrent, AloneInLock, Ran
  <1>7. WithinBudget'
    <2>1. run'[p].spent = 0 /\ \A q \in Processes \ {p} : run'[q] = run[q]
      BY <1>a, <1>b
    <2>2. req[p] \in Requests /\ snapshot[req[p]] \in Nat /\ ledger.spent[today] = snapshot[req[p]]
      BY DEF Start, MayStart, IInv, TypeOK
    <2>3. snapshot[req[p]] <= MaxDay + Overcharge
      BY <1>b, <2>2, MoneyAssumption DEF MoneyAssumption, IInv, CeilingsHold
    <2> QED BY <2>1, <2>2, <2>3, MoneyAssumption DEF MoneyAssumption, Start, IInv, TypeOK, WithinBudget, BudgetAllows
  <1>8. CeilingsHold'
    BY DEF Start, MayStart, IInv, TypeOK, CeilingsHold
  <1>9. OneRunPerPlan'
    BY DEF Start, MayStart, IInv, TypeOK, OneRunPerPlan
  <1> QED BY <1>1, <1>2, <1>3, <1>4, <1>5, <1>6, <1>7, <1>8, <1>9 DEF IInv

(* The loop ends. *)
LEMMA StopStep ==
  ASSUME IInv, NEW p \in Processes,
         NEW o \in Outcomes, Stop(p, o), pc[p] \in {"next"} \cup Transport
  PROVE  IInv'
  <1>1. TypeOK'
    <2>1. Append(run[p].rows, o) \in Seq(Outcomes)
      BY DEF IInv, TypeOK, Progress
    <2>2. run \in [Processes -> Progress]
      BY DEF IInv, TypeOK
    <2>3. run' \in [Processes -> Progress]
      BY <2>1, <2>2 DEF Stop, Progress
    <2> QED BY <2>3 DEF Stop, IInv, TypeOK
  <1>2. AloneInLock'
    BY DEF Stop, IInv, TypeOK, AloneInLock
  <1>3. PlanIsPrepared'
    BY DEF Stop, IInv, TypeOK, PlanIsPrepared
  <1>4. FreshRun'
    BY DEF Stop, IInv, TypeOK, FreshRun
  <1>5. TaskLeft'
    BY DEF Stop, IInv, TypeOK, TaskLeft, Plan
  <1>6. ReadIsCurrent'
    BY DEF Stop, IInv, TypeOK, ReadIsCurrent, AloneInLock, Ran
  <1>7. WithinBudget'
    <2>1. run'[p].spent = run[p].spent /\ \A q \in Processes \ {p} : run'[q] = run[q]
      BY DEF Stop, IInv, TypeOK, Progress
    <2> QED BY <2>1 DEF Stop, IInv, TypeOK, WithinBudget, BudgetAllows
  <1>8. CeilingsHold'
    BY DEF Stop, IInv, TypeOK, CeilingsHold
  <1>9. OneRunPerPlan'
    BY DEF Stop, IInv, TypeOK, OneRunPerPlan
  <1> QED BY <1>1, <1>2, <1>3, <1>4, <1>5, <1>6, <1>7, <1>8, <1>9 DEF IInv

(* The key is new. *)
LEMMA CheckKeyStep ==
  ASSUME IInv, NEW p \in Processes, CheckKey(p)
  PROVE  IInv'
  <1>1. TypeOK'
    BY DEF CheckKey, IInv, TypeOK
  <1>2. AloneInLock'
    BY DEF CheckKey, IInv, TypeOK, AloneInLock
  <1>3. PlanIsPrepared'
    BY DEF CheckKey, IInv, TypeOK, PlanIsPrepared
  <1>4. FreshRun'
    BY DEF CheckKey, IInv, TypeOK, FreshRun
  <1>5. TaskLeft'
    BY DEF CheckKey, IInv, TypeOK, TaskLeft, Plan
  <1>6. ReadIsCurrent'
    BY DEF CheckKey, IInv, TypeOK, ReadIsCurrent, AloneInLock, Ran
  <1>7. WithinBudget'
    BY DEF CheckKey, IInv, TypeOK, WithinBudget, BudgetAllows
  <1>8. CeilingsHold'
    BY DEF CheckKey, IInv, TypeOK, CeilingsHold
  <1>9. OneRunPerPlan'
    BY DEF CheckKey, IInv, TypeOK, OneRunPerPlan
  <1> QED BY <1>1, <1>2, <1>3, <1>4, <1>5, <1>6, <1>7, <1>8, <1>9 DEF IInv

(* A task is bought. *)
LEMMA PostStep ==
  ASSUME IInv, NEW p \in Processes, Post(p)
  PROVE  IInv'
  <1>1. TypeOK'
    <2>1. Costs \subseteq Nat
      BY MoneyAssumption DEF MoneyAssumption
    <2>5. run \in [Processes -> Progress]
      BY DEF IInv, TypeOK
    <2>2. run' \in [Processes -> Progress]
      BY <2>1, <2>5 DEF Post, Progress
    <2>3. req[p] \in Requests /\ Task(p) \in Keys
      BY TaskIsKey DEF Post
    <2>4. created' \in [Requests -> [Keys -> Nat]]
      BY <2>3 DEF Post, IInv, TypeOK
    <2> QED BY <2>2, <2>4 DEF Post, IInv, TypeOK
  <1>2. AloneInLock'
    BY DEF Post, IInv, TypeOK, AloneInLock
  <1>3. PlanIsPrepared'
    BY DEF Post, IInv, TypeOK, PlanIsPrepared
  <1>4. FreshRun'
    BY DEF Post, IInv, TypeOK, FreshRun
  <1>5. TaskLeft'
    BY DEF Post, IInv, TypeOK, TaskLeft, Plan
  <1>6. ReadIsCurrent'
    BY DEF Post, IInv, TypeOK, ReadIsCurrent, AloneInLock, Ran
  <1>7. WithinBudget'
    BY DEF Post, IInv, TypeOK, WithinBudget, BudgetAllows
  <1>8. CeilingsHold'
    BY DEF Post, IInv, TypeOK, CeilingsHold
  <1>9. OneRunPerPlan'
    BY DEF Post, IInv, TypeOK, OneRunPerPlan
  <1> QED BY <1>1, <1>2, <1>3, <1>4, <1>5, <1>6, <1>7, <1>8, <1>9 DEF IInv

(* The answer arrives. *)
LEMMA AnsweredStep ==
  ASSUME IInv, NEW p \in Processes, Answered(p)
  PROVE  IInv'
  <1>1. TypeOK'
    BY DEF Answered, IInv, TypeOK, Progress
  <1>2. AloneInLock'
    BY DEF Answered, IInv, TypeOK, AloneInLock
  <1>3. PlanIsPrepared'
    BY DEF Answered, IInv, TypeOK, PlanIsPrepared
  <1>4. FreshRun'
    BY DEF Answered, IInv, TypeOK, FreshRun
  <1>5. TaskLeft'
    BY DEF Answered, IInv, TypeOK, TaskLeft, Plan
  <1>6. ReadIsCurrent'
    BY DEF Answered, IInv, TypeOK, ReadIsCurrent, AloneInLock, Ran
  <1>7. WithinBudget'
    BY DEF Answered, IInv, TypeOK, WithinBudget, BudgetAllows
  <1>8. CeilingsHold'
    BY DEF Answered, IInv, TypeOK, CeilingsHold
  <1>9. OneRunPerPlan'
    BY DEF Answered, IInv, TypeOK, OneRunPerPlan
  <1> QED BY <1>1, <1>2, <1>3, <1>4, <1>5, <1>6, <1>7, <1>8, <1>9 DEF IInv

(* The task is recorded. *)
LEMMA RecordStep ==
  ASSUME IInv, NEW p \in Processes, Record(p)
  PROVE  IInv'
  <1>a. /\ run'[p].spent = run[p].spent + run[p].cost /\ run'[p].day = run[p].day
        /\ \A q \in Processes \ {p} : run'[q] = run[q]
    BY DEF Record, IInv, TypeOK, Progress
  <1>1. TypeOK'
    <2>1. Append(run[p].rows, "COMPLETED") \in Seq(Outcomes)
      BY DEF IInv, TypeOK, Progress, Outcomes
    <2>2. run \in [Processes -> Progress] /\ run[p].spent + run[p].cost \in Nat
      BY DEF IInv, TypeOK, Progress
    <2>3. run' \in [Processes -> Progress]
      BY <2>1, <2>2 DEF Record, Progress
    <2>4. Task(p) \in Keys
      BY TaskIsKey DEF Record
    <2> QED BY <2>3, <2>4 DEF Record, IInv, TypeOK
  <1>2. AloneInLock'
    BY DEF Record, IInv, TypeOK, AloneInLock
  <1>3. PlanIsPrepared'
    BY DEF Record, IInv, TypeOK, PlanIsPrepared
  <1>4. FreshRun'
    BY DEF Record, IInv, TypeOK, FreshRun
  <1>5. TaskLeft'
    BY DEF Record, IInv, TypeOK, TaskLeft, Plan
  <1>6. ReadIsCurrent'
    BY <1>a DEF Record, IInv, TypeOK, ReadIsCurrent, Ran
  <1>7. WithinBudget'
    <2>1. run[p].cost \in Costs /\ BudgetAllows(p)
      BY DEF Record, IInv, WithinBudget
    <2>2. req[p] \in Requests /\ snapshot[req[p]] \in Nat /\ run[p].spent \in Nat
      BY DEF Record, IInv, TypeOK, Progress
    <2>3. run[p].cost \in Nat /\ run[p].cost <= EstimatedCost + Overcharge
      <3>1. run[p].cost \in 0 .. EstimatedCost + Overcharge
        BY <2>1, MoneyAssumption DEF MoneyAssumption
      <3> QED BY <3>1, MoneyAssumption DEF MoneyAssumption
    <2>4. /\ run'[p].spent <= MaxRun + Overcharge
          /\ snapshot[req[p]] + run'[p].spent <= MaxDay + Overcharge
      BY <1>a, <2>1, <2>2, <2>3, MoneyAssumption DEF MoneyAssumption, BudgetAllows
    <2> QED BY <1>a, <2>4 DEF Record, IInv, TypeOK, WithinBudget, BudgetAllows
  <1>8. CeilingsHold'
    BY DEF Record, IInv, TypeOK, CeilingsHold
  <1>9. OneRunPerPlan'
    BY DEF Record, IInv, TypeOK, OneRunPerPlan
  <1> QED BY <1>1, <1>2, <1>3, <1>4, <1>5, <1>6, <1>7, <1>8, <1>9 DEF IInv

(* The ledger is read. *)
LEMMA AppendReadsStep ==
  ASSUME IInv, NEW p \in Processes, AppendReads(p)
  PROVE  IInv'
  <1>1. TypeOK'
    BY DEF AppendReads, IInv, TypeOK
  <1>2. AloneInLock'
    BY DEF AppendReads, IInv, TypeOK, AloneInLock
  <1>3. PlanIsPrepared'
    BY DEF AppendReads, IInv, TypeOK, PlanIsPrepared
  <1>4. FreshRun'
    BY DEF AppendReads, IInv, TypeOK, FreshRun
  <1>5. TaskLeft'
    BY DEF AppendReads, IInv, TypeOK, TaskLeft, Plan
  <1>6. ReadIsCurrent'
    BY DEF AppendReads, IInv, TypeOK, ReadIsCurrent, AloneInLock, Ran
  <1>7. WithinBudget'
    BY DEF AppendReads, IInv, TypeOK, WithinBudget, BudgetAllows
  <1>8. CeilingsHold'
    BY DEF AppendReads, IInv, TypeOK, CeilingsHold
  <1>9. OneRunPerPlan'
    BY DEF AppendReads, IInv, TypeOK, OneRunPerPlan
  <1> QED BY <1>1, <1>2, <1>3, <1>4, <1>5, <1>6, <1>7, <1>8, <1>9 DEF IInv

(* The run joins the ledger. *)
LEMMA AppendWritesStep ==
  ASSUME IInv, NEW p \in Processes, AppendWrites(p)
  PROVE  IInv'
  <1> DEFINE Entry == [plan |-> req[p], day |-> run[p].day, cost |-> run[p].spent, rows |-> run[p].rows]
  <1>a. req[p] \in Requests /\ run[p] \in Progress /\ run[p].day \in Days
    BY DEF AppendWrites, IInv, TypeOK, Progress
  <1>b. ledger' = WithRun(ledger, Entry)
    BY DEF AppendWrites, IInv, ReadIsCurrent, Ran
  <1> HIDE DEF Entry
  <1>1. TypeOK'
    <2>1. ledger'.runs = ledger.runs \cup {Entry}
      BY <1>b DEF WithRun
    <2>2. Entry \in Run
      BY <1>a DEF Entry, IInv, TypeOK, Progress, Run
    <2>3. ledger \in Ledger /\ Entry.day \in Days /\ Entry.cost \in Nat
      BY <1>a DEF Entry, IInv, TypeOK, Progress
    <2>4. [ledger.spent EXCEPT ![Entry.day] = @ + Entry.cost] \in [Days -> Nat]
      BY <2>3 DEF Ledger
    <2>5. ledger' \in Ledger
      BY <1>b, <2>2, <2>3, <2>4 DEF WithRun, Ledger
    <2> QED BY <2>5, Values DEF AppendWrites, Release, End, IInv, TypeOK
  <1>2. AloneInLock'
    BY DEF AppendWrites, Release, End, IInv, TypeOK, AloneInLock
  <1>3. PlanIsPrepared'
    BY DEF AppendWrites, Release, End, IInv, TypeOK, PlanIsPrepared
  <1>4. FreshRun'
    BY DEF AppendWrites, Release, End, IInv, TypeOK, FreshRun
  <1>5. TaskLeft'
    BY DEF AppendWrites, Release, End, IInv, TypeOK, TaskLeft, Plan
  <1>6. ReadIsCurrent'
    <2>1. \A q \in Processes \ {p} : pc[q] \notin InLock
      BY DEF AppendWrites, IInv, AloneInLock
    <2> QED BY <2>1 DEF AppendWrites, End, IInv, TypeOK, ReadIsCurrent
  <1>7. WithinBudget'
    BY DEF AppendWrites, Release, End, IInv, TypeOK, WithinBudget, BudgetAllows
  <1>8. CeilingsHold'
    <2>1. /\ run[p].spent <= MaxRun + Overcharge
          /\ ledger.spent[run[p].day] + run[p].spent <= MaxDay + Overcharge
      BY DEF AppendWrites, IInv, ReadIsCurrent, WithinBudget
    <2>2. \A d \in Days : ledger'.spent[d] = IF d = run[p].day THEN ledger.spent[d] + run[p].spent
                                                             ELSE ledger.spent[d]
      BY <1>a, <1>b DEF WithRun, Entry, IInv, TypeOK, Ledger
    <2>3. ledger'.runs = ledger.runs \cup {Entry}
      BY <1>b DEF WithRun
    <2> QED BY <2>1, <2>2, <2>3 DEF IInv, CeilingsHold, Entry
  <1>9. OneRunPerPlan'
    <2>1. ledger'.runs = ledger.runs \cup {Entry} /\ Entry.plan = req[p]
      BY <1>b DEF WithRun, Entry
    <2>2. \A entry \in ledger.runs : entry.plan # req[p]
      BY DEF AppendWrites, IInv, ReadIsCurrent, Ran
    <2> QED BY <2>1, <2>2 DEF IInv, OneRunPerPlan
  <1> QED BY <1>1, <1>2, <1>3, <1>4, <1>5, <1>6, <1>7, <1>8, <1>9 DEF IInv

(* An invocation ends without a run. *)
LEMMA LeaveStep ==
  ASSUME IInv, NEW p \in Processes,
         End(p), Release(p) \/ UNCHANGED writers,
         UNCHANGED <<today, prepared, snapshot, files, provider, overwritten>>,
         interrupted' \subseteq Requests
  PROVE  IInv'
  <1>1. TypeOK'
    BY Values DEF Release, End, IInv, TypeOK
  <1>2. AloneInLock'
    BY DEF Release, End, IInv, TypeOK, AloneInLock
  <1>3. PlanIsPrepared'
    BY DEF Release, End, IInv, TypeOK, PlanIsPrepared
  <1>4. FreshRun'
    BY DEF Release, End, IInv, TypeOK, FreshRun
  <1>5. TaskLeft'
    BY DEF Release, End, IInv, TypeOK, TaskLeft, Plan
  <1>6. ReadIsCurrent'
    BY DEF Release, End, IInv, TypeOK, ReadIsCurrent, AloneInLock, Ran
  <1>7. WithinBudget'
    BY DEF Release, End, IInv, TypeOK, WithinBudget, BudgetAllows
  <1>8. CeilingsHold'
    BY DEF Release, End, IInv, TypeOK, CeilingsHold
  <1>9. OneRunPerPlan'
    BY DEF Release, End, IInv, TypeOK, OneRunPerPlan
  <1> QED BY <1>1, <1>2, <1>3, <1>4, <1>5, <1>6, <1>7, <1>8, <1>9 DEF IInv

THEOREM InitIInv == Init => IInv
  <1> SUFFICES ASSUME Init PROVE IInv
    OBVIOUS
  <1>1. TypeOK
    BY Values, MoneyAssumption DEF MoneyAssumption, Init, TypeOK, Days, Lock!Init
  <1>2. AloneInLock /\ PlanIsPrepared /\ FreshRun /\ TaskLeft /\ ReadIsCurrent /\ WithinBudget
    BY DEF Init, AloneInLock, PlanIsPrepared, FreshRun, TaskLeft, ReadIsCurrent, WithinBudget
  <1>3. CeilingsHold /\ OneRunPerPlan
    BY MoneyAssumption DEF MoneyAssumption, Init, CeilingsHold, OneRunPerPlan, EmptyLedger
  <1> QED BY <1>1, <1>2, <1>3 DEF IInv

THEOREM NextIInv == IInv /\ [Next]_vars => IInv'
  <1> SUFFICES ASSUME IInv, [Next]_vars PROVE IInv'
    OBVIOUS
  <1>1. CASE NextDay \/ \E r \in Requests : Prepare(r)
    BY <1>1, OutsideStep
  <1>2. ASSUME NEW p \in Processes, Authorize(p) PROVE IInv'
    <2>1. CASE (\E r \in Requests : Invoke(p, r)) \/ ConsumeReads(p) \/ ConsumeWrites(p)
      BY <2>1, OutsideStep
    <2>2. CASE AlreadyConsumed(p)
      BY <2>2, LeaveStep DEF AlreadyConsumed, IInv, TypeOK
    <2> QED BY <1>2, <2>1, <2>2 DEF Authorize
  <1>3. ASSUME NEW p \in Processes, Execute(p) PROVE IInv'
    <2>1. CASE Acquire(p)
      BY <2>1, OutsideStep
    <2>2. CASE LockBusy(p) \/ Refuse(p) \/ AppendFails(p)
      BY <2>2, LeaveStep DEF LockBusy, Refuse, AppendFails, IInv, TypeOK
    <2>3. CASE Start(p)
      BY <2>3, StartStep
    <2>4. CASE BudgetStops(p) \/ LocalFailure(p)
      BY <2>4, StopStep DEF BudgetStops, LocalFailure, Outcomes
    <2>5. CASE CheckKey(p)
      BY <2>5, CheckKeyStep
    <2>6. CASE AppendReads(p)
      BY <2>6, AppendReadsStep
    <2>7. CASE AppendWrites(p)
      BY <2>7, AppendWritesStep
    <2> QED BY <1>3, <2>1, <2>2, <2>3, <2>4, <2>5, <2>6, <2>7 DEF Execute
  <1>4. ASSUME NEW p \in Processes, Buy(p) PROVE IInv'
    <2>1. CASE Post(p)
      BY <2>1, PostStep
    <2>2. CASE Answered(p)
      BY <2>2, AnsweredStep
    <2>3. CASE Record(p)
      BY <2>3, RecordStep
    <2>4. CASE NotCreated(p) \/ AnswerLost(p) \/ RecordFails(p)
      BY <2>4, StopStep DEF NotCreated, AnswerLost, RecordFails, Outcomes
    <2> QED BY <1>4, <2>1, <2>2, <2>3, <2>4 DEF Buy
  <1>5. ASSUME NEW p \in Processes, Crash(p) PROVE IInv'
    BY <1>5, LeaveStep DEF Crash, IInv, TypeOK
  <1>6. CASE UNCHANGED vars
    BY <1>6 DEF vars, IInv, TypeOK, AloneInLock, PlanIsPrepared, FreshRun, TaskLeft, ReadIsCurrent,
                WithinBudget, CeilingsHold, OneRunPerPlan, Plan, Ran, BudgetAllows
  <1> QED BY <1>1, <1>2, <1>3, <1>4, <1>5, <1>6 DEF Next

(* The state keeps its type. *)
THEOREM TypeCorrect == Spec => []TypeOK
  <1>1. IInv => TypeOK
    BY DEF IInv
  <1> QED BY InitIInv, NextIInv, <1>1, PTL DEF Spec

(* No run and no day exceeds its ceiling by more than one overcharge, in    *)
(* every behaviour: with crashes, racing consumption and failing writes.    *)
THEOREM CeilingsRespected == Spec => []CeilingsHold
  <1>1. IInv => CeilingsHold
    BY DEF IInv
  <1> QED BY InitIInv, NextIInv, <1>1, PTL DEF Spec

(* The execution ledger only grows, by one run for each plan. *)
THEOREM LedgerKept == Spec => LedgerImmutable
  <1>1. ASSUME IInv, IInv', [Next]_vars
        PROVE  [/\ ledger.runs \subseteq ledger'.runs
                /\ \A a, b \in ledger'.runs : a.plan = b.plan => a = b]_ledger
    <2>1. ASSUME NEW p \in Processes, AppendWrites(p) PROVE ledger.runs \subseteq ledger'.runs
      <3>1. \/ ledger' = ledger
            \/ \E entry : ledger' = WithRun(ledger, entry)
        BY <1>1, <2>1 DEF AppendWrites, IInv, ReadIsCurrent
      <3> QED BY <3>1 DEF WithRun
    <2>2. (\E p \in Processes : AppendWrites(p)) \/ ledger' = ledger
      BY <1>1 DEF Next, vars, Authorize, Execute, Buy, NextDay, Prepare, Invoke, ConsumeReads,
                  AlreadyConsumed, ConsumeWrites, Acquire, LockBusy, Refuse, Start, BudgetStops,
                  LocalFailure, CheckKey, AppendReads, AppendFails, Post, NotCreated, Answered,
                  AnswerLost, Record, RecordFails, Stop, Crash
    <2>3. \A a, b \in ledger'.runs : a.plan = b.plan => a = b
      BY <1>1 DEF IInv, OneRunPerPlan
    <2> QED BY <2>1, <2>2, <2>3
  <1> QED BY InitIInv, NextIInv, <1>1, PTL DEF Spec, LedgerImmutable

(***************************************************************************)
(* No task is bought twice under one authorization.                        *)
(***************************************************************************)

(* A step of one process leaves the others where they are. *)
LEMMA OthersStay ==
  ASSUME IInv, NEW p \in Processes, Authorize(p) \/ Execute(p) \/ Buy(p) \/ Crash(p),
         NEW q \in Processes, q # p
  PROVE  pc'[q] = pc[q] /\ req'[q] = req[q] /\ run'[q] = run[q] /\ seen'[q] = seen[q]
  <1>1. CASE Authorize(p)
    BY <1>1 DEF Authorize, Invoke, ConsumeReads, AlreadyConsumed, ConsumeWrites, End, IInv, TypeOK
  <1>2. CASE Acquire(p) \/ LockBusy(p) \/ Refuse(p) \/ AppendReads(p) \/ AppendWrites(p) \/ AppendFails(p) \/ CheckKey(p)
    BY <1>2 DEF Acquire, LockBusy, Refuse, AppendReads, AppendWrites, AppendFails, CheckKey, End, IInv, TypeOK
  <1>3. CASE Start(p) \/ Post(p) \/ Answered(p) \/ Record(p)
    BY <1>3 DEF Start, Post, Answered, Record, IInv, TypeOK
  <1>4. ASSUME NEW o, Stop(p, o) PROVE pc'[q] = pc[q] /\ req'[q] = req[q] /\ run'[q] = run[q] /\ seen'[q] = seen[q]
    BY <1>4 DEF Stop, IInv, TypeOK
  <1>5. CASE Crash(p)
    BY <1>5 DEF Crash, End, IInv, TypeOK
  <1> QED BY <1>1, <1>2, <1>3, <1>4, <1>5 DEF Execute, Buy, BudgetStops, LocalFailure, NotCreated, AnswerLost, RecordFails

(* The loop moves past the tasks it has posted, and only forward. *)
LEMMA StopPosted ==
  ASSUME IInv, NEW p \in Processes, NEW o \in Outcomes, Stop(p, o), pc[p] \in {"next"} \cup Transport
  PROVE  pc'[p] = "append" /\ req'[p] = req[p] /\ Posted(p)' >= Posted(p)
  <1>1. run \in [Processes -> Progress] /\ Len(run[p].rows) \in Nat
    BY DEF IInv, TypeOK, Progress
  <1>2. run'[p].rows = Append(run[p].rows, o) /\ run[p].rows \in Seq(Outcomes)
    BY <1>1 DEF Stop, Progress
  <1>3. Len(run'[p].rows) = Len(run[p].rows) + 1
    BY <1>2
  <1>4. pc'[p] = "append" /\ req'[p] = req[p]
    BY DEF Stop, IInv, TypeOK
  <1>5. Posted(p)' = Len(run'[p].rows) /\ Posted(p) <= Len(run[p].rows) + 1
    BY <1>1, <1>3, <1>4 DEF Posted
  <1> QED BY <1>1, <1>3, <1>4, <1>5 DEF Posted

LEMMA RecordPosted ==
  ASSUME IInv, NEW p \in Processes, Record(p)
  PROVE  pc'[p] \in {"next", "append"} /\ req'[p] = req[p] /\ Posted(p)' >= Posted(p)
  <1>1. run \in [Processes -> Progress] /\ Len(run[p].rows) \in Nat
    BY DEF IInv, TypeOK, Progress
  <1>2. run'[p].rows = Append(run[p].rows, "COMPLETED") /\ run[p].rows \in Seq(Outcomes)
    BY <1>1 DEF Record, Progress
  <1>3. Len(run'[p].rows) = Len(run[p].rows) + 1
    BY <1>2 DEF Outcomes
  <1> QED BY <1>1, <1>3 DEF Record, Posted, IInv, TypeOK

(* A step that neither marks an authorization nor buys a task takes no run  *)
(* back, and lets nobody join those that have marked theirs.                *)
LEMMA QuietStep ==
  ASSUME IInv, NEW p \in Processes, Authorize(p) \/ Execute(p) \/ Buy(p) \/ Crash(p),
         ~ConsumeWrites(p), ~Post(p)
  PROVE  /\ UNCHANGED <<created, consumed>>
         /\ \A q \in Processes :
              pc'[q] \in Owning => pc[q] \in Owning /\ req'[q] = req[q] /\ Posted(q)' >= Posted(q)
  <1>1. UNCHANGED <<created, consumed>>
    BY DEF Authorize, Execute, Buy, Invoke, ConsumeReads, AlreadyConsumed, Acquire, LockBusy, Refuse,
           Start, BudgetStops, LocalFailure, CheckKey, AppendReads, AppendWrites, AppendFails,
           NotCreated, Answered, AnswerLost, Record, RecordFails, Stop, Crash
  <1>2. ASSUME NEW q \in Processes, q # p, pc'[q] \in Owning
        PROVE  pc[q] \in Owning /\ req'[q] = req[q] /\ Posted(q)' >= Posted(q)
    <2>1. Len(run[q].rows) \in Nat
      BY DEF IInv, TypeOK, Progress
    <2>2. pc'[q] = pc[q] /\ req'[q] = req[q] /\ run'[q] = run[q]
      BY <1>2, OthersStay
    <2>3. Posted(q)' = Posted(q) /\ Posted(q) \in Nat
      BY <2>1, <2>2 DEF Posted
    <2> QED BY <1>2, <2>2, <2>3
  <1>3. ASSUME pc'[p] \in Owning
        PROVE  pc[p] \in Owning /\ req'[p] = req[p] /\ Posted(p)' >= Posted(p)
    <2>0. run \in [Processes -> Progress] /\ Len(run[p].rows) \in Nat
      BY DEF IInv, TypeOK, Progress
    <2>1. CASE Authorize(p)
      BY <1>3, <2>1 DEF Authorize, Invoke, ConsumeReads, AlreadyConsumed, End, IInv, TypeOK, Owning
    <2>2. CASE LockBusy(p) \/ Refuse(p) \/ AppendWrites(p) \/ AppendFails(p) \/ Crash(p)
      BY <1>3, <2>2 DEF LockBusy, Refuse, AppendWrites, AppendFails, Crash, End, IInv, TypeOK, Owning
    <2>3. CASE Acquire(p) \/ CheckKey(p) \/ AppendReads(p) \/ Answered(p)
      <3>1. pc[p] \in Owning /\ req'[p] = req[p] /\ run'[p] = run[p]
        BY <2>3 DEF Acquire, CheckKey, AppendReads, Answered, Owning
      <3>2. pc'[p] \in {"answer", "record"} <=> pc[p] \in {"answer", "record"}
        BY <2>3 DEF Acquire, CheckKey, AppendReads, Answered, IInv, TypeOK
      <3>3. Posted(p)' = Posted(p) /\ Posted(p) \in Nat
        BY <2>0, <3>1, <3>2 DEF Posted
      <3> QED BY <3>1, <3>3
    <2>4. CASE Start(p)
      <3>1. run'[p].rows = run[p].rows
        BY <2>0, <2>4 DEF Start, Progress
      <3> QED BY <2>0, <2>4, <3>1 DEF Start, IInv, TypeOK, Owning, Posted
    <2>5. CASE Record(p)
      BY <2>5, RecordPosted DEF Owning, Record
    <2>6. CASE BudgetStops(p) \/ LocalFailure(p) \/ NotCreated(p) \/ AnswerLost(p) \/ RecordFails(p)
      BY <2>6, StopPosted DEF BudgetStops, LocalFailure, NotCreated, AnswerLost, RecordFails, Owning, Outcomes
    <2> QED BY <2>1, <2>2, <2>3, <2>4, <2>5, <2>6 DEF Execute, Buy
  <1> QED BY <1>1, <1>2, <1>3

(* Serial consumption, one lemma per kind of step. *)
LEMMA MarkBegins ==
  ASSUME Overlap = FALSE, IInv, SerialInv, NEW p \in Processes, ConsumeReads(p)
  PROVE  SerialInv'
  <1>1. OneMarking' /\ MarkingFresh'
    BY DEF ConsumeReads, IInv, TypeOK, SerialInv, OneMarking, MarkingFresh
  <1>2. OwnersConsumed' /\ OneOwner'
    BY DEF ConsumeReads, IInv, TypeOK, SerialInv, OwnersConsumed, OneOwner, Owning
  <1>3. NothingAhead'
    BY DEF ConsumeReads, IInv, TypeOK, SerialInv, NothingAhead, Unbought, Posted, Plan, Owning
  <1>4. ConsumptionShown' /\ PaidOnce'
    BY DEF ConsumeReads, SerialInv, ConsumptionShown, PaidOnce
  <1> QED BY <1>1, <1>2, <1>3, <1>4 DEF SerialInv

LEMMA MarkEnds ==
  ASSUME Overlap = FALSE, IInv, SerialInv, NEW p \in Processes, ConsumeWrites(p)
  PROVE  SerialInv'
  <1>0. /\ req[p] \in Requests \ consumed /\ pc[p] = "mark" /\ consumed' = consumed \cup {req[p]}
        /\ created' = created /\ req' = req /\ run' = run /\ pc'[p] = "acquire"
        /\ \A q \in Processes : q # p => pc'[q] = pc[q]
    BY DEF ConsumeWrites, IInv, TypeOK, SerialInv, MarkingFresh
  <1>1. OneMarking' /\ MarkingFresh'
    BY <1>0 DEF IInv, TypeOK, SerialInv, OneMarking, MarkingFresh
  <1>2. OwnersConsumed' /\ OneOwner'
    BY <1>0 DEF SerialInv, OwnersConsumed, OneOwner, Owning
  <1>3. NothingAhead'
    <2>1. ASSUME NEW k \in Keys PROVE created[req[p]][k] = 0
      BY <1>0 DEF IInv, TypeOK, SerialInv, ConsumptionShown
    <2>2. \A i \in 1 .. Len(Plan(p)) : Plan(p)[i] \in Keys
      BY <1>0, KeyAssumption DEF KeyAssumption, Plan
    <2>3. Unbought(p)'
      BY <1>0, <2>1, <2>2 DEF Unbought, Plan
    <2>4. ASSUME NEW q \in Processes, q # p, pc'[q] \in Owning PROVE Unbought(q)'
      <3>1. Posted(q)' = Posted(q)
        BY <1>0, <2>4 DEF Posted
      <3> QED BY <1>0, <2>4, <3>1 DEF SerialInv, NothingAhead, Unbought, Plan
    <2> QED BY <2>3, <2>4 DEF NothingAhead
  <1>4. ConsumptionShown' /\ PaidOnce'
    BY <1>0 DEF SerialInv, ConsumptionShown, PaidOnce
  <1> QED BY <1>1, <1>2, <1>3, <1>4 DEF SerialInv

(* Buying the next task of a plan of which nothing ahead is bought. *)
LEMMA PostEffect ==
  ASSUME IInv, NEW p \in Processes, Post(p), Unbought(p)
  PROVE  /\ created[req[p]][Task(p)] = 0 /\ created'[req[p]][Task(p)] = 1
         /\ \A r \in Requests, k \in Keys :
              created'[r][k] # created[r][k] => r = req[p] /\ k = Task(p)
         /\ Unbought(p)'
  <1>1. req[p] \in Requests /\ Task(p) \in Keys /\ Len(run[p].rows) \in Nat
    BY TaskIsKey DEF Post, IInv, TypeOK, Progress
  <1>2. Len(run[p].rows) + 1 \in 1 .. Len(Plan(p))
    <2>1. Len(Plan(p)) \in Nat
      BY <1>1, KeyAssumption DEF KeyAssumption, Plan
    <2> QED BY <1>1, <2>1 DEF Post, IInv, TaskLeft
  <1>3. Posted(p) = Len(run[p].rows)
    BY DEF Post, Posted
  <1>4. created[req[p]][Task(p)] = 0
    BY <1>1, <1>2, <1>3 DEF Unbought, Task
  <1>5. created' = [created EXCEPT ![req[p]][Task(p)] = created[req[p]][Task(p)] + 1]
    BY DEF Post
  <1>6. created'[req[p]][Task(p)] = 1
    BY <1>1, <1>4, <1>5 DEF IInv, TypeOK
  <1>7. ASSUME NEW r \in Requests, NEW k \in Keys, created'[r][k] # created[r][k]
        PROVE  r = req[p] /\ k = Task(p)
    BY <1>1, <1>5, <1>7 DEF IInv, TypeOK
  <1>8. Unbought(p)'
    <2>1. /\ pc'[p] = "answer" /\ req' = req /\ run'[p].rows = run[p].rows
      BY DEF Post, IInv, TypeOK, Progress
    <2>2. Posted(p)' = Len(run[p].rows) + 1
      BY <2>1 DEF Posted
    <2>3. ASSUME NEW i \in 1 .. Len(Plan(p)), i > Len(run[p].rows) + 1
          PROVE  created'[req[p]][Plan(p)[i]] = 0
      <3>1. Plan(p)[i] # Task(p) /\ Plan(p)[i] \in Keys
        BY <1>1, <1>2, <2>3, KeyAssumption DEF KeyAssumption, Plan, Task
      <3>2. created[req[p]][Plan(p)[i]] = 0
        BY <1>1, <1>3, <2>3 DEF Unbought
      <3> QED BY <1>1, <1>7, <3>1, <3>2
    <2> QED BY <2>1, <2>2, <2>3 DEF Unbought, Plan
  <1> QED BY <1>4, <1>6, <1>7, <1>8

LEMMA SerialPost ==
  ASSUME IInv, SerialInv, NEW p \in Processes, Post(p)
  PROVE  SerialInv'
  <1>0. /\ pc[p] = "post" /\ pc'[p] = "answer" /\ consumed' = consumed /\ req' = req /\ seen' = seen
        /\ \A q \in Processes : q # p => pc'[q] = pc[q] /\ run'[q] = run[q]
    BY DEF Post, IInv, TypeOK
  <1>a. Unbought(p) /\ req[p] \in consumed
    BY <1>0 DEF SerialInv, NothingAhead, OwnersConsumed, Owning
  <1>1. OneMarking' /\ MarkingFresh'
    BY <1>0 DEF SerialInv, OneMarking, MarkingFresh
  <1>2. OwnersConsumed' /\ OneOwner'
    BY <1>0 DEF SerialInv, OwnersConsumed, OneOwner, Owning
  <1>3. NothingAhead'
    <2>1. ASSUME NEW q \in Processes, q # p, pc'[q] \in Owning PROVE Unbought(q)'
      <3>1. req[q] # req[p] /\ req[q] \in Requests /\ Unbought(q)
        BY <1>0, <2>1 DEF SerialInv, OneOwner, NothingAhead, Owning, IInv, TypeOK
      <3>2. Posted(q)' = Posted(q)
        BY <1>0, <2>1 DEF Posted
      <3>3. ASSUME NEW i \in 1 .. Len(Plan(q)) PROVE created'[req[q]][Plan(q)[i]] = created[req[q]][Plan(q)[i]]
        <4>1. Plan(q)[i] \in Keys
          BY <3>1, KeyAssumption DEF KeyAssumption, Plan
        <4> QED BY <1>a, <3>1, <4>1, PostEffect
      <3> QED BY <1>0, <3>1, <3>2, <3>3 DEF Unbought, Plan
    <2> QED BY <1>a, <2>1, PostEffect DEF NothingAhead
  <1>4. ConsumptionShown'
    BY <1>0, <1>a, PostEffect DEF SerialInv, ConsumptionShown
  <1>5. PaidOnce'
    <2>1. ASSUME NEW r \in Requests, NEW k \in Keys PROVE created'[r][k] <= 1
      BY <1>a, PostEffect DEF SerialInv, PaidOnce
    <2> QED BY <2>1 DEF PaidOnce
  <1> QED BY <1>1, <1>2, <1>3, <1>4, <1>5 DEF SerialInv

LEMMA SerialQuiet ==
  ASSUME IInv, SerialInv, NEW p \in Processes, Authorize(p) \/ Execute(p) \/ Buy(p) \/ Crash(p),
         ~ConsumeReads(p), ~ConsumeWrites(p), ~Post(p)
  PROVE  SerialInv'
  <1>1. ASSUME NEW q \in Processes, pc'[q] = "mark"
        PROVE  pc[q] = "mark" /\ req'[q] = req[q] /\ seen'[q] = seen[q]
    <2>1. pc'[p] # "mark"
      BY DEF Authorize, Execute, Buy, Invoke, AlreadyConsumed, Acquire, LockBusy, Refuse,
           Start, BudgetStops, LocalFailure, CheckKey, AppendReads, AppendWrites, AppendFails,
           NotCreated, Answered, AnswerLost, Record, RecordFails, Stop, Crash, End, IInv, TypeOK
    <2> QED BY <1>1, <2>1, OthersStay
  <1>2. consumed' = consumed /\ created' = created
    BY QuietStep
  <1>3. OneMarking' /\ MarkingFresh'
    BY <1>1, <1>2 DEF SerialInv, OneMarking, MarkingFresh
  <1>4. OwnersConsumed' /\ OneOwner'
    BY <1>2, QuietStep DEF SerialInv, OwnersConsumed, OneOwner
  <1>5. NothingAhead'
    <2>1. ASSUME NEW q \in Processes, pc'[q] \in Owning PROVE Unbought(q)'
      <3>1. pc[q] \in Owning /\ req'[q] = req[q] /\ Posted(q)' >= Posted(q)
        BY <2>1, QuietStep
      <3>2. Posted(q) \in Nat /\ Posted(q)' \in Nat
        <4>1. Len(run[q].rows) \in Nat
          BY DEF IInv, TypeOK, Progress
        <4>2. IInv'
          BY NextIInv DEF Next
        <4>3. Len(run'[q].rows) \in Nat
          BY <4>2 DEF IInv, TypeOK, Progress
        <4> QED BY <4>1, <4>3 DEF Posted
      <3> QED BY <1>2, <3>1, <3>2 DEF SerialInv, NothingAhead, Unbought, Plan
    <2> QED BY <2>1 DEF NothingAhead
  <1>6. ConsumptionShown' /\ PaidOnce'
    BY <1>2 DEF SerialInv, ConsumptionShown, PaidOnce
  <1> QED BY <1>3, <1>4, <1>5, <1>6 DEF SerialInv

THEOREM SerialInvariant == ASSUME Overlap = FALSE PROVE Spec => [](IInv /\ SerialInv)
  <1>1. Init => SerialInv
    BY DEF Init, SerialInv, OneMarking, MarkingFresh, OwnersConsumed, OneOwner, NothingAhead, Owning,
           ConsumptionShown, PaidOnce
  <1>2. ASSUME IInv, SerialInv, [Next]_vars PROVE SerialInv'
    <2>1. CASE NextDay \/ (\E r \in Requests : Prepare(r)) \/ UNCHANGED vars
      <3>1. UNCHANGED <<pc, req, seen, run, consumed, created>>
        BY <2>1 DEF NextDay, Prepare, vars
      <3> QED BY <1>2, <3>1 DEF SerialInv, OneMarking, MarkingFresh, OwnersConsumed, OneOwner, NothingAhead,
                              Unbought, Posted, Plan, ConsumptionShown, PaidOnce
    <2>2. ASSUME NEW p \in Processes, Authorize(p) \/ Execute(p) \/ Buy(p) \/ Crash(p) PROVE SerialInv'
      BY <1>2, <2>2, MarkBegins, MarkEnds, SerialPost, SerialQuiet
    <2> QED BY <1>2, <2>1, <2>2 DEF Next
  <1> QED BY InitIInv, NextIInv, <1>1, <1>2, PTL DEF Spec

(* When consume() is not entered by two processes at once, no authorization *)
(* pays for a task of its plan twice, whatever crashes or is lost.          *)
THEOREM SerialPaysOnce == ASSUME Overlap = FALSE PROVE Spec => []PaidOnce
  <1>1. SerialInv => PaidOnce
    BY DEF SerialInv
  <1> QED BY SerialInvariant, <1>1, PTL

(* A mark that was written stays in the file or is written over. *)
LEMMA MarkedStep ==
  ASSUME IInv, MarkedInv, NEW p \in Processes, Authorize(p) \/ Execute(p) \/ Buy(p) \/ Crash(p)
  PROVE  MarkedInv'
  <1>1. CASE ConsumeWrites(p)
    <2>1. consumed \cup overwritten \subseteq consumed' \cup overwritten' /\ req[p] \in consumed'
      BY <1>1 DEF ConsumeWrites
    <2>2. /\ created' = created /\ req' = req
          /\ \A q \in Processes : q # p => pc'[q] = pc[q]
      BY <1>1 DEF ConsumeWrites, IInv, TypeOK
    <2> QED BY <2>1, <2>2 DEF MarkedInv, OwnersMarked, ConsumedBeforeTransport
  <1>2. CASE Post(p)
    <2>1. /\ pc[p] \in Owning /\ UNCHANGED <<consumed, overwritten, req>>
          /\ \A q \in Processes : q # p => pc'[q] = pc[q]
      BY <1>2 DEF Post, Owning, IInv, TypeOK
    <2>2. \A r \in Requests, k \in Keys : r # req[p] => created'[r][k] = created[r][k]
      BY <1>2 DEF Post, IInv, TypeOK
    <2> QED BY <2>1, <2>2 DEF MarkedInv, OwnersMarked, ConsumedBeforeTransport
  <1>3. CASE ~ConsumeWrites(p) /\ ~Post(p)
    <2>1. overwritten' = overwritten
      BY <1>3 DEF Authorize, Execute, Buy, Invoke, ConsumeReads, AlreadyConsumed, Acquire, LockBusy, Refuse,
             Start, BudgetStops, LocalFailure, CheckKey, AppendReads, AppendWrites, AppendFails,
             NotCreated, Answered, AnswerLost, Record, RecordFails, Stop, Crash
    <2>2. /\ created' = created /\ consumed' = consumed
          /\ \A q \in Processes : pc'[q] \in Owning => pc[q] \in Owning /\ req'[q] = req[q]
      BY <1>3, QuietStep
    <2> QED BY <2>1, <2>2 DEF MarkedInv, OwnersMarked, ConsumedBeforeTransport
  <1> QED BY <1>1, <1>2, <1>3

(* Whatever is bought was marked consumed before it was sent, in every      *)
(* behaviour: a mark that is missing is one that another consume() wrote    *)
(* over.                                                                    *)
THEOREM ConsumesFirst == Spec => []ConsumedBeforeTransport
  <1>1. Init => MarkedInv
    BY DEF Init, MarkedInv, OwnersMarked, ConsumedBeforeTransport, Owning
  <1>2. ASSUME IInv, MarkedInv, [Next]_vars PROVE MarkedInv'
    <2>1. CASE NextDay \/ (\E r \in Requests : Prepare(r)) \/ UNCHANGED vars
      <3>1. UNCHANGED <<pc, req, consumed, overwritten, created>>
        BY <2>1 DEF NextDay, Prepare, vars
      <3> QED BY <1>2, <3>1 DEF MarkedInv, OwnersMarked, ConsumedBeforeTransport
    <2> QED BY <1>2, <2>1, MarkedStep DEF Next
  <1>3. MarkedInv => ConsumedBeforeTransport
    BY DEF MarkedInv
  <1> QED BY InitIInv, NextIInv, <1>1, <1>2, <1>3, PTL DEF Spec

(* Racing consumption: what the lock and the execution ledger still ensure. *)
LEMMA RacingStart ==
  ASSUME IInv, RacingInv, NEW p \in Processes, Start(p)
  PROVE  RacingInv'
  <1>0. /\ req[p] \in Requests /\ pc[p] = "check" /\ pc'[p] = "next" /\ req' = req /\ created' = created
        /\ ledger' = ledger /\ ~Ran(req[p], ledger)
        /\ \A q \in Processes : q # p => pc'[q] = pc[q] /\ pc[q] \notin Running
    BY DEF Start, MayStart, IInv, TypeOK, AloneInLock
  <1>1. ASSUME NEW k \in Keys PROVE created[req[p]][k] = 0
    <2>1. ~(created[req[p]][k] > 0)
      BY <1>0 DEF RacingInv, BoughtIsKnown
    <2>2. created[req[p]][k] \in Nat
      BY <1>0 DEF IInv, TypeOK
    <2> QED BY <2>1, <2>2
  <1>2. Unbought(p)'
    <2>1. \A i \in 1 .. Len(Plan(p)) : Plan(p)[i] \in Keys
      BY <1>0, KeyAssumption DEF KeyAssumption, Plan
    <2> QED BY <1>0, <1>1, <2>1 DEF Unbought, Plan
  <1>3. BoughtIsKnown'
    BY <1>0 DEF RacingInv, BoughtIsKnown, Ran
  <1> QED BY <1>0, <1>2, <1>3 DEF RacingInv, RunsUnbought, PaidOnce

LEMMA RacingPost ==
  ASSUME IInv, RacingInv, NEW p \in Processes, Post(p)
  PROVE  RacingInv'
  <1>0. /\ pc[p] = "post" /\ pc'[p] = "answer" /\ req' = req /\ ledger' = ledger
        /\ \A q \in Processes : q # p => pc'[q] = pc[q] /\ pc[q] \notin Running
    BY DEF Post, IInv, TypeOK, AloneInLock
  <1>1. Unbought(p)
    BY <1>0 DEF RacingInv, RunsUnbought
  <1>2. BoughtIsKnown'
    BY <1>0, <1>1, PostEffect DEF RacingInv, BoughtIsKnown, Ran
  <1>3. RunsUnbought'
    BY <1>0, <1>1, PostEffect DEF RunsUnbought
  <1>4. PaidOnce'
    <2>1. ASSUME NEW r \in Requests, NEW k \in Keys PROVE created'[r][k] <= 1
      BY <1>1, PostEffect DEF RacingInv, PaidOnce
    <2> QED BY <2>1 DEF PaidOnce
  <1> QED BY <1>2, <1>3, <1>4 DEF RacingInv

LEMMA RacingAppend ==
  ASSUME IInv, RacingInv, NEW p \in Processes, AppendWrites(p)
  PROVE  RacingInv'
  <1>0. /\ pc[p] = "write" /\ pc'[p] = "idle" /\ created' = created
        /\ \A q \in Processes : q # p => pc'[q] = pc[q] /\ pc[q] \notin Running
    BY DEF AppendWrites, End, IInv, TypeOK, AloneInLock
  <1>1. \A r \in Requests : Ran(r, ledger) \/ r = req[p] => Ran(r, ledger')
    <2>1. \E entry : ledger' = WithRun(ledger, entry) /\ entry.plan = req[p]
      BY DEF AppendWrites, IInv, ReadIsCurrent
    <2> QED BY <2>1 DEF WithRun, Ran
  <1>2. BoughtIsKnown'
    BY <1>0, <1>1 DEF RacingInv, BoughtIsKnown
  <1>3. RunsUnbought'
    BY <1>0 DEF RunsUnbought
  <1> QED BY <1>0, <1>2, <1>3 DEF RacingInv, PaidOnce

LEMMA RacingQuiet ==
  ASSUME Faults = FALSE, IInv, RacingInv, NEW p \in Processes, Authorize(p) \/ Execute(p) \/ Buy(p),
         ~Start(p), ~Post(p), ~AppendWrites(p)
  PROVE  RacingInv'
  <1>1. /\ created' = created /\ ledger' = ledger
        /\ pc'[p] \in Running <=> pc[p] \in Running
        /\ pc[p] \in Running => req'[p] = req[p]
    BY DEF Authorize, Execute, Buy, Invoke, ConsumeReads, AlreadyConsumed, ConsumeWrites, Acquire, LockBusy,
           Refuse, BudgetStops, LocalFailure, CheckKey, AppendReads, AppendFails, NotCreated, Answered,
           AnswerLost, Record, RecordFails, Stop, End, IInv, TypeOK
  <1>2. ASSUME NEW q \in Processes
        PROVE  /\ pc'[q] \in Running <=> pc[q] \in Running
               /\ pc[q] \in Running => req'[q] = req[q]
    BY <1>1, OthersStay
  <1>3. BoughtIsKnown'
    BY <1>1, <1>2 DEF RacingInv, BoughtIsKnown
  <1>4. ASSUME NEW q \in Processes, pc'[q] \in Running PROVE Unbought(q)'
    <2>1. pc[q] \in Running /\ req'[q] = req[q] /\ Unbought(q)
      BY <1>2, <1>4 DEF RacingInv, RunsUnbought
    <2>2. CASE ConsumeWrites(p)
      <3>1. Posted(q)' = Posted(q)
        BY <1>4, <2>2 DEF ConsumeWrites, Posted, IInv, TypeOK
      <3> QED BY <1>1, <2>1, <3>1 DEF Unbought, Plan
    <2>3. CASE ~ConsumeWrites(p)
      <3>1. Posted(q)' >= Posted(q)
        BY <1>4, <2>3, QuietStep DEF Owning
      <3>2. Posted(q) \in Nat /\ Posted(q)' \in Nat
        <4>1. Len(run[q].rows) \in Nat
          BY DEF IInv, TypeOK, Progress
        <4>2. IInv'
          BY NextIInv DEF Next
        <4>3. Len(run'[q].rows) \in Nat
          BY <4>2 DEF IInv, TypeOK, Progress
        <4> QED BY <4>1, <4>3 DEF Posted
      <3> QED BY <1>1, <2>1, <3>1, <3>2 DEF Unbought, Plan
    <2> QED BY <2>2, <2>3
  <1> QED BY <1>1, <1>3, <1>4 DEF RacingInv, RunsUnbought, PaidOnce

THEOREM RacingInvariant == ASSUME Faults = FALSE PROVE Spec => [](IInv /\ RacingInv)
  <1>1. Init => RacingInv
    BY DEF Init, RacingInv, BoughtIsKnown, RunsUnbought, PaidOnce
  <1>2. ASSUME IInv, RacingInv, [Next]_vars PROVE RacingInv'
    <2>1. CASE NextDay \/ (\E r \in Requests : Prepare(r)) \/ UNCHANGED vars
      <3>1. UNCHANGED <<pc, req, run, ledger, created>>
        BY <2>1 DEF NextDay, Prepare, vars
      <3> QED BY <1>2, <3>1 DEF RacingInv, BoughtIsKnown, RunsUnbought, Unbought, Posted, Plan, Ran, PaidOnce
    <2>2. ASSUME NEW p \in Processes, Authorize(p) \/ Execute(p) \/ Buy(p) PROVE RacingInv'
      BY <1>2, <2>2, RacingStart, RacingPost, RacingAppend, RacingQuiet
    <2> QED BY <1>2, <2>1, <2>2 DEF Next, Crash
  <1> QED BY InitIInv, NextIInv, <1>1, <1>2, PTL DEF Spec

(* When nothing crashes and no ledger write fails, no authorization pays    *)
(* for a task twice even if processes race through consume().               *)
THEOREM RacingPaysOnce == ASSUME Faults = FALSE PROVE Spec => []PaidOnce
  <1>1. RacingInv => PaidOnce
    BY DEF RacingInv
  <1> QED BY RacingInvariant, <1>1, PTL

(* A request key in the task ledger is never bought again. *)
LEMMA KeyIsNewStep ==
  ASSUME IInv, KeyIsNew, NEW p \in Processes, Authorize(p) \/ Execute(p) \/ Buy(p) \/ Crash(p)
  PROVE  KeyIsNew'
  <1>1. ASSUME NEW q \in Processes, q # p, pc'[q] \in Transport PROVE (Task(q) \notin taskLedger)'
    <2>1. pc'[q] = pc[q] /\ req'[q] = req[q] /\ run'[q] = run[q]
      BY <1>1, OthersStay
    <2>2. taskLedger' = taskLedger
      <3>1. ~Record(p)
        BY <1>1, <2>1 DEF Record, IInv, AloneInLock
      <3> QED BY <3>1 DEF Authorize, Execute, Buy, Invoke, ConsumeReads, AlreadyConsumed, ConsumeWrites, Acquire,
             LockBusy, Refuse, Start, BudgetStops, LocalFailure, CheckKey, AppendReads, AppendWrites, AppendFails,
             Post, NotCreated, Answered, AnswerLost, RecordFails, Stop, Crash
    <2> QED BY <1>1, <2>1, <2>2 DEF KeyIsNew, Task, Plan
  <1>2. ASSUME pc'[p] \in Transport PROVE (Task(p) \notin taskLedger)'
    <2>1. CheckKey(p) \/ Post(p) \/ Answered(p)
      BY <1>2 DEF Authorize, Execute, Buy, Invoke, ConsumeReads, AlreadyConsumed, ConsumeWrites, Acquire,
             LockBusy, Refuse, Start, BudgetStops, LocalFailure, AppendReads, AppendWrites, AppendFails,
             NotCreated, AnswerLost, Record, RecordFails, Stop, Crash, End, IInv, TypeOK
    <2>2. taskLedger' = taskLedger /\ req' = req /\ run'[p].rows = run[p].rows
      <3>1. run \in [Processes -> Progress]
        BY DEF IInv, TypeOK
      <3> QED BY <2>1, <3>1 DEF CheckKey, Post, Answered, Progress
    <2>3. Task(p) \notin taskLedger
      BY <2>1 DEF CheckKey, Post, Answered, KeyIsNew
    <2> QED BY <2>2, <2>3 DEF Task, Plan
  <1> QED BY <1>1, <1>2 DEF KeyIsNew

THEOREM RecordedKeysSafe == Spec => RecordedNotBoughtAgain
  <1>1. Init => KeyIsNew
    BY DEF Init, KeyIsNew
  <1>2. ASSUME IInv, KeyIsNew, [Next]_vars PROVE KeyIsNew'
    <2>1. CASE NextDay \/ (\E r \in Requests : Prepare(r)) \/ UNCHANGED vars
      <3>1. UNCHANGED <<pc, req, run, taskLedger>>
        BY <2>1 DEF NextDay, Prepare, vars
      <3> QED BY <1>2, <3>1 DEF KeyIsNew, Task, Plan
    <2> QED BY <1>2, <2>1, KeyIsNewStep DEF Next
  <1>3. ASSUME IInv, KeyIsNew, [Next]_vars
        PROVE  [\A r \in Requests, k \in taskLedger : created'[r][k] = created[r][k]]_created
    <2>1. ASSUME NEW p \in Processes, Post(p), NEW r \in Requests, NEW k \in taskLedger
          PROVE  created'[r][k] = created[r][k]
      <3>1. k # Task(p) /\ k \in Keys /\ Task(p) \in Keys /\ req[p] \in Requests
        BY <1>3, <2>1, TaskIsKey DEF KeyIsNew, Post, IInv, TypeOK
      <3> QED BY <1>3, <2>1, <3>1 DEF Post, IInv, TypeOK
    <2>2. (\E p \in Processes : Post(p)) \/ created' = created
      <3>1. ASSUME NEW p \in Processes, Authorize(p) \/ Execute(p) \/ Crash(p)
            PROVE  created' = created
        BY <3>1 DEF Authorize, Execute, Invoke, ConsumeReads, AlreadyConsumed, ConsumeWrites, Acquire,
                    LockBusy, Refuse, Start, BudgetStops, LocalFailure, CheckKey, AppendReads,
                    AppendWrites, AppendFails, Stop, Crash
      <3>2. ASSUME NEW p \in Processes, Buy(p)
            PROVE  Post(p) \/ created' = created
        BY <3>2 DEF Buy, NotCreated, Answered, AnswerLost, Record, RecordFails, Stop
      <3>3. ASSUME NextDay \/ (\E r \in Requests : Prepare(r)) \/ UNCHANGED vars
            PROVE  created' = created
        BY <3>3 DEF NextDay, Prepare, vars
      <3> QED BY <1>3, <3>1, <3>2, <3>3 DEF Next
    <2> QED BY <2>1, <2>2
  <1> QED BY InitIInv, NextIInv, <1>1, <1>2, <1>3, PTL DEF Spec, RecordedNotBoughtAgain
(***************************************************************************)
(* The ledger charges a plan with what the provider's answers charged.     *)
(***************************************************************************)

(* Inside the lock nobody else has a run. *)
LEMMA OthersOutside ==
  ASSUME IInv, NEW p \in Processes, pc[p] \in InLock, NEW q \in Processes, q # p
  PROVE  pc[q] \notin Running
  BY DEF IInv, AloneInLock

LEMMA ToldStart ==
  ASSUME IInv, ToldInv, NEW p \in Processes, Start(p)
  PROVE  ToldInv'
  <1>0. /\ req[p] \in Requests /\ pc[p] = "check" /\ pc'[p] = "next" /\ UNCHANGED <<req, told, ledger, interrupted>>
        /\ ~Ran(req[p], ledger)
        /\ \A q \in Processes : q # p => pc'[q] = pc[q]
    BY DEF Start, MayStart, IInv, TypeOK
  <1>1. \A q \in Processes : pc[q] \notin Running
    BY <1>0, OthersOutside
  <1>2. run'[p].spent = 0
    <2>1. run \in [Processes -> Progress] /\ run[p] = NoRun
      BY <1>1 DEF IInv, TypeOK, FreshRun
    <2> QED BY <2>1 DEF Start, Progress, NoRun
  <1>3. req[p] \notin interrupted => told[req[p]] = 0
    BY <1>0, <1>1 DEF ToldInv, ToldIsKnown
  <1>4. ToldInRun'
    <2>1. ASSUME NEW q \in Processes, pc'[q] \in Running PROVE q = p
      BY <1>0, <1>1, <2>1
    <2>2. Untold(p)' = 0
      BY <1>0 DEF Untold
    <2>3. req'[p] \notin interrupted' => told'[req'[p]] = run'[p].spent + Untold(p)'
      BY <1>0, <1>2, <1>3, <2>2
    <2> QED BY <1>0, <2>1, <2>3 DEF ToldInRun
  <1>5. ToldIsKnown'
    BY <1>0, <1>1 DEF ToldInv, ToldIsKnown, Ran
  <1>6. ChargeKept'
    BY <1>0 DEF ToldInv, ChargeKept
  <1> QED BY <1>4, <1>5, <1>6 DEF ToldInv

(* The charge of an answer is told once, and belongs to the run that waits. *)
LEMMA ToldAnswered ==
  ASSUME IInv, ToldInv, NEW p \in Processes, Answered(p)
  PROVE  ToldInv'
  <1>0. /\ req[p] \in Requests /\ pc[p] = "answer" /\ pc'[p] = "record" /\ UNCHANGED <<req, run, ledger, interrupted>>
        /\ told \in [Requests -> Nat] /\ run[p].cost \in Nat
        /\ told' = [told EXCEPT ![req[p]] = told[req[p]] + run[p].cost]
        /\ \A q \in Processes : q # p => pc'[q] = pc[q] /\ pc[q] \notin Running
    BY OthersOutside DEF Answered, IInv, TypeOK, Progress
  <1>1. told'[req[p]] = told[req[p]] + run[p].cost /\ \A r \in Requests \ {req[p]} : told'[r] = told[r]
    BY <1>0
  <1>2. ToldInRun'
    <2>1. run[p].spent \in Nat
      BY <1>0 DEF IInv, TypeOK, Progress
    <2>2. Untold(p) = 0 /\ Untold(p)' = run[p].cost
      BY <1>0 DEF Untold
    <2>3. req[p] \notin interrupted => told[req[p]] = run[p].spent + Untold(p)
      BY <1>0 DEF ToldInv, ToldInRun
    <2>4. req'[p] \notin interrupted' => told'[req'[p]] = run'[p].spent + Untold(p)'
      BY <1>0, <1>1, <2>1, <2>2, <2>3
    <2> QED BY <1>0, <2>4 DEF ToldInRun
  <1>3. ToldIsKnown'
    BY <1>0, <1>1 DEF ToldInv, ToldIsKnown, Ran
  <1>4. ChargeKept'
    <2>1. \A entry \in ledger.runs : entry.plan \in Requests \ {req[p]}
      BY <1>0 DEF IInv, TypeOK, Ledger, Run, ReadIsCurrent, Ran
    <2> QED BY <1>0, <1>1, <2>1 DEF ToldInv, ChargeKept
  <1> QED BY <1>2, <1>3, <1>4 DEF ToldInv

(* The task is recorded with its charge. *)
LEMMA ToldRecord ==
  ASSUME IInv, ToldInv, NEW p \in Processes, Record(p)
  PROVE  ToldInv'
  <1>0. /\ pc[p] = "record" /\ pc'[p] \in {"next", "append"} /\ UNCHANGED <<req, told, ledger, interrupted>>
        /\ \A q \in Processes : q # p => pc'[q] = pc[q] /\ pc[q] \notin Running
    BY OthersOutside DEF Record, IInv, TypeOK
  <1>1. run'[p].spent = run[p].spent + run[p].cost
    <2>1. run \in [Processes -> Progress]
      BY DEF IInv, TypeOK
    <2> QED BY <2>1 DEF Record, Progress
  <1>2. ToldInRun'
    <2>1. req[p] \notin interrupted => told[req[p]] = run[p].spent + run[p].cost
      BY <1>0 DEF ToldInv, ToldInRun, Untold
    <2>2. Untold(p)' = 0 /\ run[p].spent + run[p].cost \in Nat
      BY <1>0 DEF Untold, IInv, TypeOK, Progress
    <2>3. req'[p] \notin interrupted' => /\ told'[req'[p]] = run'[p].spent + Untold(p)'
                                         /\ Accounted(run'[p].rows, run'[p].spent, told'[req'[p]])
      BY <1>0, <1>1, <2>1, <2>2 DEF Accounted
    <2> QED BY <1>0, <2>3 DEF ToldInRun
  <1>3. ToldIsKnown' /\ ChargeKept'
    BY <1>0 DEF ToldInv, ToldIsKnown, Ran, ChargeKept
  <1> QED BY <1>2, <1>3 DEF ToldInv

(* The loop ends, perhaps losing the charge of the task that failed. *)
LEMMA ToldStop ==
  ASSUME IInv, ToldInv, NEW p \in Processes, NEW o \in Outcomes, Stop(p, o),
         pc[p] \in {"next"} \cup Transport, pc[p] = "record" => o = "FAILED"
  PROVE  ToldInv'
  <1>0. /\ pc'[p] = "append" /\ UNCHANGED <<req, told, ledger, interrupted>>
        /\ \A q \in Processes : q # p => pc'[q] = pc[q] /\ pc[q] \notin Running
    BY OthersOutside DEF Stop, IInv, TypeOK
  <1>1. run \in [Processes -> Progress] /\ run[p].rows \in Seq(Outcomes) /\ run[p].spent \in Nat
    BY DEF IInv, TypeOK, Progress
  <1>2. run'[p].spent = run[p].spent /\ run'[p].rows = Append(run[p].rows, o)
    BY <1>1 DEF Stop, Progress
  <1>3. Len(run'[p].rows) > 0 /\ run'[p].rows[Len(run'[p].rows)] = o
    <2>1. Len(Append(run[p].rows, o)) > 0 /\ Append(run[p].rows, o)[Len(Append(run[p].rows, o))] = o
      BY <1>1
    <2> QED BY <1>2, <2>1
  <1>4. ASSUME req[p] \notin interrupted PROVE Accounted(run'[p].rows, run'[p].spent, told[req[p]])
    <2>1. told[req[p]] = run[p].spent + Untold(p)
      BY <1>4 DEF ToldInv, ToldInRun
    <2>2. CASE pc[p] = "record"
      <3>1. run[p].cost \in Costs
        BY <2>2 DEF IInv, WithinBudget
      <3> QED BY <1>2, <1>3, <2>1, <2>2, <3>1 DEF Untold, Accounted
    <2>3. CASE pc[p] # "record"
      BY <1>1, <1>2, <2>1, <2>3 DEF Untold, Accounted
    <2> QED BY <2>2, <2>3
  <1>5. ToldInRun'
    BY <1>0, <1>4 DEF ToldInRun
  <1>6. ToldIsKnown' /\ ChargeKept'
    BY <1>0 DEF ToldInv, ToldIsKnown, Ran, ChargeKept
  <1> QED BY <1>5, <1>6 DEF ToldInv

(* The run's spend goes into the ledger. *)
LEMMA ToldAppend ==
  ASSUME IInv, ToldInv, NEW p \in Processes, AppendWrites(p)
  PROVE  ToldInv'
  <1>0. /\ pc[p] = "write" /\ pc'[p] = "idle" /\ told' = told /\ interrupted' = interrupted
        /\ \A q \in Processes : q # p => pc'[q] = pc[q] /\ pc[q] \notin Running
    BY OthersOutside DEF AppendWrites, End, IInv, TypeOK
  <1>1. PICK entry : /\ ledger' = WithRun(ledger, entry) /\ entry.plan = req[p]
                     /\ entry.cost = run[p].spent /\ entry.rows = run[p].rows
    BY DEF AppendWrites, IInv, ReadIsCurrent
  <1>2. req[p] \notin interrupted => Accounted(run[p].rows, run[p].spent, told[req[p]])
    BY <1>0 DEF ToldInv, ToldInRun
  <1>3. ledger'.runs = ledger.runs \cup {entry}
    BY <1>1 DEF WithRun
  <1>4. ToldInRun'
    BY <1>0 DEF ToldInRun
  <1>5. ToldIsKnown'
    <2>1. \A r \in Requests : Ran(r, ledger) \/ r = req[p] => Ran(r, ledger')
      BY <1>1, <1>3 DEF Ran
    <2> QED BY <1>0, <2>1 DEF ToldInv, ToldIsKnown
  <1>6. ChargeKept'
    BY <1>0, <1>1, <1>2, <1>3 DEF ToldInv, ChargeKept
  <1> QED BY <1>4, <1>5, <1>6 DEF ToldInv

(* A run that ends without an entry leaves its charges open. *)
LEMMA ToldInterrupt ==
  ASSUME IInv, ToldInv, NEW p \in Processes, AppendFails(p) \/ Crash(p)
  PROVE  ToldInv'
  <1>0. /\ pc'[p] = "idle" /\ told' = told /\ ledger' = ledger
        /\ interrupted \subseteq interrupted' /\ (pc[p] \in Running => req[p] \in interrupted')
        /\ \A q \in Processes : q # p => pc'[q] = pc[q] /\ req'[q] = req[q] /\ run'[q] = run[q]
    BY DEF AppendFails, Crash, End, IInv, TypeOK
  <1>1. ToldInRun'
    <2>1. \A q \in Processes : q # p => Untold(q)' = Untold(q)
      BY <1>0 DEF Untold
    <2> QED BY <1>0, <2>1 DEF ToldInv, ToldInRun
  <1>2. ToldIsKnown'
    BY <1>0 DEF ToldInv, ToldIsKnown
  <1>3. ChargeKept'
    BY <1>0 DEF ToldInv, ChargeKept
  <1> QED BY <1>1, <1>2, <1>3 DEF ToldInv

(* No other step moves a charge, a spend or a run. *)
LEMMA ToldQuiet ==
  ASSUME IInv, ToldInv, NEW p \in Processes, Authorize(p) \/ Execute(p) \/ Buy(p),
         ~Start(p), ~Answered(p), ~Record(p), ~AppendWrites(p), ~AppendFails(p),
         ~BudgetStops(p), ~LocalFailure(p), ~NotCreated(p), ~AnswerLost(p), ~RecordFails(p)
  PROVE  ToldInv'
  <1>0. run \in [Processes -> Progress]
    BY DEF IInv, TypeOK
  <1>1. told' = told /\ ledger' = ledger /\ interrupted' = interrupted
    BY DEF Authorize, Execute, Buy, Invoke, ConsumeReads, AlreadyConsumed, ConsumeWrites, Acquire, LockBusy,
           Refuse, CheckKey, AppendReads, Post, End
  <1>2. /\ pc'[p] \in Running <=> pc[p] \in Running
        /\ pc[p] \in Running => /\ req'[p] = req[p] /\ pc'[p] # "record" /\ pc[p] # "record"
                                /\ pc'[p] \in {"append", "write"} <=> pc[p] \in {"append", "write"}
    BY DEF Authorize, Execute, Buy, Invoke, ConsumeReads, AlreadyConsumed, ConsumeWrites, Acquire, LockBusy,
           Refuse, CheckKey, AppendReads, Post, End, IInv, TypeOK
  <1>3. ASSUME pc[p] \in Running PROVE run'[p].spent = run[p].spent /\ run'[p].rows = run[p].rows
    <2>1. CASE Post(p)
      BY <1>0, <2>1 DEF Post, Progress
    <2>2. CASE CheckKey(p) \/ AppendReads(p)
      BY <2>2 DEF CheckKey, AppendReads
    <2> QED BY <1>3, <2>1, <2>2 DEF Authorize, Execute, Buy, Invoke, ConsumeReads, AlreadyConsumed,
           ConsumeWrites, Acquire, LockBusy, Refuse
  <1>4. ASSUME NEW q \in Processes
        PROVE  /\ pc'[q] \in Running <=> pc[q] \in Running
               /\ pc[q] \in Running => /\ req'[q] = req[q] /\ Untold(q)' = Untold(q)
                                       /\ run'[q].spent = run[q].spent /\ run'[q].rows = run[q].rows
                                       /\ pc'[q] \in {"append", "write"} <=> pc[q] \in {"append", "write"}
    <2>1. CASE q = p
      BY <1>2, <1>3, <2>1 DEF Untold
    <2>2. CASE q # p
      BY <2>2, OthersStay DEF Untold
    <2> QED BY <2>1, <2>2
  <1>5. ToldInRun'
    BY <1>1, <1>4 DEF ToldInv, ToldInRun
  <1>6. ToldIsKnown'
    BY <1>1, <1>4 DEF ToldInv, ToldIsKnown
  <1> QED BY <1>1, <1>5, <1>6 DEF ToldInv, ChargeKept

(* The execution ledger charges a plan with what the provider's answers     *)
(* charged for it, but for at most the last task, one that is recorded as   *)
(* failed: also if processes race, crash and fail to write.  Left open are  *)
(* the charges of a plan a run of which got into no ledger.                 *)
THEOREM ChargesKept == Spec => []ChargeKept
  <1>1. Init => ToldInv
    <2> SUFFICES ASSUME Init PROVE ToldInv
      OBVIOUS
    <2>1. ToldIsKnown /\ ToldInRun
      BY DEF Init, ToldIsKnown, ToldInRun
    <2>2. ChargeKept
      BY DEF Init, ChargeKept, EmptyLedger
    <2> QED BY <2>1, <2>2 DEF ToldInv
  <1>2. ASSUME IInv, ToldInv, [Next]_vars PROVE ToldInv'
    <2>1. CASE NextDay \/ (\E r \in Requests : Prepare(r)) \/ UNCHANGED vars
      <3>1. UNCHANGED <<pc, req, run, ledger, told, interrupted>>
        BY <2>1 DEF NextDay, Prepare, vars
      <3> QED BY <1>2, <3>1 DEF ToldInv, ToldInRun, Untold, ToldIsKnown, ChargeKept, Ran
    <2>2. ASSUME NEW p \in Processes, Authorize(p) \/ Execute(p) \/ Buy(p) \/ Crash(p) PROVE ToldInv'
      <3>1. CASE BudgetStops(p) \/ LocalFailure(p) \/ NotCreated(p) \/ AnswerLost(p) \/ RecordFails(p)
        BY <1>2, <3>1, ToldStop DEF BudgetStops, LocalFailure, NotCreated, AnswerLost, RecordFails, Outcomes
      <3> QED BY <1>2, <2>2, <3>1, ToldStart, ToldAnswered, ToldRecord, ToldAppend, ToldInterrupt, ToldQuiet
    <2> QED BY <1>2, <2>1, <2>2 DEF Next
  <1>3. ToldInv => ChargeKept
    BY DEF ToldInv
  <1> QED BY InitIInv, NextIInv, <1>1, <1>2, <1>3, PTL DEF Spec

(***************************************************************************)
(* What recovery calls safe to buy again was not bought.                   *)
(***************************************************************************)

(* A row is added at the end: the first one stays. *)
LEMMA FirstRow ==
  ASSUME NEW rows \in Seq(Outcomes), NEW o \in Outcomes
  PROVE  /\ Len(Append(rows, o)) > 0
         /\ StoppedFirst(Append(rows, o)) => StoppedFirst(rows) \/ (Len(rows) = 0 /\ o = "PRE_REQUEST")
  <1>1. Len(Append(rows, o)) = Len(rows) + 1 /\ Len(rows) \in Nat
    OBVIOUS
  <1>2. Len(rows) > 0 => Append(rows, o)[1] = rows[1]
    OBVIOUS
  <1>3. Len(rows) = 0 => Append(rows, o)[1] = o
    OBVIOUS
  <1> QED BY <1>1, <1>2, <1>3 DEF StoppedFirst

(* A plan has a first key. *)
LEMMA FirstIsKey ==
  ASSUME NEW r \in Requests
  PROVE  1 \in 1 .. Len(KeyOf[r]) /\ FirstKey(r) \in Keys
  <1>1. KeyOf[r] \in Seq(Keys) /\ Len(KeyOf[r]) > 0
    BY KeyAssumption DEF KeyAssumption
  <1> QED BY <1>1 DEF FirstKey

(* The loop stops. *)
LEMMA StoppedStop ==
  ASSUME IInv, RunsUnbought, StoppedInv, NEW p \in Processes, NEW o \in Outcomes, Stop(p, o),
         pc[p] \in {"next"} \cup Transport, o = "PRE_REQUEST" => pc[p] = "next"
  PROVE  StoppedInv'
  <1>0. /\ pc'[p] = "append" /\ req' = req /\ created' = created /\ ledger' = ledger
        /\ req[p] \in Requests /\ run[p].rows \in Seq(Outcomes)
        /\ \A q \in Processes : q # p => pc'[q] = pc[q] /\ run'[q] = run[q]
    BY DEF Stop, IInv, TypeOK, Progress
  <1>1. run'[p].rows = Append(run[p].rows, o)
    <2>1. run \in [Processes -> Progress]
      BY DEF IInv, TypeOK
    <2> QED BY <2>1 DEF Stop, Progress
  <1>2. ~StoppedFirst(run[p].rows)
    BY DEF StoppedInv, GoingOn
  <1>3. /\ Len(run'[p].rows) > 0
        /\ StoppedFirst(run'[p].rows) => Len(run[p].rows) = 0 /\ o = "PRE_REQUEST"
    <2>1. /\ Len(Append(run[p].rows, o)) > 0
          /\ StoppedFirst(Append(run[p].rows, o)) => StoppedFirst(run[p].rows) \/ (Len(run[p].rows) = 0 /\ o = "PRE_REQUEST")
      BY <1>0, FirstRow
    <2> QED BY <1>1, <1>2, <2>1
  <1>4. ASSUME StoppedFirst(run'[p].rows) PROVE created[req[p]][FirstKey(req[p])] = 0
    <2>1. Posted(p) = 0
      BY <1>3, <1>4 DEF Posted
    <2>2. 1 \in 1 .. Len(Plan(p))
      BY <1>0, FirstIsKey DEF Plan
    <2>3. Unbought(p)
      BY DEF RunsUnbought
    <2> QED BY <2>1, <2>2, <2>3 DEF Unbought, FirstKey, Plan
  <1>5. GoingOn'
    BY <1>0 DEF StoppedInv, GoingOn
  <1>6. EndedRun'
    BY <1>0, <1>3, <1>4 DEF StoppedInv, EndedRun
  <1>7. LedgerRun'
    BY <1>0 DEF StoppedInv, LedgerRun
  <1> QED BY <1>5, <1>6, <1>7 DEF StoppedInv

(* A run whose first task was completed did not stop at it. *)
LEMMA StoppedRecord ==
  ASSUME IInv, StoppedInv, NEW p \in Processes, Record(p)
  PROVE  StoppedInv'
  <1>0. /\ pc[p] = "record" /\ pc'[p] \in {"next", "append"}
        /\ req' = req /\ created' = created /\ ledger' = ledger
        /\ run[p].rows \in Seq(Outcomes)
        /\ \A q \in Processes : q # p => pc'[q] = pc[q] /\ run'[q] = run[q]
    BY DEF Record, IInv, TypeOK, Progress
  <1>1. run'[p].rows = Append(run[p].rows, "COMPLETED")
    <2>1. run \in [Processes -> Progress]
      BY DEF IInv, TypeOK
    <2> QED BY <2>1 DEF Record, Progress
  <1>2. ~StoppedFirst(run[p].rows)
    BY <1>0 DEF StoppedInv, GoingOn
  <1>3. Len(run'[p].rows) > 0 /\ ~StoppedFirst(run'[p].rows)
    <2>1. "COMPLETED" \in Outcomes
      BY DEF Outcomes
    <2>2. /\ Len(Append(run[p].rows, "COMPLETED")) > 0
          /\ StoppedFirst(Append(run[p].rows, "COMPLETED")) => StoppedFirst(run[p].rows)
      BY <1>0, <2>1, FirstRow
    <2> QED BY <1>1, <1>2, <2>2
  <1>4. GoingOn'
    BY <1>0, <1>3 DEF StoppedInv, GoingOn
  <1>5. EndedRun'
    BY <1>0, <1>3 DEF StoppedInv, EndedRun
  <1>6. LedgerRun'
    BY <1>0 DEF StoppedInv, LedgerRun
  <1> QED BY <1>4, <1>5, <1>6 DEF StoppedInv

(* A task is bought for a run that goes on and that the ledger does not have. *)
LEMMA StoppedPost ==
  ASSUME IInv, RunsUnbought, StoppedInv, NEW p \in Processes, Post(p)
  PROVE  StoppedInv'
  <1>0. /\ pc[p] = "post" /\ pc'[p] = "answer" /\ req' = req /\ ledger' = ledger
        /\ \A q \in Processes : q # p => pc'[q] = pc[q] /\ run'[q] = run[q] /\ pc[q] \notin Running
    BY OthersOutside DEF Post, IInv, TypeOK
  <1>1. run'[p].rows = run[p].rows
    <2>1. run \in [Processes -> Progress]
      BY DEF IInv, TypeOK
    <2> QED BY <2>1 DEF Post, Progress
  <1>2. \A r \in Requests, k \in Keys : r # req[p] => created'[r][k] = created[r][k]
    BY <1>0, PostEffect DEF RunsUnbought
  <1>3. GoingOn'
    BY <1>0, <1>1 DEF StoppedInv, GoingOn
  <1>4. EndedRun'
    BY <1>0 DEF EndedRun
  <1>5. LedgerRun'
    <2>1. \A entry \in ledger.runs : entry.plan \in Requests \ {req[p]}
      BY <1>0 DEF IInv, TypeOK, Ledger, Run, ReadIsCurrent, Ran
    <2>2. \A entry \in ledger.runs : created'[entry.plan][FirstKey(entry.plan)] = created[entry.plan][FirstKey(entry.plan)]
      BY <1>2, <2>1, FirstIsKey
    <2> QED BY <1>0, <2>2 DEF StoppedInv, LedgerRun
  <1> QED BY <1>3, <1>4, <1>5 DEF StoppedInv

(* The run goes into the ledger as it ended. *)
LEMMA StoppedAppend ==
  ASSUME IInv, StoppedInv, NEW p \in Processes, AppendWrites(p)
  PROVE  StoppedInv'
  <1>0. /\ pc[p] = "write" /\ pc'[p] = "idle" /\ created' = created
        /\ \A q \in Processes : q # p => pc'[q] = pc[q] /\ pc[q] \notin Running
    BY OthersOutside DEF AppendWrites, End, IInv, TypeOK
  <1>1. PICK entry : ledger' = WithRun(ledger, entry) /\ entry.plan = req[p] /\ entry.rows = run[p].rows
    BY DEF AppendWrites, IInv, ReadIsCurrent
  <1>2. ledger'.runs = ledger.runs \cup {entry}
    BY <1>1 DEF WithRun
  <1>3. LedgerRun'
    BY <1>0, <1>1, <1>2 DEF StoppedInv, EndedRun, LedgerRun
  <1> QED BY <1>0, <1>3 DEF StoppedInv, GoingOn, EndedRun

(* Every other step keeps the rows of the runs there are. *)
LEMMA StoppedQuiet ==
  ASSUME IInv, StoppedInv, NEW p \in Processes, Authorize(p) \/ Execute(p) \/ Buy(p) \/ Crash(p),
         ~Post(p), ~Record(p), ~AppendWrites(p),
         ~BudgetStops(p), ~LocalFailure(p), ~NotCreated(p), ~AnswerLost(p), ~RecordFails(p)
  PROVE  StoppedInv'
  <1>0. run \in [Processes -> Progress]
    BY DEF IInv, TypeOK
  <1>1. created' = created /\ ledger' = ledger
    BY DEF Authorize, Execute, Buy, Invoke, ConsumeReads, AlreadyConsumed, ConsumeWrites, Acquire, LockBusy,
           Refuse, Start, CheckKey, AppendReads, AppendFails, Answered, Crash
  <1>2. ASSUME pc'[p] \in Running, ~Start(p)
        PROVE  /\ req'[p] = req[p] /\ run'[p] = run[p]
               /\ pc'[p] \in {"next"} \cup Transport => pc[p] \in {"next"} \cup Transport
               /\ pc'[p] \in {"append", "write"} => pc[p] \in {"append", "write"}
    BY <1>2 DEF Authorize, Execute, Buy, Invoke, ConsumeReads, AlreadyConsumed, ConsumeWrites, Acquire, LockBusy,
           Refuse, CheckKey, AppendReads, AppendFails, Answered, End, Crash, IInv, TypeOK
  <1>3. ASSUME Start(p) PROVE pc'[p] = "next" /\ run'[p].rows = <<>>
    <2>1. run[p] = NoRun
      BY <1>3 DEF Start, IInv, FreshRun
    <2> QED BY <1>0, <1>3, <2>1 DEF Start, Progress, NoRun, IInv, TypeOK
  <1>4. \A q \in Processes : q # p => pc'[q] = pc[q] /\ req'[q] = req[q] /\ run'[q] = run[q]
    BY OthersStay
  <1>5. GoingOn'
    <2>1. ASSUME NEW q \in Processes, pc'[q] \in {"next"} \cup Transport PROVE ~StoppedFirst(run'[q].rows)
      <3>1. CASE q = p /\ Start(p)
        BY <1>3, <3>1 DEF StoppedFirst
      <3>2. CASE q # p \/ ~Start(p)
        BY <1>2, <1>4, <2>1, <3>2 DEF StoppedInv, GoingOn
      <3> QED BY <3>1, <3>2
    <2> QED BY <2>1 DEF GoingOn
  <1>6. EndedRun'
    <2>1. ASSUME NEW q \in Processes, pc'[q] \in {"append", "write"}
          PROVE  pc[q] \in {"append", "write"} /\ req'[q] = req[q] /\ run'[q] = run[q]
      BY <1>2, <1>3, <1>4, <2>1
    <2> QED BY <1>1, <2>1 DEF StoppedInv, EndedRun
  <1>7. LedgerRun'
    BY <1>1 DEF StoppedInv, LedgerRun
  <1> QED BY <1>5, <1>6, <1>7 DEF StoppedInv

LEMMA InitStopped == Init => StoppedInv
  BY DEF Init, StoppedInv, GoingOn, EndedRun, LedgerRun, EmptyLedger

LEMMA NextStopped ==
  ASSUME IInv, RunsUnbought, StoppedInv, [Next]_vars
  PROVE  StoppedInv'
  <1>1. CASE NextDay \/ (\E r \in Requests : Prepare(r)) \/ UNCHANGED vars
    <2>1. UNCHANGED <<pc, req, run, ledger, created>>
      BY <1>1 DEF NextDay, Prepare, vars
    <2> QED BY <2>1 DEF StoppedInv, GoingOn, EndedRun, LedgerRun
  <1>2. ASSUME NEW p \in Processes, Authorize(p) \/ Execute(p) \/ Buy(p) \/ Crash(p) PROVE StoppedInv'
    <2>1. CASE BudgetStops(p) \/ LocalFailure(p) \/ NotCreated(p) \/ AnswerLost(p) \/ RecordFails(p)
      BY <2>1, StoppedStop DEF BudgetStops, LocalFailure, NotCreated, AnswerLost, RecordFails, Outcomes
    <2> QED BY <1>2, <2>1, StoppedRecord, StoppedPost, StoppedAppend, StoppedQuiet
  <1> QED BY <1>1, <1>2 DEF Next

(* The assessment of a run that ended unbought. *)
LEMMA SafeIsStopped ==
  ASSUME StoppedInv
  PROVE  SafeMeansUnpaid
  <1>1. ASSUME NEW entry \in ledger.runs, Assess(entry) = "SAFE_NO_PROVIDER_TASK"
        PROVE  entry.rows[1] = "PRE_REQUEST"
    BY <1>1 DEF Assess
  <1> QED BY <1>1 DEF StoppedInv, LedgerRun, StoppedFirst, FirstKey, SafeMeansUnpaid

(* With serial consumption, whatever crashes or is lost, recovery calls a   *)
(* paid action safe to authorize again only if the provider has no task.    *)
THEOREM SerialSafeToRetry == ASSUME Overlap = FALSE PROVE Spec => []SafeMeansUnpaid
  <1>1. SerialInv => RunsUnbought
    BY DEF SerialInv, NothingAhead, RunsUnbought, Owning
  <1>2. IInv /\ SerialInv /\ StoppedInv /\ [Next]_vars => StoppedInv'
    BY <1>1, NextStopped
  <1> QED BY SerialInvariant, InitStopped, <1>2, SafeIsStopped, PTL DEF Spec

(* ... and with racing consumption, when nothing crashes and no write fails. *)
THEOREM RacingSafeToRetry == ASSUME Faults = FALSE PROVE Spec => []SafeMeansUnpaid
  <1>1. IInv /\ RacingInv /\ StoppedInv /\ [Next]_vars => StoppedInv'
    BY NextStopped DEF RacingInv
  <1> QED BY RacingInvariant, InitStopped, <1>1, SafeIsStopped, PTL DEF Spec
=============================================================================
