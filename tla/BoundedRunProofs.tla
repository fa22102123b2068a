-------------------------- MODULE BoundedRunProofs --------------------------
(***************************************************************************)
(* Proofs about BoundedRun, for every set of processes, members and parent *)
(* authorizations, and whatever Overlap, Faults and Supervision allow.     *)
(***************************************************************************)
EXTENDS BoundedRun, WellFoundedInduction, TLAPS

(* The order of the natural numbers is well-founded: a loop that is not     *)
(* over has a next member, the least one that is left.                       *)
Below == {pair \in Nat \X Nat : pair[1] < pair[2]}

LEMMA BelowWellFounded == IsWellFoundedOn(Below, Nat)
  BY NatLessThanWellFounded DEF OpToRel, Below

LEMMA Least ==
  ASSUME NEW ms \in SUBSET Nat, ms # {}
  PROVE  \E m \in ms : \A other \in ms : m <= other
  <1>1. PICK m \in ms : \A other \in ms : <<other, m>> \notin Below
    BY BelowWellFounded, WFMin
  <1>2. ASSUME NEW other \in ms PROVE m <= other
    <2>1. <<other, m>> \notin Below
      BY <1>1
    <2> QED BY <2>1 DEF Below
  <1> QED BY <1>2

LEMMA FirstIsLeft ==
  ASSUME NEW ms \in SUBSET Members, ms # {}
  PROVE  First(ms) \in ms
  <1>1. \E m \in ms : \A other \in ms : m <= other
    BY Least, MemberAssumption DEF MemberAssumption
  <1> QED BY <1>1 DEF First

USE DEF GoTo, End, authority, acquired, reading, history

(* The values rows are given are rows. *)
LEMMA RowValues ==
  /\ ReadyRow \in Row /\ Authorized \in Row /\ Executed \in Row
  /\ NothingRead \in [Members -> Row]
  <1>1. ReadyRow \in Row /\ Authorized \in Row /\ Executed \in Row
    BY DEF ReadyRow, Authorized, Executed, Row, Unfinished, Terminal
  <1> QED BY <1>1 DEF NothingRead

LEMMA ExceptionRow == ASSUME NEW r \in Row PROVE [r EXCEPT !.state = "EXCEPTION"] \in Row
  BY DEF Row, Unfinished, Terminal

Typed == TypeOK /\ AtMember

(* What an invocation that is over leaves in its own variables. *)
LEMMA EndTyped ==
  ASSUME Typed, NEW p \in Processes, End(p)
  PROVE  /\ pc' \in [Processes -> PC] /\ job' \in [Processes -> Job]
         /\ at' \in [Processes -> Members \cup {NoMember}]
         /\ todo' \in [Processes -> SUBSET Members]
         /\ view' \in [Processes -> [Members -> Row]] /\ row' \in [Processes -> Row]
         /\ AtMember'
  BY RowValues DEF Typed, TypeOK, AtMember, AtAMember, PC, Job

(* The parent authority and the commands keep the types. *)
LEMMA CommandTyped ==
  ASSUME Typed,
         \/ \E a \in Authorizations : AuthorizeParent(a) \/ Expire(a)
         \/ \E p \in Processes : Command(p)
  PROVE  Typed'
  <1> USE RowValues DEF Typed, TypeOK, AtMember, AtAMember, PC, Job, RunStates
  <1>1. ASSUME NEW a \in Authorizations, AuthorizeParent(a) \/ Expire(a) PROVE Typed'
    BY <1>1 DEF AuthorizeParent, Expire
  <1>2. ASSUME NEW p \in Processes, NEW a \in Authorizations, Start(p, a) PROVE Typed'
    BY <1>2 DEF Start
  <1>3. ASSUME NEW p \in Processes, Resume(p) PROVE Typed'
    BY <1>3 DEF Resume
  <1>4. ASSUME NEW p \in Processes, Progress(p) PROVE Typed'
    BY <1>4 DEF Progress
  <1>5. ASSUME NEW p \in Processes, NEW m \in Members, Check(p, m) PROVE Typed'
    BY <1>5 DEF Check
  <1>6. ASSUME NEW p \in Processes, NEW m \in Members, Dispose(p, m) PROVE Typed'
    BY <1>6 DEF Dispose, Lock!Enter
  <1>7. ASSUME NEW p \in Processes, Assess(p) PROVE Typed'
    <2>1. at[p] \in Members
      BY <1>7 DEF Assess
    <2> QED BY <1>7, <2>1 DEF Assess, Release
  <1> QED BY <1>1, <1>2, <1>3, <1>4, <1>5, <1>6, <1>7 DEF Command

(* RESUME's recovery keeps the types. *)
LEMMA RecoverTyped ==
  ASSUME Typed, NEW p \in Processes, Recover(p)
  PROVE  Typed'
  <1> USE RowValues DEF Typed, TypeOK, AtMember, AtAMember, PC, Job, RunStates
  <1>1. pc[p] = "next" /\ todo[p] # {} => First(todo[p]) \in Members
    <2>1. todo[p] \in SUBSET Members
      OBVIOUS
    <2> QED BY <2>1, FirstIsLeft
  <1>2. CASE RecoverNothing(p)
    BY <1>2 DEF RecoverNothing
  <1>3. CASE RecoverChild(p)
    <2>1. First(todo[p]) \in Members
      BY <1>1, <1>3 DEF RecoverChild
    <2>2. children' \subseteq Members /\ row' \in [Processes -> Row] /\ at' \in [Processes -> Members \cup {NoMember}]
      BY <1>3, <2>1 DEF RecoverChild
    <2> QED BY <1>3, <2>1, <2>2 DEF RecoverChild
  <1>4. CASE Reread(p)
    <2>1. CASE End(p)
      BY <1>4, <2>1, EndTyped DEF Reread
    <2>2. CASE ~ End(p)
      <3>1. /\ job' = [job EXCEPT ![p] = "revive"] /\ view' = [view EXCEPT ![p] = members]
            /\ todo' = [todo EXCEPT ![p] = {m \in Members : members[m].state = "EXCEPTION"}]
            /\ UNCHANGED <<pc, at, row>>
        BY <1>4, <2>2 DEF Reread
      <3> QED BY <1>4, <3>1 DEF Reread
    <2> QED BY <2>1, <2>2
  <1>5. CASE ReviveNothing(p)
    BY <1>5 DEF ReviveNothing
  <1>6. CASE Revive(p)
    <2>1. First(todo[p]) \in Members
      BY <1>1, <1>6 DEF Revive
    <2>2. [view[p][First(todo[p])] EXCEPT !.state = "EXECUTED", !.task = TRUE] \in Row
      <3>1. view[p][First(todo[p])] \in Row
        BY <2>1
      <3> HIDE DEF TypeOK
      <3> QED BY <3>1 DEF Row, Unfinished
    <2>3. row' \in [Processes -> Row] /\ at' \in [Processes -> Members \cup {NoMember}]
      BY <1>6, <2>1, <2>2 DEF Revive
    <2> QED BY <1>6, <2>1, <2>3 DEF Revive
  <1>7. CASE Revived(p)
    BY <1>7 DEF Revived
  <1> QED BY <1>2, <1>3, <1>4, <1>5, <1>6, <1>7 DEF Recover

(* The loop and its checkpoints keep the types. *)
LEMMA AdvanceTyped ==
  ASSUME Typed, NEW p \in Processes, Advance(p)
  PROVE  Typed'
  <1> USE RowValues DEF Typed, TypeOK, AtMember, AtAMember, PC, Job, RunStates
  <1>1. CASE Begin(p)
    BY <1>1 DEF Begin, Active
  <1>2. CASE NextMember(p)
    <2>1. First(todo[p]) \in Members
      <3>1. todo[p] \in SUBSET Members
        OBVIOUS
      <3> QED BY <1>2, <3>1, FirstIsLeft DEF NextMember, Looping
    <2> QED BY <1>2, <2>1 DEF NextMember, Looping
  <1>3. CASE Conclude(p)
    <2>1. Verdict \in RunStates
      BY DEF Verdict
    <2> QED BY <1>3, <2>1 DEF Conclude, Looping
  <1>4. CASE RecordArtifact(p)
    <2>1. at[p] \in Members
      BY <1>4 DEF RecordArtifact
    <2> QED BY <1>4, <2>1 DEF RecordArtifact
  <1>5. CASE RecordChild(p)
    <2>1. at[p] \in Members
      BY <1>5 DEF RecordChild
    <2> QED BY <1>5, <2>1 DEF RecordChild
  <1>6. CASE MarkAuthorized(p)
    <2>1. members' \in [Members -> Row] /\ row' \in [Processes -> Row]
      BY <1>6 DEF MarkAuthorized
    <2> QED BY <1>6, <2>1 DEF MarkAuthorized
  <1>7. CASE ResolveTask(p)
    <2>1. row' \in [Processes -> Row]
      BY <1>7 DEF ResolveTask
    <2>2. pc' \in [Processes -> PC] /\ \A q \in Processes : pc'[q] = pc[q] \/ q = p
      BY <1>7 DEF ResolveTask, Buying
    <2>3. at[p] \in Members
      BY <1>7 DEF ResolveTask
    <2> QED BY <1>7, <2>1, <2>2, <2>3 DEF ResolveTask
  <1>8. CASE AuthorityExpired(p)
    <2>1. at[p] \in Members
      BY <1>8 DEF AuthorityExpired
    <2>2. stranded' \subseteq Members
      BY <1>8, <2>1 DEF AuthorityExpired
    <2> QED BY <1>8, <2>2 DEF AuthorityExpired, FailRun
  <1>9. CASE SaveExecuted(p)
    <2>1. members' \in [Members -> Row]
      BY <1>9 DEF SaveExecuted
    <2>2. CASE job[p] \in {"recover", "revive"}
      <3>1. /\ todo' = [todo EXCEPT ![p] = @ \ {at[p]}] /\ at' = [at EXCEPT ![p] = NoMember]
            /\ pc' = [pc EXCEPT ![p] = "next"]
        BY <1>9, <2>2 DEF SaveExecuted
      <3> QED BY <1>9, <2>1, <3>1 DEF SaveExecuted
    <2>3. CASE job[p] \notin {"recover", "revive"}
      BY <1>9, <2>1, <2>3 DEF SaveExecuted
    <2> QED BY <2>2, <2>3
  <1>10. CASE ResultKnown(p)
    BY <1>10 DEF ResultKnown
  <1>11. CASE Retrieve(p)
    <2>1. row' \in [Processes -> Row]
      <3>1. \A answer \in {"WAITING_FOR_PROVIDER", "EXCEPTION"} :
              [row EXCEPT ![p].state = answer] \in [Processes -> Row]
        BY DEF Row, Unfinished, Terminal
      <3>2. \/ row' = row
            \/ row' = [row EXCEPT ![p].state = "WAITING_FOR_PROVIDER"]
            \/ row' = [row EXCEPT ![p].state = "EXCEPTION"]
        BY <1>11 DEF Retrieve
      <3>3. row \in [Processes -> Row]
        OBVIOUS
      <3> HIDE DEF TypeOK
      <3> QED BY <3>1, <3>2, <3>3
    <2>2. PICK to \in {"record", "save"} : pc' = [pc EXCEPT ![p] = to]
      BY <1>11 DEF Retrieve
    <2> QED BY <1>11, <2>1, <2>2 DEF Retrieve
  <1>12. CASE RecordResult(p)
    BY <1>12 DEF RecordResult
  <1>13. CASE ResultRefused(p)
    BY <1>13 DEF ResultRefused, FailRun
  <1>14. CASE Finalize(p)
    <2>1. \A answer \in Terminal : [row EXCEPT ![p].state = answer] \in [Processes -> Row]
      BY DEF Row, Unfinished, Terminal
    <2>2. row' \in [Processes -> Row]
      BY <1>14, <2>1 DEF Finalize, Terminal
    <2> QED BY <1>14, <2>2 DEF Finalize
  <1>15. CASE SaveMember(p)
    BY <1>15 DEF SaveMember
  <1> QED BY <1>1, <1>2, <1>3, <1>4, <1>5, <1>6, <1>7, <1>8, <1>9, <1>10, <1>11, <1>12, <1>13,
             <1>14, <1>15 DEF Advance

(* The execution keeps the types, and so does a crash. *)
LEMMA ExecuteTyped ==
  ASSUME Typed, NEW p \in Processes, Execute(p) \/ Crash(p)
  PROVE  Typed'
  <1> USE RowValues DEF Typed, TypeOK, AtMember, AtAMember, PC, Job, RunStates, Buying, Owning, InLock
  <1>1. CASE Consume(p) \/ AlreadyConsumed(p)
    <2>1. at[p] \in Members
      BY <1>1 DEF Consume, AlreadyConsumed
    <2>2. CASE Consume(p)
      BY <2>1, <2>2 DEF Consume
    <2>3. CASE AlreadyConsumed(p)
      BY <2>1, <2>3 DEF AlreadyConsumed
    <2> QED BY <1>1, <2>2, <2>3
  <1>2. ASSUME FailMember(p),
               UNCHANGED <<parents, artifacts, children, consumed, run, members, disposed, tasks,
                           results, posted, history>>,
               executions' \in [Members -> {"none", "COMPLETED", "FAILED"}],
               writers' \subseteq Processes, pc[p] \in Owning \cup {"consume"}
        PROVE  Typed'
    <2>1. CASE job[p] = "recover"
      <3>1. End(p)
        BY <1>2, <2>1 DEF FailMember
      <3> QED BY <1>2, <3>1, EndTyped
    <2>2. CASE job[p] # "recover"
      <3>1. [row EXCEPT ![p].state = "EXCEPTION"] \in [Processes -> Row]
        <4>1. row \in [Processes -> Row]
          OBVIOUS
        <4> QED BY ONLY <4>1, p \in Processes, ExceptionRow
      <3>2. at[p] \in Members
        BY <1>2
      <3> QED BY <1>2, <2>2, <3>1, <3>2 DEF FailMember
    <2> QED BY <2>1, <2>2
  <1>3. CASE NotExecuted(p) \/ RefusedHere(p) \/ AppendFails(p)
    BY <1>2, <1>3 DEF NotExecuted, RefusedHere, AppendFails, Release
  <1>4. CASE Unanswered(p)
    BY <1>2, <1>4 DEF Unanswered, Release
  <1>5. CASE Acquire(p)
    BY <1>5 DEF Acquire, Lock!Enter
  <1>6. CASE RefusedBudget(p)
    BY <1>6 DEF RefusedBudget, FailRun, Release
  <1>7. CASE MayBuy(p)
    BY <1>7 DEF MayBuy
  <1>8. CASE Post(p)
    BY <1>8 DEF Post
  <1>9. CASE Answered(p)
    BY <1>9 DEF Answered
  <1>10. CASE AppendExecution(p)
    BY <1>10 DEF AppendExecution, Release
  <1>11. CASE ResolveExecuted(p)
    BY <1>11 DEF ResolveExecuted
  <1>12. CASE TaskMissing(p)
    BY <1>12 DEF TaskMissing, FailRun
  <1>13. CASE Crash(p)
    BY <1>13 DEF Crash, Release
  <1> QED BY <1>1, <1>3, <1>4, <1>5, <1>6, <1>7, <1>8, <1>9, <1>10, <1>11, <1>12, <1>13 DEF Execute

(* The types are an invariant of every step. *)
LEMMA NextTyped ==
  ASSUME Typed, [Next]_vars
  PROVE  Typed'
  <1>1. CASE UNCHANGED vars
    BY <1>1 DEF vars, Typed, TypeOK, AtMember, AtAMember
  <1>2. CASE Next
    BY <1>2, CommandTyped, RecoverTyped, AdvanceTyped, ExecuteTyped DEF Next
  <1> QED BY <1>1, <1>2

(* ---- one task per member -------------------------------------------------- *)

Buy == /\ BoughtConsumed /\ OwnerConsumed /\ OneOwner /\ NotYetBought /\ NotYetAppended
       /\ ConsumedReachable /\ AnswerBought /\ OneTaskPerMember

(* Other processes stay where they are. *)
Alone(p) == \A q \in Processes \ {p} : pc'[q] = pc[q] /\ at'[q] = at[q]

(* A step that neither buys nor begins to. *)
Calm(p) ==
  /\ UNCHANGED <<consumed, tasks, executions, posted>>
  /\ artifacts \subseteq artifacts' /\ children \subseteq children'
  /\ Alone(p)
  /\ pc'[p] \notin Owning \cup {"consume"}

LEMMA CalmKeeps ==
  ASSUME Typed, Buy, NEW p \in Processes, Calm(p)
  PROVE  Buy'
  <1> USE DEF Buy, Calm, Alone, Owning, InLock
  <1>1. BoughtConsumed' /\ OneTaskPerMember'
    BY DEF BoughtConsumed, OneTaskPerMember
  <1>2. OwnerConsumed'
    BY DEF OwnerConsumed
  <1>3. OneOwner'
    BY DEF OneOwner
  <1>4. NotYetBought' /\ NotYetAppended'
    BY DEF NotYetBought, NotYetAppended
  <1>5. ConsumedReachable'
    BY DEF ConsumedReachable
  <1>6. AnswerBought'
    BY DEF AnswerBought
  <1> QED BY <1>1, <1>2, <1>3, <1>4, <1>5, <1>6

(* The commands, the recovery, the loop and its checkpoints are calm. *)
LEMMA CalmSteps ==
  ASSUME Typed, NEW p \in Processes,
         Command(p) \/ Recover(p) \/ Advance(p) \/ Crash(p),
         ~ (ResolveTask(p) /\ pc'[p] = "consume")
  PROVE  Calm(p)
  <1> USE DEF Typed, TypeOK, Calm, Alone, Owning, InLock
  <1>1. CASE Command(p)
    BY <1>1 DEF Command, Start, Resume, Progress, Check, Dispose, Assess
  <1>2. CASE Recover(p)
    <2>1. CASE RecoverNothing(p) \/ RecoverChild(p) \/ ReviveNothing(p) \/ Revive(p) \/ Revived(p)
      BY <2>1 DEF RecoverNothing, RecoverChild, ReviveNothing, Revive, Revived
    <2>2. CASE Reread(p)
      BY <2>2 DEF Reread
    <2> QED BY <1>2, <2>1, <2>2 DEF Recover
  <1>3. CASE Advance(p)
    <2>1. CASE Begin(p) \/ NextMember(p) \/ Conclude(p)
      BY <2>1 DEF Begin, NextMember, Conclude
    <2>2. CASE RecordArtifact(p) \/ RecordChild(p) \/ MarkAuthorized(p)
      BY <2>2 DEF RecordArtifact, RecordChild, MarkAuthorized
    <2>3. CASE ResolveTask(p)
      BY <2>3 DEF ResolveTask
    <2>4. CASE AuthorityExpired(p) \/ ResultRefused(p)
      BY <2>4 DEF AuthorityExpired, ResultRefused, FailRun
    <2>5. CASE SaveExecuted(p) \/ SaveMember(p)
      BY <2>5 DEF SaveExecuted, SaveMember
    <2>6. CASE ResultKnown(p) \/ RecordResult(p) \/ Finalize(p)
      BY <2>6 DEF ResultKnown, RecordResult, Finalize
    <2>7. CASE Retrieve(p)
      BY <2>7 DEF Retrieve
    <2> QED BY <1>3, <2>1, <2>2, <2>3, <2>4, <2>5, <2>6, <2>7 DEF Advance
  <1>4. CASE Crash(p)
    BY <1>4 DEF Crash
  <1> QED BY <1>1, <1>2, <1>3, <1>4

(* A task is looked for before it is bought: the child is recorded. *)
LEMMA ToConsume ==
  ASSUME Typed, Buy, NEW p \in Processes, ResolveTask(p), pc'[p] = "consume"
  PROVE  Buy'
  <1>1. /\ UNCHANGED <<consumed, tasks, executions, posted, artifacts, children, at>>
        /\ pc' = [pc EXCEPT ![p] = "consume"] /\ at[p] \in artifacts /\ at[p] \in children
    BY DEF ResolveTask, Typed, TypeOK
  <1> USE <1>1 DEF Buy, Typed, TypeOK, Owning, InLock
  <1>2. BoughtConsumed' /\ OneTaskPerMember' /\ OwnerConsumed' /\ NotYetBought' /\ NotYetAppended'
    BY DEF BoughtConsumed, OneTaskPerMember, OwnerConsumed, NotYetBought, NotYetAppended
  <1>3. OneOwner' /\ ConsumedReachable' /\ AnswerBought'
    BY DEF OneOwner, ConsumedReachable, AnswerBought
  <1> QED BY <1>2, <1>3

(* The child is consumed once, and by its consumer's task only is it bought. *)
LEMMA ConsumeBuys ==
  ASSUME Typed, Buy, NEW p \in Processes, Consume(p)
  PROVE  Buy'
  <1>1. /\ UNCHANGED <<tasks, executions, posted, artifacts, children, at>>
        /\ pc[p] = "consume" /\ pc' = [pc EXCEPT ![p] = "lock"]
        /\ at[p] \notin consumed /\ consumed' = consumed \cup {at[p]} /\ at[p] \in Members
    BY DEF Consume, Typed, TypeOK, AtMember, AtAMember
  <1>2. posted[at[p]] = 0 /\ executions[at[p]] = "none"
    BY <1>1 DEF Buy, BoughtConsumed
  <1>3. \A q \in Processes : pc[q] \in Owning => at[q] # at[p]
    BY <1>1 DEF Buy, OwnerConsumed
  <1> USE <1>1 DEF Buy, Typed, TypeOK, Owning, InLock
  <1>4. BoughtConsumed' /\ OneTaskPerMember' /\ OwnerConsumed'
    BY DEF BoughtConsumed, OneTaskPerMember, OwnerConsumed
  <1>5. NotYetBought' /\ NotYetAppended'
    BY <1>2 DEF NotYetBought, NotYetAppended
  <1>6. OneOwner'
    BY <1>3 DEF OneOwner
  <1>7. ConsumedReachable' /\ AnswerBought'
    BY DEF ConsumedReachable, AnswerBought
  <1> QED BY <1>4, <1>5, <1>6, <1>7

(* The lock and the checks before the purchase. *)
LEMMA LockBuys ==
  ASSUME Typed, Buy, NEW p \in Processes, Acquire(p) \/ MayBuy(p)
  PROVE  Buy'
  <1>1. /\ UNCHANGED <<tasks, executions, posted, artifacts, children, at, consumed>>
        /\ \/ pc[p] = "lock" /\ pc' = [pc EXCEPT ![p] = "check"]
           \/ pc[p] = "check" /\ pc' = [pc EXCEPT ![p] = "post"]
    BY DEF Acquire, MayBuy
  <1> USE <1>1 DEF Buy, Typed, TypeOK, Owning, InLock
  <1>2. BoughtConsumed' /\ OneTaskPerMember' /\ OwnerConsumed'
    BY DEF BoughtConsumed, OneTaskPerMember, OwnerConsumed
  <1>3. NotYetBought' /\ NotYetAppended'
    BY DEF NotYetBought, NotYetAppended
  <1>4. OneOwner'
    BY DEF OneOwner
  <1>5. ConsumedReachable' /\ AnswerBought'
    BY DEF ConsumedReachable, AnswerBought
  <1> QED BY <1>2, <1>3, <1>4, <1>5

(* The purchase. *)
LEMMA PostBuys ==
  ASSUME Typed, Buy, NEW p \in Processes, Post(p)
  PROVE  Buy'
  <1>1. /\ UNCHANGED <<tasks, executions, artifacts, children, at, consumed>>
        /\ pc[p] = "post" /\ pc' = [pc EXCEPT ![p] = "answer"] /\ at[p] \in Members
        /\ posted' = [posted EXCEPT ![at[p]] = @ + 1]
    BY DEF Post, Typed, TypeOK, AtMember, AtAMember
  <1>2. posted[at[p]] = 0 /\ at[p] \in consumed
    BY <1>1 DEF Buy, NotYetBought, OwnerConsumed, Owning, InLock
  <1>3. posted'[at[p]] = 1 /\ \A m \in Members : m # at[p] => posted'[m] = posted[m]
    BY <1>1, <1>2 DEF Typed, TypeOK
  <1>4. \A q \in Processes : pc[q] \in Owning /\ q # p => at[q] # at[p]
    BY <1>1 DEF Buy, OneOwner, Owning, InLock
  <1>5. \A q \in Processes : pc[q] \in Owning => at[q] \in Members
    BY DEF Typed, AtMember, AtAMember, Owning, InLock
  <1>6. BoughtConsumed' /\ OneTaskPerMember' /\ OwnerConsumed'
    BY <1>1, <1>2, <1>3 DEF Buy, Typed, TypeOK, Owning, InLock, BoughtConsumed, OneTaskPerMember, OwnerConsumed
  <1>7. NotYetBought' /\ NotYetAppended'
    BY <1>1, <1>3, <1>4, <1>5 DEF Buy, Typed, TypeOK, Owning, InLock, NotYetBought, NotYetAppended
  <1>8. OneOwner'
    BY <1>1 DEF Buy, Typed, TypeOK, Owning, InLock, OneOwner
  <1>9. ConsumedReachable'
    BY <1>1 DEF Buy, Typed, TypeOK, ConsumedReachable
  <1>10. AnswerBought'
    BY <1>1, <1>3, <1>5 DEF Buy, Typed, TypeOK, Owning, InLock, AnswerBought
  <1> QED BY <1>6, <1>7, <1>8, <1>9, <1>10 DEF Buy

(* The answer is recorded in the task ledger. *)
LEMMA AnsweredBuys ==
  ASSUME Typed, Buy, NEW p \in Processes, Answered(p)
  PROVE  Buy'
  <1>1. /\ UNCHANGED <<posted, executions, artifacts, children, at, consumed>>
        /\ pc[p] = "answer" /\ pc' = [pc EXCEPT ![p] = "append"]
        /\ tasks' = tasks \cup {at[p]} /\ posted[at[p]] # 0
    BY DEF Answered, Buy, AnswerBought
  <1> USE <1>1 DEF Buy, Typed, TypeOK, Owning, InLock
  <1>2. BoughtConsumed' /\ OneTaskPerMember' /\ OwnerConsumed'
    BY DEF BoughtConsumed, OneTaskPerMember, OwnerConsumed
  <1>3. NotYetBought' /\ NotYetAppended' /\ OneOwner'
    BY DEF NotYetBought, NotYetAppended, OneOwner
  <1>4. ConsumedReachable' /\ AnswerBought'
    BY DEF ConsumedReachable, AnswerBought
  <1> QED BY <1>2, <1>3, <1>4

(* The execution is appended, completed or failed, and its process owns the *)
(* member no longer.                                                         *)
LEMMA AppendBuys ==
  ASSUME Typed, Buy, NEW p \in Processes, Unanswered(p) \/ AppendExecution(p)
  PROVE  Buy'
  <1>1. /\ UNCHANGED <<posted, tasks, artifacts, children, consumed>>
        /\ Alone(p) /\ pc[p] \in Owning /\ pc'[p] \notin Owning \cup {"consume"}
        /\ \E e \in {"COMPLETED", "FAILED"} : executions' = [executions EXCEPT ![at[p]] = e]
    BY DEF Unanswered, AppendExecution, FailMember, Alone, Typed, TypeOK, Owning, InLock
  <1>2. \A q \in Processes : pc[q] \in Owning /\ q # p => at[q] # at[p]
    BY <1>1 DEF Buy, OneOwner
  <1>3. \A q \in Processes : pc[q] \in Owning => at[q] \in Members /\ at[q] \in consumed
    BY DEF Typed, AtMember, AtAMember, Buy, OwnerConsumed, Owning, InLock
  <1>4. /\ at[p] \in consumed
        /\ \A m \in Members : m # at[p] => executions'[m] = executions[m]
    BY <1>1, <1>3 DEF Typed, TypeOK
  <1> USE <1>1 DEF Buy, Alone, Owning, InLock
  <1>5. BoughtConsumed' /\ OneTaskPerMember' /\ OwnerConsumed'
    BY <1>4 DEF BoughtConsumed, OneTaskPerMember, OwnerConsumed
  <1>6. NotYetBought' /\ NotYetAppended' /\ OneOwner'
    BY <1>2, <1>3, <1>4 DEF NotYetBought, NotYetAppended, OneOwner
  <1>7. ConsumedReachable' /\ AnswerBought'
    BY DEF ConsumedReachable, AnswerBought
  <1> QED BY <1>5, <1>6, <1>7

(* What an execution does besides is calm. *)
LEMMA CalmExecution ==
  ASSUME Typed, NEW p \in Processes,
         \/ AlreadyConsumed(p) \/ NotExecuted(p) \/ RefusedHere(p) \/ RefusedBudget(p)
         \/ AppendFails(p) \/ ResolveExecuted(p) \/ TaskMissing(p)
  PROVE  Calm(p)
  <1> USE DEF Typed, TypeOK, Calm, Alone, Owning, InLock
  <1>1. CASE AlreadyConsumed(p) \/ ResolveExecuted(p)
    BY <1>1 DEF AlreadyConsumed, ResolveExecuted
  <1>2. CASE NotExecuted(p) \/ RefusedHere(p) \/ AppendFails(p)
    BY <1>2 DEF NotExecuted, RefusedHere, AppendFails, FailMember
  <1>3. CASE RefusedBudget(p) \/ TaskMissing(p)
    BY <1>3 DEF RefusedBudget, TaskMissing, FailRun
  <1> QED BY <1>1, <1>2, <1>3

LEMMA NextBuys ==
  ASSUME Typed, Buy, [Next]_vars
  PROVE  Buy'
  <1>1. CASE UNCHANGED vars
    BY <1>1 DEF vars, Buy, BoughtConsumed, OwnerConsumed, OneOwner, NotYetBought, NotYetAppended,
                ConsumedReachable, AnswerBought, OneTaskPerMember
  <1>2. ASSUME NEW a \in Authorizations, AuthorizeParent(a) \/ Expire(a) PROVE Buy'
    BY <1>2 DEF AuthorizeParent, Expire, Buy, BoughtConsumed, OwnerConsumed, OneOwner, NotYetBought,
                NotYetAppended, ConsumedReachable, AnswerBought, OneTaskPerMember
  <1>3. ASSUME NEW p \in Processes, Command(p) \/ Recover(p) \/ Advance(p) \/ Crash(p) PROVE Buy'
    BY <1>3, CalmSteps, CalmKeeps, ToConsume
  <1>4. ASSUME NEW p \in Processes, Execute(p) PROVE Buy'
    BY <1>4, CalmExecution, CalmKeeps, ConsumeBuys, LockBuys, PostBuys, AnsweredBuys, AppendBuys DEF Execute
  <1> QED BY <1>1, <1>2, <1>3, <1>4 DEF Next

(* A task that both ledgers record stays recorded. *)
LEMMA RecordedStays ==
  ASSUME Typed, Buy, [Next]_vars, NEW m \in Members, Recorded(m)
  PROVE  Recorded(m)'
  <1>1. CASE UNCHANGED <<tasks, executions>>
    BY <1>1 DEF Recorded
  <1>2. ASSUME NEW p \in Processes, Answered(p) PROVE Recorded(m)'
    BY <1>2 DEF Answered, Recorded
  <1>3. ASSUME NEW p \in Processes, Unanswered(p) \/ AppendExecution(p) PROVE Recorded(m)'
    <2>1. executions[at[p]] = "none" /\ m # at[p]
      BY <1>3 DEF Unanswered, AppendExecution, Buy, NotYetAppended, Owning, InLock, Recorded
    <2> QED BY <1>3, <2>1 DEF Unanswered, AppendExecution, Recorded, Typed, TypeOK
  <1>4. ASSUME NEW a \in Authorizations, AuthorizeParent(a) \/ Expire(a)
        PROVE  UNCHANGED <<tasks, executions>>
    BY <1>4 DEF AuthorizeParent, Expire
  <1>5. ASSUME NEW p \in Processes, Command(p) \/ Recover(p) \/ Advance(p) \/ Crash(p)
        PROVE  UNCHANGED <<tasks, executions>>
    BY <1>5, CalmSteps DEF Calm, ResolveTask
  <1>6. ASSUME NEW p \in Processes, Execute(p), ~ Answered(p), ~ Unanswered(p), ~ AppendExecution(p)
        PROVE  UNCHANGED <<tasks, executions>>
    BY <1>6, CalmExecution DEF Execute, Calm, Consume, Acquire, MayBuy, Post
  <1>7. CASE UNCHANGED vars
    BY <1>7, <1>1 DEF vars
  <1> QED BY <1>1, <1>2, <1>3, <1>4, <1>5, <1>6, <1>7 DEF Next

(* ---- rows ------------------------------------------------------------------- *)

ProcessStep(p) == Command(p) \/ Recover(p) \/ Advance(p) \/ Execute(p) \/ Crash(p)

(* The local variables of the other processes are theirs. *)
Mine(p) ==
  \A q \in Processes \ {p} :
    /\ pc'[q] = pc[q] /\ job'[q] = job[q] /\ at'[q] = at[q]
    /\ todo'[q] = todo[q] /\ view'[q] = view[q] /\ row'[q] = row[q]

LEMMA StepIsMine ==
  ASSUME Typed, NEW p \in Processes, ProcessStep(p)
  PROVE  Mine(p)
  <1> USE DEF Typed, TypeOK, Mine
  <1>1. CASE Command(p)
    BY <1>1 DEF Command, Start, Resume, Progress, Check, Dispose, Assess
  <1>2. CASE Recover(p)
    <2>1. CASE RecoverNothing(p) \/ RecoverChild(p) \/ ReviveNothing(p) \/ Revive(p) \/ Revived(p)
      BY <2>1 DEF RecoverNothing, RecoverChild, ReviveNothing, Revive, Revived
    <2>2. CASE Reread(p)
      BY <2>2 DEF Reread
    <2> QED BY <1>2, <2>1, <2>2 DEF Recover
  <1>3. CASE Advance(p)
    <2>1. CASE Begin(p) \/ NextMember(p) \/ Conclude(p)
      BY <2>1 DEF Begin, NextMember, Conclude
    <2>2. CASE RecordArtifact(p) \/ RecordChild(p) \/ MarkAuthorized(p)
      BY <2>2 DEF RecordArtifact, RecordChild, MarkAuthorized
    <2>3. CASE ResolveTask(p)
      BY <2>3 DEF ResolveTask
    <2>4. CASE AuthorityExpired(p) \/ ResultRefused(p)
      BY <2>4 DEF AuthorityExpired, ResultRefused, FailRun
    <2>5. CASE SaveExecuted(p) \/ SaveMember(p)
      BY <2>5 DEF SaveExecuted, SaveMember
    <2>6. CASE ResultKnown(p) \/ RecordResult(p) \/ Finalize(p)
      BY <2>6 DEF ResultKnown, RecordResult, Finalize
    <2>7. CASE Retrieve(p)
      BY <2>7 DEF Retrieve
    <2> QED BY <1>3, <2>1, <2>2, <2>3, <2>4, <2>5, <2>6, <2>7 DEF Advance
  <1>4. CASE Execute(p)
    <2>1. CASE Consume(p) \/ AlreadyConsumed(p) \/ Acquire(p) \/ MayBuy(p) \/ Post(p)
               \/ Answered(p) \/ AppendExecution(p) \/ ResolveExecuted(p)
      BY <2>1 DEF Consume, AlreadyConsumed, Acquire, MayBuy, Post, Answered, AppendExecution, ResolveExecuted
    <2>2. CASE NotExecuted(p) \/ RefusedHere(p) \/ Unanswered(p) \/ AppendFails(p)
      BY <2>2 DEF NotExecuted, RefusedHere, Unanswered, AppendFails, FailMember
    <2>3. CASE RefusedBudget(p) \/ TaskMissing(p)
      BY <2>3 DEF RefusedBudget, TaskMissing, FailRun
    <2> QED BY <1>4, <2>1, <2>2, <2>3 DEF Execute
  <1>5. CASE Crash(p)
    BY <1>5 DEF Crash
  <1> QED BY <1>1, <1>2, <1>3, <1>4, <1>5 DEF ProcessStep

(* Rows are written by START, by the AUTHORIZED and EXECUTED checkpoints    *)
(* and by updateMember().                                                    *)
Rewritten(p) ==
  \/ members' = members
  \/ run.state = "NONE" /\ members' = NothingRead
  \/ pc[p] = "mark" /\ members' = [members EXCEPT ![at[p]] = Authorized]
  \/ pc[p] \in {"executed", "save"} /\ members' = [members EXCEPT ![at[p]] = row[p]]

LEMMA StepRewrites ==
  ASSUME Typed, NEW p \in Processes, ProcessStep(p)
  PROVE  Rewritten(p)
  <1> USE DEF Rewritten
  <1>1. CASE Command(p)
    BY <1>1 DEF Command, Start, Resume, Progress, Check, Dispose, Assess
  <1>2. CASE Recover(p)
    BY <1>2 DEF Recover, RecoverNothing, RecoverChild, Reread, ReviveNothing, Revive, Revived
  <1>3. CASE Advance(p)
    BY <1>3 DEF Advance, Begin, NextMember, Conclude, RecordArtifact, RecordChild, MarkAuthorized,
                ResolveTask, AuthorityExpired, SaveExecuted, ResultKnown, Retrieve, RecordResult,
                ResultRefused, Finalize, SaveMember
  <1>4. CASE Execute(p)
    BY <1>4 DEF Execute, Consume, AlreadyConsumed, NotExecuted, Acquire, RefusedHere, RefusedBudget,
                MayBuy, Post, Answered, Unanswered, AppendExecution, AppendFails, ResolveExecuted,
                TaskMissing
  <1>5. CASE Crash(p)
    BY <1>5 DEF Crash
  <1> QED BY <1>1, <1>2, <1>3, <1>4, <1>5 DEF ProcessStep
(* Where a step leaves its own process, as far as job and place go. *)
Moved(p) ==
  /\ run'.state = "NONE" => run.state = "NONE" /\ pc'[p] = "idle"
  /\ job'[p] = "start" => job[p] = "start" \/ run.state = "NONE"
  /\ pc'[p] = "idle" => job'[p] = "none" /\ at'[p] = NoMember
  /\ pc'[p] \notin {"idle", "assess"} => job'[p] \in PaidCommand \cup {"progress"}
  /\ pc'[p] \in {"task"} \cup Buying => job'[p] # "revive"
  /\ pc'[p] \in {"artifact", "child", "mark"} => job'[p] = "start"
  /\ pc'[p] \in {"begin", "retrieve", "record", "finalize", "save"} =>
        job'[p] \in {"start", "resume", "progress"}
  /\ job'[p] = "start" /\ pc'[p] \in {"begin", "next"} => at'[p] = NoMember

LEMMA StepMoves ==
  ASSUME Typed, OneStart, JobFits, ScopeSettled, NEW p \in Processes, ProcessStep(p)
  PROVE  Moved(p)
  <1> USE DEF Typed, TypeOK, OneStart, JobFits, Moved, PaidCommand, Buying, Owning, InLock
  <1>1. CASE Command(p)
    <2>1. CASE (\E a \in Authorizations : Start(p, a)) \/ Resume(p)
      BY <2>1 DEF Start, Resume
    <2>2. CASE Progress(p)
      BY <2>2 DEF Progress
    <2>3. CASE (\E m \in Members : Check(p, m) \/ Dispose(p, m)) \/ Assess(p)
      BY <2>3 DEF Check, Dispose, Assess
    <2> QED BY <1>1, <2>1, <2>2, <2>3 DEF Command
  <1>2. CASE Recover(p)
    <2>1. CASE RecoverNothing(p) \/ RecoverChild(p) \/ ReviveNothing(p) \/ Revive(p) \/ Revived(p)
      BY <2>1 DEF RecoverNothing, RecoverChild, ReviveNothing, Revive, Revived
    <2>2. CASE Reread(p)
      BY <2>2 DEF Reread
    <2> QED BY <1>2, <2>1, <2>2 DEF Recover
  <1>3. CASE Advance(p)
    <2>0. CASE NextMember(p)
      <3>1. First(todo[p]) \in todo[p]
        BY <2>0, FirstIsLeft DEF NextMember
      <3>2. view[p][First(todo[p])].state = "READY" => job[p] = "start"
        <4>1. job[p] \in {"resume", "progress"} => \A m \in todo[p] : Sighted(p, m)
          BY <2>0 DEF NextMember, Looping, ScopeSettled
        <4>2. job[p] \in {"start", "resume", "progress"}
          BY <2>0 DEF NextMember, Looping
        <4> QED BY <3>1, <4>1, <4>2 DEF Sighted
      <3> QED BY <2>0, <3>2 DEF NextMember, Looping
    <2>1. CASE Begin(p) \/ Conclude(p)
      BY <2>1 DEF Begin, Conclude, Looping, Verdict
    <2>2. CASE RecordArtifact(p) \/ RecordChild(p) \/ MarkAuthorized(p)
      BY <2>2 DEF RecordArtifact, RecordChild, MarkAuthorized
    <2>3. CASE ResolveTask(p)
      BY <2>3 DEF ResolveTask
    <2>4. CASE AuthorityExpired(p) \/ ResultRefused(p)
      BY <2>4 DEF AuthorityExpired, ResultRefused, FailRun
    <2>5. CASE SaveExecuted(p) \/ SaveMember(p)
      BY <2>5 DEF SaveExecuted, SaveMember
    <2>6. CASE ResultKnown(p) \/ RecordResult(p) \/ Finalize(p)
      BY <2>6 DEF ResultKnown, RecordResult, Finalize
    <2>7. CASE Retrieve(p)
      BY <2>7 DEF Retrieve
    <2> QED BY <1>3, <2>0, <2>1, <2>2, <2>3, <2>4, <2>5, <2>6, <2>7 DEF Advance
  <1>4. CASE Execute(p)
    <2>1. CASE Consume(p) \/ AlreadyConsumed(p) \/ Acquire(p) \/ MayBuy(p) \/ Post(p)
               \/ Answered(p) \/ AppendExecution(p) \/ ResolveExecuted(p)
      BY <2>1 DEF Consume, AlreadyConsumed, Acquire, MayBuy, Post, Answered, AppendExecution, ResolveExecuted
    <2>2. CASE NotExecuted(p) \/ RefusedHere(p) \/ Unanswered(p) \/ AppendFails(p)
      BY <2>2 DEF NotExecuted, RefusedHere, Unanswered, AppendFails, FailMember
    <2>3. CASE RefusedBudget(p) \/ TaskMissing(p)
      BY <2>3 DEF RefusedBudget, TaskMissing, FailRun
    <2> QED BY <1>4, <2>1, <2>2, <2>3 DEF Execute
  <1>5. CASE Crash(p)
    BY <1>5 DEF Crash
  <1> QED BY <1>1, <1>2, <1>3, <1>4, <1>5 DEF ProcessStep

LEMMA NextJobs ==
  ASSUME Typed, OneStart, JobFits, ScopeSettled, [Next]_vars
  PROVE  OneStart' /\ JobFits'
  <1>1. CASE UNCHANGED vars
    BY <1>1 DEF vars, OneStart, JobFits
  <1>2. ASSUME NEW a \in Authorizations, AuthorizeParent(a) \/ Expire(a) PROVE OneStart' /\ JobFits'
    BY <1>2 DEF AuthorizeParent, Expire, OneStart, JobFits
  <1>3. ASSUME NEW p \in Processes, ProcessStep(p) PROVE OneStart' /\ JobFits'
    <2>1. Moved(p) /\ Mine(p)
      BY <1>3, StepMoves, StepIsMine
    <2>2. OneStart'
      BY <2>1 DEF Moved, Mine, OneStart, JobFits
    <2>3. JobFits'
      BY <2>1 DEF Moved, Mine, JobFits
    <2> QED BY <2>2, <2>3
  <1> QED BY <1>1, <1>2, <1>3 DEF Next, ProcessStep

(* What a step leaves in the todo list of its own process. *)
LEMMA StepLoops ==
  ASSUME Typed, LoopActive, NEW p \in Processes, ProcessStep(p)
  PROVE  job'[p] \in {"start", "resume", "progress"} /\ pc'[p] # "begin" =>
           \A m \in todo'[p] : view'[p][m].state \notin Terminal
  <1> USE DEF Typed, TypeOK, LoopActive
  <1>1. CASE Command(p)
    <2>1. CASE (\E a \in Authorizations : Start(p, a)) \/ Resume(p)
      BY <2>1 DEF Start, Resume
    <2>2. CASE Progress(p)
      BY <2>2 DEF Progress
    <2>3. CASE (\E m \in Members : Check(p, m) \/ Dispose(p, m)) \/ Assess(p)
      BY <2>3 DEF Check, Dispose, Assess
    <2> QED BY <1>1, <2>1, <2>2, <2>3 DEF Command
  <1>2. CASE Recover(p)
    <2>1. CASE RecoverNothing(p) \/ RecoverChild(p) \/ ReviveNothing(p) \/ Revive(p) \/ Revived(p)
      BY <2>1 DEF RecoverNothing, RecoverChild, ReviveNothing, Revive, Revived
    <2>2. CASE Reread(p)
      BY <2>2 DEF Reread
    <2> QED BY <1>2, <2>1, <2>2 DEF Recover
  <1>3. CASE Advance(p)
    <2>1. CASE Begin(p)
      BY <2>1 DEF Begin, Active
    <2>2. CASE NextMember(p) \/ Conclude(p)
      BY <2>2 DEF NextMember, Conclude, Looping
    <2>3. CASE RecordArtifact(p) \/ RecordChild(p) \/ MarkAuthorized(p) \/ ResolveTask(p)
      BY <2>3 DEF RecordArtifact, RecordChild, MarkAuthorized, ResolveTask
    <2>4. CASE AuthorityExpired(p) \/ ResultRefused(p)
      BY <2>4 DEF AuthorityExpired, ResultRefused, FailRun
    <2>5. CASE SaveExecuted(p)
      <3>1. todo'[p] \subseteq todo[p] /\ job' = job /\ view' = view /\ pc[p] = "executed"
        BY <2>5 DEF SaveExecuted
      <3> QED BY <3>1
    <2>8. CASE SaveMember(p)
      <3>1. todo'[p] \subseteq todo[p] /\ job' = job /\ view' = view /\ pc[p] = "save"
        BY <2>8 DEF SaveMember
      <3> QED BY <3>1
    <2>6. CASE ResultKnown(p) \/ RecordResult(p) \/ Finalize(p) \/ Retrieve(p)
      BY <2>6 DEF ResultKnown, RecordResult, Finalize, Retrieve
    <2> QED BY <1>3, <2>1, <2>2, <2>3, <2>4, <2>5, <2>6, <2>8 DEF Advance
  <1>4. CASE Execute(p)
    <2>1. CASE Consume(p) \/ AlreadyConsumed(p) \/ Acquire(p) \/ MayBuy(p) \/ Post(p)
               \/ Answered(p) \/ AppendExecution(p) \/ ResolveExecuted(p)
      BY <2>1 DEF Consume, AlreadyConsumed, Acquire, MayBuy, Post, Answered, AppendExecution, ResolveExecuted
    <2>2. CASE NotExecuted(p) \/ RefusedHere(p) \/ Unanswered(p) \/ AppendFails(p)
      BY <2>2 DEF NotExecuted, RefusedHere, Unanswered, AppendFails, FailMember
    <2>3. CASE RefusedBudget(p) \/ TaskMissing(p)
      BY <2>3 DEF RefusedBudget, TaskMissing, FailRun
    <2> QED BY <1>4, <2>1, <2>2, <2>3 DEF Execute
  <1>5. CASE Crash(p)
    BY <1>5 DEF Crash
  <1> QED BY <1>1, <1>2, <1>3, <1>4, <1>5 DEF ProcessStep

LEMMA NextLoops ==
  ASSUME Typed, LoopActive, [Next]_vars
  PROVE  LoopActive'
  <1>1. CASE UNCHANGED vars
    BY <1>1 DEF vars, LoopActive
  <1>2. ASSUME NEW a \in Authorizations, AuthorizeParent(a) \/ Expire(a) PROVE LoopActive'
    BY <1>2 DEF AuthorizeParent, Expire, LoopActive
  <1>3. ASSUME NEW p \in Processes, ProcessStep(p) PROVE LoopActive'
    BY <1>3, StepLoops, StepIsMine DEF Mine, LoopActive
  <1> QED BY <1>1, <1>2, <1>3 DEF Next, ProcessStep

(* The rows a step leaves in its own process: a row that names a task is    *)
(* backed, what lies past the purchase names it, and no unpaid row is saved. *)
Carried(p) ==
  /\ \A m \in Members : view'[p][m] \in {view[p][m], members[m], ReadyRow}
  /\ Working(p)' /\ row'[p].task => Recorded(at'[p])
  /\ pc'[p] = "executed" => Recorded(at'[p]) /\ row'[p].task /\ row'[p].state = "EXECUTED"
  /\ pc'[p] \in {"retrieve", "record", "finalize"} => row'[p].task
  /\ pc'[p] = "save" => row'[p].state \notin Unpaid /\ Bought(row'[p])

(* Only the state of a row is replaced. *)
LEMMA StateReplaced ==
  ASSUME NEW r \in Row, NEW s
  PROVE  [r EXCEPT !.state = s].state = s /\ [r EXCEPT !.state = s].task = r.task
  BY DEF Row

LEMMA StepCarries ==
  ASSUME Typed, RowsBacked, RowsNamed, JobFits, LoopActive, NEW p \in Processes, ProcessStep(p)
  PROVE  Carried(p)
  <1> USE DEF Typed, TypeOK, Carried, Working, AtAMember, Buying, Owning, InLock, PaidCommand
  <1>f. ASSUME FailMember(p), Working(p) PROVE Carried(p)
    <2>1. CASE End(p)
      BY <2>1 DEF NothingRead
    <2>2. CASE ~ End(p)
      <3>1. row' = [row EXCEPT ![p] = [row[p] EXCEPT !.state = "EXCEPTION"]] /\ pc' = [pc EXCEPT ![p] = "save"]
            /\ UNCHANGED <<at, view>>
        BY <1>f, <2>2 DEF FailMember
      <3>2. row'[p].state = "EXCEPTION" /\ row'[p].task = row[p].task
        BY <3>1, StateReplaced
      <3>3. row[p].task => Recorded(at[p])
        BY <1>f DEF RowsBacked
      <3> QED BY <3>1, <3>2, <3>3 DEF Unpaid, Bought
    <2> QED BY <2>1, <2>2
  <1>r. ASSUME FailRun(p) PROVE Carried(p)
    BY <1>r DEF FailRun, NothingRead
  <1>w. Working(p) /\ row[p].task => Recorded(at[p])
    BY DEF RowsBacked
  <1>1. CASE Command(p)
    <2>1. CASE (\E a \in Authorizations : Start(p, a)) \/ Resume(p)
      BY <2>1 DEF Start, Resume
    <2>2. CASE Progress(p)
      BY <2>2 DEF Progress
    <2>3. CASE (\E m \in Members : Check(p, m) \/ Dispose(p, m))
      BY <2>3 DEF Check, Dispose
    <2>4. CASE Assess(p)
      BY <2>4 DEF Assess, NothingRead
    <2> QED BY <1>1, <2>1, <2>2, <2>3, <2>4 DEF Command
  <1>2. CASE Recover(p)
    <2>1. CASE RecoverNothing(p) \/ ReviveNothing(p) \/ Revived(p)
      BY <2>1 DEF RecoverNothing, ReviveNothing, Revived
    <2>3. CASE RecoverChild(p)
      <3>1. row'[p] = Authorized /\ pc'[p] = "task" /\ view' = view
        BY <2>3 DEF RecoverChild
      <3> QED BY <3>1 DEF Authorized
    <2>4. CASE Revive(p)
      <3>1. at'[p] = First(todo[p]) /\ Recorded(First(todo[p])) /\ view' = view /\ pc'[p] = "executed"
            /\ row'[p] = [view[p][First(todo[p])] EXCEPT !.state = "EXECUTED", !.task = TRUE]
        BY <2>4 DEF Revive
      <3>2. view[p][First(todo[p])] \in Row
        BY <2>4, FirstIsLeft DEF Revive
      <3>3. row'[p].task /\ row'[p].state = "EXECUTED"
        BY <3>1, <3>2 DEF Row
      <3> QED BY <3>1, <3>3
    <2>2. CASE Reread(p)
      <3>1. CASE End(p)
        BY <3>1 DEF NothingRead
      <3>2. CASE ~ End(p)
        <4>1. view' = [view EXCEPT ![p] = members] /\ pc' = pc /\ pc[p] = "next"
          BY <2>2, <3>2 DEF Reread
        <4> QED BY <4>1
      <3> QED BY <3>1, <3>2
    <2> QED BY <1>2, <2>1, <2>2, <2>3, <2>4 DEF Recover
  <1>3. CASE Advance(p)
    <2>0. CASE NextMember(p)
      <3> DEFINE m == First(todo[p])
      <3>1. m \in todo[p] /\ m \in Members
        BY <2>0, FirstIsLeft DEF NextMember
      <3>2. view[p][m].task => Recorded(m)
        BY <3>1 DEF RowsBacked
      <3>3. Bought(view[p][m]) /\ view[p][m] \in Row
        BY <3>1 DEF RowsNamed
      <3>4. view[p][m].state \notin Terminal
        BY <2>0, <3>1 DEF NextMember, Looping, LoopActive
      <3>5. at'[p] = m /\ row'[p] = view[p][m] /\ view' = view
            /\ pc'[p] \in {"artifact", "task", "retrieve"}
            /\ (pc'[p] = "retrieve" => view[p][m].state \notin Unpaid)
        BY <2>0 DEF NextMember, Unpaid
      <3>6. pc'[p] = "retrieve" => view[p][m].task
        BY <3>3, <3>4, <3>5 DEF Bought, Row, Unfinished, Unpaid
      <3> QED BY <3>2, <3>5, <3>6
    <2>1. CASE Begin(p)
      BY <2>1 DEF Begin
    <2>2. CASE Conclude(p)
      BY <2>2 DEF Conclude, NothingRead
    <2>3. CASE RecordArtifact(p) \/ RecordChild(p)
      BY <2>3, <1>w DEF RecordArtifact, RecordChild
    <2>4. CASE MarkAuthorized(p)
      BY <2>4 DEF MarkAuthorized, Authorized
    <2>5. CASE ResolveTask(p)
      <3>1. view' = view /\ at' = at
        BY <2>5 DEF ResolveTask
      <3>2. CASE Recorded(at[p])
        BY <2>5, <3>1, <3>2 DEF ResolveTask, Executed
      <3>3. CASE ~ Recorded(at[p])
        BY <2>5, <3>1, <3>3, <1>w DEF ResolveTask
      <3> QED BY <3>2, <3>3
    <2>6. CASE AuthorityExpired(p) \/ ResultRefused(p)
      BY <2>6, <1>r DEF AuthorityExpired, ResultRefused
    <2>7. CASE SaveExecuted(p)
      <3>1. view' = view /\ row' = row /\ pc[p] = "executed" /\ pc'[p] \in {"next", "retrieve"}
            /\ (pc'[p] = "retrieve" => at' = at)
        BY <2>7 DEF SaveExecuted
      <3>2. row[p].task /\ Recorded(at[p])
        BY <3>1 DEF RowsBacked
      <3> QED BY <3>1, <3>2
    <2>8. CASE SaveMember(p)
      BY <2>8 DEF SaveMember
    <2>9. CASE ResultKnown(p) \/ RecordResult(p)
      <3>1. row[p].task
        BY <2>9 DEF RowsNamed, ResultKnown, RecordResult
      <3> QED BY <2>9, <3>1, <1>w DEF ResultKnown, RecordResult
    <2>10. CASE Finalize(p)
      <3>1. row[p].task /\ Recorded(at[p])
        BY <2>10, <1>w DEF RowsNamed, Finalize
      <3>2. PICK s \in Terminal : row' = [row EXCEPT ![p] = [row[p] EXCEPT !.state = s]]
        BY <2>10 DEF Finalize, Terminal
      <3>3. row'[p].state = s /\ row'[p].task
        BY <3>1, <3>2, StateReplaced
      <3> QED BY <2>10, <3>1, <3>3 DEF Finalize, Bought, Unpaid, Terminal
    <2>11. CASE Retrieve(p)
      <3>1. row[p].task /\ Recorded(at[p])
        BY <2>11, <1>w DEF RowsNamed, Retrieve
      <3>2. CASE pc'[p] = "record"
        <4>1. row' = row /\ view' = view /\ at' = at
          BY <2>11, <3>2 DEF Retrieve
        <4> QED BY <3>1, <3>2, <4>1
      <3>3. CASE pc'[p] # "record"
        <4>1. PICK s \in {"WAITING_FOR_PROVIDER", "EXCEPTION"} :
                row' = [row EXCEPT ![p] = [row[p] EXCEPT !.state = s]]
          BY <2>11, <3>3 DEF Retrieve
        <4>2. row'[p].state = s /\ row'[p].task
          BY <3>1, <4>1, StateReplaced
        <4>3. pc'[p] \in {"record", "save"} /\ view' = view /\ at' = at
          BY <2>11 DEF Retrieve
        <4> QED BY <3>1, <4>2, <4>3 DEF Bought, Unpaid
      <3> QED BY <3>2, <3>3
    <2> QED BY <1>3, <2>0, <2>1, <2>2, <2>3, <2>4, <2>5, <2>6, <2>7, <2>8, <2>9, <2>10, <2>11 DEF Advance
  <1>4. CASE Execute(p)
    <2>1. CASE Consume(p) \/ AlreadyConsumed(p) \/ Acquire(p) \/ MayBuy(p) \/ Post(p)
               \/ Answered(p) \/ AppendExecution(p)
      BY <2>1, <1>w DEF Consume, AlreadyConsumed, Acquire, MayBuy, Post, Answered, AppendExecution
    <2>4. CASE ResolveExecuted(p)
      BY <2>4 DEF ResolveExecuted, Executed
    <2>2. CASE NotExecuted(p) \/ RefusedHere(p) \/ Unanswered(p) \/ AppendFails(p)
      BY <2>2, <1>f DEF NotExecuted, RefusedHere, Unanswered, AppendFails
    <2>3. CASE RefusedBudget(p) \/ TaskMissing(p)
      BY <2>3, <1>r DEF RefusedBudget, TaskMissing
    <2> QED BY <1>4, <2>1, <2>2, <2>3, <2>4 DEF Execute
  <1>5. CASE Crash(p)
    BY <1>5 DEF Crash, NothingRead
  <1> QED BY <1>1, <1>2, <1>3, <1>4, <1>5 DEF ProcessStep

LEMMA NextRows ==
  ASSUME Typed, Buy, RowsBacked, RowsNamed, JobFits, LoopActive, [Next]_vars
  PROVE  RowsBacked' /\ RowsNamed'
  <1>1. CASE UNCHANGED vars
    BY <1>1 DEF vars, RowsBacked, RowsNamed, Recorded, Working, AtAMember
  <1>2. ASSUME NEW a \in Authorizations, AuthorizeParent(a) \/ Expire(a)
        PROVE  RowsBacked' /\ RowsNamed'
    BY <1>2 DEF AuthorizeParent, Expire, RowsBacked, RowsNamed, Recorded, Working, AtAMember
  <1>3. ASSUME NEW p \in Processes, ProcessStep(p) PROVE RowsBacked' /\ RowsNamed'
    <2>1. Carried(p) /\ Mine(p) /\ Rewritten(p)
      BY <1>3, StepCarries, StepIsMine, StepRewrites
    <2>2. \A m \in Members : Recorded(m) => Recorded(m)'
      BY RecordedStays
    <2>3. \A m \in Members : (members'[m].task => Recorded(m)) /\ Bought(members'[m])
      <3>1. ReadyRow.task = FALSE /\ Bought(ReadyRow) /\ Authorized.task = FALSE /\ Bought(Authorized)
        BY DEF ReadyRow, Authorized, Bought
      <3>2. CASE members' = members
        BY <3>2 DEF RowsBacked, RowsNamed
      <3>3. CASE members' = NothingRead
        BY <3>1, <3>3 DEF NothingRead
      <3>4. CASE members' = [members EXCEPT ![at[p]] = Authorized]
        BY <3>1, <3>4 DEF RowsBacked, RowsNamed, Typed, TypeOK
      <3>5. CASE pc[p] \in {"executed", "save"} /\ members' = [members EXCEPT ![at[p]] = row[p]]
        <4>1. (row[p].task => Recorded(at[p])) /\ Bought(row[p])
          BY <3>5 DEF RowsBacked, RowsNamed, Working, AtAMember, Bought
        <4> QED BY <3>5, <4>1 DEF RowsBacked, RowsNamed, Typed, TypeOK
      <3> QED BY <2>1, <3>2, <3>3, <3>4, <3>5 DEF Rewritten
    <2>4. \A m \in Members : (members'[m].task => Recorded(m)') /\ Bought(members'[m])
      BY <2>2, <2>3
    <2>5. \A q \in Processes, m \in Members : (view'[q][m].task => Recorded(m)) /\ Bought(view'[q][m])
      <3>1. ReadyRow.task = FALSE /\ Bought(ReadyRow)
        BY DEF ReadyRow, Bought
      <3> QED BY <2>1, <3>1 DEF Carried, Mine, RowsBacked, RowsNamed
    <2>6. \A q \in Processes, m \in Members : (view'[q][m].task => Recorded(m)') /\ Bought(view'[q][m])
      BY <2>2, <2>5
    <2>7. Typed'
      BY NextTyped
    <2>8. ASSUME NEW q \in Processes
          PROVE  /\ Working(q)' /\ row'[q].task => Recorded(at'[q])
                 /\ pc'[q] = "executed" => Recorded(at'[q]) /\ row'[q].task /\ row'[q].state = "EXECUTED"
                 /\ pc'[q] \in {"retrieve", "record", "finalize"} => row'[q].task
                 /\ pc'[q] = "save" => row'[q].state \notin Unpaid /\ Bought(row'[q])
      <3>1. CASE q = p
        BY <2>1, <3>1 DEF Carried
      <3>2. CASE q # p
        BY <2>1, <3>2 DEF Mine, RowsBacked, RowsNamed, Working, AtAMember
      <3> QED BY <3>1, <3>2
    <2>9. ASSUME NEW q \in Processes, Working(q)' PROVE Recorded(at'[q]) => Recorded(at[q])'
      BY <2>2, <2>7, <2>9 DEF Typed, AtMember, Working
    <2>10. RowsBacked'
      <3>1. \A q \in Processes : Working(q)' /\ row'[q].task => Recorded(at[q])'
        BY <2>8, <2>9
      <3>2. \A q \in Processes : pc'[q] = "executed" => Recorded(at[q])' /\ row'[q].task /\ row'[q].state = "EXECUTED"
        BY <2>8, <2>9 DEF Working, AtAMember
      <3> QED BY <2>4, <2>6, <3>1, <3>2 DEF RowsBacked
    <2>11. RowsNamed'
      BY <2>4, <2>6, <2>8 DEF RowsNamed, Bought
    <2> QED BY <2>10, <2>11
  <1> QED BY <1>1, <1>2, <1>3 DEF Next, ProcessStep

(* ---- what is settled --------------------------------------------------------- *)

(* Before the run exists there is nothing to do but to START it. *)
LEMMA FirstStart ==
  ASSUME OneStart, run.state = "NONE", NEW p \in Processes, ProcessStep(p)
  PROVE  \E a \in Authorizations : Start(p, a)
  <1>1. pc[p] = "idle"
    BY DEF OneStart
  <1> QED
    BY <1>1 DEF ProcessStep, Command, Recover, Advance, Execute, Crash, Looping,
                Resume, Progress, Check, Dispose, Assess,
                RecoverNothing, RecoverChild, Reread, ReviveNothing, Revive, Revived,
                Begin, NextMember, Conclude, RecordArtifact, RecordChild, MarkAuthorized,
                ResolveTask, AuthorityExpired, SaveExecuted, ResultKnown, Retrieve, RecordResult,
                ResultRefused, Finalize, SaveMember,
                Consume, AlreadyConsumed, NotExecuted, Acquire, RefusedHere, RefusedBudget,
                MayBuy, Post, Answered, Unanswered, AppendExecution, AppendFails, ResolveExecuted,
                TaskMissing

(* A member nothing would be bought for remains one. *)
LEMMA SettledStays ==
  ASSUME Typed, Buy, RowsBacked, RowsNamed, StartUntouched, run.state # "NONE",
         NEW p \in Processes, ProcessStep(p), NEW m \in Members, Settled(m)
  PROVE  Settled(m)'
  <1>1. Recorded(m) => Recorded(m)'
    BY RecordedStays DEF Next, ProcessStep
  <1>2. Rewritten(p)
    BY StepRewrites
  <1>3. CASE members' = members
    BY <1>1, <1>3 DEF Settled
  <1>4. CASE pc[p] = "mark" /\ members' = [members EXCEPT ![at[p]] = Authorized]
    <2>1. Untouched(at[p])
      BY <1>4 DEF StartUntouched
    <2>2. m = at[p] => Recorded(m)'
      BY <1>1, <2>1 DEF Settled, Untouched
    <2> QED BY <1>1, <1>4, <2>2 DEF Settled, Authorized, Typed, TypeOK
  <1>5. CASE pc[p] \in {"executed", "save"} /\ members' = [members EXCEPT ![at[p]] = row[p]]
    <2>1. row[p].state \notin Unpaid
      BY <1>5 DEF RowsBacked, RowsNamed, Unpaid
    <2> QED BY <1>1, <1>5, <2>1 DEF Settled, Unpaid, Typed, TypeOK
  <1> QED BY <1>2, <1>3, <1>4, <1>5 DEF Rewritten

(* A member that START has not come to remains one, but for START itself. *)
LEMMA UntouchedStays ==
  ASSUME Typed, Buy, RowsBacked, RowsNamed, JobFits, ScopeSettled, run.state # "NONE",
         NEW p \in Processes, ProcessStep(p), NEW m \in Members, Untouched(m),
         job[p] = "start" => at[p] # m
  PROVE  Untouched(m)'
  <1>1. Recorded(m) => Recorded(m)'
    BY RecordedStays DEF Next, ProcessStep
  <1>2. Rewritten(p)
    BY StepRewrites
  <1>3. CASE members' = members
    BY <1>1, <1>3 DEF Untouched
  <1>4. CASE pc[p] = "mark" /\ members' = [members EXCEPT ![at[p]] = Authorized]
    <2>1. at[p] # m
      BY <1>4 DEF JobFits
    <2> QED BY <1>1, <1>4, <2>1 DEF Untouched, Typed, TypeOK
  <1>5. CASE pc[p] \in {"executed", "save"} /\ members' = [members EXCEPT ![at[p]] = row[p]]
    <2>1. pc[p] = "executed" => Recorded(at[p])
      BY DEF RowsBacked
    <2>2. pc[p] = "save" /\ job[p] # "start" => Recorded(at[p])
      BY DEF JobFits, ScopeSettled, AtAMember
    <2>3. at[p] = m => Recorded(m)
      BY <1>5, <2>1, <2>2
    <2> QED BY <1>1, <1>5, <2>3 DEF Untouched, Typed, TypeOK
  <1> QED BY <1>2, <1>3, <1>4, <1>5 DEF Rewritten

(* A step to or within a member of the loop, and a step back to the loop. *)
Stays(p) ==
  /\ AtAMember(p) /\ AtAMember(p)' /\ job' = job /\ at' = at /\ todo' = todo /\ view' = view
  /\ pc'[p] \in {"artifact", "child", "mark"} =>
        pc[p] \in {"artifact", "child"} /\ members' = members
Returns(p) ==
  /\ pc[p] # "begin" /\ pc'[p] = "next" /\ job' = job /\ view' = view
  /\ todo'[p] \subseteq todo[p]
  /\ job[p] = "start" => at[p] \notin todo'[p]

Settles(p) ==
  /\ job'[p] = "revive" => \A m \in Members : Settled(m)'
  /\ job'[p] \in {"resume", "progress"} /\ pc'[p] = "begin" =>
        \A m \in Members : at'[p] \in {m, NoMember} => Settled(m)'
  /\ job'[p] \in {"resume", "progress"} /\ pc'[p] # "begin" =>
        \A m \in todo'[p] : Sighted(p, m)'
  /\ job'[p] \in {"revive", "resume", "progress"} /\ AtAMember(p)' => Recorded(at[p])'
  /\ job'[p] = "start" /\ pc'[p] # "begin" =>
        \A m \in todo'[p] \ {at'[p]} : view'[p][m].state = "READY" => Untouched(m)'
  /\ pc'[p] \in {"artifact", "child", "mark"} => Untouched(at[p])'

Standing ==
  /\ Typed /\ Buy /\ RowsBacked /\ RowsNamed /\ JobFits /\ LoopActive
  /\ ScopeSettled /\ StartUntouched /\ run.state # "NONE"

LEMMA StayingSettles ==
  ASSUME Standing, NEW p \in Processes, ProcessStep(p), Stays(p)
  PROVE  Settles(p)
  <1> USE DEF Standing
  <1>1. /\ at[p] \in Members /\ pc[p] # "begin" /\ pc'[p] \notin {"begin", "next", "idle"}
        /\ todo[p] \subseteq Members
    BY DEF Stays, AtAMember, Typed, TypeOK, AtMember
  <1>2. \A m \in Members : Recorded(m) => Recorded(m)'
    BY RecordedStays DEF Next, ProcessStep
  <1>3. job'[p] = "revive" => \A m \in Members : Settled(m)'
    BY SettledStays DEF Stays, ScopeSettled
  <1>4. job'[p] \in {"resume", "progress"} => \A m \in todo'[p] : Sighted(p, m)'
    BY <1>1, <1>2 DEF Stays, ScopeSettled, Sighted
  <1>5. job'[p] \in {"revive", "resume", "progress"} => Recorded(at[p])'
    BY <1>1, <1>2 DEF Stays, ScopeSettled, Recorded
  <1>6. job'[p] = "start" =>
          \A m \in todo'[p] \ {at'[p]} : view'[p][m].state = "READY" => Untouched(m)'
    BY <1>1, UntouchedStays DEF Stays, StartUntouched
  <1>7. pc'[p] \in {"artifact", "child", "mark"} => Untouched(at[p])'
    BY <1>1, <1>2 DEF Stays, StartUntouched, Untouched, Recorded
  <1> QED BY <1>1, <1>3, <1>4, <1>5, <1>6, <1>7 DEF Settles

LEMMA ReturningSettles ==
  ASSUME Standing, NEW p \in Processes, ProcessStep(p), Returns(p)
  PROVE  Settles(p)
  <1> USE DEF Standing
  <1>1. todo[p] \subseteq Members /\ todo'[p] \subseteq Members /\ ~ AtAMember(p)'
    BY DEF Returns, AtAMember, Typed, TypeOK
  <1>2. \A m \in Members : Recorded(m) => Recorded(m)'
    BY RecordedStays DEF Next, ProcessStep
  <1>3. job'[p] = "revive" => \A m \in Members : Settled(m)'
    BY SettledStays DEF Returns, ScopeSettled
  <1>4. job'[p] \in {"resume", "progress"} => \A m \in todo'[p] : Sighted(p, m)'
    BY <1>1, <1>2 DEF Returns, ScopeSettled, Sighted
  <1>6. job'[p] = "start" =>
          \A m \in todo'[p] : view'[p][m].state = "READY" => Untouched(m)'
    BY <1>1, UntouchedStays DEF Returns, StartUntouched
  <1> QED BY <1>1, <1>3, <1>4, <1>6 DEF Settles, Returns

LEMMA TurningSettles ==
  ASSUME Standing, NEW p \in Processes, NextMember(p)
  PROVE  Settles(p)
  <1> DEFINE m == First(todo[p])
  <1> USE DEF Standing
  <1>1. m \in todo[p] /\ m \in Members /\ todo[p] \subseteq Members /\ job[p] \in {"start", "resume", "progress"}
    BY FirstIsLeft DEF NextMember, Looping, Typed, TypeOK
  <1>2. /\ at'[p] = m /\ view' = view /\ todo' = todo /\ members' = members /\ job' = job
        /\ pc'[p] \in {"artifact", "task", "retrieve"} /\ pc[p] = "next"
        /\ (pc'[p] = "artifact" => view[p][m].state = "READY")
        /\ UNCHANGED <<tasks, executions>>
    BY DEF NextMember, Looping, Typed, TypeOK
  <1>3. job[p] \in {"resume", "progress"} => \A other \in todo[p] : Sighted(p, other)
    BY <1>2 DEF ScopeSettled
  <1>4. job[p] \in {"resume", "progress"} => Recorded(m)
    <2>1. view[p][m].state \notin Terminal /\ view[p][m] \in Row
      BY <1>1, <1>2 DEF LoopActive, Typed, TypeOK
    <2>2. Bought(view[p][m]) /\ (view[p][m].task => Recorded(m))
      BY <1>1 DEF RowsBacked, RowsNamed
    <2> QED BY <1>1, <1>3, <2>1, <2>2 DEF Sighted, Bought, Row, Unfinished
  <1>5. job[p] = "start" => \A other \in todo[p] : view[p][other].state = "READY" => Untouched(other)
    <2>1. job[p] = "start" => at[p] = NoMember
      BY <1>2 DEF JobFits
    <2> QED BY <1>1, <1>2, <2>1, MemberAssumption DEF StartUntouched
  <1>6. pc'[p] = "artifact" => job[p] = "start"
    BY <1>1, <1>2, <1>3 DEF Sighted
  <1> QED BY <1>1, <1>2, <1>3, <1>4, <1>5, <1>6 DEF Settles, Sighted, Untouched, Recorded

LEMMA BeginningSettles ==
  ASSUME Standing, NEW p \in Processes, Begin(p)
  PROVE  Settles(p)
  <1> USE DEF Standing
  <1>1. /\ pc[p] = "begin" /\ pc'[p] = "next" /\ job' = job /\ at' = at /\ members' = members
        /\ view'[p] = members /\ todo'[p] \subseteq Members
        /\ (at[p] = NoMember \/ todo'[p] \subseteq {at[p]})
        /\ UNCHANGED <<tasks, executions>>
    BY DEF Begin, Active, Typed, TypeOK
  <1>2. job[p] \in {"start", "resume", "progress"}
    BY <1>1 DEF JobFits
  <1>3. job[p] \in {"resume", "progress"} => \A m \in todo'[p] : Settled(m)
    BY <1>1 DEF ScopeSettled
  <1> QED BY <1>1, <1>2, <1>3 DEF Settles, Settled, Sighted, Untouched, Recorded, AtAMember

(* A command that begins an invocation, and one that is over, settle. *)
LEMMA CommandSettles ==
  ASSUME Standing, NEW p \in Processes, Command(p)
  PROVE  Settles(p)
  <1> USE DEF Standing, Settles, AtAMember, Typed, TypeOK
  <1>1. CASE \E a \in Authorizations : Start(p, a)
    BY <1>1 DEF Start
  <1>2. CASE Resume(p)
    BY <1>2 DEF Resume
  <1>3. CASE Progress(p)
    <2>1. at[p] = NoMember /\ job[p] = "none" /\ at' = at /\ members' = members
      BY <1>3 DEF Progress, JobFits
    <2>2. CASE pc'[p] = "begin"
      <3>1. \A m \in Active : members[m].state = "WAITING_FOR_PROVIDER"
        BY <1>3, <2>2 DEF Progress
      <3>2. \A m \in Members : members[m].state \notin {"READY", "AUTHORIZED"}
        BY <3>1 DEF Active, Terminal
      <3>3. \A m \in Members : Settled(m)'
        BY <2>1, <3>2 DEF Settled
      <3>4. job'[p] = "progress"
        BY <1>3, <2>2 DEF Progress
      <3> QED BY <2>2, <3>3, <3>4
    <2>3. CASE pc'[p] # "begin"
      <3>1. pc'[p] = "idle" /\ job'[p] = "none"
        BY <1>3, <2>1, <2>3 DEF Progress
      <3> QED BY <3>1
    <2> QED BY <2>2, <2>3
  <1>4. ASSUME NEW m \in Members, Check(p, m) PROVE Settles(p)
    <2>1. at'[p] = m /\ job'[p] = "progress" /\ pc'[p] = "begin" /\ members'[m].state = "WAITING_FOR_PROVIDER"
      BY <1>4 DEF Check
    <2>2. \A other \in Members : at'[p] \in {other, NoMember} => other = m
      BY <2>1, MemberAssumption
    <2>3. Settled(m)'
      BY <2>1 DEF Settled
    <2> QED BY <2>1, <2>2, <2>3
  <1>5. ASSUME NEW m \in Members, Dispose(p, m) PROVE Settles(p)
    BY <1>5 DEF Dispose
  <1>6. CASE Assess(p)
    BY <1>6 DEF Assess
  <1> QED BY <1>1, <1>2, <1>3, <1>4, <1>5, <1>6 DEF Command

LEMMA RecoverSettles ==
  ASSUME Standing, NEW p \in Processes, Recover(p)
  PROVE  Settles(p)
  <1> USE DEF Standing
  <1>1. CASE RecoverNothing(p) \/ RecoverChild(p)
    BY <1>1 DEF RecoverNothing, RecoverChild, Settles, Typed, TypeOK
  <1>2. CASE Reread(p)
    <2>1. CASE End(p)
      BY <2>1 DEF Settles, Typed, TypeOK, AtAMember
    <2>2. CASE ~ End(p)
      <3>1. /\ job'[p] = "revive" /\ pc' = pc /\ pc[p] = "next" /\ members' = members
            /\ \A m \in Members : members[m].state \notin Unpaid
        BY <1>2, <2>2 DEF Reread, Typed, TypeOK
      <3>2. \A m \in Members : Settled(m)'
        BY <3>1 DEF Settled, Unpaid
      <3> QED BY <3>1, <3>2 DEF Settles, AtAMember
    <2> QED BY <2>1, <2>2
  <1>3. CASE ReviveNothing(p)
    <2>1. Returns(p)
      BY <1>3 DEF ReviveNothing, Returns, Typed, TypeOK
    <2> QED BY <1>3, <2>1, ReturningSettles DEF ProcessStep, Recover
  <1>4. CASE Revive(p)
    <2>1. /\ job' = job /\ job[p] = "revive" /\ at'[p] = First(todo[p]) /\ Recorded(First(todo[p]))
          /\ pc'[p] = "executed" /\ members' = members /\ UNCHANGED <<tasks, executions>>
      BY <1>4 DEF Revive, Typed, TypeOK
    <2>2. \A m \in Members : Settled(m)
      BY <2>1 DEF ScopeSettled
    <2> QED BY <2>1, <2>2 DEF Settles, Settled, Recorded
  <1>5. CASE Revived(p)
    <2>1. /\ job[p] = "revive" /\ job'[p] = "resume" /\ pc'[p] = "begin" /\ members' = members
          /\ UNCHANGED <<tasks, executions>>
      BY <1>5 DEF Revived, Typed, TypeOK
    <2>2. \A m \in Members : Settled(m)
      BY <2>1 DEF ScopeSettled
    <2> QED BY <2>1, <2>2 DEF Settles, Settled, Recorded, AtAMember
  <1> QED BY <1>1, <1>2, <1>3, <1>4, <1>5 DEF Recover

LEMMA EndSettles ==
  ASSUME Typed, NEW p \in Processes, End(p)
  PROVE  Settles(p)
  BY DEF Settles, Typed, TypeOK, AtAMember

LEMMA FailureSettles ==
  ASSUME Standing, NEW p \in Processes, ProcessStep(p), AtAMember(p),
         FailMember(p) \/ FailRun(p)
  PROVE  Settles(p)
  <1>1. CASE End(p)
    BY <1>1, EndSettles DEF Standing
  <1>2. CASE ~ End(p)
    <2>1. pc' = [pc EXCEPT ![p] = "save"] /\ UNCHANGED <<job, at, todo, view>>
      BY <1>2 DEF FailMember, FailRun
    <2>2. Stays(p)
      BY <2>1 DEF Stays, AtAMember, Standing, Typed, TypeOK
    <2> QED BY <2>2, StayingSettles
  <1> QED BY <1>1, <1>2

LEMMA StepSettles ==
  ASSUME Standing, NEW p \in Processes, ProcessStep(p)
  PROVE  Settles(p)
  <1> USE DEF Standing
  <1>s. Stays(p) \/ Returns(p) => Settles(p)
    BY StayingSettles, ReturningSettles
  <1>f. AtAMember(p) /\ (FailMember(p) \/ FailRun(p)) => Settles(p)
    BY FailureSettles
  <1>1. CASE Command(p) \/ Recover(p)
    BY <1>1, CommandSettles, RecoverSettles
  <1>2. CASE Begin(p) \/ NextMember(p)
    BY <1>2, BeginningSettles, TurningSettles
  <1>3. CASE Crash(p) \/ Conclude(p)
    BY <1>3, EndSettles DEF Crash, Conclude
  <1>4. CASE RecordArtifact(p) \/ RecordChild(p) \/ MarkAuthorized(p)
    BY <1>4, <1>s DEF RecordArtifact, RecordChild, MarkAuthorized, Stays, AtAMember, Typed, TypeOK
  <1>5. CASE ResolveTask(p)
    BY <1>5, <1>s DEF ResolveTask, Stays, AtAMember, Typed, TypeOK
  <1>6. CASE AuthorityExpired(p) \/ ResultRefused(p)
    BY <1>6, <1>f DEF AuthorityExpired, ResultRefused, AtAMember
  <1>7. CASE SaveExecuted(p)
    <2>1. CASE job[p] \in {"recover", "revive"}
      <3>1. Returns(p)
        BY <1>7, <2>1 DEF SaveExecuted, Returns, Typed, TypeOK
      <3> QED BY <3>1, <1>s
    <2>2. CASE job[p] \notin {"recover", "revive"}
      <3>1. Stays(p)
        BY <1>7, <2>2 DEF SaveExecuted, Stays, AtAMember, Typed, TypeOK
      <3> QED BY <3>1, <1>s
    <2> QED BY <2>1, <2>2
  <1>8. CASE SaveMember(p)
    BY <1>8, <1>s DEF SaveMember, Returns, Typed, TypeOK
  <1>9. CASE ResultKnown(p) \/ RecordResult(p) \/ Finalize(p)
    BY <1>9, <1>s DEF ResultKnown, RecordResult, Finalize, Stays, AtAMember, Typed, TypeOK
  <1>10. CASE Retrieve(p)
    BY <1>10, <1>s DEF Retrieve, Stays, AtAMember, Typed, TypeOK
  <1>11. CASE Execute(p)
    <2> USE DEF AtAMember
    <2>1. CASE Consume(p) \/ AlreadyConsumed(p) \/ Acquire(p) \/ MayBuy(p) \/ Post(p)
               \/ Answered(p) \/ AppendExecution(p) \/ ResolveExecuted(p)
      BY <2>1, <1>s DEF Consume, AlreadyConsumed, Acquire, MayBuy, Post, Answered, AppendExecution,
                        ResolveExecuted, Stays, Typed, TypeOK
    <2>2. CASE NotExecuted(p) \/ RefusedHere(p) \/ Unanswered(p) \/ AppendFails(p)
      BY <2>2, <1>f DEF NotExecuted, RefusedHere, Unanswered, AppendFails
    <2>3. CASE RefusedBudget(p) \/ TaskMissing(p)
      BY <2>3, <1>f DEF RefusedBudget, TaskMissing
    <2> QED BY <1>11, <2>1, <2>2, <2>3 DEF Execute
  <1> QED BY <1>1, <1>2, <1>3, <1>4, <1>5, <1>6, <1>7, <1>8, <1>9, <1>10, <1>11 DEF ProcessStep, Advance

LEMMA NextSettled ==
  ASSUME Typed, Buy, RowsBacked, RowsNamed, OneStart, JobFits, LoopActive,
         ScopeSettled, StartUntouched, [Next]_vars
  PROVE  ScopeSettled' /\ StartUntouched'
  <1>1. CASE UNCHANGED vars
    BY <1>1 DEF vars, ScopeSettled, StartUntouched, Settled, Sighted, Untouched, Recorded, AtAMember
  <1>2. ASSUME NEW a \in Authorizations, AuthorizeParent(a) \/ Expire(a)
        PROVE  ScopeSettled' /\ StartUntouched'
    BY <1>2 DEF AuthorizeParent, Expire, ScopeSettled, StartUntouched, Settled, Sighted, Untouched,
                Recorded, AtAMember
  <1>3. ASSUME NEW p \in Processes, ProcessStep(p), run.state = "NONE"
        PROVE  ScopeSettled' /\ StartUntouched'
    <2>1. \A q \in Processes : pc[q] = "idle" /\ job[q] = "none"
      BY <1>3 DEF OneStart, JobFits
    <2>2. PICK a \in Authorizations : Start(p, a)
      BY <1>3, FirstStart
    <2>3. pc'[p] = "begin" /\ job'[p] = "start" /\ Mine(p)
      BY <1>3, <2>2, StepIsMine DEF Start, Typed, TypeOK
    <2>4. \A q \in Processes : pc'[q] \in {"idle", "begin"} /\ job'[q] \in {"none", "start"}
                               /\ (job'[q] = "start" => pc'[q] = "begin")
      BY <2>1, <2>3 DEF Mine
    <2> QED BY <2>4 DEF ScopeSettled, StartUntouched
  <1>4. ASSUME NEW p \in Processes, ProcessStep(p), run.state # "NONE"
        PROVE  ScopeSettled' /\ StartUntouched'
    <2>1. Standing
      BY <1>4 DEF Standing
    <2>2. Settles(p) /\ Mine(p)
      BY <1>4, <2>1, StepSettles, StepIsMine
    <2>3. \A m \in Members : Recorded(m) => Recorded(m)'
      BY <1>4, RecordedStays DEF Next, ProcessStep
    <2>4. \A m \in Members : Settled(m) => Settled(m)'
      BY <1>4, SettledStays
    <2>5. \A m \in Members : Untouched(m) /\ (job[p] = "start" => at[p] # m) => Untouched(m)'
      BY <1>4, UntouchedStays
    <2>6. \A q \in Processes \ {p} : /\ todo[q] \subseteq Members
                                     /\ AtAMember(q) => at[q] \in Members
                                     /\ job[p] = "start" => job[q] # "start"
      BY DEF Typed, TypeOK, AtMember, OneStart
    <2>7. ASSUME NEW q \in Processes \ {p}
          PROVE  /\ job'[q] = "revive" => \A m \in Members : Settled(m)'
                 /\ job'[q] \in {"resume", "progress"} /\ pc'[q] = "begin" =>
                       \A m \in Members : at'[q] \in {m, NoMember} => Settled(m)'
      BY <2>2, <2>4 DEF Mine, ScopeSettled
    <2>8. ASSUME NEW q \in Processes \ {p}
          PROVE  /\ job'[q] \in {"resume", "progress"} /\ pc'[q] # "begin" =>
                       \A m \in todo'[q] : Sighted(q, m)'
                 /\ job'[q] \in {"revive", "resume", "progress"} /\ AtAMember(q)' => Recorded(at[q])'
      <3>1. job'[q] = job[q] /\ pc'[q] = pc[q] /\ at'[q] = at[q] /\ todo'[q] = todo[q] /\ view'[q] = view[q]
        BY <2>2 DEF Mine
      <3>2. ASSUME job'[q] \in {"resume", "progress"}, pc'[q] # "begin", NEW m \in todo'[q]
            PROVE  Sighted(q, m)'
        <4>1. Sighted(q, m) /\ m \in Members
          BY <2>6, <3>1, <3>2 DEF ScopeSettled
        <4> QED BY <2>3, <3>1, <4>1 DEF Sighted
      <3>3. ASSUME job'[q] \in {"revive", "resume", "progress"}, AtAMember(q)'
            PROVE  Recorded(at[q])'
        <4>1. Recorded(at[q]) /\ at[q] \in Members
          BY <2>6, <3>1, <3>3 DEF ScopeSettled, AtAMember
        <4> QED BY <2>3, <3>1, <4>1 DEF Recorded
      <3> QED BY <3>2, <3>3
    <2>9. ASSUME NEW q \in Processes \ {p}
          PROVE  /\ job'[q] = "start" /\ pc'[q] # "begin" =>
                       \A m \in todo'[q] \ {at'[q]} : view'[q][m].state = "READY" => Untouched(m)'
                 /\ pc'[q] \in {"artifact", "child", "mark"} => Untouched(at[q])'
      <3>1. job'[q] = job[q] /\ pc'[q] = pc[q] /\ at'[q] = at[q] /\ todo'[q] = todo[q] /\ view'[q] = view[q]
        BY <2>2 DEF Mine
      <3>2. ASSUME job'[q] = "start", pc'[q] # "begin", NEW m \in todo'[q] \ {at'[q]}, view'[q][m].state = "READY"
            PROVE  Untouched(m)'
        <4>1. Untouched(m) /\ m \in Members
          BY <2>6, <3>1, <3>2 DEF StartUntouched
        <4> QED BY <2>5, <2>6, <3>1, <3>2, <4>1
      <3>3. ASSUME pc'[q] \in {"artifact", "child", "mark"} PROVE Untouched(at[q])'
        <4>1. Untouched(at[q]) /\ at[q] \in Members /\ job[q] = "start"
          BY <2>6, <3>1, <3>3 DEF StartUntouched, JobFits, AtAMember
        <4>2. \A m \in Members : Untouched(m) => Untouched(m)'
          BY <2>5, <2>6, <4>1
        <4> QED BY <3>1, <4>1, <4>2 DEF Untouched, Recorded
      <3> QED BY <3>2, <3>3
    <2>10. ScopeSettled'
      BY <2>2, <2>7, <2>8 DEF Settles, ScopeSettled
    <2>11. StartUntouched'
      BY <2>2, <2>9 DEF Settles, StartUntouched
    <2> QED BY <2>10, <2>11
  <1> QED BY <1>1, <1>2, <1>3, <1>4 DEF Next, ProcessStep

(* ---- disposition ------------------------------------------------------------------ *)

(* What a step leaves of the members a START has yet to come to, and how it *)
(* comes to one it may buy for.                                              *)
Comes(p) ==
  /\ job'[p] = "start" /\ pc'[p] # "begin" =>
       \/ Begin(p)
       \/ /\ job[p] = "start" /\ pc[p] # "begin" /\ view'[p] = view[p] /\ todo'[p] \subseteq todo[p]
          /\ pc[p] = "save" => at[p] \notin todo'[p]
  /\ job'[p] = "start" /\ pc'[p] \in Paying =>
       \/ NextMember(p)
       \/ job[p] = "start" /\ pc[p] \in Paying /\ at'[p] = at[p]

LEMMA StepComes ==
  ASSUME Typed, JobFits, NEW p \in Processes, ProcessStep(p)
  PROVE  Comes(p)
  <1> USE DEF Typed, TypeOK, Comes, Paying, Buying, Owning, InLock
  <1>1. CASE Command(p)
    <2>1. CASE \E a \in Authorizations : Start(p, a)
      BY <2>1 DEF Start
    <2>2. CASE Resume(p)
      BY <2>2 DEF Resume
    <2>3. CASE Progress(p)
      BY <2>3 DEF Progress, JobFits
    <2>4. CASE (\E m \in Members : Check(p, m) \/ Dispose(p, m)) \/ Assess(p)
      BY <2>4 DEF Check, Dispose, Assess
    <2> QED BY <1>1, <2>1, <2>2, <2>3, <2>4 DEF Command
  <1>2. CASE Recover(p)
    <2>1. CASE RecoverChild(p)
      BY <2>1 DEF RecoverChild
    <2>2. CASE RecoverNothing(p) \/ ReviveNothing(p) \/ Revive(p) \/ Revived(p)
      BY <2>2 DEF RecoverNothing, ReviveNothing, Revive, Revived
    <2>3. CASE Reread(p)
      BY <2>3 DEF Reread
    <2> QED BY <1>2, <2>1, <2>2, <2>3 DEF Recover
  <1>3. CASE Advance(p)
    <2>1. CASE Begin(p)
      BY <2>1 DEF Begin, JobFits
    <2>2. CASE NextMember(p) \/ Conclude(p)
      BY <2>2 DEF NextMember, Conclude, Looping
    <2>3. CASE RecordArtifact(p) \/ RecordChild(p) \/ MarkAuthorized(p) \/ ResolveTask(p)
      BY <2>3 DEF RecordArtifact, RecordChild, MarkAuthorized, ResolveTask
    <2>4. CASE AuthorityExpired(p) \/ ResultRefused(p)
      BY <2>4 DEF AuthorityExpired, ResultRefused, FailRun
    <2>5. CASE SaveExecuted(p)
      BY <2>5 DEF SaveExecuted
    <2>6. CASE SaveMember(p)
      BY <2>6 DEF SaveMember
    <2>7. CASE ResultKnown(p) \/ RecordResult(p) \/ Finalize(p) \/ Retrieve(p)
      BY <2>7 DEF ResultKnown, RecordResult, Finalize, Retrieve
    <2> QED BY <1>3, <2>1, <2>2, <2>3, <2>4, <2>5, <2>6, <2>7 DEF Advance
  <1>4. CASE Execute(p)
    <2>1. CASE Consume(p) \/ AlreadyConsumed(p) \/ Acquire(p) \/ MayBuy(p) \/ Post(p)
               \/ Answered(p) \/ AppendExecution(p) \/ ResolveExecuted(p)
      BY <2>1 DEF Consume, AlreadyConsumed, Acquire, MayBuy, Post, Answered, AppendExecution, ResolveExecuted
    <2>2. CASE NotExecuted(p) \/ RefusedHere(p) \/ Unanswered(p) \/ AppendFails(p)
      BY <2>2 DEF NotExecuted, RefusedHere, Unanswered, AppendFails, FailMember
    <2>3. CASE RefusedBudget(p) \/ TaskMissing(p)
      BY <2>3 DEF RefusedBudget, TaskMissing, FailRun
    <2> QED BY <1>4, <2>1, <2>2, <2>3 DEF Execute
  <1>5. CASE Crash(p)
    BY <1>5 DEF Crash
  <1> QED BY <1>1, <1>2, <1>3, <1>4, <1>5 DEF ProcessStep

(* The row of a member that may be bought is left alone by everybody but    *)
(* the START that saves it.                                                  *)
LEMMA AheadStays ==
  ASSUME Typed, Buy, RowsBacked, JobFits, ScopeSettled, NEW p \in Processes, ProcessStep(p),
         NEW m \in Members, Ahead(m), ~(pc[p] = "save" /\ job[p] = "start" /\ at[p] = m)
  PROVE  Ahead(m)'
  <1>1. Recorded(m) => Recorded(m)'
    BY RecordedStays DEF Next, ProcessStep
  <1>2. Rewritten(p)
    BY StepRewrites
  <1>3. CASE members' = members
    BY <1>1, <1>3 DEF Ahead
  <1>4. CASE run.state = "NONE" /\ members' = NothingRead
    BY <1>4 DEF Ahead, NothingRead, ReadyRow, Unpaid
  <1>5. CASE pc[p] = "mark" /\ members' = [members EXCEPT ![at[p]] = Authorized]
    BY <1>1, <1>5 DEF Ahead, Authorized, Unpaid, Typed, TypeOK
  <1>6. CASE pc[p] \in {"executed", "save"} /\ members' = [members EXCEPT ![at[p]] = row[p]]
    <2>1. pc[p] = "executed" => Recorded(at[p])
      BY DEF RowsBacked
    <2>2. pc[p] = "save" /\ job[p] # "start" => Recorded(at[p])
      BY DEF JobFits, ScopeSettled, AtAMember
    <2>3. at[p] = m => Recorded(m)
      BY <1>6, <2>1, <2>2
    <2> QED BY <1>1, <1>6, <2>3 DEF Ahead, Typed, TypeOK
  <1> QED BY <1>2, <1>3, <1>4, <1>5, <1>6 DEF Rewritten

Disposal == Typed /\ Buy /\ RowsBacked /\ RowsNamed /\ OneStart /\ JobFits /\ ScopeSettled /\ DisposalInv

(* Nobody else comes to save the member of a START. *)
LEMMA OthersAhead ==
  ASSUME Disposal, NEW p \in Processes, ProcessStep(p), NEW q \in Processes \ {p},
         NEW m \in Members, Ahead(m), job[q] = "start"
  PROVE  Ahead(m)'
  <1>1. job[p] # "start"
    BY DEF Disposal, OneStart
  <1> QED BY <1>1, AheadStays DEF Disposal

(* What a START has yet to come to stays ahead. *)
LEMMA TodoStays ==
  ASSUME Disposal, NEW p \in Processes, ProcessStep(p)
  PROVE  StartTodoAhead'
  <1> USE DEF Disposal, DisposalInv
  <1>1. Mine(p) /\ Comes(p)
    BY StepIsMine, StepComes
  <1>2. \A q \in Processes : todo[q] \subseteq Members
    BY DEF Typed, TypeOK
  <1>3. ASSUME NEW q \in Processes, job'[q] = "start", pc'[q] # "begin",
               NEW m \in todo'[q], view'[q][m].state \in Unpaid
        PROVE  Ahead(m)'
    <2>1. CASE q # p
      <3>1. m \in Members /\ Ahead(m) /\ job[q] = "start"
        BY <1>1, <1>2, <1>3, <2>1 DEF Mine, StartTodoAhead
      <3> QED BY <2>1, <3>1, OthersAhead
    <2>2. CASE q = p /\ Begin(p)
      <3>1. members' = members /\ view'[p] = members
        BY <2>2 DEF Begin, Typed, TypeOK
      <3> QED BY <1>3, <2>2, <3>1 DEF Ahead
    <2>3. CASE q = p /\ ~Begin(p)
      <3>1. /\ job[p] = "start" /\ pc[p] # "begin" /\ view'[p] = view[p] /\ todo'[p] \subseteq todo[p]
            /\ pc[p] = "save" => at[p] \notin todo'[p]
        BY <1>1, <1>3, <2>3 DEF Comes
      <3>2. m \in Members /\ Ahead(m)
        BY <1>2, <1>3, <2>3, <3>1 DEF StartTodoAhead
      <3>3. ~(pc[p] = "save" /\ at[p] = m)
        BY <1>3, <2>3, <3>1
      <3> QED BY <3>2, <3>3, AheadStays
    <2> QED BY <2>1, <2>2, <2>3
  <1> QED BY <1>3 DEF StartTodoAhead

(* A START comes to pay only for a member that is ahead. *)
LEMMA PayingStays ==
  ASSUME Disposal, NEW p \in Processes, ProcessStep(p)
  PROVE  StartPaysAhead'
  <1> USE DEF Disposal, DisposalInv
  <1>1. Mine(p) /\ Comes(p) /\ Typed'
    BY StepIsMine, StepComes, NextTyped DEF Next, ProcessStep
  <1>2. ASSUME NEW q \in Processes, pc'[q] \in Paying PROVE at'[q] \in Members
    BY <1>1, <1>2 DEF Typed, AtMember, AtAMember, Paying, Buying, Owning, InLock
  <1>3. ASSUME NEW q \in Processes \ {p}, job'[q] = "start", pc'[q] \in Paying PROVE Ahead(at[q])'
    <2>1. at'[q] = at[q] /\ Ahead(at[q]) /\ job[q] = "start" /\ at[q] \in Members
      BY <1>1, <1>2, <1>3 DEF Mine, StartPaysAhead
    <2>2. \A m \in Members : Ahead(m) => Ahead(m)'
      BY <2>1, OthersAhead
    <2> QED BY <2>1, <2>2 DEF Ahead, Recorded
  <1>4. ASSUME job'[p] = "start", pc'[p] \in Paying PROVE Ahead(at[p])'
    <2>1. CASE NextMember(p)
      <3>1. /\ pc[p] = "next" /\ todo[p] # {} /\ at'[p] = First(todo[p]) /\ members' = members
            /\ UNCHANGED <<tasks, executions>> /\ job'[p] = job[p]
            /\ pc'[p] \in {"artifact", "task"} => view[p][First(todo[p])].state \in Unpaid
        BY <2>1 DEF NextMember, Looping, Typed, TypeOK, Unpaid
      <3>2. pc'[p] \in {"artifact", "task"}
        BY <1>4, <2>1 DEF NextMember, Typed, TypeOK, Paying, Buying, Owning, InLock
      <3>3. First(todo[p]) \in todo[p]
        BY <3>1, FirstIsLeft DEF Typed, TypeOK
      <3>4. Ahead(First(todo[p]))
        BY <1>4, <3>1, <3>2, <3>3 DEF StartTodoAhead
      <3> QED BY <3>1, <3>4 DEF Ahead, Recorded
    <2>2. CASE job[p] = "start" /\ pc[p] \in Paying /\ at'[p] = at[p]
      <3>1. Ahead(at[p]) /\ at[p] \in Members /\ pc[p] # "save"
        BY <1>2, <1>4, <2>2 DEF StartPaysAhead, Paying, Buying, Owning, InLock
      <3>2. \A m \in Members : Ahead(m) => Ahead(m)'
        BY <3>1, AheadStays
      <3> QED BY <2>2, <3>1, <3>2 DEF Ahead, Recorded
    <2> QED BY <1>1, <1>4, <2>1, <2>2 DEF Comes
  <1> QED BY <1>3, <1>4 DEF StartPaysAhead

(* Only an assessment disposes, and it alone contests. *)
LEMMA StepDisposes ==
  ASSUME NEW p \in Processes, ProcessStep(p), ~Assess(p)
  PROVE  disposed' = disposed /\ contested' = contested
  <1>1. CASE Command(p)
    BY <1>1 DEF Command, Start, Resume, Progress, Check, Dispose
  <1>2. CASE Recover(p)
    BY <1>2 DEF Recover, RecoverNothing, RecoverChild, Reread, ReviveNothing, Revive, Revived
  <1>3. CASE Advance(p)
    BY <1>3 DEF Advance, Begin, NextMember, Conclude, RecordArtifact, RecordChild, MarkAuthorized,
                ResolveTask, AuthorityExpired, SaveExecuted, ResultKnown, Retrieve, RecordResult,
                ResultRefused, Finalize, SaveMember
  <1>4. CASE Execute(p)
    BY <1>4 DEF Execute, Consume, AlreadyConsumed, NotExecuted, Acquire, RefusedHere, RefusedBudget,
                MayBuy, Post, Answered, Unanswered, AppendExecution, AppendFails, ResolveExecuted,
                TaskMissing
  <1>5. CASE Crash(p)
    BY <1>5 DEF Crash
  <1> QED BY <1>1, <1>2, <1>3, <1>4, <1>5 DEF ProcessStep

(* An owner is not made of a disposed child, nor a disposed child of an     *)
(* owner's.                                                                  *)
LEMMA StepOwns ==
  ASSUME Typed, NEW p \in Processes, ProcessStep(p)
  PROVE  /\ consumed \subseteq consumed'
         /\ pc'[p] \in Owning => \/ pc[p] \in Owning /\ at'[p] = at[p]
                                 \/ at[p] \notin consumed /\ at'[p] = at[p]
         /\ \A m \in tasks' \ tasks : pc[p] = "answer" /\ m = at[p]
  <1> USE DEF Typed, TypeOK, Owning, InLock
  <1>1. CASE (Command(p) \/ Recover(p) \/ Advance(p) \/ Crash(p))
    <2>1. CASE ResolveTask(p)
      BY <2>1 DEF ResolveTask
    <2>2. CASE ~ResolveTask(p)
      BY <1>1, <2>2, CalmSteps DEF Calm
    <2> QED BY <2>1, <2>2
  <1>2. CASE Execute(p)
    <2>1. CASE Consume(p) \/ AlreadyConsumed(p) \/ Acquire(p) \/ MayBuy(p) \/ Post(p)
               \/ Answered(p) \/ AppendExecution(p) \/ ResolveExecuted(p)
      BY <2>1 DEF Consume, AlreadyConsumed, Acquire, MayBuy, Post, Answered, AppendExecution, ResolveExecuted
    <2>2. CASE NotExecuted(p) \/ RefusedHere(p) \/ Unanswered(p) \/ AppendFails(p)
      BY <2>2 DEF NotExecuted, RefusedHere, Unanswered, AppendFails, FailMember
    <2>3. CASE RefusedBudget(p) \/ TaskMissing(p)
      BY <2>3 DEF RefusedBudget, TaskMissing, FailRun
    <2> QED BY <1>2, <2>1, <2>2, <2>3 DEF Execute
  <1> QED BY <1>1, <1>2 DEF ProcessStep

LEMMA DisposedStays ==
  ASSUME Disposal, NEW p \in Processes, ProcessStep(p)
  PROVE  DisposedLate'
  <1> USE DEF Disposal, DisposalInv
  <1>1. Mine(p) /\ Moved(p)
    BY StepIsMine, StepMoves
  <1>2. /\ consumed \subseteq consumed'
        /\ pc'[p] \in Owning => \/ pc[p] \in Owning /\ at'[p] = at[p]
                                \/ at[p] \notin consumed /\ at'[p] = at[p]
    BY StepOwns
  <1>3. CASE ~Assess(p)
    <2>1. disposed' = disposed /\ contested' = contested
      BY <1>3, StepDisposes
    <2>2. \A q \in Processes : pc'[q] \in Owning => at'[q] \notin disposed' \ contested'
      BY <1>1, <1>2, <2>1 DEF Mine, DisposedLate
    <2> QED BY <1>1, <1>2, <2>1, <2>2 DEF Moved, DisposedLate
  <1>4. CASE Assess(p)
    <2>1. /\ pc[p] = "assess" /\ pc'[p] = "idle" /\ consumed' = consumed /\ run' = run
          /\ disposed' = IF Disposable(at[p]) THEN disposed \cup {at[p]} ELSE disposed
          /\ contested' = IF Disposable(at[p]) /\ Contested(at[p]) THEN contested \cup {at[p]} ELSE contested
      BY <1>4 DEF Assess, Typed, TypeOK
    <2>2. run.state # "NONE"
      BY <2>1 DEF OneStart
    <2>3. disposed' \subseteq consumed
      BY <2>1 DEF DisposedLate, Disposable
    <2>4. ASSUME NEW q \in Processes, pc'[q] \in Owning PROVE at'[q] \notin disposed' \ contested'
      <3>1. q # p /\ pc[q] \in Owning /\ at'[q] = at[q]
        BY <1>1, <2>1, <2>4 DEF Mine, Owning, InLock
      <3>2. at[q] \notin disposed \ contested
        BY <3>1 DEF DisposedLate
      <3>3. at[q] = at[p] => Contested(at[p])
        BY <3>1 DEF Contested
      <3> QED BY <2>1, <3>1, <3>2, <3>3
    <2> QED BY <2>1, <2>2, <2>3, <2>4 DEF DisposedLate
  <1> QED BY <1>3, <1>4

(* No task appears for a disposed child, and no step rewrites its row. *)
LEMMA FinalStays ==
  ASSUME Disposal, NEW p \in Processes, ProcessStep(p)
  PROVE  DispositionFinal'
  <1> USE DEF Disposal, DisposalInv
  <1>1. ASSUME NEW m \in disposed \ contested
        PROVE  m \in Members /\ m \notin tasks' /\ members'[m].state = "EXCEPTION"
    <2>1. m \in Members /\ m \notin tasks /\ members[m].state = "EXCEPTION" /\ ~Recorded(m)
      BY DEF DispositionFinal, Final, Typed, TypeOK
    <2>2. m \notin tasks'
      <3>1. pc[p] = "answer" => at[p] # m
        BY DEF DisposedLate, Owning, InLock
      <3> QED BY <2>1, <3>1, StepOwns
    <2>3. CASE members' = members
      BY <2>1, <2>2, <2>3
    <2>4. CASE run.state = "NONE"
      BY <2>4 DEF DisposedLate
    <2>5. CASE pc[p] = "mark" /\ members' = [members EXCEPT ![at[p]] = Authorized]
      <3>1. at[p] # m
        BY <2>1, <2>5 DEF JobFits, StartPaysAhead, Paying, Ahead, Unpaid
      <3> QED BY <2>1, <2>2, <2>5, <3>1 DEF Typed, TypeOK
    <2>6. CASE pc[p] \in {"executed", "save"} /\ members' = [members EXCEPT ![at[p]] = row[p]]
      <3>1. ASSUME at[p] = m PROVE pc[p] = "save" /\ row[p].state = "EXCEPTION"
        <4>1. pc[p] = "save"
          BY <2>1, <2>6, <3>1 DEF RowsBacked
        <4>2. ~row[p].task
          BY <2>1, <3>1, <4>1 DEF RowsBacked, Working, AtAMember
        <4>3. row[p].state \notin Unpaid /\ Bought(row[p]) /\ row[p] \in Row
          BY <4>1 DEF RowsNamed, Typed, TypeOK
        <4> QED BY <4>1, <4>2, <4>3 DEF Bought, Row, Unfinished, Terminal, Unpaid
      <3> QED BY <2>1, <2>2, <2>6, <3>1 DEF Typed, TypeOK
    <2>7. Rewritten(p)
      BY StepRewrites
    <2> QED BY <2>1, <2>2, <2>3, <2>4, <2>5, <2>6, <2>7 DEF Rewritten
  <1>2. contested \subseteq contested'
    BY StepDisposes DEF Assess
  <1>3. ASSUME NEW m \in disposed' \ disposed PROVE m \notin tasks' /\ members'[m].state = "EXCEPTION"
    <2>1. Assess(p)
      BY <1>3, StepDisposes
    <2>2. m = at[p] /\ Disposable(m)
      BY <1>3, <2>1 DEF Assess
    <2> QED BY <2>1, <2>2 DEF Assess, Disposable
  <1>4. \A m \in disposed' \ contested' : m \notin tasks' /\ members'[m].state = "EXCEPTION"
    BY <1>1, <1>2, <1>3
  <1> QED BY <1>4 DEF DispositionFinal, Final, Recorded

(* The authorities change only by an operator's hand and the clock, and the *)
(* run keeps the one that started it.                                        *)
LEMMA StepAuthorized ==
  ASSUME Typed, OneStart, NEW p \in Processes, ProcessStep(p)
  PROVE  /\ parents' = parents
         /\ \/ run'.auth = run.auth /\ (run.state = "NONE" <=> run'.state = "NONE")
            \/ run.state = "NONE" /\ run'.auth \in Authorizations /\ parents[run'.auth] = "live"
  <1> USE DEF Typed, TypeOK, OneStart
  <1>1. CASE Command(p)
    <2>1. CASE \E a \in Authorizations : Start(p, a)
      BY <2>1 DEF Start
    <2>2. CASE Progress(p)
      BY <2>2 DEF Progress
    <2>3. CASE Resume(p) \/ (\E m \in Members : Check(p, m) \/ Dispose(p, m)) \/ Assess(p)
      BY <2>3 DEF Resume, Check, Dispose, Assess
    <2> QED BY <1>1, <2>1, <2>2, <2>3 DEF Command
  <1>2. CASE Recover(p)
    BY <1>2 DEF Recover, RecoverNothing, RecoverChild, Reread, ReviveNothing, Revive, Revived
  <1>3. CASE Advance(p)
    <2>1. CASE Conclude(p)
      BY <2>1 DEF Conclude, Looping, Verdict
    <2>2. CASE AuthorityExpired(p) \/ ResultRefused(p)
      BY <2>2 DEF AuthorityExpired, ResultRefused, FailRun
    <2>3. CASE ~Conclude(p) /\ ~AuthorityExpired(p) /\ ~ResultRefused(p)
      BY <1>3, <2>3 DEF Advance, Begin, NextMember, RecordArtifact, RecordChild, MarkAuthorized,
                ResolveTask, SaveExecuted, ResultKnown, Retrieve, RecordResult, Finalize, SaveMember
    <2> QED BY <2>1, <2>2, <2>3
  <1>4. CASE Execute(p)
    <2>1. CASE RefusedBudget(p) \/ TaskMissing(p)
      BY <2>1 DEF RefusedBudget, TaskMissing, FailRun
    <2>2. CASE ~RefusedBudget(p) /\ ~TaskMissing(p)
      BY <1>4, <2>2 DEF Execute, Consume, AlreadyConsumed, NotExecuted, Acquire, RefusedHere,
                MayBuy, Post, Answered, Unanswered, AppendExecution, AppendFails, ResolveExecuted
    <2> QED BY <2>1, <2>2
  <1>5. CASE Crash(p)
    BY <1>5 DEF Crash
  <1> QED BY <1>1, <1>2, <1>3, <1>4, <1>5 DEF ProcessStep

(* Once a child is disposed of, the authority of its run is over. *)
LEMMA ExpiredStays ==
  ASSUME Disposal, NEW p \in Processes, ProcessStep(p)
  PROVE  DisposedExpired'
  <1> USE DEF Disposal, DisposalInv
  <1>1. run'.state # "NONE" => run'.auth \in Authorizations /\ parents'[run'.auth] \in {"live", "expired"}
    BY StepAuthorized DEF DisposedExpired
  <1>2. ASSUME disposed' # {} PROVE ~Live'
    <2>1. run.state # "NONE" /\ ~Live
      <3>1. CASE Assess(p)
        BY <1>2, <3>1 DEF Assess, Disposable, DisposedExpired, OneStart
      <3>2. CASE ~Assess(p)
        BY <1>2, <3>2, StepDisposes DEF DisposedExpired, DisposedLate
      <3> QED BY <3>1, <3>2
    <2> QED BY <2>1, StepAuthorized DEF Live
  <1> QED BY <1>1, <1>2 DEF DisposedExpired

(* ---- the theorems -------------------------------------------------------------- *)

(* IInv groups what the lemmas above keep. *)
LEMMA Grouped ==
  IInv <=> /\ Typed /\ Buy /\ RowsBacked /\ RowsNamed
           /\ OneStart /\ JobFits /\ LoopActive /\ ScopeSettled /\ StartUntouched
  BY DEF IInv, Typed, Buy

(* Nothing is bought, recorded or read when the plan has no run. *)
THEOREM InitIInv == Init => IInv
  <1> SUFFICES ASSUME Init PROVE IInv
    OBVIOUS
  <1>1. pc = [p \in Processes |-> "idle"] /\ job = [p \in Processes |-> "none"] /\ todo = [p \in Processes |-> {}]
    BY DEF Init
  <1>2. Typed
    BY RowValues DEF Init, Typed, TypeOK, AtMember, AtAMember, RunStates, PC, Job, Lock!Init
  <1>3. Buy
    BY DEF Init, Buy, BoughtConsumed, OwnerConsumed, OneOwner, NotYetBought, NotYetAppended,
           ConsumedReachable, AnswerBought, OneTaskPerMember, Owning, InLock
  <1>4. RowsBacked /\ RowsNamed
    BY DEF Init, RowsBacked, RowsNamed, Working, AtAMember, NothingRead, ReadyRow, Bought
  <1>5. OneStart /\ JobFits
    BY DEF Init, OneStart, JobFits, Buying, Owning, InLock
  <1>6. LoopActive /\ ScopeSettled /\ StartUntouched
    BY <1>1 DEF LoopActive, ScopeSettled, StartUntouched
  <1> QED BY <1>2, <1>3, <1>4, <1>5, <1>6, Grouped

(* Every step of every command, every crash and every expiry keeps IInv. *)
THEOREM NextIInv == IInv /\ [Next]_vars => IInv'
  <1> SUFFICES ASSUME IInv, [Next]_vars PROVE IInv'
    OBVIOUS
  <1>1. /\ Typed /\ Buy /\ RowsBacked /\ RowsNamed
        /\ OneStart /\ JobFits /\ LoopActive /\ ScopeSettled /\ StartUntouched
    BY Grouped
  <1>2. Typed' /\ Buy'
    BY <1>1, NextTyped, NextBuys
  <1>3. RowsBacked' /\ RowsNamed'
    BY <1>1, NextRows
  <1>4. OneStart' /\ JobFits' /\ LoopActive'
    BY <1>1, NextJobs, NextLoops
  <1>5. ScopeSettled' /\ StartUntouched'
    BY <1>1, NextSettled
  <1> QED BY <1>2, <1>3, <1>4, <1>5 DEF IInv, Typed, Buy

(* The rows, ledgers and local variables of the commands keep their types. *)
THEOREM TypeCorrect == Spec => []TypeOK
  <1>1. IInv => TypeOK
    BY DEF IInv
  <1> QED BY InitIInv, NextIInv, <1>1, PTL DEF Spec

(* START, RESUME, progression, supervision and disposition together create  *)
(* at most one provider task for a member, also when commands overlap, die  *)
(* or lose their answer.                                                     *)
THEOREM OneTask == Spec => []OneTaskPerMember
  <1>1. IInv => OneTaskPerMember
    BY DEF IInv
  <1> QED BY InitIInv, NextIInv, <1>1, PTL DEF Spec

(* A checkpoint that updateMember() writes, from whatever copy of the row,  *)
(* claims a task only if both ledgers have it and it was created.            *)
THEOREM Checkpoints == Spec => []CheckpointsBacked
  <1>1. IInv => CheckpointsBacked
    <2> SUFFICES ASSUME IInv, NEW m \in Members, members[m].task
                 PROVE  Recorded(m) /\ posted[m] > 0
      BY DEF CheckpointsBacked
    <2>1. Recorded(m)
      BY DEF IInv, RowsBacked
    <2>2. posted[m] # 0 /\ posted[m] \in Nat
      BY <2>1 DEF IInv, AnswerBought, Recorded, TypeOK
    <2> QED BY <2>1, <2>2
  <1> QED BY InitIInv, NextIInv, <1>1, PTL DEF Spec

(* A member progression or supervision has come to is past its purchase:    *)
(* none of their steps creates a provider task.                              *)
THEOREM NeverBuys == Spec => ProgressionNeverBuys
  <1>1. ASSUME IInv, [Next]_vars, NEW m \in Members, posted'[m] # posted[m]
        PROVE  \E p \in Processes : at[p] = m /\ pc[p] = "post" /\ job[p] \in {"start", "recover"}
    <2>1. Typed /\ Buy /\ JobFits /\ ScopeSettled
      BY <1>1 DEF IInv, Typed, Buy
    <2>2. PICK p \in Processes : Post(p)
      <3>1. posted' # posted
        BY <1>1
      <3>2. Next
        BY <1>1, <3>1 DEF vars
      <3>3. ASSUME NEW a \in Authorizations, AuthorizeParent(a) \/ Expire(a) PROVE posted' = posted
        BY <3>3 DEF AuthorizeParent, Expire
      <3>4. ASSUME NEW p \in Processes, Command(p) \/ Recover(p) \/ Advance(p) \/ Crash(p)
            PROVE  posted' = posted
        BY <2>1, <3>4, CalmSteps DEF Calm, ResolveTask
      <3>5. ASSUME NEW p \in Processes, Execute(p), ~ Post(p) PROVE posted' = posted
        BY <2>1, <3>5, CalmExecution DEF Execute, Calm, Consume, Acquire, MayBuy, Answered, Unanswered,
                                         AppendExecution
      <3> QED BY <3>1, <3>2, <3>3, <3>4, <3>5 DEF Next
    <2>3. at[p] = m /\ pc[p] = "post"
      BY <1>1, <2>1, <2>2 DEF Post, Typed, TypeOK
    <2>4. executions[m] = "none"
      BY <2>1, <2>3 DEF Buy, NotYetAppended, Owning, InLock
    <2>5. job[p] \notin {"revive", "resume", "progress"}
      BY <2>1, <2>3, <2>4 DEF ScopeSettled, AtAMember, Recorded
    <2>6. job[p] \in {"start", "recover"}
      BY <2>1, <2>3, <2>5 DEF JobFits, PaidCommand
    <2> QED BY <2>3, <2>6
  <1>2. ASSUME IInv, [Next]_vars
        PROVE  [ \A m \in Members :
                   posted'[m] # posted[m] =>
                     \E p \in Processes :
                         /\ at[p] = m /\ pc[p] = "post"
                         /\ job[p] \in {"start", "recover"} ]_posted
    BY <1>1, <1>2
  <1> QED BY InitIInv, NextIInv, <1>2, PTL DEF Spec, ProgressionNeverBuys

LEMMA InitDisposal == Init => DisposalInv
  BY DEF Init, DisposalInv, StartPaysAhead, StartTodoAhead, DisposedLate, DisposedExpired, DispositionFinal,
         Owning, InLock

LEMMA NextDisposal ==
  ASSUME IInv, DisposalInv, [Next]_vars
  PROVE  DisposalInv'
  <1>1. Disposal
    BY Grouped DEF Disposal
  <1>2. CASE UNCHANGED vars
    BY <1>2 DEF vars, DisposalInv, StartPaysAhead, StartTodoAhead,
                DisposedLate, DisposedExpired, DispositionFinal, Final, Ahead, Recorded, Live
  <1>3. ASSUME NEW a \in Authorizations, AuthorizeParent(a) \/ Expire(a) PROVE DisposalInv'
    <2>1. DisposedExpired'
      BY <1>1, <1>3 DEF AuthorizeParent, Expire, Disposal, DisposalInv, DisposedExpired, DisposedLate, Live,
                        Typed, TypeOK
    <2> QED BY <1>3, <2>1 DEF AuthorizeParent, Expire, DisposalInv, StartPaysAhead,
                StartTodoAhead, DisposedLate, DispositionFinal, Final, Ahead, Recorded
  <1>4. ASSUME NEW p \in Processes, ProcessStep(p) PROVE DisposalInv'
    <2>1. StartPaysAhead' /\ StartTodoAhead'
      BY <1>1, <1>4, PayingStays, TodoStays
    <2>2. DisposedLate' /\ DisposedExpired' /\ DispositionFinal'
      BY <1>1, <1>4, DisposedStays, ExpiredStays, FinalStays
    <2> QED BY <2>1, <2>2 DEF DisposalInv
  <1> QED BY <1>2, <1>3, <1>4 DEF Next, ProcessStep

(* Whatever commands overlap, die, expire or are supervised: no task of a   *)
(* disposed child appears and its member stays the exception it was, unless *)
(* a process that had consumed the child had still to buy at that moment.   *)
THEOREM DispositionsFinal == Spec => []DispositionFinal
  <1>1. DisposalInv => DispositionFinal
    BY DEF DisposalInv
  <1>2. IInv /\ DisposalInv /\ [Next]_vars => IInv' /\ DisposalInv'
    BY NextIInv, NextDisposal
  <1> QED BY InitIInv, InitDisposal, <1>1, <1>2, PTL DEF Spec

(* Whatever dies between the purchase and the checkpoint: while the         *)
(* authority lives, RESUME finds the artifact and the child it resolves the *)
(* recorded task by, and no disposition keeps it from the member.           *)
THEOREM RecordedFound == Spec => []RecordedTaskFound
  <1>1. IInv /\ DisposalInv => RecordedTaskFound
    <2> SUFFICES ASSUME IInv, DisposalInv, NEW m \in Members, Recorded(m), Live
                 PROVE  m \in artifacts /\ m \in children /\ m \notin disposed
      BY DEF RecordedTaskFound
    <2>1. m \in artifacts /\ m \in children
      BY DEF IInv, Recorded, BoughtConsumed, ConsumedReachable
    <2> QED BY <2>1 DEF DisposalInv, DisposedExpired
  <1>2. IInv /\ DisposalInv /\ [Next]_vars => IInv' /\ DisposalInv'
    BY NextIInv, NextDisposal
  <1> QED BY InitIInv, InitDisposal, <1>1, <1>2, PTL DEF Spec
=============================================================================
