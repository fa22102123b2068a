------------------------ MODULE PublicationSagaProofs ------------------------
(***************************************************************************)
(* Proofs about PublicationSaga, for every set of invocations and          *)
(* candidates, every validity, every length of a day and every number of   *)
(* crashes and decisions.                                                  *)
(***************************************************************************)
EXTENDS PublicationSaga, SequenceTheorems, TLAPS

USE CandidateAssumption, TimeAssumption, DecisionAssumption, NoneAssumption
    DEF CandidateAssumption, TimeAssumption, DecisionAssumption, NoneAssumption

-----------------------------------------------------------------------------
Preparing == {"start", "promote", "artifact", "manifest", "record", "begin", "build", "consume", "commit"}
Working == {"authorize", "checkpoint", "push", "main"} \cup Preparing

(* What an invocation has in hand, by where it is. *)
Fits(where, what, m) ==
  /\ where \in {"receipt", "command", "settle"} => what = "binding"
  /\ what = "binding" => m.run # 0
  /\ where \in {"lock to observe", "observe", "accept", "fail"} \cup Working => m.cand # 0
  /\ where \in {"checkpoint", "push", "main"} \cup Preparing =>
       m.child \in Child /\ m.child.cand = m.cand /\ m.child.base = m.base
  /\ where = "accept" => m.completed # None /\ m.completed < FreshUntil[m.cand]
  /\ where \in {"lock to observe", "observe", "fail"} => operations[m.cand].status # "NONE"

CommandsSound == \A p \in Processes : Fits(pc[p], job[p], my[p])

(* One invocation executes: it is the one in the lock. *)
LockSound ==
  /\ \A p, q \in writers : p = q
  /\ \A p \in Processes : pc[p] \in Executing => p \in writers

(* A receipt is recorded no later than the invocation it stands for. *)
ReceiptsSound == \A c \in Candidates : invoked[c] <= 1 /\ (receipts[c] = "NONE" => invoked[c] = 0)

Prefix(s, t) == Len(s) <= Len(t) /\ \A i \in 1..Len(s) : t[i] = s[i]
Distinct(s) == \A i, j \in 1..Len(s) : s[i] = s[j] /\ s[i] # Others => i = j

(* What is recorded of an operation, against the candidates and the main branch. *)
OperationSound(c) ==
  LET o == operations[c] IN
  /\ o.status = "NONE" => o = NoOperation
  /\ o.status # "NONE" => o.child \in children /\ o.child.cand = c /\ c <= candidate
  /\ o.clean = None => o.attempts = 0
  /\ o.status = "LIVE_ACCEPTED" =>
       /\ o.commit \in Commits /\ o.commit = Append(o.child.base, c) /\ Prefix(o.commit, remote)
       /\ o.completed # None /\ o.completed < FreshUntil[c]

OperationsSound ==
  /\ \A c \in Candidates : OperationSound(c)
  /\ \A c, d \in Candidates :
       c < d /\ operations[c].status = "LIVE_ACCEPTED" /\ operations[d].status # "NONE"
         => operations[c].child.day # operations[d].child.day

(* The histories: what the checkout last saw on the main branch is recorded *)
(* as a checkpoint, and the last candidate's checkpoint is the head.        *)
HistorySound ==
  /\ Distinct(head) /\ Distinct(remote)
  /\ \A i \in 1..Len(tracking) : tracking[i] # Others => operations[tracking[i]].commit # None
  /\ candidate # 0 /\ operations[candidate].commit # None => operations[candidate].commit = head

Youngest(c) == c <= candidate /\ \A d \in Candidates : d > c => operations[d].status = "NONE"

(* What the invocation in the lock relies on until it writes. *)
WorkSound(where, m) ==
  LET o == operations[m.cand] IN
  /\ where \in {"lock to run", "read"} => candidate # 0
  /\ where \in Working => Youngest(m.cand) /\ o.status \notin {"FAILED", "LIVE_ACCEPTED"}
  /\ where \in {"authorize"} \cup Preparing => head = m.base /\ tracking = m.base
  /\ where = "authorize" => o.commit \in {None, head}
  /\ where \in {"checkpoint"} \cup Preparing => o.status # "NONE" /\ o.commit = None
  /\ where = "checkpoint" => head = Append(m.base, m.cand) /\ tracking = m.base
  /\ where = "push" => /\ o.status # "NONE" /\ o.commit = head /\ tracking = m.base
                       /\ head = m.base \/ head = Append(m.base, m.cand)
  /\ where = "main" => o.status # "NONE"
  /\ where = "accept" => /\ Youngest(m.cand) /\ o.status = "DEPLOYMENT_PENDING" /\ o.commit \in Commits
                         /\ o.commit = Append(o.child.base, m.cand) /\ Prefix(o.commit, remote)

WorksSound == \A p \in Processes : WorkSound(pc[p], my[p])

IInv == /\ TypeOK /\ CommandsSound /\ LockSound /\ ReceiptsSound
        /\ OperationsSound /\ HistorySound /\ WorksSound
-----------------------------------------------------------------------------
Jobs == {"none", "binding", "run", "observe"}
CommandType == pc \in [Processes -> PC] /\ job \in [Processes -> Jobs] /\ my \in [Processes -> My]
StateType ==
  /\ now \in 0..MaxTime /\ candidate \in Releases /\ mandate \in {"ENABLED", "PAUSED", "REVOKED"}
  /\ children \subseteq Child /\ operations \in [Candidates -> Operation]
  /\ inner \in [Candidates -> SUBSET Inner]
  /\ receipts \in [Candidates -> {"NONE", "INVOCATION_RECORDED", "SETTLED"}]
  /\ release \in [cand : Releases, prev : Releases] /\ dirty \subseteq Path
  /\ head \in Commits /\ tracking \in Commits /\ remote \in Commits
  /\ writers \subseteq Processes
  /\ invoked \in [Candidates -> Nat] /\ events \in 0..MaxEvents

(* The parts of the type invariant. *)
LEMMA TypeParts == TypeOK <=> CommandType /\ StateType
<1>1. TypeOK => CommandType /\ StateType
  BY DEF TypeOK, CommandType, StateType, Jobs
<1>2. CommandType /\ StateType => TypeOK
  BY DEF TypeOK, CommandType, StateType, Jobs
<1>3. QED
  BY <1>1, <1>2

Moved(p, to, what, m) ==
  pc' = [pc EXCEPT ![p] = to] /\ job' = [job EXCEPT ![p] = what] /\ my' = [my EXCEPT ![p] = m]

(* What the invocation that moved is, and that the others are as they were. *)
LEMMA MovedOnly ==
  ASSUME CommandType, NEW p \in Processes, NEW to, NEW what, NEW m, Moved(p, to, what, m)
  PROVE  /\ pc'[p] = to /\ job'[p] = what /\ my'[p] = m
         /\ \A q \in Processes : q # p => pc'[q] = pc[q] /\ job'[q] = job[q] /\ my'[q] = my[q]
BY DEF CommandType, Moved

(* No operation disappears. *)
NothingLost == \A c \in Candidates : operations[c].status # "NONE" => operations'[c].status # "NONE"

LEMMA CommandFrame ==
  ASSUME CommandType, CommandsSound, NEW p \in Processes, NEW to \in PC, NEW what \in Jobs, NEW m \in My,
         Fits(to, what, m), Moved(p, to, what, m), NothingLost
  PROVE  CommandType' /\ CommandsSound'
<1>1. CommandType'
  BY DEF CommandType, Moved
<1>2. ASSUME NEW q \in Processes PROVE Fits(pc[q], job[q], my[q])'
  <2>1. CASE q = p
    <3>1. pc'[q] = to /\ job'[q] = what /\ my'[q] = m
      BY <2>1, MovedOnly
    <3>2. m.cand # 0 => m.cand \in Candidates
      BY DEF My, Releases
    <3>3. QED
      BY <3>1, <3>2 DEF Fits, NothingLost
  <2>2. CASE q # p
    <3>1. pc'[q] = pc[q] /\ job'[q] = job[q] /\ my'[q] = my[q]
      BY <2>2, MovedOnly
    <3>2. my[q].cand # 0 => my[q].cand \in Candidates
      BY DEF CommandType, My, Releases
    <3>3. QED
      BY <3>1, <3>2 DEF CommandsSound, Fits, NothingLost
  <2>3. QED
    BY <2>1, <2>2
<1>3. QED
  BY <1>1, <1>2 DEF CommandsSound

(* The lock: whoever executes stays in it, and leaves it when it no longer does. *)
LEMMA LockFrame ==
  ASSUME CommandType, LockSound, NEW p \in Processes, NEW to, NEW what, NEW m, Moved(p, to, what, m),
         \/ writers' = writers /\ (to \in Executing => p \in writers)
         \/ writers' = writers \ {p} /\ to \notin Executing
  PROVE  LockSound'
<1>1. pc'[p] = to /\ \A q \in Processes : q # p => pc'[q] = pc[q]
  BY MovedOnly
<1>2. \A q, r \in writers' : q = r
  BY DEF LockSound
<1>3. \A q \in Processes : pc'[q] \in Executing => q \in writers'
  BY <1>1 DEF LockSound
<1>4. QED
  BY <1>2, <1>3 DEF LockSound

LEMMA OthersOutside ==
  ASSUME LockSound, NEW p \in Processes, pc[p] \in Executing, NEW q \in Processes, q # p
  PROVE  pc[q] \notin Executing
BY DEF LockSound

(* A place before the work relies on no more than a candidate. *)
LEMMA RestingWork ==
  ASSUME NEW to, to \notin Working \cup {"accept"}, to \in {"lock to run", "read"} => candidate # 0, NEW m
  PROVE  WorkSound(to, m)
BY DEF WorkSound, Working

LEMMA WorkingExecutes == Working \cup {"accept"} \subseteq Executing
BY DEF Working, Preparing, Executing

LEMMA WorkFrame ==
  ASSUME CommandType, LockSound, WorksSound, NEW p \in Processes, pc[p] \in Executing,
         NEW to, NEW what, NEW m, Moved(p, to, what, m), WorkSound(to, m)', candidate' = candidate
  PROVE  WorksSound'
<1>1. ASSUME NEW q \in Processes PROVE WorkSound(pc[q], my[q])'
  <2>1. CASE q = p
    <3>1. pc'[q] = to /\ my'[q] = m
      BY <2>1, MovedOnly
    <3>2. QED
      BY <3>1 DEF WorkSound, Youngest
  <2>2. CASE q # p
    <3>1. pc'[q] = pc[q] /\ pc[q] \notin Executing
      BY <2>2, MovedOnly, OthersOutside
    <3>2. pc'[q] \notin Working \cup {"accept"}
      BY <3>1, WorkingExecutes
    <3>3. pc[q] \in {"lock to run", "read"} => candidate # 0
      BY DEF WorksSound, WorkSound
    <3>4. QED
      BY <3>1, <3>2, <3>3 DEF WorkSound, Working
  <2>3. QED
    BY <2>1, <2>2
<1>2. QED
  BY <1>1 DEF WorksSound

(* ... and one that comes to rest, while nothing is recorded, disturbs nobody. *)
LEMMA RestFrame ==
  ASSUME CommandType, WorksSound, NEW p \in Processes, NEW to,
         NEW what, NEW m, Moved(p, to, what, m), WorkSound(to, m), UNCHANGED <<candidate, operations, head, tracking, remote>>
  PROVE  WorksSound'
<1>1. ASSUME NEW q \in Processes PROVE WorkSound(pc[q], my[q])'
  <2>1. CASE q = p
    <3>1. pc'[q] = to /\ my'[q] = m
      BY <2>1, MovedOnly
    <3>2. QED
      BY <3>1 DEF WorkSound, Youngest
  <2>2. CASE q # p
    <3>1. pc'[q] = pc[q] /\ my'[q] = my[q]
      BY <2>2, MovedOnly
    <3>2. WorkSound(pc[q], my[q])
      BY DEF WorksSound
    <3>3. QED
      BY <3>1, <3>2 DEF WorkSound, Youngest
  <2>3. QED
    BY <2>1, <2>2
<1>2. QED
  BY <1>1 DEF WorksSound

LEMMA RecordsKept ==
  ASSUME OperationsSound, HistorySound, UNCHANGED <<candidate, children, operations, head, tracking, remote>>
  PROVE  OperationsSound' /\ HistorySound'
<1>1. OperationsSound'
  <2>1. ASSUME NEW c \in Candidates, OperationSound(c) PROVE OperationSound(c)'
    BY <2>1 DEF OperationSound, Prefix
  <2>2. QED
    BY <2>1 DEF OperationsSound
<1>2. HistorySound'
  BY DEF HistorySound, Distinct
<1>3. QED
  BY <1>1, <1>2

LEMMA ReceiptsKept == ASSUME ReceiptsSound, UNCHANGED <<receipts, invoked>> PROVE ReceiptsSound'
BY DEF ReceiptsSound

LEMMA NothingReadType == NothingRead \in My
BY DEF NothingRead, My, Commits, Releases

LEMMA PlacesType ==
  /\ {"idle", "receipt", "command", "lock to run", "lock to observe", "settle"} \subseteq PC
  /\ Executing \subseteq PC
BY DEF PC

(* An invocation that leaves, and one that finishes: the binding has its receipt to complete. *)
LEMMA LeaveMoves ==
  ASSUME CommandType, NEW p \in Processes, Leave(p)
  PROVE  Moved(p, "idle", "none", NothingRead) /\ Fits("idle", "none", NothingRead)
<1>1. Moved(p, "idle", "none", NothingRead)
  BY DEF Leave, Goto, Moved
<1>2. Fits("idle", "none", NothingRead)
  BY DEF Fits, Working, Preparing
<1>3. QED
  BY <1>1, <1>2

LEMMA FinishMoves ==
  ASSUME CommandType, CommandsSound, NEW p \in Processes, Finish(p)
  PROVE  /\ writers' = writers \ {p}
         /\ \E to \in {"idle", "settle"}, what \in Jobs, m \in My : Moved(p, to, what, m) /\ Fits(to, what, m)
<1>1. writers' = writers \ {p}
  BY DEF Finish
<1>2. CASE job[p] = "binding"
  <2>1. PICK m : m = [NothingRead EXCEPT !.run = my[p].run]
    OBVIOUS
  <2>2. my[p] \in My /\ my[p].run # 0 /\ my[p].run \in Releases
    BY <1>2 DEF CommandType, CommandsSound, Fits, My
  <2>3. m \in My /\ m.run = my[p].run
    BY <2>1, <2>2, NothingReadType DEF My
  <2>4. job' = [job EXCEPT ![p] = "binding"]
    BY <1>2 DEF Finish, CommandType
  <2>5. Moved(p, "settle", "binding", m)
    BY <1>2, <2>1, <2>4 DEF Finish, Goto, Moved
  <2>6. Fits("settle", "binding", m)
    BY <2>2, <2>3 DEF Fits, Working, Preparing
  <2>7. "binding" \in Jobs
    BY DEF Jobs
  <2>8. QED
    BY <1>1, <2>3, <2>5, <2>6, <2>7
<1>3. CASE job[p] # "binding"
  <2>1. Leave(p)
    BY <1>3 DEF Finish
  <2>2. "none" \in Jobs
    BY DEF Jobs
  <2>3. QED
    BY <1>1, <2>1, <2>2, LeaveMoves, NothingReadType
<1>4. QED
  BY <1>2, <1>3

Recorded == <<candidate, children, operations, head, tracking, remote, receipts, invoked>>

(* A step to a place of rest that records nothing keeps the invariant. *)
LEMMA RestKeeps ==
  ASSUME IInv, NEW p \in Processes, NEW to \in PC,
         NEW what \in Jobs, NEW m \in My, Moved(p, to, what, m), Fits(to, what, m), WorkSound(to, m),
         UNCHANGED Recorded, StateType', LockSound'
  PROVE  IInv'
<1>1. CommandType /\ CommandsSound /\ WorksSound /\ OperationsSound /\ HistorySound /\ ReceiptsSound
  BY TypeParts DEF IInv
<1>2. CommandType' /\ CommandsSound'
  BY <1>1, CommandFrame DEF Recorded, NothingLost
<1>3. TypeOK'
  BY <1>2 DEF TypeOK, CommandType, StateType, Jobs
<1>4. WorksSound' /\ OperationsSound' /\ HistorySound' /\ ReceiptsSound'
  BY <1>1, RestFrame, RecordsKept, ReceiptsKept DEF Recorded
<1>5. QED
  BY <1>2, <1>3, <1>4 DEF IInv

LEMMA FinishKeeps ==
  ASSUME IInv, NEW p \in Processes, Finish(p), UNCHANGED Recorded, StateType'
  PROVE  IInv'
<1>1. CommandType /\ CommandsSound /\ LockSound
  BY TypeParts DEF IInv
<1>2. writers' = writers \ {p}
  BY <1>1, FinishMoves
<1>3. PICK to \in {"idle", "settle"}, what \in Jobs, m \in My : Moved(p, to, what, m) /\ Fits(to, what, m)
  BY <1>1, FinishMoves
<1>4. to \in PC /\ to \notin Executing /\ to \notin Working \cup {"accept"} /\ WorkSound(to, m)
  BY <1>3, WorkingExecutes, PlacesType, RestingWork DEF Executing
<1>5. LockSound'
  BY <1>1, <1>2, <1>3, <1>4, LockFrame
<1>6. QED
  BY <1>3, <1>4, <1>5, RestKeeps

(* A step of the invocation in the lock that records nothing. *)
LEMMA WorkKeeps ==
  ASSUME IInv, NEW p \in Processes, pc[p] \in Executing, NEW to \in PC,
         NEW what \in Jobs, NEW m \in My, Moved(p, to, what, m), Fits(to, what, m),
         UNCHANGED Recorded, writers' = writers, StateType', WorkSound(to, m)
  PROVE  IInv'
<1>1. CommandType /\ CommandsSound /\ LockSound /\ OperationsSound /\ HistorySound /\ ReceiptsSound
      /\ WorksSound
  BY TypeParts DEF IInv
<1>2. CommandType' /\ CommandsSound'
  BY <1>1, CommandFrame DEF Recorded, NothingLost
<1>3. TypeOK'
  BY <1>2 DEF TypeOK, CommandType, StateType, Jobs
<1>4. OperationsSound' /\ HistorySound' /\ ReceiptsSound'
  BY <1>1, RecordsKept, ReceiptsKept DEF Recorded
<1>5. WorkSound(to, m)'
  BY DEF WorkSound, Recorded, Youngest, Prefix
<1>6. WorksSound'
  BY <1>1, <1>5, WorkFrame DEF Recorded
<1>7. LockSound'
  BY <1>1, LockFrame DEF LockSound
<1>8. QED
  BY <1>2, <1>3, <1>4, <1>6, <1>7 DEF IInv
-----------------------------------------------------------------------------
LEMMA Appended ==
  ASSUME NEW s \in Commits, NEW x \in Candidates \cup {Others}
  PROVE  /\ Append(s, x) \in Commits /\ Len(Append(s, x)) = Len(s) + 1 /\ Len(s) \in Nat
         /\ Append(s, x)[Len(s) + 1] = x /\ \A i \in 1..Len(s) : Append(s, x)[i] = s[i]
BY DEF Commits

LEMMA SelfPrefix == ASSUME NEW s \in Commits PROVE Prefix(s, s)
<1>1. Len(s) \in Nat
  BY DEF Commits
<1>2. QED
  BY <1>1 DEF Prefix

LEMMA PrefixSub ==
  ASSUME NEW s \in Commits, NEW t \in Commits, Prefix(s, t)
  PROVE  SubSeq(t, 1, Len(s)) = s
<1>1. Len(s) \in Nat /\ Len(t) \in Nat /\ Len(s) <= Len(t) /\ \A i \in 1..Len(s) : t[i] = s[i]
  BY DEF Prefix, Commits
<1>2. s = [i \in 1..Len(s) |-> s[i]]
  BY DEF Commits
<1>3. SubSeq(t, 1, Len(s)) = [i \in 1..Len(s) |-> t[i]]
  BY <1>1 DEF Commits
<1>4. QED
  BY <1>1, <1>2, <1>3

LEMMA PrefixAppended ==
  ASSUME NEW s \in Commits, NEW t \in Commits, NEW x \in Candidates \cup {Others}, Prefix(s, t)
  PROVE  Prefix(s, Append(t, x))
<1>1. Len(s) \in Nat /\ Len(t) \in Nat /\ Len(s) <= Len(t) /\ \A i \in 1..Len(s) : t[i] = s[i]
  BY DEF Prefix, Commits
<1>2. \A i \in 1..Len(s) : i \in 1..Len(t)
  BY <1>1
<1>3. QED
  BY <1>1, <1>2, Appended DEF Prefix

LEMMA DistinctAppended ==
  ASSUME NEW s \in Commits, NEW x \in Candidates \cup {Others}, Distinct(s),
         x = Others \/ \A i \in 1..Len(s) : s[i] # x
  PROVE  Distinct(Append(s, x))
<1> DEFINE t == Append(s, x)
<1>1. /\ Len(t) = Len(s) + 1 /\ Len(s) \in Nat
      /\ t[Len(s) + 1] = x /\ \A i \in 1..Len(s) : t[i] = s[i]
  BY Appended
<1> HIDE DEF t
<1>2. ASSUME NEW i \in 1..Len(t), NEW j \in 1..Len(t), t[i] = t[j], t[i] # Others PROVE i = j
  <2>1. (i \in 1..Len(s) \/ i = Len(s) + 1) /\ (j \in 1..Len(s) \/ j = Len(s) + 1)
    BY <1>1
  <2>2. CASE i \in 1..Len(s) /\ j \in 1..Len(s)
    BY <1>1, <1>2, <2>2 DEF Distinct
  <2>3. CASE i \in 1..Len(s) /\ j = Len(s) + 1
    BY <1>1, <1>2, <2>3
  <2>4. CASE i = Len(s) + 1 /\ j \in 1..Len(s)
    BY <1>1, <1>2, <2>4
  <2>5. QED
    BY <2>1, <2>2, <2>3, <2>4
<1>3. QED
  BY <1>2 DEF t, Distinct

(* The world around the invocations. *)
LEMMA WorldKeeps == ASSUME IInv, World PROVE IInv'
<1>1. CommandType /\ StateType /\ CommandsSound /\ LockSound /\ OperationsSound /\ HistorySound /\ ReceiptsSound
      /\ WorksSound
  BY TypeParts DEF IInv
<1>2. UNCHANGED process /\ UNCHANGED <<children, operations, head, tracking, receipts, invoked, inner, release, dirty>>
  BY DEF World, Tick, Certify, OthersPush, Transition, authority, checkout, history
<1>3. UNCHANGED <<pc, job, my, writers>>
  BY <1>2 DEF process
<1>4. CommandType' /\ CommandsSound' /\ LockSound' /\ ReceiptsSound'
  BY <1>1, <1>2, <1>3 DEF CommandType, CommandsSound, Fits, LockSound, ReceiptsSound
<1>5. StateType'
  <2>1. CASE Tick
    BY <1>1, <1>2, <1>3, <2>1 DEF Tick, StateType, authority, checkout, history
  <2>2. CASE Certify
    BY <1>1, <1>2, <1>3, <2>2 DEF Certify, StateType, authority, checkout, history, Releases
  <2>3. CASE OthersPush
    <3>1. remote' \in Commits
      BY <1>1, <2>3, Appended DEF OthersPush, StateType
    <3>2. QED
      BY <1>1, <1>2, <1>3, <2>3, <3>1 DEF OthersPush, StateType, authority, checkout, history
  <2>4. CASE \E status \in Decisions : Transition(status)
    BY <1>1, <1>2, <1>3, <2>4 DEF Transition, StateType, checkout
  <2>5. QED
    BY <2>1, <2>2, <2>3, <2>4 DEF World
<1>6. TypeOK'
  BY <1>4, <1>5 DEF TypeOK, CommandType, StateType, Jobs
<1>7. CASE UNCHANGED <<candidate, remote>>
  <2>1. OperationsSound' /\ HistorySound'
    BY <1>1, <1>2, <1>7, RecordsKept
  <2>2. WorksSound'
    <3> SUFFICES ASSUME NEW p \in Processes PROVE WorkSound(pc[p], my[p])'
      BY <1>3 DEF WorksSound
    <3>1. WorkSound(pc[p], my[p])
      BY <1>1 DEF WorksSound
    <3>2. Youngest(my[p].cand)' <=> Youngest(my[p].cand)
      BY <1>2, <1>3, <1>7 DEF Youngest
    <3>3. QED
      BY <1>2, <1>3, <1>7, <3>1, <3>2 DEF WorkSound
  <2>3. QED
    BY <1>4, <1>6, <2>1, <2>2 DEF IInv
<1>8. CASE Certify
  <2>1. candidate' = candidate + 1 /\ remote' = remote /\ candidate + 1 \in Candidates /\ candidate \in Nat
    BY <1>1, <1>8 DEF Certify, StateType, Releases
  <2>2. \A c \in Candidates : c <= candidate => c <= candidate'
    BY <2>1
  <2>3. operations[candidate'].commit = None
    <3>1. ~(candidate' <= candidate)
      BY <2>1
    <3>2. operations[candidate'] = NoOperation
      BY <1>1, <2>1, <3>1 DEF OperationsSound, OperationSound
    <3>3. QED
      BY <3>2 DEF NoOperation
  <2>4. OperationsSound'
    BY <1>1, <1>2, <2>1, <2>2 DEF OperationsSound, OperationSound, Prefix
  <2>5. HistorySound'
    BY <1>1, <1>2, <2>1, <2>3 DEF HistorySound, Distinct
  <2>6. ASSUME NEW p \in Processes PROVE WorkSound(pc[p], my[p])'
    <3>1. WorkSound(pc[p], my[p]) /\ my[p] \in My /\ Fits(pc[p], job[p], my[p])
      BY <1>1 DEF WorksSound, CommandType, CommandsSound
    <3>2. pc[p] \in Working \cup {"accept"} => my[p].cand \in Candidates
      BY <3>1 DEF Fits, My, Releases
    <3>3. QED
      BY <1>2, <1>3, <2>1, <2>2, <3>1, <3>2 DEF WorkSound, Youngest, Prefix, Working
  <2>7. WorksSound'
    BY <2>6 DEF WorksSound
  <2>8. QED
    BY <1>4, <1>6, <2>4, <2>5, <2>7 DEF IInv
<1>9. CASE OthersPush
  <2>1. remote' = Append(remote, Others) /\ candidate' = candidate /\ remote \in Commits
        /\ Others \in Candidates \cup {Others}
    BY <1>1, <1>9 DEF OthersPush, StateType
  <2>2. Distinct(remote')
    BY <1>1, <2>1, DistinctAppended DEF HistorySound
  <2>3. \A c \in Candidates : operations[c].commit \in {None} \cup Commits
    BY <1>1 DEF StateType, Operation
  <2>4. ASSUME NEW s \in Commits, Prefix(s, remote) PROVE Prefix(s, remote')
    BY <2>1, <2>4, PrefixAppended
  <2>5. OperationsSound'
    <3>1. ASSUME NEW c \in Candidates PROVE OperationSound(c)'
      <4>1. OperationSound(c)
        BY <1>1 DEF OperationsSound
      <4>2. operations[c].status = "LIVE_ACCEPTED" => Prefix(operations[c].commit, remote')
        BY <2>3, <2>4, <4>1 DEF OperationSound
      <4>3. QED
        BY <1>2, <2>1, <4>1, <4>2 DEF OperationSound, Prefix
    <3>2. QED
      BY <1>1, <1>2, <3>1 DEF OperationsSound
  <2>6. HistorySound'
    BY <1>1, <1>2, <2>1, <2>2 DEF HistorySound, Distinct
  <2>7. ASSUME NEW p \in Processes PROVE WorkSound(pc[p], my[p])'
    <3>1. WorkSound(pc[p], my[p]) /\ my[p] \in My /\ Fits(pc[p], job[p], my[p])
      BY <1>1 DEF WorksSound, CommandType, CommandsSound
    <3>2. pc[p] = "accept" => my[p].cand \in Candidates
      BY <3>1 DEF Fits, My, Releases
    <3>3. pc[p] = "accept" => Prefix(operations[my[p].cand].commit, remote')
      BY <2>3, <2>4, <3>1, <3>2 DEF WorkSound
    <3>4. QED
      BY <1>2, <1>3, <2>1, <3>1, <3>3 DEF WorkSound, Youngest, Prefix
  <2>8. WorksSound'
    BY <2>7 DEF WorksSound
  <2>9. QED
    BY <1>4, <1>6, <2>5, <2>6, <2>8 DEF IInv
<1>10. QED
  <2>1. Tick \/ (\E status \in Decisions : Transition(status)) => UNCHANGED <<candidate, remote>>
    BY DEF Tick, Transition
  <2>2. QED
    BY <1>7, <1>8, <1>9, <2>1 DEF World
-----------------------------------------------------------------------------
(* The state's type, when of the files only the writers may have changed. *)
LEMMA StateKept ==
  ASSUME StateType, UNCHANGED <<now, candidate, authority, inner, receipts, checkout, remote, invoked>>,
         writers' \subseteq Processes, events' \in 0..MaxEvents
  PROVE  StateType'
BY DEF StateType, authority, checkout

LEMMA Inside ==
  ASSUME IInv, NEW p \in Processes
  PROVE  /\ CommandType /\ StateType /\ CommandsSound /\ LockSound /\ writers \subseteq Processes
         /\ pc[p] \in PC /\ job[p] \in Jobs /\ my[p] \in My /\ Fits(pc[p], job[p], my[p])
         /\ WorkSound(pc[p], my[p])
BY TypeParts DEF IInv, CommandType, StateType, CommandsSound, WorksSound

(* A step outside the lock, before it, that leaves the writers alone. *)
LEMMA OutsideKeeps ==
  ASSUME IInv, NEW p \in Processes, NEW to \in PC, to \notin Executing, NEW what \in Jobs, NEW m \in My,
         Moved(p, to, what, m), Fits(to, what, m), UNCHANGED Recorded, writers' = writers, StateType',
         to = "lock to run" => candidate # 0
  PROVE  IInv'
<1>1. CommandType /\ LockSound
  BY TypeParts DEF IInv
<1>2. LockSound'
  BY <1>1, LockFrame
<1>3. WorkSound(to, m)
  BY WorkingExecutes, RestingWork DEF Executing
<1>4. QED
  BY <1>2, <1>3, RestKeeps

LEMMA BindKeeps == ASSUME IInv, NEW p \in Processes, Bind(p) PROVE IInv'
<1> DEFINE m == [NothingRead EXCEPT !.run = candidate]
<1>1. candidate \in Releases /\ candidate # 0 /\ StateType /\ events \in 0..MaxEvents /\ writers \subseteq Processes
  BY Inside DEF Bind, StateType
<1>2. m \in My /\ m.run = candidate
  BY <1>1, NothingReadType DEF My
<1>3. Moved(p, "receipt", "binding", m)
  BY DEF Bind, Goto, Moved
<1> HIDE DEF m
<1>4. Fits("receipt", "binding", m)
  BY <1>1, <1>2 DEF Fits, Working, Preparing
<1>5. StateType'
  BY <1>1, StateKept DEF Bind, history
<1>6. UNCHANGED Recorded /\ writers' = writers
  BY DEF Bind, Recorded, authority, checkout, history
<1>7. "receipt" \in PC /\ "receipt" \notin Executing /\ "binding" \in Jobs
  BY DEF PC, Executing, Jobs
<1>8. QED
  BY <1>2, <1>3, <1>4, <1>5, <1>6, <1>7, OutsideKeeps

LEMMA AskKeeps == ASSUME IInv, NEW p \in Processes, AskToObserve(p) PROVE IInv'
<1>1. PICK c \in Candidates : my' = [my EXCEPT ![p].cand = c] /\ operations[c].status # "NONE"
  BY DEF AskToObserve
<1> DEFINE m == [my[p] EXCEPT !.cand = c]
<1>2. my[p] \in My /\ StateType /\ events \in 0..MaxEvents /\ writers \subseteq Processes
  BY Inside DEF StateType
<1>3. m \in My /\ m.cand = c /\ c # 0
  BY <1>2 DEF My, Releases
<1>4. Moved(p, "lock to observe", "observe", m)
  BY <1>1 DEF AskToObserve, Goto, Moved
<1> HIDE DEF m
<1>5. Fits("lock to observe", "observe", m)
  BY <1>1, <1>3 DEF Fits, Working, Preparing
<1>6. StateType'
  BY <1>2, StateKept DEF AskToObserve, history
<1>7. UNCHANGED Recorded /\ writers' = writers
  BY DEF AskToObserve, Recorded, authority, checkout, history
<1>8. "lock to observe" \in PC /\ "lock to observe" \notin Executing /\ "observe" \in Jobs
  BY DEF PC, Executing, Jobs
<1>9. QED
  BY <1>3, <1>4, <1>5, <1>6, <1>7, <1>8, OutsideKeeps

LEMMA CommandKeeps == ASSUME IInv, NEW p \in Processes, Command(p) PROVE IInv'
<1> DEFINE asked == IF pc[p] = "idle" THEN "run" ELSE job[p]
<1>1. /\ my[p] \in My /\ job[p] \in Jobs /\ Fits(pc[p], job[p], my[p]) /\ StateType
      /\ CommandType /\ CommandsSound /\ writers \subseteq Processes
      /\ events \in 0..MaxEvents /\ candidate \in Releases /\ candidate # 0
  BY Inside DEF StateType, Command
<1>2. asked \in Jobs /\ (asked = "binding" => my[p].run # 0)
  BY <1>1 DEF Jobs, Fits
<1>3. UNCHANGED Recorded
  BY DEF Command, Recorded, authority, checkout, history
<1>4. ASSUME writers' \subseteq Processes PROVE StateType'
  BY <1>1, <1>4, StateKept DEF Command, history
<1>5. CASE Finish(p)
  <2>1. writers' = writers \ {p}
    BY <1>5 DEF Finish
  <2>2. QED
    BY <1>1, <1>3, <1>4, <1>5, <2>1, FinishKeeps
<1>6. CASE /\ my' = [my EXCEPT ![p].cand = candidate] /\ job' = [job EXCEPT ![p] = asked]
           /\ Goto(p, "lock to observe") /\ UNCHANGED writers
           /\ operations[candidate].status = "DEPLOYMENT_PENDING"
  <2> DEFINE m == [my[p] EXCEPT !.cand = candidate]
  <2>1. m \in My /\ m.cand = candidate /\ m.run = my[p].run
    BY <1>1 DEF My
  <2>2. Moved(p, "lock to observe", asked, m)
    BY <1>6 DEF Goto, Moved
  <2> HIDE DEF m
  <2>3. Fits("lock to observe", asked, m)
    BY <1>1, <1>2, <1>6, <2>1 DEF Fits, Working, Preparing
  <2>4. "lock to observe" \in PC /\ "lock to observe" \notin Executing
    BY DEF PC, Executing
  <2> HIDE DEF asked
  <2>5. QED
    BY <1>1, <1>2, <1>3, <1>4, <1>6, <2>1, <2>2, <2>3, <2>4, OutsideKeeps
<1>7. CASE job' = [job EXCEPT ![p] = asked] /\ Goto(p, "lock to run") /\ UNCHANGED <<my, writers>>
  <2>1. Moved(p, "lock to run", asked, my[p])
    BY <1>1, <1>7 DEF Goto, Moved, CommandType
  <2>2. Fits("lock to run", asked, my[p])
    BY <1>2 DEF Fits, Working, Preparing
  <2>3. "lock to run" \in PC /\ "lock to run" \notin Executing
    BY DEF PC, Executing
  <2> HIDE DEF asked
  <2>4. QED
    BY <1>1, <1>2, <1>3, <1>4, <1>7, <2>1, <2>2, <2>3, OutsideKeeps
<1>8. QED
  BY <1>5, <1>6, <1>7 DEF Command

LEMMA EnterKeeps == ASSUME IInv, NEW p \in Processes, EnterLock(p) PROVE IInv'
<1>1. /\ my[p] \in My /\ job[p] \in Jobs /\ Fits(pc[p], job[p], my[p]) /\ StateType
      /\ CommandType /\ LockSound /\ writers \subseteq Processes /\ events \in 0..MaxEvents
  BY Inside DEF StateType
<1>2. UNCHANGED Recorded
  BY DEF EnterLock, Recorded, authority, checkout, history
<1>3. ASSUME writers' \subseteq Processes PROVE StateType'
  BY <1>1, <1>3, StateKept DEF EnterLock, history
<1>4. CASE Finish(p)
  <2>1. writers' = writers \ {p}
    BY <1>4 DEF Finish
  <2>2. QED
    BY <1>1, <1>2, <1>3, <1>4, <2>1, FinishKeeps
<1>5. CASE ~Finish(p)
  <2> DEFINE to == IF pc[p] = "lock to run" THEN "read" ELSE "observe"
  <2>1. /\ writers = {} /\ writers' = {p} /\ Goto(p, to) /\ UNCHANGED <<job, my>>
        /\ pc[p] \in {"lock to run", "lock to observe"}
    BY <1>5 DEF EnterLock, Lock!Enter
  <2>2. Moved(p, to, job[p], my[p])
    BY <1>1, <2>1 DEF Goto, Moved, CommandType
  <2>3. Fits(to, job[p], my[p])
    BY <1>1, <2>1 DEF Fits, Working, Preparing
  <2>4. to \in PC /\ to \notin Working \cup {"accept"} /\ to \in {"read", "observe"}
    BY DEF PC, Executing, Working, Preparing
  <2>a. WorkSound(pc[p], my[p])
    BY Inside
  <2>b. to = "read" => candidate # 0
    BY <2>a DEF WorkSound
  <2> HIDE DEF to
  <2>c. WorkSound(to, my[p])
    BY <2>4, <2>b, RestingWork
  <2>5. LockSound'
    <3>1. pc'[p] = to /\ \A q \in Processes : q # p => pc'[q] = pc[q]
      BY <1>1, <2>2, MovedOnly
    <3>2. \A q \in Processes : pc[q] \notin Executing
      BY <1>1, <2>1 DEF LockSound
    <3>3. QED
      BY <2>1, <3>1, <3>2 DEF LockSound
  <2>6. StateType'
    BY <1>3, <2>1
  <2>7. QED
    BY <1>1, <1>2, <2>2, <2>3, <2>4, <2>5, <2>6, <2>c, RestKeeps
<1>6. QED
  BY <1>4, <1>5

LEMMA CrashKeeps == ASSUME IInv, NEW p \in Processes, Crash(p) PROVE IInv'
<1>1. /\ StateType /\ CommandType /\ LockSound /\ writers \subseteq Processes /\ events \in 0..MaxEvents
  BY Inside DEF StateType
<1>2. UNCHANGED Recorded /\ writers' = writers \ {p} /\ Leave(p)
  BY DEF Crash, Recorded, authority, checkout
<1>3. events' \in 0..MaxEvents
  BY <1>1 DEF Crash
<1>4. StateType'
  BY <1>1, <1>2, <1>3, StateKept DEF Crash
<1>5. "idle" \in PC /\ "idle" \notin Executing /\ "idle" \notin Working \cup {"accept"} /\ "none" \in Jobs
  BY WorkingExecutes DEF PC, Executing, Jobs
<1>6. Moved(p, "idle", "none", NothingRead) /\ Fits("idle", "none", NothingRead)
  BY <1>1, <1>2, LeaveMoves
<1>7. LockSound' /\ WorkSound("idle", NothingRead)
  BY <1>1, <1>2, <1>5, <1>6, LockFrame, RestingWork
<1>8. QED
  BY <1>2, <1>4, <1>5, <1>6, <1>7, NothingReadType, RestKeeps

(* The receipts: one is recorded only where there is none. *)
LEMMA ReceiptsKeep == ASSUME IInv, NEW p \in Processes, RecordReceipt(p) \/ Settle(p) PROVE IInv'
<1>1. /\ my[p] \in My /\ job[p] \in Jobs /\ Fits(pc[p], job[p], my[p]) /\ StateType /\ CommandsSound
      /\ CommandType /\ LockSound /\ WorksSound /\ OperationsSound /\ HistorySound /\ ReceiptsSound
      /\ writers \subseteq Processes /\ events \in 0..MaxEvents
  BY Inside DEF StateType, IInv
<1> DEFINE r == my[p].run
<1>2. r \in Candidates
  BY <1>1 DEF RecordReceipt, Settle, Fits, My, Releases
<1>3. UNCHANGED <<candidate, children, operations, head, tracking, remote>> /\ writers' = writers
      /\ UNCHANGED <<now, mandate, inner, release, dirty, events>>
  BY DEF RecordReceipt, Settle, authority, checkout, history
<1>4. CASE Leave(p) /\ UNCHANGED <<receipts, invoked>>
  <2>1. Moved(p, "idle", "none", NothingRead) /\ Fits("idle", "none", NothingRead)
    BY <1>1, <1>4, LeaveMoves
  <2>2. StateType' /\ UNCHANGED Recorded
    BY <1>1, <1>3, <1>4 DEF StateType, Recorded
  <2>3. "idle" \in PC /\ "idle" \notin Executing /\ "none" \in Jobs
    BY DEF PC, Executing, Jobs
  <2>4. QED
    BY <1>3, <2>1, <2>2, <2>3, NothingReadType, OutsideKeeps
<1>5. ASSUME NEW to \in {"idle", "command"}, NEW what \in Jobs, NEW m \in My, Moved(p, to, what, m),
             Fits(to, what, m), ReceiptsSound',
             receipts' \in [Candidates -> {"NONE", "INVOCATION_RECORDED", "SETTLED"}],
             invoked' \in [Candidates -> Nat]
      PROVE  IInv'
  <2>1. to \in PC /\ to \notin Executing /\ WorkSound(to, m)
    BY WorkingExecutes, RestingWork DEF PC, Executing
  <2>2. CommandType' /\ CommandsSound'
    BY <1>1, <1>3, <1>5, <2>1, CommandFrame DEF NothingLost
  <2>3. LockSound'
    BY <1>1, <1>3, <1>5, <2>1, LockFrame
  <2>4. OperationsSound' /\ HistorySound'
    BY <1>1, <1>3, RecordsKept
  <2>5. WorksSound'
    BY <1>1, <1>3, <1>5, <2>1, RestFrame
  <2>6. StateType'
    BY <1>1, <1>3, <1>5 DEF StateType
  <2>7. QED
    BY <1>5, <2>2, <2>3, <2>4, <2>5, <2>6, TypeParts DEF IInv, TypeOK, CommandType, StateType, Jobs
<1>6. CASE RecordReceipt(p) /\ receipts[r] = "NONE"
  <2>1. /\ receipts' = [receipts EXCEPT ![r] = "INVOCATION_RECORDED"]
        /\ invoked' = [invoked EXCEPT ![r] = @ + 1]
        /\ Goto(p, "command") /\ UNCHANGED <<job, my>> /\ pc[p] = "receipt"
    BY <1>6 DEF RecordReceipt
  <2>2. Moved(p, "command", job[p], my[p])
    BY <1>1, <2>1 DEF Goto, Moved, CommandType
  <2>3. Fits("command", job[p], my[p])
    BY <1>1, <2>1 DEF Fits, Working, Preparing
  <2>4. invoked[r] = 0 /\ invoked \in [Candidates -> Nat]
        /\ receipts \in [Candidates -> {"NONE", "INVOCATION_RECORDED", "SETTLED"}]
    BY <1>1, <1>2, <1>6 DEF ReceiptsSound, StateType
  <2> HIDE DEF r
  <2>5. ReceiptsSound'
    BY <1>1, <1>2, <2>1, <2>4 DEF ReceiptsSound
  <2>6. invoked' \in [Candidates -> Nat]
    BY <1>2, <2>1, <2>4
  <2>7. receipts' \in [Candidates -> {"NONE", "INVOCATION_RECORDED", "SETTLED"}]
    BY <1>2, <2>1, <2>4
  <2>8. QED
    BY <1>1, <1>5, <2>2, <2>3, <2>5, <2>6, <2>7
<1>7. CASE Settle(p)
  <2>1. receipts' = [receipts EXCEPT ![r] = "SETTLED"] /\ invoked' = invoked /\ Leave(p)
    BY <1>7 DEF Settle, history
  <2>2. Moved(p, "idle", "none", NothingRead) /\ Fits("idle", "none", NothingRead)
    BY <1>1, <2>1, LeaveMoves
  <2>3. ReceiptsSound'
    BY <1>1, <1>2, <2>1 DEF ReceiptsSound, StateType
  <2>4. "none" \in Jobs /\ receipts' \in [Candidates -> {"NONE", "INVOCATION_RECORDED", "SETTLED"}]
        /\ invoked' \in [Candidates -> Nat]
    BY <1>1, <2>1 DEF Jobs, StateType
  <2>5. QED
    BY <1>5, <2>2, <2>3, <2>4, NothingReadType
<1>8. QED
  BY <1>4, <1>6, <1>7 DEF RecordReceipt
-----------------------------------------------------------------------------
(* The steps of the invocation in the lock that end it, or that record nothing. *)
LEMMA EndsKeep ==
  ASSUME IInv, NEW p \in Processes, Finish(p),
         UNCHANGED <<now, candidate, authority, inner, receipts, checkout, remote, history>>
  PROVE  IInv'
<1>1. StateType /\ writers \subseteq Processes /\ events \in 0..MaxEvents
  BY Inside DEF StateType
<1>2. writers' \subseteq Processes
  BY <1>1 DEF Finish
<1>3. StateType'
  BY <1>1, <1>2, StateKept DEF history
<1>4. UNCHANGED Recorded
  BY DEF Recorded, authority, checkout, history
<1>5. QED
  BY <1>3, <1>4, FinishKeeps

LEMMA CandidateYoungest == ASSUME IInv PROVE Youngest(candidate)
<1>1. candidate \in Nat /\ OperationsSound
  <2>1. candidate \in Releases /\ OperationsSound
    BY TypeParts DEF IInv, StateType
  <2>2. QED
    BY <2>1 DEF Releases
<1>2. ASSUME NEW d \in Candidates, d > candidate PROVE operations[d].status = "NONE"
  <2>1. ~(d <= candidate)
    BY <1>1, <1>2
  <2>2. OperationSound(d)
    BY <1>1 DEF OperationsSound
  <2>3. QED
    BY <2>1, <2>2 DEF OperationSound
<1>3. candidate <= candidate
  BY <1>1
<1>4. QED
  BY <1>2, <1>3 DEF Youngest

LEMMA ReadsKeep == ASSUME IInv, NEW p \in Processes, RunReads(p) PROVE IInv'
<1>1. UNCHANGED <<now, candidate, authority, inner, receipts, checkout, remote, history>> /\ pc[p] = "read"
  BY DEF RunReads, Unchanged
<1>2. CASE Finish(p)
  BY <1>1, <1>2, EndsKeep
<1>3. CASE ~Finish(p)
  <2>1. /\ my' = [my EXCEPT ![p].cand = candidate, ![p].at = now, ![p].base = head]
        /\ Goto(p, "authorize") /\ UNCHANGED <<job, writers>>
        /\ operations[candidate].status \notin {"LIVE_ACCEPTED", "FAILED"} /\ tracking = head
    BY <1>3 DEF RunReads, Predecessor
  <2>2. /\ my[p] \in My /\ job[p] \in Jobs /\ Fits(pc[p], job[p], my[p]) /\ StateType /\ CommandType
        /\ writers \subseteq Processes /\ events \in 0..MaxEvents /\ HistorySound /\ OperationsSound
    BY Inside DEF StateType, IInv
  <2> DEFINE m == [my[p] EXCEPT !.cand = candidate, !.at = now, !.base = head]
  <2>3. candidate \in Releases /\ now \in Nat /\ head \in Commits
    BY <2>2 DEF StateType
  <2>4. m \in My /\ m.cand = candidate /\ m.base = head /\ m.run = my[p].run
    BY <2>2, <2>3 DEF My
  <2>5. Moved(p, "authorize", job[p], m)
    BY <2>1, <2>2 DEF Goto, Moved, CommandType
  <2>6. candidate # 0
    BY <1>1, Inside DEF WorkSound
  <2> HIDE DEF m
  <2>7. Fits("authorize", job[p], m)
    BY <2>2, <2>4, <2>6 DEF Fits, Preparing
  <2>9. Youngest(candidate)
    BY CandidateYoungest
  <2>10. operations[candidate].commit \in {None, head}
    BY <2>2, <2>6 DEF HistorySound
  <2>11. WorkSound("authorize", m)
    BY <2>1, <2>4, <2>9, <2>10 DEF WorkSound, Preparing
  <2>12. StateType' /\ UNCHANGED Recorded /\ writers' = writers
    BY <1>1, <2>1, <2>2, StateKept DEF history, Recorded, authority, checkout
  <2>13. "authorize" \in PC /\ pc[p] \in Executing
    BY <1>1 DEF PC, Executing
  <2>14. QED
    BY <2>2, <2>4, <2>5, <2>7, <2>11, <2>12, <2>13, WorkKeeps
<1>4. QED
  BY <1>2, <1>3

LEMMA QuietKeeps ==
  ASSUME IInv, NEW p \in Processes, pc[p] \in Executing, NEW to \in Executing, Goto(p, to),
         UNCHANGED <<job, my, writers>>, UNCHANGED Recorded, StateType',
         Fits(to, job[p], my[p]), WorkSound(to, my[p])
  PROVE  IInv'
<1>1. CommandType /\ job[p] \in Jobs /\ my[p] \in My
  BY Inside
<1>2. Moved(p, to, job[p], my[p])
  BY <1>1 DEF Goto, Moved, CommandType
<1>3. to \in PC
  BY PlacesType
<1>4. QED
  BY <1>1, <1>2, <1>3, WorkKeeps

(* ... in particular one that only prepares. *)
LEMMA PreparingKeeps ==
  ASSUME IInv, NEW p \in Processes, pc[p] \in Preparing, NEW to \in Preparing \cup {"fail"}, Goto(p, to),
         UNCHANGED <<job, my, writers>>, UNCHANGED Recorded, StateType'
  PROVE  IInv'
<1>1. pc[p] \in Executing /\ to \in Executing
  BY DEF Preparing, Executing
<1>2. Fits(pc[p], job[p], my[p]) /\ WorkSound(pc[p], my[p])
  BY Inside
<1>3. pc[p] \in {"checkpoint"} \cup Preparing /\ pc[p] \in {"checkpoint", "push", "main"} \cup Preparing
      /\ pc[p] \in Working /\ pc[p] \in {"lock to observe", "observe", "accept", "fail"} \cup Working
      /\ pc[p] \in {"authorize"} \cup Preparing
  BY DEF Working
<1>4. operations[my[p].cand].status # "NONE" /\ operations[my[p].cand].commit = None
      /\ Youngest(my[p].cand) /\ operations[my[p].cand].status \notin {"FAILED", "LIVE_ACCEPTED"}
      /\ head = my[p].base /\ tracking = my[p].base
  BY <1>2, <1>3 DEF WorkSound
<1>5. /\ job[p] = "binding" => my[p].run # 0
      /\ my[p].cand # 0 /\ my[p].child \in Child /\ my[p].child.cand = my[p].cand
      /\ my[p].child.base = my[p].base
  BY <1>2, <1>3 DEF Fits
<1>6. Fits(to, job[p], my[p])
  BY <1>4, <1>5 DEF Fits, Preparing, Working
<1>7. WorkSound(to, my[p])
  BY <1>4 DEF WorkSound, Preparing, Working
<1>8. QED
  BY <1>1, <1>6, <1>7, QuietKeeps

LEMMA QuietType ==
  ASSUME StateType, UNCHANGED <<now, candidate, authority, receipts, head, tracking, remote, writers, history>>,
         inner' \in [Candidates -> SUBSET Inner], release' \in [cand : Releases, prev : Releases],
         dirty' \subseteq Path
  PROVE  StateType' /\ UNCHANGED Recorded
BY DEF StateType, Recorded, authority, history

(* What the invocation has in hand while it prepares. *)
LEMMA PreparingHas ==
  ASSUME IInv, NEW p \in Processes, pc[p] \in Preparing
  PROVE  /\ StateType /\ my[p].cand \in Candidates /\ my[p].child \in Child /\ my[p].child.cand = my[p].cand
         /\ inner \in [Candidates -> SUBSET Inner] /\ release \in [cand : Releases, prev : Releases]
         /\ dirty \subseteq Path
<1>1. Fits(pc[p], job[p], my[p]) /\ my[p] \in My /\ StateType
  BY Inside
<1>2. my[p].cand # 0 /\ my[p].child \in Child /\ my[p].child.cand = my[p].cand
  BY <1>1 DEF Fits, Working
<1>3. my[p].cand \in Candidates /\ my[p].child \in Child
  BY <1>1, <1>2 DEF My, Releases
<1>4. QED
  BY <1>1, <1>2, <1>3 DEF StateType

LEMMA MarkType ==
  ASSUME NEW p \in Processes, StateType, my[p].child \in Child, Mark(p, Begun) \/ Mark(p, Consumed)
  PROVE  inner' \in [Candidates -> SUBSET Inner]
<1> DEFINE child == my[p].child
           c == child.cand
           B == {IF i.at = child.at /\ i.pred = child.pred THEN Begun(i) ELSE i : i \in inner[c]}
           C == {IF i.at = child.at /\ i.pred = child.pred THEN Consumed(i) ELSE i : i \in inner[c]}
<1>1. c \in Candidates /\ inner \in [Candidates -> SUBSET Inner]
  BY DEF StateType, Child
<1>2. inner' = [inner EXCEPT ![c] = B] \/ inner' = [inner EXCEPT ![c] = C]
  BY <1>1 DEF Mark
<1>3. ASSUME NEW i \in Inner PROVE Begun(i) \in Inner /\ Consumed(i) \in Inner
  BY DEF Begun, Consumed, Inner
<1>4. B \subseteq Inner /\ C \subseteq Inner
  BY <1>1, <1>3
<1> HIDE DEF B, C, c
<1>5. QED
  BY <1>1, <1>2, <1>4

LEMMA PromoteKeeps == ASSUME IInv, NEW p \in Processes, Promote(p) PROVE IInv'
<1>1. pc[p] = "promote" /\ pc[p] \in Preparing
  BY DEF Promote, Preparing
<1>2. StateType' /\ UNCHANGED Recorded /\ UNCHANGED <<job, my, writers>>
  BY <1>1, PreparingHas, QuietType DEF Promote, Unchanged, authority, checkout, history
<1>3. PICK to \in {"artifact", "fail"} : Goto(p, to)
  BY DEF Promote
<1>4. to \in Preparing \cup {"fail"}
  BY DEF Preparing
<1>5. QED
  BY <1>1, <1>2, <1>3, <1>4, PreparingKeeps

LEMMA WritesKeep == ASSUME IInv, NEW p \in Processes, WriteArtifact(p) \/ WriteManifest(p) PROVE IInv'
<1>1. pc[p] \in {"artifact", "manifest"} /\ pc[p] \in Preparing
  BY DEF WriteArtifact, WriteManifest, Preparing
<1>2. /\ StateType /\ my[p].cand \in Candidates /\ my[p].child \in Child
      /\ inner \in [Candidates -> SUBSET Inner] /\ release \in [cand : Releases, prev : Releases]
      /\ dirty \subseteq Path
  BY <1>1, PreparingHas
<1>3. dirty' \subseteq Path
  BY <1>2 DEF WriteArtifact, WriteManifest, Path
<1>4. release' \in [cand : Releases, prev : Releases]
  <2>1. release.cand \in Releases /\ my[p].cand \in Releases
    BY <1>2 DEF Releases
  <2>2. QED
    BY <1>2, <2>1 DEF WriteArtifact, WriteManifest
<1>5. UNCHANGED <<now, candidate, authority, inner, receipts, head, tracking, remote, job, my, writers, history>>
  BY DEF WriteArtifact, WriteManifest, Unchanged
<1>6. StateType' /\ UNCHANGED Recorded /\ UNCHANGED <<job, my, writers>>
  BY <1>2, <1>3, <1>4, <1>5, QuietType
<1>7. PICK to \in {"manifest", "record"} : Goto(p, to)
  BY DEF WriteArtifact, WriteManifest
<1>8. to \in Preparing \cup {"fail"}
  BY DEF Preparing
<1>9. QED
  BY <1>1, <1>6, <1>7, <1>8, PreparingKeeps

LEMMA RecordInnerKeeps == ASSUME IInv, NEW p \in Processes, RecordInner(p) PROVE IInv'
<1>1. pc[p] = "record" /\ pc[p] \in Preparing /\ "begin" \in Preparing \cup {"fail"}
  BY DEF RecordInner, Preparing
<1>2. /\ StateType /\ my[p].child \in Child /\ inner \in [Candidates -> SUBSET Inner]
      /\ release \in [cand : Releases, prev : Releases] /\ dirty \subseteq Path
  BY <1>1, PreparingHas
<1> DEFINE child == my[p].child
           new == [at |-> child.at, pred |-> child.pred, begun |-> FALSE, consumed |-> FALSE]
<1>3. new \in Inner /\ child.cand \in Candidates
  BY <1>2 DEF Child, Inner
<1>4. inner' = inner \/ inner' = [inner EXCEPT ![child.cand] = @ \cup {new}]
  BY DEF RecordInner
<1> HIDE DEF new, child
<1>5. inner' \in [Candidates -> SUBSET Inner]
  BY <1>2, <1>3, <1>4
<1>6. UNCHANGED <<now, candidate, authority, release, dirty, receipts, head, tracking, remote, job, my, writers, history>>
  BY DEF RecordInner, Unchanged, checkout
<1>7. StateType' /\ UNCHANGED Recorded /\ UNCHANGED <<job, my, writers>>
  BY <1>2, <1>5, <1>6, QuietType
<1>8. Goto(p, "begin")
  BY DEF RecordInner
<1>9. QED
  BY <1>1, <1>7, <1>8, PreparingKeeps

LEMMA BeginKeeps == ASSUME IInv, NEW p \in Processes, BeginBuild(p) \/ ConsumeInner(p) PROVE IInv'
<1>1. pc[p] \in {"begin", "consume"} /\ pc[p] \in Preparing
  BY DEF BeginBuild, ConsumeInner, Preparing
<1>2. /\ StateType /\ my[p].child \in Child /\ my[p].child.cand \in Candidates
      /\ inner \in [Candidates -> SUBSET Inner]
      /\ release \in [cand : Releases, prev : Releases] /\ dirty \subseteq Path
  BY <1>1, PreparingHas
<1>3. inner' \in [Candidates -> SUBSET Inner]
  <2>1. CASE inner' = inner
    BY <1>2, <2>1
  <2>2. CASE BeginBuild(p) /\ inner' # inner
    <3>1. Mark(p, Begun)
      BY <2>2 DEF BeginBuild
    <3>2. QED
      BY <1>2, <3>1, MarkType
  <2>3. CASE ConsumeInner(p)
    <3>1. Mark(p, Consumed)
      BY <2>3 DEF ConsumeInner
    <3>2. QED
      BY <1>2, <3>1, MarkType
  <2>4. QED
    BY <2>1, <2>2, <2>3
<1>4. UNCHANGED <<now, candidate, authority, release, dirty, receipts, head, tracking, remote, job, my, writers, history>>
  BY DEF BeginBuild, ConsumeInner, Unchanged, checkout
<1>5. StateType' /\ UNCHANGED Recorded /\ UNCHANGED <<job, my, writers>>
  BY <1>2, <1>3, <1>4, QuietType
<1>6. PICK to \in {"build", "fail", "commit"} : Goto(p, to)
  BY DEF BeginBuild, ConsumeInner
<1>7. to \in Preparing \cup {"fail"}
  BY DEF Preparing
<1>8. QED
  BY <1>1, <1>5, <1>6, <1>7, PreparingKeeps

LEMMA BuildKeeps == ASSUME IInv, NEW p \in Processes, Build(p) PROVE IInv'
<1>1. pc[p] = "build" /\ pc[p] \in Preparing
  BY DEF Build, Preparing
<1>2. /\ StateType /\ my[p].cand \in Candidates /\ inner \in [Candidates -> SUBSET Inner]
      /\ release \in [cand : Releases, prev : Releases] /\ dirty \subseteq Path
  BY <1>1, PreparingHas
<1>3. dirty' \subseteq Path
  BY <1>2 DEF Build, Path
<1>4. UNCHANGED <<now, candidate, authority, inner, release, receipts, head, tracking, remote, job, my, writers, history>>
  BY DEF Build, Unchanged
<1>5. StateType' /\ UNCHANGED Recorded /\ UNCHANGED <<job, my, writers>>
  BY <1>2, <1>3, <1>4, QuietType
<1>6. PICK to \in {"consume", "fail"} : Goto(p, to)
  BY DEF Build
<1>7. to \in Preparing \cup {"fail"}
  BY DEF Preparing
<1>8. QED
  BY <1>1, <1>5, <1>6, <1>7, PreparingKeeps

LEMMA ObservesKeep == ASSUME IInv, NEW p \in Processes, ObservePending(p) \/ ObserveEnded(p) \/ ObserveFails(p) PROVE IInv'
<1>1. UNCHANGED <<now, candidate, authority, inner, receipts, checkout, remote, history>> /\ pc[p] = "observe"
  BY DEF ObservePending, ObserveEnded, ObserveFails, Unchanged
<1>2. CASE Finish(p)
  BY <1>1, <1>2, EndsKeep
<1>3. CASE ~Finish(p)
  <2>1. Goto(p, "fail") /\ UNCHANGED <<job, my, writers>>
    BY <1>3 DEF ObservePending, ObserveEnded, ObserveFails
  <2>2. Fits(pc[p], job[p], my[p]) /\ StateType /\ writers \subseteq Processes /\ events \in 0..MaxEvents
    BY Inside DEF StateType
  <2>3. Fits("fail", job[p], my[p])
    BY <1>1, <2>2 DEF Fits, Working, Preparing
  <2>4. WorkSound("fail", my[p])
    BY RestingWork DEF Working, Preparing
  <2>5. StateType' /\ UNCHANGED Recorded
    BY <1>1, <2>1, <2>2, StateKept DEF history, Recorded, authority, checkout
  <2>6. "observe" \in Executing /\ "fail" \in Executing
    BY DEF Executing
  <2>7. QED
    BY <1>1, <2>1, <2>3, <2>4, <2>5, <2>6, QuietKeeps
<1>4. QED
  BY <1>2, <1>3

LEMMA ObserveLiveKeeps == ASSUME IInv, NEW p \in Processes, ObserveLive(p) PROVE IInv'
<1>1. UNCHANGED <<now, candidate, authority, inner, receipts, checkout, remote, history>> /\ pc[p] = "observe"
      /\ UNCHANGED <<job, writers>> /\ Goto(p, "accept") /\ Observable(my[p].cand)
  BY DEF ObserveLive, Unchanged
<1>2. PICK time \in 0..now : time < FreshUntil[my[p].cand] /\ my' = [my EXCEPT ![p].completed = time]
  BY DEF ObserveLive
<1>3. /\ Fits(pc[p], job[p], my[p]) /\ StateType /\ CommandType /\ my[p] \in My /\ job[p] \in Jobs
      /\ writers \subseteq Processes /\ events \in 0..MaxEvents /\ now \in Nat
  BY Inside DEF StateType
<1> DEFINE m == [my[p] EXCEPT !.completed = time]
           c == my[p].cand
<1>4. m \in My /\ m.cand = c /\ m.completed = time /\ m.run = my[p].run /\ m.completed # None
  BY <1>2, <1>3 DEF My
<1>5. Moved(p, "accept", job[p], m)
  BY <1>1, <1>2, <1>3 DEF Goto, Moved, CommandType
<1>6. c \in Candidates /\ c # 0
  BY <1>1, <1>3 DEF Fits, My, Releases
<1>7. Fits("accept", job[p], m)
  BY <1>1, <1>2, <1>3, <1>4 DEF Fits, Working, Preparing
<1>8. /\ operations[c].status = "DEPLOYMENT_PENDING" /\ candidate = c
      /\ head = operations[c].commit /\ remote = operations[c].commit
      /\ operations[c].commit = Append(operations[c].child.base, c)
  BY <1>1 DEF Observable
<1>9. operations[c].commit \in Commits
  BY <1>3, <1>8 DEF StateType
<1>10. Prefix(operations[c].commit, remote)
  <2>1. remote \in Commits
    BY <1>3 DEF StateType
  <2>2. QED
    BY <1>8, <2>1, SelfPrefix
<1>11. Youngest(c)
  BY <1>8, CandidateYoungest
<1>12. StateType' /\ UNCHANGED Recorded
  BY <1>1, <1>3, StateKept DEF history, Recorded, authority, checkout
<1> HIDE DEF c, m
<1>13. WorkSound("accept", m)
  BY <1>4, <1>8, <1>9, <1>10, <1>11 DEF WorkSound, Working, Preparing
<1>14. "accept" \in PC /\ pc[p] \in Executing
  BY <1>1 DEF PC, Executing
<1>15. QED
  BY <1>1, <1>3, <1>4, <1>5, <1>7, <1>12, <1>13, <1>14, WorkKeeps
-----------------------------------------------------------------------------
(* A step of the invocation in the lock that records something of one operation. *)
RecordSound(c, o) ==
  /\ o.status # "NONE" /\ o.child.cand = c /\ c <= candidate
  /\ o.clean = None => o.attempts = 0
  /\ o.status = "LIVE_ACCEPTED" =>
       /\ o.commit \in Commits /\ o.commit = Append(o.child.base, c) /\ Prefix(o.commit, remote)
       /\ o.completed # None /\ o.completed < FreshUntil[c]
  /\ operations[c].commit # None => o.commit # None
  /\ c = candidate /\ o.commit # None => o.commit = head
  /\ \A d \in Candidates : d < c /\ operations[d].status = "LIVE_ACCEPTED"
                           => operations[d].child.day # o.child.day
  /\ o.status = "LIVE_ACCEPTED" => \A d \in Candidates : c < d /\ operations[d].status # "NONE"
                                                        => operations[d].child.day # o.child.day

LEMMA RecordedSound ==
  ASSUME OperationsSound, HistorySound, StateType, NEW c \in Candidates, NEW o \in Operation,
         RecordSound(c, o), operations' = [operations EXCEPT ![c] = o],
         children \subseteq children', o.child \in children',
         UNCHANGED <<candidate, head, tracking, remote>>
  PROVE  OperationsSound' /\ HistorySound'
<1>1. operations \in [Candidates -> Operation] /\ candidate \in Releases /\ tracking \in Commits
  BY DEF StateType
<1>2. operations'[c] = o /\ \A d \in Candidates : d # c => operations'[d] = operations[d]
  BY <1>1
<1>3. ASSUME NEW d \in Candidates PROVE OperationSound(d)'
  <2>1. CASE d = c
    BY <1>2, <2>1 DEF OperationSound, RecordSound, Prefix
  <2>2. CASE d # c
    <3>1. OperationSound(d) /\ operations'[d] = operations[d]
      BY <1>2, <2>2 DEF OperationsSound
    <3>2. QED
      BY <3>1 DEF OperationSound, Prefix
  <2>3. QED
    BY <2>1, <2>2
<1>4. ASSUME NEW d \in Candidates, NEW e \in Candidates, d < e, operations'[d].status = "LIVE_ACCEPTED",
             operations'[e].status # "NONE"
      PROVE  operations'[d].child.day # operations'[e].child.day
  <2>1. d # e
    BY <1>4
  <2>2. CASE d # c /\ e # c
    BY <1>2, <1>4, <2>2 DEF OperationsSound
  <2>3. CASE e = c
    BY <1>2, <1>4, <2>1, <2>3 DEF RecordSound
  <2>4. CASE d = c
    BY <1>2, <1>4, <2>1, <2>4 DEF RecordSound
  <2>5. QED
    BY <2>2, <2>3, <2>4
<1>5. OperationsSound'
  BY <1>3, <1>4 DEF OperationsSound
<1>6. ASSUME NEW i \in 1..Len(tracking), tracking[i] # Others PROVE operations'[tracking[i]].commit # None
  <2>1. operations[tracking[i]].commit # None
    BY <1>6 DEF HistorySound
  <2>2. tracking[i] \in Candidates
    BY <1>1, <1>6 DEF Commits
  <2>3. QED
    BY <1>2, <2>1, <2>2 DEF RecordSound
<1>7. candidate # 0 /\ operations'[candidate].commit # None => operations'[candidate].commit = head
  BY <1>1, <1>2 DEF RecordSound, HistorySound, Releases
<1>8. HistorySound'
  BY <1>6, <1>7 DEF HistorySound, Distinct
<1>9. QED
  BY <1>5, <1>8

LEMMA RecordKeeps ==
  ASSUME IInv, NEW p \in Processes, pc[p] \in Executing, NEW to \in PC, NEW what \in Jobs, NEW m \in My,
         Moved(p, to, what, m), Fits(to, what, m), WorkSound(to, m)',
         \/ writers' = writers /\ to \in Executing
         \/ writers' = writers \ {p} /\ to \notin Executing,
         NEW c \in Candidates, NEW o \in Operation, RecordSound(c, o),
         operations' = [operations EXCEPT ![c] = o],
         children \subseteq children', o.child \in children', children' \subseteq Child,
         UNCHANGED <<now, candidate, mandate, inner, receipts, checkout, remote, history>>
  PROVE  IInv'
<1>1. CommandType /\ StateType /\ CommandsSound /\ LockSound /\ OperationsSound /\ HistorySound /\ ReceiptsSound
      /\ WorksSound
  BY TypeParts DEF IInv
<1>2. UNCHANGED <<now, candidate, mandate, inner, receipts, release, dirty, head, tracking, remote, invoked, events>>
  BY DEF checkout, history
<1>3. NothingLost
  BY <1>1 DEF NothingLost, RecordSound, StateType
<1>4. CommandType' /\ CommandsSound'
  BY <1>1, <1>3, CommandFrame
<1>5. LockSound'
  <2>1. p \in writers
    BY <1>1 DEF LockSound
  <2>2. QED
    BY <1>1, <2>1, LockFrame
<1>6. OperationsSound' /\ HistorySound'
  BY <1>1, <1>2, RecordedSound
<1>7. WorksSound'
  BY <1>1, <1>2, WorkFrame
<1>8. ReceiptsSound'
  BY <1>1, <1>2, ReceiptsKept
<1>9. operations' \in [Candidates -> Operation] /\ writers' \subseteq Processes
  BY <1>1 DEF StateType
<1>10. StateType'
  BY <1>1, <1>2, <1>9 DEF StateType
<1>11. QED
  BY <1>4, <1>5, <1>6, <1>7, <1>8, <1>10, TypeParts DEF IInv, TypeOK, CommandType, StateType, Jobs

(* What the operation under work is, and what the older ones imply for it. *)
LEMMA UnderWork ==
  ASSUME IInv, NEW p \in Processes, pc[p] \in Working \cup {"accept", "fail"}
  PROVE  /\ CommandType /\ StateType /\ OperationsSound /\ HistorySound
         /\ my[p] \in My /\ job[p] \in Jobs /\ Fits(pc[p], job[p], my[p]) /\ WorkSound(pc[p], my[p])
         /\ pc[p] \in Executing /\ my[p].cand \in Candidates /\ candidate \in Nat
         /\ operations[my[p].cand] \in Operation /\ OperationSound(my[p].cand)
         /\ head \in Commits /\ tracking \in Commits /\ remote \in Commits
<1>1. /\ CommandType /\ StateType /\ OperationsSound /\ HistorySound
      /\ my[p] \in My /\ job[p] \in Jobs /\ Fits(pc[p], job[p], my[p]) /\ WorkSound(pc[p], my[p])
  BY Inside DEF IInv
<1>2. pc[p] \in Executing
  BY DEF Working, Preparing, Executing
<1>3. my[p].cand \in Candidates
  BY <1>1 DEF Fits, My, Releases
<1>4. candidate \in Releases /\ operations \in [Candidates -> Operation]
      /\ head \in Commits /\ tracking \in Commits /\ remote \in Commits
  BY <1>1 DEF StateType
<1>5. candidate \in Nat
  BY <1>4 DEF Releases
<1>6. OperationSound(my[p].cand)
  BY <1>1, <1>3 DEF OperationsSound
<1>7. QED
  BY <1>1, <1>2, <1>3, <1>4, <1>5, <1>6

(* An operation that exists and keeps its child is not accepted on the day of another. *)
LEMMA SameChild ==
  ASSUME OperationsSound, NEW c \in Candidates, operations[c].status # "NONE",
         NEW o \in Operation, o.child = operations[c].child,
         o.status = "LIVE_ACCEPTED" => Youngest(c) \/ operations[c].status = "LIVE_ACCEPTED"
  PROVE  /\ \A d \in Candidates : d < c /\ operations[d].status = "LIVE_ACCEPTED"
                                  => operations[d].child.day # o.child.day
         /\ o.status = "LIVE_ACCEPTED" => \A d \in Candidates : c < d /\ operations[d].status # "NONE"
                                                               => operations[d].child.day # o.child.day
<1>1. ASSUME NEW d \in Candidates, d < c, operations[d].status = "LIVE_ACCEPTED"
      PROVE  operations[d].child.day # o.child.day
  BY <1>1 DEF OperationsSound
<1>2. ASSUME o.status = "LIVE_ACCEPTED", NEW d \in Candidates, c < d, operations[d].status # "NONE"
      PROVE  operations[d].child.day # o.child.day
  <2>1. CASE operations[c].status = "LIVE_ACCEPTED"
    BY <1>2, <2>1 DEF OperationsSound
  <2>2. CASE Youngest(c)
    <3>1. d > c
      BY <1>2
    <3>2. QED
      BY <1>2, <2>2, <3>1 DEF Youngest
  <2>3. QED
    BY <1>2, <2>1, <2>2
<1>3. QED
  BY <1>1, <1>2

LEMMA StartKeeps == ASSUME IInv, NEW p \in Processes, StartPrepare(p) PROVE IInv'
<1> DEFINE c == my[p].cand
           o == [operations[c] EXCEPT !.status = "PREPARING", !.attempts = operations[c].attempts + 1,
                                      !.clean = my[p].base]
<1>1. /\ pc[p] = "start" /\ pc[p] \in Working \cup {"accept", "fail"} /\ pc[p] \in Preparing
      /\ "promote" \in Preparing \cup {"fail"} /\ "promote" \in PC /\ "promote" \in Executing
  BY DEF StartPrepare, Working, Preparing, PC, Executing
<1>2. /\ CommandType /\ StateType /\ OperationsSound /\ HistorySound
      /\ my[p] \in My /\ job[p] \in Jobs /\ Fits(pc[p], job[p], my[p]) /\ WorkSound(pc[p], my[p])
      /\ pc[p] \in Executing /\ c \in Candidates /\ candidate \in Nat
      /\ operations[c] \in Operation /\ OperationSound(c)
  BY <1>1, UnderWork
<1>3. UNCHANGED <<now, candidate, mandate, children, inner, receipts, checkout, remote, history, job, my, writers>>
      /\ Goto(p, "promote")
  BY DEF StartPrepare, Unchanged
<1>4. CASE operations' = operations
  <2>1. StateType' /\ UNCHANGED Recorded
    BY <1>2, <1>3, <1>4, StateKept DEF authority, StateType, history, checkout, Recorded
  <2>2. QED
    BY <1>1, <1>3, <2>1, PreparingKeeps
<1>5. CASE operations' # operations
  <2>1. operations' = [operations EXCEPT ![c] = o] /\ operations[c].clean = None
    BY <1>2, <1>5 DEF StartPrepare, StateType
  <2>2. /\ operations[c].status \notin {"NONE", "FAILED", "LIVE_ACCEPTED"} /\ operations[c].commit = None
        /\ Youngest(c) /\ head = my[p].base /\ tracking = my[p].base
    BY <1>1, <1>2 DEF WorkSound
  <2>3. my[p].base \in Commits /\ operations[c].attempts = 0
    BY <1>2, <2>1 DEF OperationSound, My
  <2>4. o \in Operation /\ o.status = "PREPARING" /\ o.clean = my[p].base /\ o.child = operations[c].child
        /\ o.commit = operations[c].commit
    <3>1. operations[c].attempts + 1 \in 0..1
      BY <2>3
    <3>2. my[p].base \in {None} \cup Commits
      BY <2>3
    <3> HIDE DEF c
    <3>3. QED
      BY <1>2, <3>1, <3>2 DEF Operation, Statuses
  <2>5. o.child \in children /\ o.child.cand = c /\ c <= candidate
    BY <1>2, <2>2, <2>4 DEF OperationSound
  <2> HIDE DEF o
  <2>6. RecordSound(c, o)
    BY <1>2, <2>2, <2>3, <2>4, <2>5, SameChild DEF RecordSound
  <2>7. Moved(p, "promote", job[p], my[p])
    BY <1>2, <1>3 DEF Moved, Goto, CommandType
  <2>8. Fits("promote", job[p], my[p])
    BY <1>1, <1>2 DEF Fits, Working, Preparing
  <2>9. WorkSound("promote", my[p])'
    <3>1. operations'[c] = o /\ \A d \in Candidates : d # c => operations'[d] = operations[d]
      BY <1>2, <2>1 DEF StateType
    <3>2. head' = head /\ tracking' = tracking /\ candidate' = candidate
      BY <1>3 DEF checkout
    <3>3. Youngest(c)'
      BY <1>2, <1>3, <2>2, <3>1, <3>2 DEF Youngest
    <3>4. QED
      BY <1>3, <2>2, <2>4, <3>1, <3>2, <3>3 DEF WorkSound, Working, Preparing
  <2>10. children' = children /\ children \subseteq Child
    BY <1>2, <1>3 DEF StateType
  <2>11. QED
    BY <1>1, <1>2, <1>3, <2>1, <2>4, <2>5, <2>6, <2>7, <2>8, <2>9, <2>10, RecordKeeps
<1>6. QED
  BY <1>4, <1>5

LEMMA FinishRecords ==
  ASSUME IInv, NEW p \in Processes, pc[p] \in Executing, Finish(p),
         NEW c \in Candidates, NEW o \in Operation, RecordSound(c, o), o.child \in children,
         operations' = [operations EXCEPT ![c] = o],
         UNCHANGED <<now, candidate, mandate, children, inner, receipts, checkout, remote, history>>
  PROVE  IInv'
<1>1. CommandType /\ CommandsSound /\ StateType
  BY Inside
<1>2. writers' = writers \ {p}
  BY <1>1, FinishMoves
<1>3. PICK to \in {"idle", "settle"}, what \in Jobs, m \in My : Moved(p, to, what, m) /\ Fits(to, what, m)
  BY <1>1, FinishMoves
<1>4. to \in PC /\ to \notin Executing
  BY <1>3, PlacesType DEF Executing
<1>5. WorkSound(to, m)'
  BY <1>3 DEF WorkSound, Working, Preparing
<1>6. children' = children /\ children \subseteq Child
  BY <1>1 DEF StateType
<1>7. QED
  BY <1>2, <1>3, <1>4, <1>5, <1>6, RecordKeeps

LEMMA FailedKeeps == ASSUME IInv, NEW p \in Processes, RecordFailed(p) PROVE IInv'
<1>0. PICK c : c = my[p].cand
  OBVIOUS
<1>1. pc[p] = "fail" /\ pc[p] \in Working \cup {"accept", "fail"} /\ Finish(p)
      /\ UNCHANGED <<now, candidate, mandate, children, inner, receipts, checkout, remote, history>>
  BY DEF RecordFailed, Unchanged
<1>2. /\ StateType /\ OperationsSound /\ HistorySound /\ Fits(pc[p], job[p], my[p])
      /\ pc[p] \in Executing /\ c \in Candidates /\ operations[c] \in Operation /\ OperationSound(c)
  BY <1>0, <1>1, UnderWork
<1>3. PICK o : o = [operations[c] EXCEPT !.status = IF @ = "LIVE_ACCEPTED" THEN @ ELSE "FAILED"]
  OBVIOUS
<1>4. operations' = [operations EXCEPT ![c] = o]
  BY <1>0, <1>3 DEF RecordFailed
<1>5. o \in Operation
  BY <1>2, <1>3 DEF Operation, Statuses
<1>6. /\ o.child = operations[c].child /\ o.clean = operations[c].clean /\ o.commit = operations[c].commit
      /\ o.attempts = operations[c].attempts /\ o.completed = operations[c].completed
      /\ o.status \in {"LIVE_ACCEPTED", "FAILED"}
      /\ o.status = "LIVE_ACCEPTED" => operations[c].status = "LIVE_ACCEPTED"
  BY <1>2, <1>3 DEF Operation
<1>7. operations[c].status # "NONE"
  BY <1>0, <1>1, <1>2 DEF Fits
<1>8. o.child \in children /\ o.child.cand = c /\ c <= candidate
  BY <1>2, <1>6, <1>7 DEF OperationSound
<1>9. /\ \A d \in Candidates : d < c /\ operations[d].status = "LIVE_ACCEPTED"
                               => operations[d].child.day # o.child.day
      /\ o.status = "LIVE_ACCEPTED" => \A d \in Candidates : c < d /\ operations[d].status # "NONE"
                                                            => operations[d].child.day # o.child.day
  BY <1>2, <1>5, <1>6, <1>7, SameChild
<1>10. c = candidate /\ o.commit # None => o.commit = head
  BY <1>2, <1>6 DEF HistorySound
<1>11. RecordSound(c, o)
  BY <1>2, <1>6, <1>8, <1>9, <1>10 DEF RecordSound, OperationSound
<1>12. QED
  BY <1>1, <1>2, <1>4, <1>5, <1>8, <1>11, FinishRecords

LEMMA AcceptedKeeps == ASSUME IInv, NEW p \in Processes, RecordAccepted(p) PROVE IInv'
<1>0. PICK c : c = my[p].cand
  OBVIOUS
<1>1. pc[p] = "accept" /\ pc[p] \in Working \cup {"accept", "fail"} /\ Finish(p)
      /\ UNCHANGED <<now, candidate, mandate, children, inner, receipts, checkout, remote, history>>
  BY DEF RecordAccepted, Unchanged
<1>2. /\ StateType /\ OperationsSound /\ HistorySound /\ Fits(pc[p], job[p], my[p]) /\ my[p] \in My
      /\ pc[p] \in Executing /\ c \in Candidates /\ operations[c] \in Operation /\ OperationSound(c)
      /\ WorkSound(pc[p], my[p])
  BY <1>0, <1>1, UnderWork
<1>3. PICK o : o = [operations[c] EXCEPT !.status = "LIVE_ACCEPTED", !.completed = my[p].completed]
  OBVIOUS
<1>4. operations' = [operations EXCEPT ![c] = o]
  BY <1>0, <1>3 DEF RecordAccepted
<1>5. my[p].completed # None /\ my[p].completed < FreshUntil[c] /\ my[p].completed \in {None} \cup Nat
  BY <1>0, <1>1, <1>2 DEF Fits, My
<1>6. o \in Operation
  BY <1>2, <1>3, <1>5 DEF Operation, Statuses
<1>7. /\ o.child = operations[c].child /\ o.clean = operations[c].clean /\ o.commit = operations[c].commit
      /\ o.attempts = operations[c].attempts /\ o.completed = my[p].completed
      /\ o.status = "LIVE_ACCEPTED"
  BY <1>2, <1>3 DEF Operation
<1>8. Youngest(c) /\ operations[c].status = "DEPLOYMENT_PENDING" /\ operations[c].commit \in Commits
      /\ operations[c].commit = Append(operations[c].child.base, c) /\ Prefix(operations[c].commit, remote)
  BY <1>0, <1>1, <1>2 DEF WorkSound
<1>9. o.child \in children /\ o.child.cand = c /\ c <= candidate
  BY <1>2, <1>7, <1>8 DEF OperationSound
<1>10. /\ \A d \in Candidates : d < c /\ operations[d].status = "LIVE_ACCEPTED"
                                => operations[d].child.day # o.child.day
       /\ o.status = "LIVE_ACCEPTED" => \A d \in Candidates : c < d /\ operations[d].status # "NONE"
                                                             => operations[d].child.day # o.child.day
  BY <1>2, <1>6, <1>7, <1>8, SameChild
<1>11. c = candidate /\ o.commit # None => o.commit = head
  BY <1>2, <1>7 DEF HistorySound
<1>12. RecordSound(c, o)
  <2>1. o.clean = None => o.attempts = 0
    BY <1>2, <1>7 DEF OperationSound
  <2>2. /\ o.commit \in Commits /\ o.commit = Append(o.child.base, c) /\ Prefix(o.commit, remote)
        /\ o.completed # None /\ o.completed < FreshUntil[c] /\ o.commit # None
    BY <1>5, <1>7, <1>8
  <2>3. o.status # "NONE"
    BY <1>7
  <2>4. QED
    BY <1>9, <1>10, <1>11, <2>1, <2>2, <2>3 DEF RecordSound
<1>13. QED
  BY <1>1, <1>2, <1>4, <1>6, <1>9, <1>12, FinishRecords

(* A step that goes on with the work on an operation that keeps its child. *)
LEMMA WorkRecords ==
  ASSUME IInv, NEW p \in Processes, pc[p] \in {"checkpoint", "main"},
         NEW to \in {"push", "observe"}, Goto(p, to), UNCHANGED <<job, my, writers>>,
         NEW c, c = my[p].cand, NEW o \in Operation, operations' = [operations EXCEPT ![c] = o],
         o.status \in {"CHECKPOINTED", "DEPLOYMENT_PENDING"}, o.child = operations[c].child,
         o.clean = operations[c].clean, o.attempts = operations[c].attempts,
         operations[c].commit # None => o.commit # None,
         c = candidate /\ o.commit # None => o.commit = head,
         to = "push" => /\ o.commit = head /\ tracking = my[p].base
                        /\ head = my[p].base \/ head = Append(my[p].base, c),
         UNCHANGED <<now, candidate, mandate, children, inner, receipts, checkout, remote, history>>
  PROVE  IInv'
<1>1. pc[p] \in Working \cup {"accept", "fail"} /\ pc[p] \in Working
      /\ to \in PC /\ to \in Executing
  BY DEF Working, PC, Executing
<1>2. /\ CommandType /\ StateType /\ OperationsSound /\ HistorySound /\ Fits(pc[p], job[p], my[p])
      /\ my[p] \in My /\ job[p] \in Jobs
      /\ pc[p] \in Executing /\ c \in Candidates /\ operations[c] \in Operation /\ OperationSound(c)
      /\ WorkSound(pc[p], my[p])
  BY <1>1, UnderWork
<1>3. operations[c].status # "NONE" /\ Youngest(c)
  BY <1>1, <1>2 DEF WorkSound
<1>4. o.child \in children /\ o.child.cand = c /\ c <= candidate
  BY <1>2, <1>3 DEF OperationSound
<1>5. /\ \A d \in Candidates : d < c /\ operations[d].status = "LIVE_ACCEPTED"
                               => operations[d].child.day # o.child.day
      /\ o.status = "LIVE_ACCEPTED" => \A d \in Candidates : c < d /\ operations[d].status # "NONE"
                                                            => operations[d].child.day # o.child.day
  BY <1>2, <1>3, SameChild
<1>6. RecordSound(c, o)
  BY <1>2, <1>4, <1>5 DEF RecordSound, OperationSound
<1>7. Moved(p, to, job[p], my[p])
  BY <1>2 DEF Moved, Goto, CommandType
<1>8. Fits(to, job[p], my[p])
  BY <1>1, <1>2, <1>3 DEF Fits, Working, Preparing
<1>9. WorkSound(to, my[p])'
  <2>1. operations'[c] = o /\ \A d \in Candidates : d # c => operations'[d] = operations[d]
    BY <1>2 DEF StateType
  <2>2. head' = head /\ tracking' = tracking /\ candidate' = candidate /\ my'[p] = my[p]
    BY DEF checkout
  <2>3. Youngest(c)'
    BY <1>2, <1>3, <2>1, <2>2 DEF Youngest
  <2>4. QED
    BY <2>1, <2>2, <2>3 DEF WorkSound, Working, Preparing
<1>10. children' = children /\ children \subseteq Child
  BY <1>2 DEF StateType
<1>11. QED
  BY <1>1, <1>2, <1>4, <1>6, <1>7, <1>8, <1>9, <1>10, RecordKeeps

LEMMA CheckpointKeeps == ASSUME IInv, NEW p \in Processes, RecordCheckpoint(p) PROVE IInv'
<1>0. PICK c : c = my[p].cand
  OBVIOUS
<1>1. pc[p] = "checkpoint" /\ pc[p] \in Working \cup {"accept", "fail"}
      /\ Goto(p, "push") /\ UNCHANGED <<job, my, writers>>
      /\ UNCHANGED <<now, candidate, mandate, children, inner, receipts, checkout, remote, history>>
  BY DEF RecordCheckpoint, Unchanged, Working
<1>2. /\ c \in Candidates /\ operations[c] \in Operation /\ WorkSound(pc[p], my[p]) /\ head \in Commits
  BY <1>0, <1>1, UnderWork
<1>3. PICK o : o = [operations[c] EXCEPT !.status = "CHECKPOINTED", !.commit = head]
  OBVIOUS
<1>4. operations' = [operations EXCEPT ![c] = o]
  BY <1>0, <1>3 DEF RecordCheckpoint
<1>5. o \in Operation
  BY <1>2, <1>3 DEF Operation, Statuses
<1>6. /\ o.child = operations[c].child /\ o.clean = operations[c].clean /\ o.commit = head
      /\ o.attempts = operations[c].attempts /\ o.status = "CHECKPOINTED"
  BY <1>2, <1>3 DEF Operation
<1>7. head = Append(my[p].base, c) /\ tracking = my[p].base /\ head # None
  BY <1>0, <1>1, <1>2 DEF WorkSound
<1>8. o.status \in {"CHECKPOINTED", "DEPLOYMENT_PENDING"} /\ o.commit = head /\ o.commit # None
      /\ (head = my[p].base \/ head = Append(my[p].base, c))
  BY <1>6, <1>7
<1>9. QED
  BY <1>0, <1>1, <1>4, <1>5, <1>6, <1>7, <1>8, WorkRecords

LEMMA MainKeeps == ASSUME IInv, NEW p \in Processes, RecordMain(p) PROVE IInv'
<1>0. PICK c : c = my[p].cand
  OBVIOUS
<1>1. pc[p] = "main" /\ pc[p] \in Working \cup {"accept", "fail"}
      /\ Goto(p, "observe") /\ UNCHANGED <<job, my, writers>>
      /\ UNCHANGED <<now, candidate, mandate, children, inner, receipts, checkout, remote, history>>
  BY DEF RecordMain, Unchanged, Working
<1>2. /\ c \in Candidates /\ operations[c] \in Operation /\ HistorySound
  BY <1>0, <1>1, UnderWork
<1>3. PICK o : o = [operations[c] EXCEPT !.status = "DEPLOYMENT_PENDING"]
  OBVIOUS
<1>4. operations' = [operations EXCEPT ![c] = o]
  BY <1>0, <1>3 DEF RecordMain
<1>5. o \in Operation
  BY <1>2, <1>3 DEF Operation, Statuses
<1>6. /\ o.child = operations[c].child /\ o.clean = operations[c].clean /\ o.commit = operations[c].commit
      /\ o.attempts = operations[c].attempts /\ o.status = "DEPLOYMENT_PENDING"
  BY <1>2, <1>3 DEF Operation
<1>7. c = candidate /\ o.commit # None => o.commit = head
  BY <1>2, <1>6 DEF HistorySound
<1>8. /\ o.status \in {"CHECKPOINTED", "DEPLOYMENT_PENDING"} /\ pc[p] \in {"checkpoint", "main"}
      /\ operations[c].commit # None => o.commit # None
  BY <1>1, <1>6
<1>9. "observe" \in {"push", "observe"} /\ "observe" # "push"
  OBVIOUS
<1>10. QED
  BY <1>0, <1>1, <1>4, <1>5, <1>6, <1>7, <1>8, <1>9, WorkRecords

LEMMA CommitKeeps == ASSUME IInv, NEW p \in Processes, Commit(p) PROVE IInv'
<1>0. PICK c : c = my[p].cand
  OBVIOUS
<1>1. pc[p] = "commit" /\ pc[p] \in Working \cup {"accept", "fail"} /\ pc[p] \in Preparing /\ pc[p] \in Working
      /\ Goto(p, "checkpoint") /\ UNCHANGED <<job, my, writers>>
      /\ UNCHANGED <<now, candidate, mandate, children, operations, inner, receipts, release, tracking, remote, invoked, events>>
      /\ head' = Append(head, c) /\ dirty' = {}
  BY <1>0 DEF Commit, Unchanged, Working, Preparing, authority, history
<1>2. /\ CommandType /\ StateType /\ OperationsSound /\ HistorySound /\ Fits(pc[p], job[p], my[p])
      /\ my[p] \in My /\ job[p] \in Jobs
      /\ pc[p] \in Executing /\ c \in Candidates /\ operations[c] \in Operation /\ OperationSound(c)
      /\ WorkSound(pc[p], my[p]) /\ head \in Commits /\ candidate \in Nat
  BY <1>0, <1>1, UnderWork
<1>3. CommandsSound /\ LockSound /\ WorksSound /\ ReceiptsSound
  BY DEF IInv
<1>4. /\ operations[c].status \notin {"NONE", "FAILED", "LIVE_ACCEPTED"} /\ operations[c].commit = None
      /\ Youngest(c) /\ head = my[p].base /\ tracking = my[p].base
  BY <1>0, <1>1, <1>2 DEF WorkSound
<1>5. Moved(p, "checkpoint", job[p], my[p])
  BY <1>1, <1>2 DEF Moved, Goto, CommandType
<1>6. Fits("checkpoint", job[p], my[p])
  BY <1>1, <1>2 DEF Fits, Working, Preparing
<1>7. "checkpoint" \in PC /\ "checkpoint" \in Executing
  BY DEF PC, Executing
<1>8. CommandType' /\ CommandsSound'
  BY <1>1, <1>2, <1>3, <1>5, <1>6, <1>7, CommandFrame DEF NothingLost
<1>9. LockSound'
  BY <1>1, <1>2, <1>3, <1>5, LockFrame DEF LockSound
<1>10. OperationsSound'
  <2>1. ASSUME NEW d \in Candidates, OperationSound(d) PROVE OperationSound(d)'
    BY <1>1, <2>1 DEF OperationSound, Prefix
  <2>2. QED
    BY <1>1, <1>2, <2>1 DEF OperationsSound
<1>11. HistorySound'
  <2>1. \A i \in 1..Len(head) : head[i] # c
    <3>1. ASSUME NEW i \in 1..Len(head), head[i] = c PROVE FALSE
      <4>1. tracking[i] = c /\ i \in 1..Len(tracking) /\ c # Others
        BY <1>2, <1>4, <3>1 DEF Others
      <4>2. operations[c].commit # None
        BY <1>2, <4>1 DEF HistorySound
      <4>3. QED
        BY <1>4, <4>2
    <3>2. QED
      BY <3>1
  <2>2. Distinct(head')
    BY <1>1, <1>2, <2>1, DistinctAppended DEF HistorySound
  <2>3. ASSUME candidate # 0 PROVE operations[candidate].commit = None
    <3>1. CASE candidate = c
      BY <1>4, <3>1
    <3>2. CASE candidate # c
      <4>1. candidate \in Candidates
        BY <1>2, <2>3 DEF StateType, Releases
      <4>2. candidate > c
        <5>1. c \in Nat /\ c <= candidate
          BY <1>2, <1>4 DEF Youngest
        <5>2. QED
          BY <1>2, <3>2, <5>1
      <4>3. operations[candidate] = NoOperation
        BY <1>2, <1>4, <4>1, <4>2 DEF Youngest, OperationsSound, OperationSound
      <4>4. QED
        BY <4>3 DEF NoOperation
    <3>3. QED
      BY <3>1, <3>2
  <2>4. QED
    BY <1>1, <1>2, <2>2, <2>3 DEF HistorySound, Distinct
<1>12. WorkSound("checkpoint", my[p])'
  <2>1. Youngest(c)'
    BY <1>1, <1>4 DEF Youngest
  <2>2. QED
    BY <1>0, <1>1, <1>4, <2>1 DEF WorkSound, Working, Preparing
<1>13. WorksSound'
  BY <1>1, <1>2, <1>3, <1>5, <1>12, WorkFrame
<1>14. ReceiptsSound'
  BY <1>1, <1>3, ReceiptsKept
<1>15. StateType'
  <2>1. head' \in Commits
    BY <1>1, <1>2, Appended
  <2>2. QED
    BY <1>1, <1>2, <2>1 DEF StateType
<1>16. QED
  BY <1>8, <1>9, <1>10, <1>11, <1>13, <1>14, <1>15, TypeParts DEF IInv, TypeOK, CommandType, StateType, Jobs

LEMMA AuthorizeKeeps == ASSUME IInv, NEW p \in Processes, AuthorizeChild(p) PROVE IInv'
<1>0. PICK c : c = my[p].cand
  OBVIOUS
<1>1. pc[p] = "authorize" /\ pc[p] \in Working \cup {"accept", "fail"} /\ pc[p] \in Working
      /\ UNCHANGED <<now, candidate, mandate, inner, receipts, checkout, remote, history>>
  BY DEF AuthorizeChild, Unchanged, Working
<1>2. /\ CommandType /\ StateType /\ OperationsSound /\ HistorySound /\ Fits(pc[p], job[p], my[p])
      /\ my[p] \in My /\ job[p] \in Jobs
      /\ pc[p] \in Executing /\ c \in Candidates /\ operations[c] \in Operation /\ OperationSound(c)
      /\ WorkSound(pc[p], my[p]) /\ head \in Commits /\ candidate \in Nat
  BY <1>0, <1>1, UnderWork
<1>3. CASE ~(Authorizable(p) /\ Issue(p))
  <2>1. Finish(p) /\ UNCHANGED <<children, operations>>
    BY <1>3 DEF AuthorizeChild
  <2>2. QED
    BY <1>1, <2>1, EndsKeep DEF authority
<1>4. CASE Authorizable(p) /\ Issue(p)
  <2>1. PICK child : child = ChildOf(p)
    OBVIOUS
  <2>2. PICK to : to = IF operations[c].commit = None THEN "start" ELSE "push"
    OBVIOUS
  <2>3. child.cand = c /\ child.base = my[p].base /\ child.day = Day(my[p].at) /\ child \in Child
    <3>1. release.cand \in Releases /\ my[p].base \in Commits /\ my[p].at \in Nat
      BY <1>2 DEF StateType, My
    <3>2. Day(my[p].at) \in Nat
      BY <3>1 DEF Day
    <3>3. QED
      BY <1>0, <1>2, <2>1, <3>1, <3>2 DEF ChildOf, Child
  <2>4. /\ children' = children \cup {child} /\ my' = [my EXCEPT ![p].child = child]
        /\ Goto(p, to) /\ UNCHANGED <<job, writers>>
    BY <1>4, <2>1, <2>2, <2>3 DEF Issue
  <2>5. PICK o : o = IF operations[c].status # "NONE" THEN operations[c]
                     ELSE [NoOperation EXCEPT !.status = "AUTHORIZED", !.child = child]
    OBVIOUS
  <2>6. operations[c].status = "NONE" => operations[c] = NoOperation
    BY <1>2 DEF OperationSound
  <2>7. operations' = [operations EXCEPT ![c] = o]
    <3>1. CASE operations[c].status # "NONE"
      BY <1>2, <1>4, <2>1, <2>3, <2>5, <3>1 DEF Issue, StateType
    <3>2. CASE operations[c].status = "NONE"
      BY <1>2, <1>4, <2>1, <2>3, <2>5, <2>6, <3>2 DEF Issue, StateType
    <3>3. QED
      BY <3>1, <3>2
  <2>8. Youngest(c) /\ operations[c].status \notin {"FAILED", "LIVE_ACCEPTED"}
        /\ head = my[p].base /\ tracking = my[p].base /\ operations[c].commit \in {None, head}
    BY <1>0, <1>1, <1>2 DEF WorkSound
  <2>9. o \in Operation /\ o.commit = operations[c].commit /\ o.status \notin {"NONE", "LIVE_ACCEPTED", "FAILED"}
    <3>1. CASE operations[c].status # "NONE"
      BY <1>2, <2>5, <2>8, <3>1
    <3>2. CASE operations[c].status = "NONE"
      <4>1. o = [operations[c] EXCEPT !.status = "AUTHORIZED", !.child = child]
        BY <2>5, <2>6, <3>2
      <4>2. QED
        BY <1>2, <2>3, <4>1 DEF Operation, Statuses
    <3>3. QED
      BY <3>1, <3>2
  <2>10. o.child \in children' /\ o.child.cand = c /\ c <= candidate /\ (o.clean = None => o.attempts = 0)
    <3>1. CASE operations[c].status # "NONE"
      BY <1>2, <2>4, <2>5, <3>1 DEF OperationSound
    <3>2. CASE operations[c].status = "NONE"
      BY <2>3, <2>4, <2>5, <2>8, <3>2 DEF NoOperation, Youngest
    <3>3. QED
      BY <3>1, <3>2
  <2>11. \A d \in Candidates : d < c /\ operations[d].status = "LIVE_ACCEPTED"
                               => operations[d].child.day # o.child.day
    <3>1. CASE operations[c].status # "NONE"
      BY <1>2, <2>5, <3>1 DEF OperationsSound
    <3>2. CASE operations[c].status = "NONE"
      <4>1. o.child.day = Day(my[p].at)
        BY <2>3, <2>5, <3>2 DEF NoOperation
      <4>2. \A d \in Candidates : operations[d].status = "LIVE_ACCEPTED" => operations[d].child.day # Day(my[p].at)
        BY <1>4 DEF Authorizable, LimitReached
      <4>3. QED
        BY <4>1, <4>2
    <3>3. QED
      BY <3>1, <3>2
  <2>12. c = candidate /\ o.commit # None => o.commit = head
    BY <1>2, <2>9 DEF HistorySound
  <2>13. RecordSound(c, o)
    BY <2>9, <2>10, <2>11, <2>12 DEF RecordSound
  <2>14. PICK m : m = [my[p] EXCEPT !.child = child]
    OBVIOUS
  <2>15. m \in My /\ m.cand = c /\ m.base = my[p].base /\ m.child = child /\ m.run = my[p].run
    BY <1>0, <1>2, <2>3, <2>14 DEF My
  <2>16. Moved(p, to, job[p], m)
    BY <1>2, <2>4, <2>14 DEF Moved, Goto, CommandType
  <2>17. to \in {"start", "push"} /\ to \in PC /\ to \in Executing
    BY <2>2 DEF PC, Executing
  <2>18. job[p] = "binding" => my[p].run # 0
    BY <1>2 DEF Fits
  <2>19. c # 0 /\ c \in Nat
    BY <1>2
  <2>20. Fits(to, job[p], m)
    BY <2>3, <2>15, <2>17, <2>18, <2>19 DEF Fits, Working, Preparing
  <2>21. WorkSound(to, m)'
    <3>1. operations'[c] = o /\ \A d \in Candidates : d # c => operations'[d] = operations[d]
      BY <1>2, <2>7 DEF StateType
    <3>2. head' = head /\ tracking' = tracking /\ candidate' = candidate
      BY <1>1 DEF checkout
    <3>3. Youngest(c)'
      BY <1>2, <2>8, <2>19, <3>1, <3>2 DEF Youngest
    <3>4. to = "push" => o.commit = head
      BY <2>2, <2>8, <2>9, <2>17
    <3>5. to = "start" => o.commit = None
      BY <2>2, <2>9, <2>17
    <3>6. QED
      BY <2>8, <2>9, <2>15, <2>17, <3>1, <3>2, <3>3, <3>4, <3>5 DEF WorkSound, Working, Preparing
  <2>22. children \subseteq children' /\ children' \subseteq Child
    BY <1>2, <2>3, <2>4 DEF StateType
  <2>23. QED
    BY <1>1, <1>2, <2>4, <2>7, <2>9, <2>10, <2>13, <2>15, <2>16, <2>17, <2>20, <2>21, <2>22, RecordKeeps
<1>5. QED
  BY <1>3, <1>4

LEMMA PushKeeps == ASSUME IInv, NEW p \in Processes, Push(p) PROVE IInv'
<1>0. PICK c : c = my[p].cand
  OBVIOUS
<1>1. pc[p] = "push" /\ pc[p] \in Working \cup {"accept", "fail"} /\ pc[p] \in Working
      /\ UNCHANGED <<now, candidate, mandate, children, operations, inner, receipts, release, dirty, head, invoked, events>>
      /\ UNCHANGED <<job, my, writers>>
  BY DEF Push, Unchanged, Working, authority, history
<1>2. /\ CommandType /\ StateType /\ OperationsSound /\ HistorySound /\ Fits(pc[p], job[p], my[p])
      /\ my[p] \in My /\ job[p] \in Jobs
      /\ pc[p] \in Executing /\ c \in Candidates /\ operations[c] \in Operation /\ OperationSound(c)
      /\ WorkSound(pc[p], my[p]) /\ head \in Commits /\ tracking \in Commits /\ remote \in Commits
  BY <1>0, <1>1, UnderWork
<1>3. /\ Youngest(c) /\ operations[c].status \notin {"NONE", "FAILED", "LIVE_ACCEPTED"}
      /\ operations[c].commit = head /\ tracking = my[p].base
      /\ head = my[p].base \/ head = Append(my[p].base, c)
  BY <1>0, <1>1, <1>2 DEF WorkSound
<1>4. CommandsSound /\ LockSound /\ WorksSound /\ ReceiptsSound
  BY DEF IInv
<1>5. PICK to \in {"main", "fail"} : Goto(p, to)
  BY DEF Push
<1>6. to \in PC /\ to \in Executing
  BY <1>5 DEF PC, Executing
<1>7. Moved(p, to, job[p], my[p])
  BY <1>1, <1>2, <1>5 DEF Moved, Goto, CommandType
<1>8. c # 0 /\ (job[p] = "binding" => my[p].run # 0) /\ my[p].child \in Child /\ my[p].child.cand = c
      /\ my[p].child.base = my[p].base
  BY <1>0, <1>1, <1>2 DEF Fits
<1>9. Fits(to, job[p], my[p])
  BY <1>0, <1>3, <1>5, <1>8 DEF Fits, Working, Preparing
<1>10. CommandType' /\ CommandsSound'
  BY <1>1, <1>2, <1>4, <1>6, <1>7, <1>9, CommandFrame DEF NothingLost
<1>11. LockSound'
  BY <1>1, <1>2, <1>4, <1>7, LockFrame DEF LockSound
<1>12. remote' = remote \/ (remote = my[p].base /\ remote' = head)
  BY <1>0, <1>3 DEF Push
<1>13. tracking' = tracking \/ tracking' = head
  BY <1>0, <1>3 DEF Push
<1>14. \A i \in 1..Len(head) : head[i] # Others => operations[head[i]].commit # None
  <2>1. \A i \in 1..Len(tracking) : tracking[i] # Others => operations[tracking[i]].commit # None
    BY <1>2 DEF HistorySound
  <2>2. operations[c].commit # None
    BY <1>2, <1>3
  <2>3. CASE head = my[p].base
    BY <1>3, <2>1, <2>3
  <2>4. CASE head = Append(my[p].base, c)
    <3>1. /\ Len(head) = Len(tracking) + 1 /\ Len(tracking) \in Nat /\ head[Len(tracking) + 1] = c
          /\ \A i \in 1..Len(tracking) : head[i] = tracking[i]
      BY <1>2, <1>3, <2>4, Appended
    <3>2. ASSUME NEW i \in 1..Len(head), head[i] # Others PROVE operations[head[i]].commit # None
      <4>1. i \in 1..Len(tracking) \/ i = Len(tracking) + 1
        BY <3>1
      <4>2. QED
        BY <2>1, <2>2, <3>1, <3>2, <4>1
    <3>3. QED
      BY <3>2
  <2>5. QED
    BY <1>3, <2>3, <2>4
<1>15. HistorySound'
  <2>1. Distinct(remote')
    BY <1>2, <1>12 DEF HistorySound
  <2>2. \A i \in 1..Len(tracking') : tracking'[i] # Others => operations[tracking'[i]].commit # None
    BY <1>2, <1>13, <1>14 DEF HistorySound
  <2>3. QED
    BY <1>1, <1>2, <2>1, <2>2 DEF HistorySound, Distinct
<1>16. ASSUME NEW s \in Commits, Prefix(s, remote) PROVE Prefix(s, remote')
  <2>1. Prefix(s, Append(remote, c))
    BY <1>2, <1>16, PrefixAppended
  <2>2. QED
    BY <1>3, <1>12, <1>16, <2>1
<1>17. OperationsSound'
  <2>1. ASSUME NEW d \in Candidates PROVE OperationSound(d)'
    <3>1. OperationSound(d)
      BY <1>2 DEF OperationsSound
    <3>2. operations[d].status = "LIVE_ACCEPTED" => Prefix(operations[d].commit, remote')
      BY <1>16, <3>1 DEF OperationSound
    <3>3. QED
      BY <1>1, <3>1, <3>2 DEF OperationSound, Prefix
  <2>2. QED
    BY <1>1, <1>2, <2>1 DEF OperationsSound
<1>18. WorkSound(to, my[p])'
  <2>1. Youngest(c)'
    BY <1>1, <1>3 DEF Youngest
  <2>2. QED
    BY <1>0, <1>1, <1>3, <1>5, <2>1 DEF WorkSound, Working, Preparing
<1>19. WorksSound'
  BY <1>1, <1>2, <1>4, <1>7, <1>18, WorkFrame
<1>20. ReceiptsSound'
  BY <1>1, <1>4, ReceiptsKept
<1>21. StateType'
  BY <1>1, <1>2, <1>12, <1>13 DEF StateType
<1>22. QED
  BY <1>10, <1>11, <1>15, <1>17, <1>19, <1>20, <1>21, TypeParts DEF IInv, TypeOK, CommandType, StateType, Jobs

-----------------------------------------------------------------------------
LEMMA IInvInit == Init => IInv
<1> SUFFICES ASSUME Init PROVE IInv
  OBVIOUS
<1>1. NoOperation \in Operation /\ <<>> \in Commits
  BY DEF NoOperation, Operation, Statuses, Commits
<1>2. CommandType
  BY NothingReadType, PlacesType DEF Init, CommandType, Jobs
<1>3. StateType
  BY <1>1 DEF Init, StateType, Releases, Lock!Init
<1>4. CommandsSound
  BY DEF Init, CommandsSound, Fits, Working, Preparing
<1>5. LockSound /\ ReceiptsSound
  BY DEF Init, LockSound, ReceiptsSound, Executing, Lock!Init
<1>6. OperationsSound
  BY DEF Init, OperationsSound, OperationSound, NoOperation
<1>7. HistorySound
  BY <1>1 DEF Init, HistorySound, Distinct, Commits
<1>8. WorksSound
  BY DEF Init, WorksSound, WorkSound, Working, Preparing
<1>9. QED
  BY <1>2, <1>3, <1>4, <1>5, <1>6, <1>7, <1>8, TypeParts DEF IInv

LEMMA IInvStep == IInv /\ [Next]_vars => IInv'
<1> SUFFICES ASSUME IInv, [Next]_vars PROVE IInv'
  OBVIOUS
<1>1. CASE World
  BY <1>1, WorldKeeps
<1>2. ASSUME NEW p \in Processes, Step(p) PROVE IInv'
  <2>1. CASE Prepare(p)
    BY <2>1, ReadsKeep, AuthorizeKeeps, StartKeeps, PromoteKeeps, WritesKeep, RecordInnerKeeps, BeginKeeps,
       BuildKeeps DEF Prepare
  <2>2. CASE Bind(p) \/ RecordReceipt(p) \/ Settle(p) \/ Command(p) \/ AskToObserve(p) \/ EnterLock(p) \/ Crash(p)
    BY <2>2, BindKeeps, ReceiptsKeep, CommandKeeps, AskKeeps, EnterKeeps, CrashKeeps
  <2>3. CASE Commit(p) \/ RecordCheckpoint(p) \/ Push(p) \/ RecordMain(p)
    BY <2>3, CommitKeeps, CheckpointKeeps, PushKeeps, MainKeeps
  <2>4. CASE ObserveLive(p) \/ ObservePending(p) \/ ObserveEnded(p) \/ ObserveFails(p)
    BY <2>4, ObserveLiveKeeps, ObservesKeep
  <2>5. CASE RecordFailed(p) \/ RecordAccepted(p)
    BY <2>5, FailedKeeps, AcceptedKeeps
  <2>6. QED
    BY <1>2, <2>1, <2>2, <2>3, <2>4, <2>5 DEF Step
<1>3. CASE UNCHANGED vars
  <2>1. UNCHANGED <<now, candidate, mandate, children, operations, inner, receipts, release, dirty, head,
                    tracking, remote, pc, job, my, writers, invoked, events>>
    BY <1>3 DEF vars, authority, checkout, process, history
  <2>2. CommandType /\ StateType /\ CommandsSound /\ LockSound /\ ReceiptsSound /\ OperationsSound /\ HistorySound
        /\ WorksSound
    BY TypeParts DEF IInv
  <2>3. CommandType' /\ StateType'
    BY <2>1, <2>2 DEF CommandType, StateType
  <2>4. CommandsSound' /\ LockSound' /\ ReceiptsSound'
    BY <2>1, <2>2 DEF CommandsSound, Fits, LockSound, ReceiptsSound
  <2>5. OperationsSound' /\ HistorySound'
    BY <2>1, <2>2, RecordsKept
  <2>6. WorksSound'
    BY <2>1, <2>2 DEF WorksSound, WorkSound, Youngest, Prefix
  <2>7. QED
    BY <2>3, <2>4, <2>5, <2>6, TypeParts DEF IInv, TypeOK, CommandType, StateType, Jobs
<1>4. QED
  BY <1>1, <1>2, <1>3 DEF Next

LEMMA IInvAlways == Spec => []IInv
BY IInvInit, IInvStep, PTL DEF Spec
-----------------------------------------------------------------------------
(* The specification's variables keep their types. *)
THEOREM PublicationTypeCorrect == Spec => []TypeOK
<1>1. IInv => TypeOK
  BY DEF IInv
<1>2. QED
  BY <1>1, IInvAlways, PTL

(* A candidate is on the main branch at most once: what the checkout last saw there has a *)
(* recorded checkpoint, a recorded checkpoint is not made again, and a push that arrived  *)
(* unnoticed is the head, which is pushed from its own predecessor only.                  *)
THEOREM CandidateReleasedOnce == Spec => []ReleasedOnce
<1>1. IInv => ReleasedOnce
  BY DEF IInv, HistorySound, Distinct, ReleasedOnce
<1>2. QED
  BY <1>1, IInvAlways, PTL

(* What was accepted is on the main branch and was live in time, whatever happened since. *)
THEOREM AcceptedReleaseIsLive == Spec => []AcceptedIsLive
<1>1. ASSUME IInv, NEW c \in Candidates, operations[c].status = "LIVE_ACCEPTED"
      PROVE  /\ operations[c].child \in children
             /\ operations[c].commit = Append(operations[c].child.base, c)
             /\ SubSeq(remote, 1, Len(operations[c].commit)) = operations[c].commit
             /\ operations[c].completed < FreshUntil[c]
  <2>1. OperationSound(c) /\ remote \in Commits
    BY <1>1, TypeParts DEF IInv, OperationsSound, StateType
  <2>2. PICK s : s = operations[c].commit
    OBVIOUS
  <2>3. s \in Commits /\ Prefix(s, remote) /\ operations[c].child \in children
        /\ s = Append(operations[c].child.base, c) /\ operations[c].completed < FreshUntil[c]
    BY <1>1, <2>1, <2>2 DEF OperationSound
  <2>4. SubSeq(remote, 1, Len(s)) = s
    BY <2>1, <2>3, PrefixSub
  <2>5. QED
    BY <2>2, <2>3, <2>4
<1>2. IInv => AcceptedIsLive
  BY <1>1 DEF AcceptedIsLive
<1>3. QED
  BY <1>2, IInvAlways, PTL

(* Two accepted releases were authorized on different local days: an operation is created *)
(* when the day has no accepted one, the older ones are accepted no more, and it keeps    *)
(* its first child.                                                                       *)
THEOREM AcceptedOncePerDay == Spec => []OneAcceptedPerDay
<1>1. ASSUME IInv, NEW c \in Candidates, NEW d \in Candidates,
             operations[c].status = "LIVE_ACCEPTED", operations[d].status = "LIVE_ACCEPTED",
             operations[c].child.day = operations[d].child.day
      PROVE  c = d
  <2>1. \A a, b \in Candidates : a < b /\ operations[a].status = "LIVE_ACCEPTED" /\ operations[b].status # "NONE"
                                   => operations[a].child.day # operations[b].child.day
    BY <1>1 DEF IInv, OperationsSound
  <2>2. c < d \/ d < c \/ c = d
    OBVIOUS
  <2>3. operations[c].status # "NONE" /\ operations[d].status # "NONE"
    BY <1>1
  <2>4. QED
    BY <1>1, <2>1, <2>2, <2>3
<1>2. IInv => OneAcceptedPerDay
  BY <1>1 DEF OneAcceptedPerDay
<1>3. QED
  BY <1>2, IInvAlways, PTL

(* The command is run for a routine run at most once. *)
THEOREM CommandInvokedOnce == Spec => []InvokedOnce
<1>1. IInv => InvokedOnce
  BY DEF IInv, ReceiptsSound, InvokedOnce
<1>2. QED
  BY <1>1, IInvAlways, PTL

-----------------------------------------------------------------------------
Recorders(p) ==
  AuthorizeChild(p) \/ StartPrepare(p) \/ RecordCheckpoint(p) \/ RecordMain(p) \/ RecordAccepted(p)

(* What is recorded of an operation is recorded of the one under work; only the failure may *)
(* be recorded of another, and only a push or another committer moves the main branch.      *)
LEMMA WhoRecords ==
  ASSUME [Next]_vars
  PROVE  /\ \/ operations' = operations
            \/ \E p \in Processes : Recorders(p) \/ RecordFailed(p)
         /\ \/ remote' = remote
            \/ OthersPush \/ \E p \in Processes : Push(p)
<1>1. CASE UNCHANGED vars
  BY <1>1 DEF vars, authority
<1>2. CASE World
  BY <1>2 DEF World, Tick, Certify, OthersPush, Transition, authority
<1>3. ASSUME NEW p \in Processes, Step(p)
      PROVE  /\ operations' = operations \/ Recorders(p) \/ RecordFailed(p)
             /\ remote' = remote \/ Push(p)
  <2>1. CASE Bind(p) \/ RecordReceipt(p) \/ Settle(p) \/ Command(p) \/ AskToObserve(p) \/ EnterLock(p) \/ Crash(p)
    BY <2>1 DEF Bind, RecordReceipt, Settle, Command, AskToObserve, EnterLock, Crash, authority
  <2>2. CASE RunReads(p) \/ Promote(p) \/ WriteArtifact(p) \/ WriteManifest(p) \/ RecordInner(p)
             \/ BeginBuild(p) \/ Build(p) \/ ConsumeInner(p) \/ Commit(p)
    BY <2>2 DEF RunReads, Promote, WriteArtifact, WriteManifest, RecordInner, BeginBuild, Build, ConsumeInner,
       Commit, authority
  <2>3. CASE ObserveLive(p) \/ ObservePending(p) \/ ObserveEnded(p) \/ ObserveFails(p)
    BY <2>3 DEF ObserveLive, ObservePending, ObserveEnded, ObserveFails, authority
  <2>4. CASE Push(p)
    BY <2>4 DEF Push, authority
  <2>5. CASE Recorders(p) \/ RecordFailed(p)
    BY <2>5 DEF Recorders, AuthorizeChild, StartPrepare, RecordCheckpoint, RecordMain, RecordAccepted, RecordFailed
  <2>6. QED
    BY <1>3, <2>1, <2>2, <2>3, <2>4, <2>5 DEF Step, Prepare, Recorders
<1>4. QED
  BY <1>1, <1>2, <1>3 DEF Next

LEMMA FailedStays ==
  ASSUME IInv, [Next]_vars, NEW c \in Candidates, operations[c].status = "FAILED"
  PROVE  operations'[c].status = "FAILED"
<1>1. operations \in [Candidates -> Operation]
  BY TypeParts DEF IInv, StateType
<1>2. CASE operations' = operations
  BY <1>2
<1>3. ASSUME NEW p \in Processes, Recorders(p) PROVE operations'[c].status = "FAILED"
  <2>1. pc[p] \in Working \cup {"accept", "fail"} /\ pc[p] \in Working \cup {"accept"}
    BY <1>3 DEF Recorders, AuthorizeChild, StartPrepare, RecordCheckpoint, RecordMain, RecordAccepted,
       Working, Preparing
  <2>2. my[p].cand \in Candidates /\ WorkSound(pc[p], my[p])
    BY <2>1, UnderWork
  <2>3. my[p].cand # c
    BY <2>1, <2>2 DEF WorkSound
  <2>4. operations'[c] = operations[c]
    BY <1>1, <1>3, <2>2, <2>3 DEF Recorders, AuthorizeChild, Issue, ChildOf, StartPrepare, RecordCheckpoint,
       RecordMain, RecordAccepted
  <2>5. QED
    BY <2>4
<1>4. ASSUME NEW p \in Processes, RecordFailed(p) PROVE operations'[c].status = "FAILED"
  <2>1. operations[c] \in Operation
    BY <1>1
  <2>2. CASE my[p].cand = c
    BY <1>1, <1>4, <2>1, <2>2 DEF RecordFailed, Operation
  <2>3. CASE my[p].cand # c
    BY <1>1, <1>4, <2>3 DEF RecordFailed
  <2>4. QED
    BY <2>2, <2>3
<1>5. QED
  BY <1>2, <1>3, <1>4, WhoRecords

LEMMA FailedPushesNothing ==
  ASSUME IInv, [Next]_vars, NEW c \in Candidates, operations[c].status = "FAILED",
         NEW i \in 1..Len(remote'), remote'[i] = c
  PROVE  OnMain(c)
<1>1. remote \in Commits /\ c # Others /\ Len(remote) \in Nat
  <2>1. remote \in Commits
    BY TypeParts DEF IInv, StateType
  <2>2. QED
    BY <2>1 DEF Commits, Others
<1>2. CASE remote' = remote
  BY <1>2 DEF OnMain
<1>3. ASSUME NEW x \in Candidates \cup {Others}, x # c, remote' = Append(remote, x) PROVE OnMain(c)
  <2>1. i \in 1..Len(remote) \/ i = Len(remote) + 1
    <3>1. Len(remote') = Len(remote) + 1
      BY <1>1, <1>3, Appended
    <3>2. i \in 1..(Len(remote) + 1)
      BY <3>1
    <3>3. QED
      BY <1>1, <3>2
  <2>2. i # Len(remote) + 1
    <3>1. remote'[Len(remote) + 1] = x
      BY <1>1, <1>3, Appended
    <3>2. QED
      BY <1>3, <3>1
  <2>3. remote[i] = c
    BY <1>1, <1>3, <2>1, <2>2, Appended
  <2>4. QED
    BY <2>1, <2>2, <2>3 DEF OnMain
<1>4. CASE OthersPush
  <2>1. remote' = Append(remote, Others) /\ Others \in Candidates \cup {Others}
    BY <1>4 DEF OthersPush
  <2>2. QED
    BY <1>1, <1>3, <2>1
<1>5. ASSUME NEW p \in Processes, Push(p) PROVE OnMain(c)
  <2>1. pc[p] = "push" /\ pc[p] \in Working \cup {"accept", "fail"} /\ pc[p] \in Working
    BY <1>5 DEF Push, Working
  <2>2. my[p].cand \in Candidates /\ WorkSound(pc[p], my[p])
    BY <2>1, UnderWork
  <2>3. /\ my[p].cand # c /\ operations[my[p].cand].commit = head
        /\ head = my[p].base \/ head = Append(my[p].base, my[p].cand)
    BY <2>1, <2>2 DEF WorkSound
  <2>4. remote' = remote \/ remote' = Append(remote, my[p].cand)
    BY <1>5, <2>3 DEF Push
  <2>5. QED
    BY <1>2, <1>3, <2>2, <2>3, <2>4
<1>6. QED
  BY <1>2, <1>4, <1>5, WhoRecords

(* A failed operation stays failed, and nothing of it is pushed afterwards. *)
THEOREM FailedForGood == Spec => FailedIsFinal
<1>1. IInv /\ [Next]_vars =>
        [\A c \in Candidates : operations[c].status = "FAILED" =>
           /\ operations'[c].status = "FAILED"
           /\ (\E i \in 1..Len(remote') : remote'[i] = c) => OnMain(c)]_vars
  BY FailedStays, FailedPushesNothing
<1>2. QED
  BY <1>1, IInvAlways, PTL DEF Spec, FailedIsFinal
===============================================================================
