------------------------ MODULE NeweggRoutineProofs ------------------------
(***************************************************************************)
(* Proofs about NeweggRoutine, for every set of processes, mandates and    *)
(* artifacts, every calendar and every number of attempts and commands.    *)
(***************************************************************************)
EXTENDS NeweggRoutine, FiniteSetTheorems, TLAPS

USE BoundAssumption, NoneAssumption DEF BoundAssumption, NoneAssumption

-----------------------------------------------------------------------------
(* What the day's count and the changes of one record are. *)

LEMMA DayInRange ==
  ASSUME TypeOK PROVE Day \in Days
  BY DEF TypeOK, Day, Days

(* The operations of a mandate are as many as the days of the calendar. *)
LEMMA AttemptsIsNat ==
  ASSUME NEW m \in Mandates PROVE Attempts(m) \in Nat
  <1> DEFINE f == [o \in Today(m) |-> o.day]
  <1>1. IsFiniteSet(Days)
    BY FS_Interval DEF Days
  <1>2. f \in [Today(m) -> Days]
    BY DEF Today, Operations
  <1>3. \A o, other \in Today(m) : f[o] = f[other] => o = other
    BY DEF Today, Operations
  <1>4. f \in Injection(Today(m), Days)
    BY <1>2, <1>3 DEF Injection, IsInjective
  <1>5. IsFiniteSet(Today(m))
    BY <1>1, <1>4, FS_Injection
  <1> QED BY <1>5, FS_CardinalityType DEF Attempts

LEMMA AcquisitionUpdate ==
  ASSUME TypeOK, NEW o \in Operations, NEW a \in Authorization,
         acquisitions' = [acquisitions EXCEPT ![o] = a]
  PROVE  /\ acquisitions' \in [Operations -> {None} \cup Authorization]
         /\ acquisitions'[o] = a /\ acquisitions'[o] # None
         /\ \A other \in Operations \ {o} : acquisitions'[other] = acquisitions[other]
  BY DEF TypeOK

LEMMA BootUpdate ==
  ASSUME TypeOK, NEW o \in Operations, NEW b \in Bootstrap, boot' = [boot EXCEPT ![o] = b]
  PROVE  /\ boot' \in [Operations -> {None} \cup Bootstrap]
         /\ boot'[o] = b /\ boot'[o] # None
         /\ \A other \in Operations \ {o} : boot'[other] = boot[other]
  BY DEF TypeOK

(* The next step of a command. *)
LEMMA GotoFacts ==
  ASSUME TypeOK, NEW p \in Processes, run[p] # None, NEW s \in Steps, Goto(p, s)
  PROVE  /\ run' \in [Processes -> {None} \cup Run]
         /\ run'[p] # None /\ run'[p].step = s /\ run'[p].op = run[p].op
         /\ run'[p].seen = run[p].seen /\ run'[p].artifact = run[p].artifact
         /\ run'[p].predecessor = run[p].predecessor
         /\ \A q \in Processes \ {p} : run'[q] = run[q]
  <1>1. run[p] \in Run /\ run \in [Processes -> {None} \cup Run]
    BY DEF TypeOK
  <1>2. run' = [run EXCEPT ![p] = [run[p] EXCEPT !.step = s]]
    BY DEF Goto
  <1>3. [run[p] EXCEPT !.step = s] \in Run
    BY <1>1 DEF Run
  <1> QED BY <1>1, <1>2, <1>3 DEF Run

LEMMA LeaveFacts ==
  ASSUME TypeOK, NEW p \in Processes, Leave(p)
  PROVE  /\ run' \in [Processes -> {None} \cup Run]
         /\ run'[p] = None
         /\ \A q \in Processes \ {p} : run'[q] = run[q]
  BY DEF TypeOK, Leave

(* The command's operation and its records. *)
LEMMA OpFacts ==
  ASSUME TypeOK, NEW p \in Processes, run[p] # None
  PROVE  /\ Op(p) \in Operations /\ Op(p) = run[p].op /\ Op(p).mandate \in Mandates
         /\ run[p] \in Run /\ run[p].artifact \in {None} \cup Artifacts
         /\ acquisitions[Op(p)] \in {None} \cup Authorization
         /\ boot[Op(p)] \in {None} \cup Bootstrap
         /\ run[p].seen \in {None} \cup Bootstrap
         /\ run[p].failure \in {"NONE", "CLEAN", "UNCLEAN"}
         /\ run[p].predecessor \in {None} \cup Artifacts
  BY DEF TypeOK, Run, Op, Operations

-----------------------------------------------------------------------------
(* Nothing recorded is taken back: the relation of a step to what commands  *)
(* and files rely on.                                                       *)
Grows ==
  /\ \A o \in Operations : acquisitions[o] # None => acquisitions'[o] # None
  /\ \A o \in Operations : boot[o] # None => boot'[o] # None
  /\ \A o \in Operations : boot[o] # None /\ boot[o].artifact # None
                             => boot'[o].artifact = boot[o].artifact
  /\ \A o \in Operations : \A a : Receipted(o, a) => Receipted(o, a)'
  /\ \A o, a : HasChild(o, a) => HasChild(o, a)'
  /\ \A o, s, a : Used(o, s, a) => Used(o, s, a)'
  /\ applied \subseteq applied'

LEMMA GrowsByNothing ==
  ASSUME UNCHANGED <<acquisitions, boot, children, applied>>
  PROVE  Grows
  BY DEF Grows, Receipted, HasChild, Used

(* A change of one acquisition that is not completed. *)
LEMMA GrowsByAcquisition ==
  ASSUME TypeOK, NEW o \in Operations, NEW a \in Authorization,
         acquisitions' = [acquisitions EXCEPT ![o] = a],
         acquisitions[o] # None => acquisitions[o].status # "COMPLETED",
         UNCHANGED <<boot, children, applied>>
  PROVE  Grows
  BY AcquisitionUpdate DEF Grows, Receipted, HasChild, Used

(* A change of one bootstrap record that keeps its artifact. *)
LEMMA GrowsByBoot ==
  ASSUME TypeOK, NEW o \in Operations, NEW b \in Bootstrap,
         boot' = [boot EXCEPT ![o] = b],
         boot[o] # None /\ boot[o].artifact # None => b.artifact = boot[o].artifact,
         UNCHANGED <<acquisitions, children, applied>>
  PROVE  Grows
  BY BootUpdate DEF Grows, Receipted, HasChild, Used

(* Whatever another command does, a command keeps what it relies on. *)
LEMMA OthersKeep ==
  ASSUME TypeOK, Grows, NEW q \in Processes, run[q] # None, CommandSound(q),
         run'[q] = run[q], run[q].step \in InRoutine => active' = active
  PROVE  CommandSound(q)'
  <1>1. run[q].op \in Operations
    BY OpFacts
  <1>2. \A a : Receipted(run[q].op, a) => Receipted(run[q].op, a)'
    BY <1>1 DEF Grows
  <1>3. \A s, a : /\ HasChild(run[q].op, a) => HasChild(run[q].op, a)'
                  /\ Used(run[q].op, s, a) => Used(run[q].op, s, a)'
    BY DEF Grows
  <1>4. /\ acquisitions[run[q].op] # None => acquisitions'[run[q].op] # None
        /\ boot[run[q].op] # None => boot'[run[q].op] # None
        /\ boot[run[q].op] # None /\ boot[run[q].op].artifact # None
              => boot'[run[q].op].artifact = boot[run[q].op].artifact
        /\ applied \subseteq applied'
    BY <1>1 DEF Grows
  <1> QED
    BY <1>2, <1>3, <1>4 DEF CommandSound, Recorded, Prepared, AfterRefresh, InRoutine,
       Receipted, HasChild, Used

LEMMA RecordKept ==
  ASSUME TypeOK, Grows, NEW o \in Operations, boot[o] # None, RecordSound(o), boot'[o] = boot[o]
  PROVE  RecordSound(o)'
  <1>1. /\ acquisitions[o] # None => acquisitions'[o] # None
        /\ Receipted(o, boot[o].artifact) => Receipted(o, boot[o].artifact)'
        /\ HasChild(o, boot[o].artifact) => HasChild(o, boot[o].artifact)'
        /\ \A s : Used(o, s, boot[o].artifact) => Used(o, s, boot[o].artifact)'
        /\ applied \subseteq applied'
    BY DEF Grows
  <1> QED BY <1>1 DEF RecordSound, Receipted, HasChild, Used

-----------------------------------------------------------------------------
(* The parts of the invariant that a step leaves alone. *)

LEMMA RunKept ==
  ASSUME TypeOK, Grows, RunSound, NEW p \in Processes,
         \A q \in Processes \ {p} : run'[q] = run[q],
         run'[p] # None => CommandSound(p)',
         \A q \in Processes \ {p} : run[q] # None /\ run[q].step \in InRoutine => active' = active
  PROVE  RunSound'
  <1> SUFFICES ASSUME NEW q \in Processes, run'[q] # None PROVE CommandSound(q)'
    BY DEF RunSound
  <1>1. CASE q = p
    BY <1>1
  <1>2. CASE q # p
    BY <1>2, OthersKeep DEF RunSound
  <1> QED BY <1>1, <1>2

LEMMA AllRunsKept ==
  ASSUME TypeOK, Grows, RunSound, run' = run, active' = active
  PROVE  RunSound'
  <1> SUFFICES ASSUME NEW q \in Processes, run'[q] # None PROVE CommandSound(q)'
    BY DEF RunSound
  <1> QED BY OthersKeep DEF RunSound

LEMMA OneKept ==
  ASSUME OneInRoutine, NEW p \in Processes,
         \A q \in Processes \ {p} : run'[q] = run[q],
         run'[p] # None /\ run'[p].step \in InRoutine => run[p] # None /\ run[p].step \in InRoutine
  PROVE  OneInRoutine'
  BY DEF OneInRoutine, InRoutine

LEMMA BootKept ==
  ASSUME TypeOK, Grows, BootSound, NEW o \in Operations,
         \A other \in Operations \ {o} : boot'[other] = boot[other],
         boot'[o] # None => RecordSound(o)'
  PROVE  BootSound'
  <1> SUFFICES ASSUME NEW other \in Operations, boot'[other] # None PROVE RecordSound(other)'
    BY DEF BootSound
  <1>1. CASE other = o
    BY <1>1
  <1>2. CASE other # o
    BY <1>2, RecordKept DEF BootSound
  <1> QED BY <1>1, <1>2

LEMMA FilesKept ==
  ASSUME TypeOK, Grows, BootSound, UNCHANGED boot
  PROVE  BootSound'
  <1> SUFFICES ASSUME NEW o \in Operations, boot'[o] # None PROVE RecordSound(o)'
    BY DEF BootSound
  <1> QED BY RecordKept DEF BootSound

LEMMA AppliedKept ==
  ASSUME TypeOK, Grows, AppliedSound, UNCHANGED applied
  PROVE  AppliedSound'
  BY DEF AppliedSound, Grows

LEMMA ActiveKept ==
  ASSUME Grows, ActiveSound, UNCHANGED active
  PROVE  ActiveSound'
  BY DEF ActiveSound, Grows

LEMMA DisposalKept ==
  ASSUME TypeOK, Grows, DisposalSound,
         disposal' = None \/ (disposal # None /\ disposal'.op = disposal.op)
  PROVE  DisposalSound'
  BY DEF TypeOK, Grows, DisposalSound, Disposal

LEMMA CurrentKept ==
  ASSUME OneCurrent, UNCHANGED acquisitions
  PROVE  OneCurrent'
  BY DEF OneCurrent, Standing

(* An acquisition that is recorded stands only if it stood before. *)
LEMMA CurrentUpdated ==
  ASSUME TypeOK, OneCurrent, NEW o \in Operations, NEW a \in Authorization,
         acquisitions[o] # None, acquisitions' = [acquisitions EXCEPT ![o] = a],
         a.day = acquisitions[o].day, a.status = "REVIEW_REQUIRED" => a.disposed,
         a.status \in {"AUTHORIZED", "COMPLETED"} /\ ~a.disposed => Standing(o)
  PROVE  OneCurrent'
  BY AcquisitionUpdate DEF OneCurrent, Standing

-----------------------------------------------------------------------------
(* The steps. *)

LEMMA InitIInv == Init => IInv
  <1> SUFFICES ASSUME Init PROVE IInv
    OBVIOUS
  <1>1. TypeOK
    BY DEF Init, TypeOK
  <1> QED
    BY <1>1 DEF Init, IInv, RunSound, OneInRoutine, BootSound, ActiveSound, AppliedSound,
       DisposalSound, OneCurrent

(* Time, the other sources of Current, and the operator's changes of mandates. *)
LEMMA WorldStep ==
  ASSUME IInv,
         \/ Tick \/ OthersRefresh
         \/ \E m \in Mandates : CreateExclusive(m) \/ Transition(m)
         \/ \E prior, m \in Mandates : Renew(prior, m)
  PROVE  IInv'
  <1>1. /\ UNCHANGED <<acquisitions, approvals, children, boot, active, applied, run, disposal>>
        /\ current' \in {None} \cup Artifacts
    BY DEF Tick, OthersRefresh, CreateExclusive, Transition, Renew, MandatesBecome, authority,
       IInv, TypeOK
  <1>2. clock' \in 1 .. 2 * MaxDay - 1 /\ commands' \in 0 .. MaxCommands
    BY DEF Tick, OthersRefresh, CreateExclusive, Transition, Renew, MandatesBecome, authority,
       Given, IInv, TypeOK
  <1>3. mandates' \in [Mandates -> {"NONE", "ENABLED", "PAUSED", "REVOKED"}]
    BY DEF Tick, OthersRefresh, CreateExclusive, Transition, Renew, MandatesBecome, authority,
       IInv, TypeOK
  <1>4. TypeOK'
    BY <1>1, <1>2, <1>3 DEF IInv, TypeOK
  <1>5. Grows
    BY <1>1, GrowsByNothing
  <1> QED
    BY <1>1, <1>4, <1>5, AllRunsKept, FilesKept, AppliedKept, ActiveKept, CurrentKept
       DEF IInv, OneInRoutine, DisposalSound

LEMMA ReattemptStep ==
  ASSUME IInv, NEW m \in Mandates, AuthorizeReattempt(m)
  PROVE  IInv'
  <1> USE DEF IInv
  <1>1. PICK prior \in Latest(m) :
           /\ approvals' = approvals \cup
                 {[mandate |-> m, day |-> Day, prior |-> prior, attempt |-> Attempts(m) + 1,
                   status |-> "APPROVED"]}
           /\ Given
           /\ UNCHANGED <<clock, mandates, acquisitions, children, boot, active, current, applied,
                          run, disposal>>
    BY DEF AuthorizeReattempt, AuthorityBecomes
  <1>2. prior \in Operations /\ Day \in Days /\ Attempts(m) + 1 \in Nat
    BY DayInRange, AttemptsIsNat DEF Latest, Today
  <1>3. approvals' \subseteq Approval
    BY <1>1, <1>2 DEF Approval, TypeOK
  <1>4. commands' \in 0 .. MaxCommands
    BY <1>1 DEF Given, TypeOK
  <1>5. TypeOK'
    BY <1>1, <1>3, <1>4 DEF TypeOK
  <1>6. Grows
    BY <1>1, GrowsByNothing
  <1> QED
    BY <1>1, <1>5, <1>6, AllRunsKept, FilesKept, AppliedKept, ActiveKept, CurrentKept
       DEF OneInRoutine, DisposalSound

(* A step of one command that leaves the routine's state alone. *)
LEMMA CommandStep ==
  ASSUME IInv, TypeOK', Grows, NEW p \in Processes,
         \A q \in Processes \ {p} : run'[q] = run[q],
         run'[p] # None => CommandSound(p)' /\ run'[p].step \notin InRoutine,
         UNCHANGED <<active, applied, disposal>>, BootSound', OneCurrent'
  PROVE  IInv'
  <1> USE DEF IInv
  <1>1. RunSound'
    BY RunKept
  <1>2. OneInRoutine'
    BY OneKept
  <1>3. DisposalSound'
    BY DEF DisposalSound, Grows, TypeOK, Disposal
  <1> QED
    BY <1>1, <1>2, <1>3, AppliedKept, ActiveKept

LEMMA StartStep ==
  ASSUME IInv, NEW p \in Processes, NEW m \in Mandates, Start(p, m)
  PROVE  IInv'
  <1> USE DEF IInv
  <1>d. Day \in Days /\ \A o \in Recoverable(m) : acquisitions[o].day \in Days
    BY DayInRange DEF Recoverable, TypeOK, Authorization
  <1>1. PICK day \in Days :
           run' = [run EXCEPT ![p] =
               [step |-> "execute", op |-> [mandate |-> m, day |-> day], seen |-> None,
                artifact |-> None, predecessor |-> None, failure |-> "NONE"]]
    BY <1>d DEF Start
  <1>2. /\ run' \in [Processes -> {None} \cup Run]
        /\ run'[p].step = "execute" /\ run'[p].seen = None
        /\ \A q \in Processes \ {p} : run'[q] = run[q]
    BY <1>1 DEF TypeOK, Run, Steps, Operations
  <1>3. UNCHANGED <<clock, mandates, acquisitions, approvals, children, boot, active, current,
                    applied, disposal>> /\ commands' \in 0 .. MaxCommands
    BY DEF Start, Given, authority, TypeOK
  <1>4. TypeOK'
    BY <1>2, <1>3 DEF TypeOK
  <1>5. Grows
    BY <1>3, GrowsByNothing
  <1>6. CommandSound(p)' /\ run'[p].step \notin InRoutine
    BY <1>2 DEF CommandSound, Recorded, Prepared, AfterRefresh, InRoutine
  <1> QED
    BY <1>2, <1>3, <1>4, <1>5, <1>6, CommandStep, FilesKept, CurrentKept

LEMMA ExecuteStep ==
  ASSUME IInv, NEW p \in Processes, Execute(p)
  PROVE  IInv'
  <1> USE DEF IInv
  <1>1. run[p] # None /\ run[p].step = "execute"
    BY DEF Execute, At
  <1>2. UNCHANGED <<clock, mandates, acquisitions, approvals, children, boot, active, current,
                    applied, commands, disposal>>
    BY DEF Execute, authority
  <1>3. Grows
    BY <1>2, GrowsByNothing
  <1>4. CASE Proceeds(Op(p))
    <2> DEFINE r == [[run[p] EXCEPT !.step = "authorize"] EXCEPT !.seen = boot[Op(p)]]
    <2>1. run' = [run EXCEPT ![p] = r]
      BY <1>4 DEF Execute
    <2>2. r \in Run /\ r.step = "authorize" /\ r.seen = boot[Op(p)] /\ r.op = Op(p)
      BY <1>1, OpFacts DEF Run, Steps
    <2>3. run' \in [Processes -> {None} \cup Run] /\ run'[p] = r
          /\ \A q \in Processes \ {p} : run'[q] = run[q]
      BY <2>1, <2>2 DEF TypeOK
    <2>4. TypeOK'
      BY <1>2, <2>3 DEF TypeOK
    <2>5. boot[Op(p)] # None /\ boot[Op(p)].status = "LINEAGE_PROMOTED" =>
            Receipted(Op(p), boot[Op(p)].artifact) /\ HasChild(Op(p), boot[Op(p)].artifact)
      BY <1>1, OpFacts DEF BootSound, RecordSound
    <2>6. CommandSound(p)' /\ run'[p].step \notin InRoutine
      BY <1>2, <2>2, <2>3, <2>5 DEF CommandSound, Recorded, Prepared, AfterRefresh, InRoutine,
         Receipted, HasChild
    <2> QED
      BY <1>2, <1>3, <2>3, <2>4, <2>6, CommandStep, FilesKept, CurrentKept
  <1>5. CASE ~Proceeds(Op(p))
    <2>1. Leave(p)
      BY <1>5 DEF Execute
    <2>2. TypeOK'
      BY <1>2, <2>1, LeaveFacts DEF TypeOK
    <2> QED
      BY <1>2, <1>3, <2>1, <2>2, LeaveFacts, CommandStep, FilesKept, CurrentKept
  <1> QED BY <1>4, <1>5

LEMMA CrashStep ==
  ASSUME IInv, NEW p \in Processes, Crash(p)
  PROVE  IInv'
  <1> USE DEF IInv
  <1>1. /\ UNCHANGED <<clock, mandates, acquisitions, approvals, children, boot, active, current,
                       applied, commands, disposal>>
        /\ Leave(p)
    BY DEF Crash, authority
  <1>2. Grows
    BY <1>1, GrowsByNothing
  <1>3. TypeOK'
    BY <1>1, LeaveFacts DEF TypeOK
  <1> QED
    BY <1>1, <1>2, <1>3, LeaveFacts, CommandStep, FilesKept, CurrentKept

-----------------------------------------------------------------------------
(* The acquisition. *)

LEMMA AuthorizeStep ==
  ASSUME IInv, NEW p \in Processes, Authorize(p)
  PROVE  IInv'
  <1> USE DEF IInv
  <1>0. /\ run[p] # None /\ run[p].step = "authorize"
        /\ UNCHANGED <<clock, mandates, children, boot, active, current, applied, commands, disposal>>
    BY DEF Authorize, At
  <1>1. CASE acquisitions' = acquisitions /\ approvals' = approvals /\ Leave(p)
    <2>1. Grows /\ TypeOK'
      BY <1>0, <1>1, GrowsByNothing, LeaveFacts DEF TypeOK
    <2> QED
      BY <1>0, <1>1, <2>1, LeaveFacts, CommandStep, FilesKept, CurrentKept
  <1>2. CASE /\ acquisitions' = acquisitions /\ approvals' = approvals
             /\ acquisitions[Op(p)] # None /\ Goto(p, "intent")
    <2>1. Grows /\ TypeOK'
      BY <1>0, <1>2, GrowsByNothing, GotoFacts DEF TypeOK, Steps
    <2>2. CommandSound(p)' /\ run'[p].step \notin InRoutine
      BY <1>0, <1>2, GotoFacts, OpFacts
         DEF RunSound, CommandSound, Recorded, Prepared, AfterRefresh, InRoutine,
             Receipted, HasChild, Steps
    <2> QED
      BY <1>0, <1>2, <2>1, <2>2, GotoFacts, CommandStep, FilesKept, CurrentKept DEF Steps
  <1>3. CASE /\ acquisitions[Op(p)] = None /\ Admissible(Op(p).mandate) /\ Goto(p, "intent")
             /\ acquisitions' = [acquisitions EXCEPT ![Op(p)] =
                     [day |-> Day, attempt |-> Attempts(Op(p).mandate) + 1, artifact |-> None,
                      status |-> "AUTHORIZED", failure |-> "NONE", disposed |-> FALSE]]
             /\ approvals' = (approvals \ Approved(Op(p).mandate))
                               \cup {Consumption(a) : a \in Approved(Op(p).mandate)}
    <2> DEFINE o == Op(p)
               a == [day |-> Day, attempt |-> Attempts(Op(p).mandate) + 1, artifact |-> None,
                     status |-> "AUTHORIZED", failure |-> "NONE", disposed |-> FALSE]
    <2>1. o \in Operations /\ o.mandate \in Mandates /\ o = run[p].op
      BY <1>0, OpFacts
    <2>2. a \in Authorization
      BY <2>1, DayInRange, AttemptsIsNat DEF Authorization
    <2>3. Grows
      BY <1>0, <1>3, <2>1, <2>2, GrowsByAcquisition
    <2>4. approvals' \subseteq Approval
      BY <1>3 DEF TypeOK, Approved, Consumption, Approval
    <2>5. TypeOK'
      BY <1>0, <1>3, <2>1, <2>2, <2>4, AcquisitionUpdate, GotoFacts DEF TypeOK, Steps
    <2>6. acquisitions'[o] = a /\ a # None
          /\ \A other \in Operations \ {o} : acquisitions'[other] = acquisitions[other]
      BY <1>3, <2>1, <2>2, AcquisitionUpdate
    <2>7. acquisitions[o] = None
      BY <1>3
    <2>8. run[p].seen # None => run[p].seen.status # "LINEAGE_PROMOTED"
      BY <1>0, <2>1, <2>7 DEF RunSound, CommandSound, Receipted
    <2>9. CommandSound(p)' /\ run'[p].step \notin InRoutine
      BY <1>0, <1>3, <2>1, <2>6, <2>8, GotoFacts
         DEF CommandSound, Recorded, Prepared, AfterRefresh, InRoutine, Steps
    <2>10. OneCurrent'
      <3>1. \A other \in Operations :
               /\ other.mandate = o.mandate /\ acquisitions[other] # None
               /\ acquisitions[other].day = Day
               => acquisitions[other].status \notin {"COMPLETED", "AUTHORIZED"}
        BY <1>3 DEF Admissible, NoneToday, Today
      <3>2. a.day = Day /\ a.status = "AUTHORIZED"
        OBVIOUS
      <3> HIDE DEF a
      <3> QED
        BY <2>1, <2>6, <3>1, <3>2 DEF OneCurrent, Standing
    <2> QED
      BY <1>0, <1>3, <2>3, <2>5, <2>9, <2>10, GotoFacts, CommandStep, FilesKept DEF Steps
  <1> QED
    BY <1>0, <1>1, <1>2, <1>3 DEF Authorize

LEMMA IntentStep ==
  ASSUME IInv, NEW p \in Processes, Intent(p)
  PROVE  IInv'
  <1> USE DEF IInv
  <1>0. /\ run[p] # None /\ run[p].step = "intent" /\ Goto(p, "acquire")
        /\ UNCHANGED <<clock, mandates, acquisitions, approvals, children, active, current, applied,
                       commands, disposal>>
    BY DEF Intent, At, Untouched
  <1>1. Op(p) \in Operations /\ Op(p) = run[p].op /\ acquisitions[Op(p)] # None
    BY <1>0, OpFacts DEF RunSound, CommandSound
  <1>2. Grows /\ BootSound' /\ boot' \in [Operations -> {None} \cup Bootstrap] /\ boot'[Op(p)] # None
    <2>1. CASE boot[Op(p)] # None
      BY <1>0, <1>1, <2>1, GrowsByNothing, FilesKept DEF Intent, TypeOK
    <2>2. CASE boot[Op(p)] = None
      <3> DEFINE b == [status |-> "INTENT_AUTHORIZED", artifact |-> None,
                       predecessor |-> None, disposition |-> "NONE"]
      <3>1. b \in Bootstrap /\ boot' = [boot EXCEPT ![Op(p)] = b]
        BY <2>2 DEF Intent, Bootstrap
      <3>2. b.artifact = None /\ b.status = "INTENT_AUTHORIZED"
        OBVIOUS
      <3> HIDE DEF b
      <3>3. Grows
        BY <1>0, <1>1, <2>2, <3>1, GrowsByBoot
      <3>4. /\ boot'[Op(p)] = b /\ boot'[Op(p)] # None
            /\ boot' \in [Operations -> {None} \cup Bootstrap]
            /\ \A other \in Operations \ {Op(p)} : boot'[other] = boot[other]
        BY <1>1, <3>1, BootUpdate
      <3>5. BootSound'
        <4> DEFINE o == Op(p)
        <4>1. o \in Operations /\ acquisitions'[o] # None /\ boot'[o] = b
              /\ \A other \in Operations \ {o} : boot'[other] = boot[other]
          BY <1>0, <1>1, <3>4
        <4> HIDE DEF o
        <4> QED
          BY <3>2, <3>3, <4>1, BootKept DEF RecordSound
      <3> QED BY <3>3, <3>4, <3>5
    <2> QED BY <2>1, <2>2
  <1>3. TypeOK'
    BY <1>0, <1>2, GotoFacts DEF TypeOK, Steps
  <1>4. CommandSound(p)' /\ run'[p].step \notin InRoutine
    BY <1>0, <1>1, <1>2, GotoFacts
       DEF RunSound, CommandSound, Recorded, Prepared, AfterRefresh, InRoutine,
           Receipted, HasChild, Steps
  <1> QED
    BY <1>0, <1>2, <1>3, <1>4, GotoFacts, CommandStep, CurrentKept DEF Steps

(* A command that leaves, everything else but one acquisition or record unchanged. *)
LEMMA LeaveStep ==
  ASSUME IInv, NEW p \in Processes, Leave(p),
         UNCHANGED <<clock, mandates, acquisitions, approvals, children, boot, active, current,
                     applied, commands, disposal>>
  PROVE  IInv'
  <1> USE DEF IInv
  <1>1. Grows /\ TypeOK'
    BY GrowsByNothing, LeaveFacts DEF TypeOK
  <1> QED
    BY <1>1, LeaveFacts, CommandStep, FilesKept, CurrentKept

LEMMA AcquireStep ==
  ASSUME IInv, NEW p \in Processes, Acquire(p)
  PROVE  IInv'
  <1> USE DEF IInv
  <1>0. /\ run[p] # None /\ run[p].step = "acquire"
        /\ UNCHANGED <<clock, mandates, acquisitions, approvals, children, boot, active, current,
                       applied, commands, disposal>>
    BY DEF Acquire, At, Untouched
  <1>1. Grows
    BY <1>0, GrowsByNothing
  <1>2. CASE Leave(p)
    BY <1>0, <1>2, LeaveStep
  <1>3. ASSUME NEW r \in Run, run' = [run EXCEPT ![p] = r],
               r.op = run[p].op, r.seen = run[p].seen,
               r.step \in {"complete", "fail"}, r.step = "complete" => r.artifact # None
        PROVE  IInv'
    <2>1. run' \in [Processes -> {None} \cup Run] /\ run'[p] = r
          /\ \A q \in Processes \ {p} : run'[q] = run[q]
      BY <1>3 DEF TypeOK
    <2>2. TypeOK'
      BY <1>0, <2>1 DEF TypeOK
    <2>3. CommandSound(p)' /\ run'[p].step \notin InRoutine
      BY <1>0, <1>3, <2>1
         DEF RunSound, CommandSound, Recorded, Prepared, AfterRefresh, InRoutine, Receipted, HasChild
    <2> QED
      BY <1>0, <1>1, <2>1, <2>2, <2>3, CommandStep, FilesKept, CurrentKept
  <1>4. ASSUME NEW a \in Artifacts,
               run' = [run EXCEPT ![p].step = "complete", ![p].artifact = a]
        PROVE  IInv'
    <2> DEFINE r == [[run[p] EXCEPT !.step = "complete"] EXCEPT !.artifact = a]
    <2>1. r \in Run /\ r.op = run[p].op /\ r.seen = run[p].seen /\ r.step = "complete" /\ r.artifact = a
      BY <1>0, OpFacts DEF Run, Steps
    <2>2. run' = [run EXCEPT ![p] = r]
      BY <1>4
    <2> QED BY <1>3, <2>1, <2>2
  <1>5. ASSUME NEW f \in {"CLEAN", "UNCLEAN"},
               run' = [run EXCEPT ![p].step = "fail", ![p].failure = f]
        PROVE  IInv'
    <2> DEFINE r == [[run[p] EXCEPT !.step = "fail"] EXCEPT !.failure = f]
    <2>1. r \in Run /\ r.op = run[p].op /\ r.seen = run[p].seen /\ r.step = "fail"
      BY <1>0, OpFacts DEF Run, Steps
    <2>2. run' = [run EXCEPT ![p] = r]
      BY <1>5
    <2> QED BY <1>3, <2>1, <2>2
  <1> QED
    BY <1>2, <1>4, <1>5 DEF Acquire

(* A command that records a new status of its acquisition, and goes on. *)
LEMMA AcquisitionStep ==
  ASSUME IInv, NEW p \in Processes, run[p] # None, NEW a \in Authorization, NEW s \in Steps,
         acquisitions' = [acquisitions EXCEPT ![Op(p)] = a],
         acquisitions[Op(p)] # None, acquisitions[Op(p)].status # "COMPLETED",
         a.day = acquisitions[Op(p)].day, a.disposed = acquisitions[Op(p)].disposed,
         \/ a.status = "FAILED" /\ s = "recordFailure"
         \/ /\ acquisitions[Op(p)].status \in {"AUTHORIZED", "REVIEW_REQUIRED"}
            /\ a.status = "COMPLETED" /\ a.artifact = run[p].artifact /\ run[p].artifact # None
            /\ s = "recordArtifact",
         Goto(p, s), run[p].step \notin {"execute", "authorize", "intent"},
         UNCHANGED <<clock, mandates, approvals, children, boot, active, current, applied,
                     commands, disposal>>
  PROVE  IInv'
  <1> USE DEF IInv
  <1>1. Op(p) \in Operations /\ Op(p) = run[p].op
    BY OpFacts
  <1>2. Grows
    BY <1>1, GrowsByAcquisition
  <1>3. TypeOK'
    BY <1>1, AcquisitionUpdate, GotoFacts DEF TypeOK
  <1>4. OneCurrent'
    BY <1>1, CurrentUpdated DEF OneCurrent, Standing
  <1>5. acquisitions'[run[p].op] = a /\ a # None
    BY <1>1, AcquisitionUpdate
  <1>6. run[p].seen # None => run[p].seen.status # "LINEAGE_PROMOTED"
    BY <1>1 DEF RunSound, CommandSound, Receipted
  <1>7. boot[run[p].op] # None
    BY DEF RunSound, CommandSound
  <1>8. CommandSound(p)' /\ run'[p].step \notin InRoutine
    BY <1>5, <1>6, <1>7, GotoFacts
       DEF CommandSound, Recorded, Prepared, AfterRefresh, InRoutine, Receipted
  <1> QED
    BY <1>2, <1>3, <1>4, <1>8, GotoFacts, CommandStep, FilesKept

(* A command that goes on and changes nothing else, to a step that asks no more. *)
LEMMA MoveStep ==
  ASSUME IInv, NEW p \in Processes, run[p] # None, NEW s \in Steps, Goto(p, s),
         run[p].step \notin {"execute", "authorize", "intent"},
         \/ s = "recordFailure"
         \/ s = "recordArtifact" /\ run[p].artifact # None /\ Receipted(Op(p), run[p].artifact),
         UNCHANGED <<clock, mandates, acquisitions, approvals, children, boot, active, current,
                     applied, commands, disposal>>
  PROVE  IInv'
  <1> USE DEF IInv
  <1>1. Grows /\ TypeOK'
    BY GrowsByNothing, GotoFacts DEF TypeOK
  <1>2. CommandSound(p)' /\ run'[p].step \notin InRoutine
    BY GotoFacts
       DEF RunSound, CommandSound, Recorded, Prepared, AfterRefresh, InRoutine, Receipted,
           HasChild, Op
  <1> QED
    BY <1>1, <1>2, GotoFacts, CommandStep, FilesKept, CurrentKept

LEMMA FailStep ==
  ASSUME IInv, NEW p \in Processes, Fail(p)
  PROVE  IInv'
  <1> USE DEF IInv
  <1>0. /\ run[p] # None /\ run[p].step = "fail"
        /\ UNCHANGED <<clock, mandates, approvals, children, boot, active, current, applied,
                       commands, disposal>>
    BY DEF Fail, At, Untouched
  <1>1. /\ acquisitions[Op(p)] \in Authorization /\ acquisitions[Op(p)] # None
        /\ "recordFailure" \in Steps
    BY <1>0, OpFacts DEF RunSound, CommandSound, Steps
  <1>2. CASE Leave(p) /\ UNCHANGED acquisitions
    BY <1>0, <1>2, LeaveStep
  <1>3. CASE Goto(p, "recordFailure") /\ UNCHANGED acquisitions
    BY <1>0, <1>1, <1>3, MoveStep
  <1>4. CASE /\ acquisitions[Op(p)].status \in {"AUTHORIZED", "REVIEW_REQUIRED"}
             /\ acquisitions' = [acquisitions EXCEPT ![Op(p)] = Failed(@, run[p].failure)]
             /\ Goto(p, "recordFailure")
    <2> DEFINE a == Failed(acquisitions[Op(p)], run[p].failure)
    <2>1. /\ a \in Authorization /\ a.status = "FAILED"
          /\ a.day = acquisitions[Op(p)].day /\ a.disposed = acquisitions[Op(p)].disposed
      BY <1>0, <1>1, OpFacts DEF Failed, Authorization
    <2>2. acquisitions' = [acquisitions EXCEPT ![Op(p)] = a]
      BY <1>4
    <2> HIDE DEF a
    <2> QED
      BY <1>0, <1>1, <1>4, <2>1, <2>2, AcquisitionStep
  <1> QED
    BY <1>2, <1>3, <1>4 DEF Fail

LEMMA CompleteStep ==
  ASSUME IInv, NEW p \in Processes, Complete(p)
  PROVE  IInv'
  <1> USE DEF IInv
  <1>0. /\ run[p] # None /\ run[p].step = "complete"
        /\ UNCHANGED <<clock, mandates, approvals, children, boot, active, current, applied,
                       commands, disposal>>
    BY DEF Complete, At, Untouched
  <1>1. /\ acquisitions[Op(p)] \in Authorization /\ acquisitions[Op(p)] # None
        /\ run[p].artifact # None /\ run[p].artifact \in Artifacts /\ "recordArtifact" \in Steps
    BY <1>0, OpFacts DEF RunSound, CommandSound, Steps
  <1>2. CASE Leave(p) /\ UNCHANGED acquisitions
    BY <1>0, <1>2, LeaveStep
  <1>3. CASE /\ acquisitions[Op(p)].status = "COMPLETED"
             /\ acquisitions[Op(p)].artifact = run[p].artifact
             /\ Goto(p, "recordArtifact") /\ UNCHANGED acquisitions
    BY <1>0, <1>1, <1>3, MoveStep DEF Receipted
  <1>4. CASE /\ acquisitions[Op(p)].status \in {"AUTHORIZED", "REVIEW_REQUIRED"}
             /\ acquisitions' = [acquisitions EXCEPT ![Op(p)] = Completed(@, run[p].artifact)]
             /\ Goto(p, "recordArtifact")
    <2> DEFINE a == Completed(acquisitions[Op(p)], run[p].artifact)
    <2>1. /\ a \in Authorization /\ a.status = "COMPLETED" /\ a.artifact = run[p].artifact
          /\ a.day = acquisitions[Op(p)].day /\ a.disposed = acquisitions[Op(p)].disposed
      BY <1>1 DEF Completed, Authorization
    <2>2. acquisitions' = [acquisitions EXCEPT ![Op(p)] = a]
      BY <1>4
    <2> HIDE DEF a
    <2> QED
      BY <1>0, <1>1, <1>4, <2>1, <2>2, AcquisitionStep
  <1> QED
    BY <1>2, <1>3, <1>4 DEF Complete

-----------------------------------------------------------------------------
(* The lineage. *)

(* A command that records something of its operation in the bootstrap file. *)
LEMMA RecordStep ==
  ASSUME IInv, NEW p \in Processes, run[p] # None, NEW o \in Operations, NEW b \in Bootstrap,
         boot' = [boot EXCEPT ![o] = b],
         boot[o] # None /\ boot[o].artifact # None => b.artifact = boot[o].artifact,
         RecordSound(o)', \A q \in Processes \ {p} : run'[q] = run[q],
         run' \in [Processes -> {None} \cup Run],
         run'[p] # None => CommandSound(p)' /\ run'[p].step \notin InRoutine,
         UNCHANGED <<clock, mandates, acquisitions, approvals, children, active, current, applied,
                     commands, disposal>>
  PROVE  IInv'
  <1> USE DEF IInv
  <1>1. Grows
    BY GrowsByBoot
  <1>2. TypeOK'
    BY BootUpdate DEF TypeOK
  <1>3. BootSound'
    BY <1>1, BootUpdate, BootKept
  <1> QED
    BY <1>1, <1>2, <1>3, CommandStep, CurrentKept

LEMMA RecordFailureStep ==
  ASSUME IInv, NEW p \in Processes, RecordFailure(p)
  PROVE  IInv'
  <1> USE DEF IInv
  <1>0. /\ run[p] # None /\ run[p].step = "recordFailure" /\ Leave(p)
        /\ UNCHANGED <<clock, mandates, acquisitions, approvals, children, active, current, applied,
                       commands, disposal>>
    BY DEF RecordFailure, At, Untouched
  <1> DEFINE o == run[p].op
             b == [boot[o] EXCEPT !.status = "ACQUISITION_FAILED"]
  <1>1. o \in Operations /\ boot[o] \in Bootstrap /\ boot[o] # None
    BY <1>0, OpFacts DEF RunSound, CommandSound
  <1>2. b \in Bootstrap /\ b.artifact = boot[o].artifact /\ b.status = "ACQUISITION_FAILED"
    BY <1>1 DEF Bootstrap
  <1>3. boot' = [boot EXCEPT ![o] = b]
    BY DEF RecordFailure, Op
  <1>4. boot'[o] = b
    BY <1>1, <1>2, <1>3, BootUpdate
  <1>5. RecordSound(o)
    BY <1>1 DEF BootSound
  <1> HIDE DEF o, b
  <1>6. ASSUME NEW oo \in Operations, oo = o PROVE RecordSound(oo)'
    BY <1>0, <1>2, <1>4, <1>5, <1>6 DEF RecordSound, Receipted
  <1> QED
    BY <1>0, <1>1, <1>2, <1>3, <1>6, LeaveFacts, RecordStep

LEMMA RecordArtifactStep ==
  ASSUME IInv, NEW p \in Processes, RecordArtifact(p)
  PROVE  IInv'
  <1> USE DEF IInv
  <1>0. /\ run[p] # None /\ run[p].step = "recordArtifact"
        /\ UNCHANGED <<clock, mandates, acquisitions, approvals, children, active, current, applied,
                       commands, disposal>>
    BY DEF RecordArtifact, At, Untouched
  <1>1. CASE boot[Op(p)].artifact \notin {None, run[p].artifact}
    BY <1>0, <1>1, LeaveStep DEF RecordArtifact
  <1>2. CASE boot[Op(p)].artifact \in {None, run[p].artifact}
    <2> DEFINE o == run[p].op
               b == [[boot[o] EXCEPT !.status = "ACQUISITION_COMPLETED"] EXCEPT !.artifact = run[p].artifact]
    <2>1. /\ o \in Operations /\ boot[o] \in Bootstrap /\ boot[o] # None
          /\ run[p].artifact \in Artifacts /\ Receipted(o, run[p].artifact)
          /\ boot[o].artifact # None => boot[o].artifact = run[p].artifact
      BY <1>0, <1>2, OpFacts DEF RunSound, CommandSound
    <2>2. b \in Bootstrap /\ b.artifact = run[p].artifact /\ b.status = "ACQUISITION_COMPLETED"
      BY <2>1 DEF Bootstrap
    <2>3. boot' = [boot EXCEPT ![o] = b] /\ Goto(p, "prepare")
      BY <1>2 DEF RecordArtifact, Op
    <2>4. boot'[o] = b /\ b # None
      BY <2>1, <2>2, <2>3, BootUpdate
    <2> HIDE DEF b
    <2>5. /\ run'[p] # None /\ run'[p].step = "prepare" /\ run'[p].op = o
          /\ run'[p].seen = run[p].seen /\ run'[p].artifact = run[p].artifact
          /\ run' \in [Processes -> {None} \cup Run]
          /\ \A q \in Processes \ {p} : run'[q] = run[q]
      BY <1>0, <2>3, GotoFacts DEF Steps
    <2>6. CommandSound(p)' /\ run'[p].step \notin InRoutine
      BY <1>0, <2>1, <2>2, <2>4, <2>5
         DEF RunSound, CommandSound, Recorded, Prepared, AfterRefresh, InRoutine, Receipted, HasChild
    <2> HIDE DEF o
    <2>7. ASSUME NEW oo \in Operations, oo = o PROVE RecordSound(oo)'
      BY <1>0, <2>1, <2>2, <2>4, <2>7 DEF RecordSound, Receipted
    <2> QED
      BY <1>0, <2>1, <2>2, <2>3, <2>5, <2>6, <2>7, RecordStep
  <1> QED BY <1>1, <1>2

LEMMA PromoteStep ==
  ASSUME IInv, NEW p \in Processes, Promote(p)
  PROVE  IInv'
  <1> USE DEF IInv
  <1>0. /\ run[p] # None /\ run[p].step = "promote" /\ Goto(p, "routine")
        /\ UNCHANGED <<clock, mandates, acquisitions, approvals, children, active, current, applied,
                       commands, disposal>>
    BY DEF Promote, At, Untouched
  <1> DEFINE o == run[p].op
             b == [[boot[o] EXCEPT !.status = "LINEAGE_PROMOTED"] EXCEPT !.predecessor = run[p].predecessor]
  <1>1. /\ o \in Operations /\ boot[o] \in Bootstrap /\ boot[o] # None
        /\ run[p].artifact # None /\ Receipted(o, run[p].artifact)
        /\ boot[o].artifact = run[p].artifact /\ HasChild(o, run[p].artifact)
        /\ run[p].predecessor \in {None} \cup Artifacts
    BY <1>0, OpFacts DEF RunSound, CommandSound, Recorded, Prepared
  <1>2. b \in Bootstrap /\ b.artifact = run[p].artifact /\ b.status = "LINEAGE_PROMOTED"
    BY <1>1 DEF Bootstrap
  <1>3. boot' = [boot EXCEPT ![o] = b]
    BY DEF Promote, Op
  <1>4. boot'[o] = b /\ b # None
    BY <1>1, <1>2, <1>3, BootUpdate
  <1> HIDE DEF b
  <1>5. /\ run'[p] # None /\ run'[p].step = "routine" /\ run'[p].op = o
        /\ run'[p].seen = run[p].seen /\ run'[p].artifact = run[p].artifact
        /\ run' \in [Processes -> {None} \cup Run]
        /\ \A q \in Processes \ {p} : run'[q] = run[q]
    BY <1>0, GotoFacts DEF Steps
  <1>6. CommandSound(p)' /\ run'[p].step \notin InRoutine
    BY <1>0, <1>1, <1>2, <1>4, <1>5
       DEF RunSound, CommandSound, Recorded, Prepared, AfterRefresh, InRoutine, Receipted, HasChild
  <1> HIDE DEF o
  <1>7. ASSUME NEW oo \in Operations, oo = o PROVE RecordSound(oo)'
    BY <1>0, <1>1, <1>2, <1>4, <1>7 DEF RecordSound, Receipted, HasChild
  <1> QED
    BY <1>0, <1>1, <1>2, <1>3, <1>5, <1>6, <1>7, RecordStep

LEMMA CloseStep ==
  ASSUME IInv, NEW p \in Processes, Close(p)
  PROVE  IInv'
  <1> USE DEF IInv
  <1>0. /\ run[p] # None /\ run[p].step = "close" /\ Leave(p)
        /\ UNCHANGED <<clock, mandates, acquisitions, approvals, children, active, current, applied,
                       commands, disposal>>
    BY DEF Close, At, Untouched
  <1> DEFINE o == run[p].op
             b == [boot[o] EXCEPT !.status = "ROUTINE_COMPLETED"]
  <1>1. /\ o \in Operations /\ boot[o] \in Bootstrap /\ boot[o] # None
        /\ run[p].artifact # None /\ Receipted(o, run[p].artifact)
        /\ boot[o].artifact = run[p].artifact /\ run[p].artifact \in applied
        /\ Used(o, "CURRENT", run[p].artifact) /\ Used(o, "HISTORY", run[p].artifact)
    BY <1>0, OpFacts DEF RunSound, CommandSound, Recorded, Prepared, AfterRefresh
  <1>2. b \in Bootstrap /\ b.artifact = run[p].artifact /\ b.status = "ROUTINE_COMPLETED"
    BY <1>1 DEF Bootstrap
  <1>3. boot' = [boot EXCEPT ![o] = b]
    BY DEF Close, Op
  <1>4. boot'[o] = b
    BY <1>1, <1>2, <1>3, BootUpdate
  <1> HIDE DEF o, b
  <1>5. ASSUME NEW oo \in Operations, oo = o PROVE RecordSound(oo)'
    BY <1>0, <1>1, <1>2, <1>4, <1>5 DEF RecordSound, Receipted, Used
  <1> QED
    BY <1>0, <1>1, <1>2, <1>3, <1>5, LeaveFacts, RecordStep

(* A step that changes the children of one operation and keeps what they stand for. *)
LEMMA ChildrenStep ==
  ASSUME IInv, NEW p \in Processes, children' \subseteq Child,
         \A o, a : HasChild(o, a) => HasChild(o, a)',
         \A o, s, a : Used(o, s, a) => Used(o, s, a)',
         \A q \in Processes \ {p} : run'[q] = run[q],
         run' \in [Processes -> {None} \cup Run],
         run'[p] # None => CommandSound(p)' /\ run'[p].step \notin InRoutine,
         UNCHANGED <<clock, mandates, acquisitions, approvals, boot, active, current, applied,
                     commands, disposal>>
  PROVE  IInv'
  <1> USE DEF IInv
  <1>1. Grows
    BY DEF Grows, Receipted
  <1>2. TypeOK'
    BY DEF TypeOK
  <1> QED
    BY <1>1, <1>2, CommandStep, FilesKept, CurrentKept

LEMMA ChildIssued ==
  ASSUME TypeOK, NEW p \in Processes, run[p] # None, run[p].artifact \in Artifacts,
         NEW stage \in {"CURRENT", "HISTORY"}, NEW pred \in {None} \cup Artifacts,
         children' = WithChild(ChildOf(p, stage, pred))
  PROVE  /\ children' \subseteq Child
         /\ \A o, a : HasChild(o, a) => HasChild(o, a)'
         /\ \A o, s, a : Used(o, s, a) => Used(o, s, a)'
         /\ stage = "CURRENT" => \E c \in children' : c.op = run[p].op /\ c.stage = "CURRENT"
                                                       /\ c.artifact = run[p].artifact
  <1> DEFINE c == ChildOf(p, stage, pred)
  <1>1. /\ c \in Child /\ c.op = run[p].op /\ c.stage = stage /\ c.artifact = run[p].artifact
        /\ Consumption(c).op = run[p].op /\ Consumption(c).stage = stage
        /\ Consumption(c).artifact = run[p].artifact
    BY OpFacts DEF ChildOf, Consumption, Child
  <1> HIDE DEF c
  <1>2. children \subseteq children' /\ (c \in children' \/ Consumption(c) \in children')
        /\ children' \subseteq children \cup {c}
    BY DEF WithChild, c
  <1> QED
    BY <1>1, <1>2 DEF HasChild, Used, TypeOK

LEMMA PrepareStep ==
  ASSUME IInv, NEW p \in Processes, Prepare(p)
  PROVE  IInv'
  <1> USE DEF IInv
  <1>0. /\ run[p] # None /\ run[p].step = "prepare"
        /\ UNCHANGED <<clock, mandates, acquisitions, approvals, boot, active, current, applied,
                       commands, disposal>>
    BY DEF Prepare, At, Untouched
  <1>1. /\ run[p].artifact \in Artifacts /\ Receipted(run[p].op, run[p].artifact)
        /\ acquisitions[run[p].op] # None /\ boot[run[p].op] # None
        /\ boot[run[p].op].artifact = run[p].artifact
    BY <1>0, OpFacts DEF RunSound, CommandSound, Recorded
  <1>2. ASSUME NEW r \in Run, run' = [run EXCEPT ![p] = r], r.op = run[p].op, r.seen = None,
               r.artifact = run[p].artifact, r.step \in {"promote", "history"},
               children' \subseteq Child,
               \A o, a : HasChild(o, a) => HasChild(o, a)',
               \A o, s, a : Used(o, s, a) => Used(o, s, a)',
               \E c \in children' : c.op = run[p].op /\ c.stage = "CURRENT" /\ c.artifact = run[p].artifact
        PROVE  IInv'
    <2>1. run' \in [Processes -> {None} \cup Run] /\ run'[p] = r
          /\ \A q \in Processes \ {p} : run'[q] = run[q]
      BY <1>2 DEF TypeOK
    <2>2. CommandSound(p)' /\ run'[p].step \notin InRoutine
      BY <1>0, <1>1, <1>2, <2>1
         DEF CommandSound, Recorded, Prepared, AfterRefresh, InRoutine, Receipted, HasChild
    <2> QED
      BY <1>0, <1>2, <2>1, <2>2, ChildrenStep
  <1>3. CASE Recovering(p, "LINEAGE_PROMOTED")
    <2> DEFINE r == [[[run[p] EXCEPT !.step = "promote"] EXCEPT !.seen = None]
                        EXCEPT !.predecessor = run[p].seen.predecessor]
    <2>1. run[p].seen \in Bootstrap /\ run[p].seen # None /\ run[p].seen.status = "LINEAGE_PROMOTED"
      BY <1>0, <1>3, OpFacts DEF Recovering
    <2>a. run[p].seen.predecessor \in {None} \cup Artifacts
      BY <2>1 DEF Bootstrap
    <2>b. run[p] \in Run /\ "promote" \in Steps
      BY <1>0, OpFacts DEF Steps
    <2>2. /\ r \in Run /\ r.op = run[p].op /\ r.seen = None /\ r.artifact = run[p].artifact
          /\ r.step = "promote"
      BY <2>a, <2>b DEF Run
    <2>3. run' = [run EXCEPT ![p] = r] /\ children' = children
      BY <1>3 DEF Prepare
    <2>4. HasChild(run[p].op, run[p].artifact)
      BY <1>0, <1>1, <2>1 DEF RunSound, CommandSound, Receipted
    <2> HIDE DEF r
    <2> QED
      BY <1>2, <2>2, <2>3, <2>4 DEF HasChild, Used, TypeOK
  <1>4. CASE ~Recovering(p, "LINEAGE_PROMOTED") /\ MayHaveChild(p)
    <2> DEFINE r == [[[run[p] EXCEPT !.step = "history"] EXCEPT !.seen = None]
                        EXCEPT !.predecessor = current]
    <2>a. current \in {None} \cup Artifacts
      BY DEF TypeOK
    <2>b. run[p] \in Run /\ "history" \in Steps
      BY <1>0, OpFacts DEF Steps
    <2>1. /\ r \in Run /\ r.op = run[p].op /\ r.seen = None /\ r.artifact = run[p].artifact
          /\ r.step = "history"
      BY <2>a, <2>b DEF Run
    <2>2. run' = [run EXCEPT ![p] = r] /\ children' = WithChild(ChildOf(p, "CURRENT", current))
      BY <1>4 DEF Prepare
    <2>3. current \in {None} \cup Artifacts
      BY DEF TypeOK
    <2>4. /\ children' \subseteq Child
          /\ \A o, a : HasChild(o, a) => HasChild(o, a)'
          /\ \A o, s, a : Used(o, s, a) => Used(o, s, a)'
          /\ \E c \in children' : c.op = run[p].op /\ c.stage = "CURRENT" /\ c.artifact = run[p].artifact
      BY <1>0, <1>1, <2>2, <2>3, ChildIssued
    <2> HIDE DEF r
    <2> QED
      BY <1>2, <2>1, <2>2, <2>4
  <1>5. CASE ~Recovering(p, "LINEAGE_PROMOTED") /\ ~MayHaveChild(p)
    BY <1>0, <1>5, LeaveStep DEF Prepare
  <1> QED BY <1>3, <1>4, <1>5

LEMMA HistoryStep ==
  ASSUME IInv, NEW p \in Processes, History(p)
  PROVE  IInv'
  <1> USE DEF IInv
  <1>0. /\ run[p] # None /\ run[p].step = "history"
        /\ UNCHANGED <<clock, mandates, acquisitions, approvals, boot, active, current, applied,
                       commands, disposal>>
    BY DEF History, At, Untouched
  <1>1. CASE MayHaveChild(p)
    <2>1. /\ run[p].artifact \in Artifacts /\ run[p].predecessor \in {None} \cup Artifacts
          /\ Receipted(run[p].op, run[p].artifact) /\ HasChild(run[p].op, run[p].artifact)
          /\ boot[run[p].op].artifact = run[p].artifact /\ boot[run[p].op] # None
          /\ acquisitions[run[p].op] # None
      BY <1>0, OpFacts DEF RunSound, CommandSound, Recorded, Prepared
    <2>2. children' = WithChild(ChildOf(p, "HISTORY", run[p].predecessor)) /\ Goto(p, "promote")
      BY <1>1 DEF History
    <2>3. /\ children' \subseteq Child
          /\ \A o, a : HasChild(o, a) => HasChild(o, a)'
          /\ \A o, s, a : Used(o, s, a) => Used(o, s, a)'
      BY <1>0, <2>1, <2>2, ChildIssued
    <2>4. /\ run'[p] # None /\ run'[p].step = "promote" /\ run'[p].op = run[p].op
          /\ run'[p].seen = run[p].seen /\ run'[p].artifact = run[p].artifact
          /\ run' \in [Processes -> {None} \cup Run]
          /\ \A q \in Processes \ {p} : run'[q] = run[q]
      BY <1>0, <2>2, GotoFacts DEF Steps
    <2>5. HasChild(run[p].op, run[p].artifact)'
      BY <2>1, <2>3, <2>4 DEF HasChild
    <2>6. run[p].seen # None /\ run[p].seen.status = "LINEAGE_PROMOTED" =>
             /\ Receipted(run[p].op, run[p].seen.artifact)
             /\ \E c \in children' : c.op = run[p].op /\ c.stage = "CURRENT" /\ c.artifact = run[p].seen.artifact
      BY <1>0, <2>3 DEF RunSound, CommandSound, HasChild
    <2>7. CommandSound(p)' /\ run'[p].step \notin InRoutine
      BY <1>0, <2>1, <2>4, <2>5, <2>6
         DEF CommandSound, Recorded, Prepared, AfterRefresh, InRoutine, Receipted, HasChild
    <2> QED
      BY <1>0, <2>3, <2>4, <2>7, ChildrenStep
  <1>2. CASE ~MayHaveChild(p)
    BY <1>0, <1>2, LeaveStep DEF History
  <1> QED BY <1>1, <1>2

LEMMA ChildConsumed ==
  ASSUME TypeOK, NEW p \in Processes, run[p] # None, run[p].artifact \in Artifacts,
         NEW stage \in {"CURRENT", "HISTORY"},
         children' = (children \ {ChildOf(p, stage, run[p].predecessor)})
                         \cup {Consumption(ChildOf(p, stage, run[p].predecessor))}
  PROVE  /\ children' \subseteq Child
         /\ \A o, a : HasChild(o, a) => HasChild(o, a)'
         /\ \A o, s, a : Used(o, s, a) => Used(o, s, a)'
         /\ \E c \in children' : c.op = run[p].op /\ c.stage = stage
                                 /\ c.artifact = run[p].artifact /\ c.status = "CONSUMED"
  <1> DEFINE c == ChildOf(p, stage, run[p].predecessor)
             d == Consumption(c)
  <1>1. /\ c.op = run[p].op /\ c.stage = stage /\ c.artifact = run[p].artifact
        /\ c.status = "AUTHORIZED" /\ d \in Child
        /\ d.op = run[p].op /\ d.stage = stage /\ d.artifact = run[p].artifact /\ d.status = "CONSUMED"
    BY OpFacts DEF ChildOf, Consumption, Child
  <1>2. children' = (children \ {c}) \cup {d}
    OBVIOUS
  <1> HIDE DEF c, d
  <1> QED
    BY <1>1, <1>2 DEF HasChild, Used, TypeOK

LEMMA ConsumeStep ==
  ASSUME IInv, NEW p \in Processes, ConsumeCurrent(p) \/ ConsumeHistory(p)
  PROVE  IInv'
  <1> USE DEF IInv
  <1>1. PICK step \in {"consumeCurrent", "consumeHistory"}, stage \in {"CURRENT", "HISTORY"},
             next \in {"consumeHistory", "close"} :
          /\ Consume(p, step, stage, next)
          /\ step = "consumeCurrent" <=> stage = "CURRENT"
          /\ step = "consumeCurrent" <=> next = "consumeHistory"
    BY DEF ConsumeCurrent, ConsumeHistory
  <1>0. /\ run[p] # None /\ run[p].step = step /\ Goto(p, next)
        /\ children' = (children \ {ChildOf(p, stage, run[p].predecessor)})
                          \cup {Consumption(ChildOf(p, stage, run[p].predecessor))}
        /\ UNCHANGED <<clock, mandates, acquisitions, approvals, boot, active, current, applied,
                       commands, disposal>>
    BY <1>1 DEF Consume, At, Untouched
  <1>2. /\ run[p].artifact \in Artifacts
        /\ Receipted(run[p].op, run[p].artifact) /\ HasChild(run[p].op, run[p].artifact)
        /\ boot[run[p].op].artifact = run[p].artifact /\ boot[run[p].op] # None
        /\ acquisitions[run[p].op] # None /\ run[p].artifact \in applied
        /\ step = "consumeHistory" => Used(run[p].op, "CURRENT", run[p].artifact)
    BY <1>0, OpFacts DEF RunSound, CommandSound, Recorded, Prepared, AfterRefresh
  <1>3. /\ children' \subseteq Child
        /\ \A o, a : HasChild(o, a) => HasChild(o, a)'
        /\ \A o, s, a : Used(o, s, a) => Used(o, s, a)'
        /\ \E c \in children' : c.op = run[p].op /\ c.stage = stage
                                /\ c.artifact = run[p].artifact /\ c.status = "CONSUMED"
    BY <1>0, <1>2, ChildConsumed
  <1>4. /\ run'[p] # None /\ run'[p].step = next /\ run'[p].op = run[p].op
        /\ run'[p].seen = run[p].seen /\ run'[p].artifact = run[p].artifact
        /\ run' \in [Processes -> {None} \cup Run]
        /\ \A q \in Processes \ {p} : run'[q] = run[q]
    BY <1>0, GotoFacts DEF Steps
  <1>5. HasChild(run[p].op, run[p].artifact)'
    BY <1>2, <1>3, <1>4 DEF HasChild
  <1>6. run[p].seen # None /\ run[p].seen.status = "LINEAGE_PROMOTED" =>
           /\ Receipted(run[p].op, run[p].seen.artifact)
           /\ \E c \in children' : c.op = run[p].op /\ c.stage = "CURRENT" /\ c.artifact = run[p].seen.artifact
    BY <1>0, <1>3 DEF RunSound, CommandSound, HasChild
  <1>7. /\ \E c \in children' : c.op = run[p].op /\ c.stage = "CURRENT"
                                /\ c.artifact = run[p].artifact /\ c.status = "CONSUMED"
        /\ next = "close" => \E c \in children' : c.op = run[p].op /\ c.stage = "HISTORY"
                                /\ c.artifact = run[p].artifact /\ c.status = "CONSUMED"
    BY <1>1, <1>2, <1>3 DEF Used
  <1>8. CommandSound(p)' /\ run'[p].step \notin InRoutine
    BY <1>0, <1>2, <1>4, <1>5, <1>6, <1>7
       DEF CommandSound, Recorded, Prepared, AfterRefresh, InRoutine, Receipted, HasChild, Used
  <1> QED
    BY <1>0, <1>3, <1>4, <1>8, ChildrenStep

-----------------------------------------------------------------------------
(* The routine command. *)

(* What a step of the routine command leaves to be shown. *)
LEMMA RoutineKept ==
  ASSUME IInv, NEW p \in Processes, run[p] # None, NEW s \in Steps, Goto(p, s),
         run[p].step \in {"routine"} \cup InRoutine,
         s \in InRoutine \cup {"consumeCurrent"},
         s \in InRoutine => active' # None /\ active'.artifact = run[p].artifact,
         s \in AfterRefresh => run[p].artifact \in applied',
         s \in InRoutine /\ run[p].step = "routine" =>
             \A q \in Processes \ {p} : run[q] # None => run[q].step \notin InRoutine,
         active' # active => \A q \in Processes \ {p} : run[q] # None => run[q].step \notin InRoutine,
         active' \in {None} \cup Binding, current' \in {None} \cup Artifacts,
         applied' \in {applied, applied \cup {run[p].artifact}}, ActiveSound',
         UNCHANGED <<clock, mandates, acquisitions, approvals, children, boot, commands, disposal>>
  PROVE  IInv'
  <1> USE DEF IInv
  <1>1. /\ run[p].artifact \in Artifacts /\ run[p].op \in Operations
        /\ Receipted(run[p].op, run[p].artifact) /\ HasChild(run[p].op, run[p].artifact)
        /\ boot[run[p].op].artifact = run[p].artifact /\ boot[run[p].op] # None
        /\ acquisitions[run[p].op] # None
    BY OpFacts DEF RunSound, CommandSound, Recorded, Prepared, InRoutine, AfterRefresh
  <1>2. /\ run'[p] # None /\ run'[p].step = s /\ run'[p].op = run[p].op
        /\ run'[p].seen = run[p].seen /\ run'[p].artifact = run[p].artifact
        /\ run' \in [Processes -> {None} \cup Run]
        /\ \A q \in Processes \ {p} : run'[q] = run[q]
    BY GotoFacts
  <1>3. Grows
    BY DEF Grows, Receipted, HasChild, Used
  <1>4. TypeOK'
    BY <1>1, <1>2 DEF TypeOK
  <1>5. CommandSound(p)'
    BY <1>1, <1>2
       DEF RunSound, CommandSound, Recorded, Prepared, AfterRefresh, InRoutine, Receipted, HasChild, Used
  <1>6. RunSound'
    BY <1>2, <1>3, <1>5, RunKept
  <1>7. OneInRoutine'
    BY <1>2 DEF OneInRoutine, InRoutine
  <1>8. AppliedSound'
    BY <1>1, <1>3 DEF AppliedSound, Receipted, HasChild
  <1> QED
    BY <1>2, <1>3, <1>4, <1>6, <1>7, <1>8, FilesKept, CurrentKept DEF DisposalSound

(* A command in the routine is there alone, with the run of its artifact. *)
LEMMA InRoutineFacts ==
  ASSUME IInv, NEW p \in Processes, run[p] # None, run[p].step \in InRoutine
  PROVE  /\ active # None /\ active \in Binding /\ active.artifact = run[p].artifact
         /\ \A q \in Processes \ {p} : run[q] # None => run[q].step \notin InRoutine
         /\ run[p].artifact \in Artifacts /\ run[p].predecessor \in {None} \cup Artifacts
         /\ run[p].step \in AfterRefresh => run[p].artifact \in applied
  BY OpFacts
     DEF IInv, TypeOK, RunSound, CommandSound, OneInRoutine, InRoutine, AfterRefresh, Prepared, Recorded

LEMMA RoutineStep ==
  ASSUME IInv, NEW p \in Processes, Routine(p)
  PROVE  IInv'
  <1> USE DEF IInv
  <1>0. /\ run[p] # None /\ run[p].step = "routine"
        /\ UNCHANGED <<clock, mandates, acquisitions, approvals, children, boot, current, applied,
                       commands, disposal>>
    BY DEF Routine, At, RunFile, authority
  <1>1. CASE LockHeld(p) \/ (active # None /\ ~SameBinding(p))
    BY <1>0, <1>1, LeaveStep DEF Routine
  <1>2. CASE ~(LockHeld(p) \/ (active # None /\ ~SameBinding(p)))
    <2>1. /\ run[p].artifact \in Artifacts /\ run[p].predecessor \in {None} \cup Artifacts
      BY <1>0, OpFacts DEF RunSound, CommandSound, Recorded, Prepared
    <2>2. \A q \in Processes \ {p} : run[q] # None => run[q].step \notin InRoutine
      BY <1>2 DEF LockHeld, At, InRoutine
    <2>3. /\ Goto(p, "refresh")
          /\ active' = IF active # None THEN active
                       ELSE [artifact |-> run[p].artifact,
                             predecessor |-> run[p].predecessor, refreshed |-> FALSE]
      BY <1>2 DEF Routine
    <2>4. active' \in Binding /\ active'.artifact = run[p].artifact
      BY <1>2, <2>1, <2>3 DEF Binding, TypeOK, SameBinding
    <2>5. ActiveSound'
      <3>1. CASE active # None
        BY <1>0, <2>3, <3>1 DEF ActiveSound
      <3>2. CASE active = None
        BY <2>3, <3>2 DEF ActiveSound
      <3> QED BY <3>1, <3>2
    <2>6. "refresh" \in Steps /\ "refresh" \in InRoutine /\ "refresh" \notin AfterRefresh
      BY DEF Steps, InRoutine, AfterRefresh
    <2>7. active' # None /\ current' \in {None} \cup Artifacts
      BY <1>0, <2>4 DEF TypeOK
    <2> QED
      BY <1>0, <2>2, <2>3, <2>4, <2>5, <2>6, <2>7, RoutineKept
  <1> QED BY <1>1, <1>2

LEMMA RefreshStep ==
  ASSUME IInv, NEW p \in Processes, Refresh(p)
  PROVE  IInv'
  <1> USE DEF IInv
  <1>0. /\ run[p] # None /\ run[p].step = "refresh"
        /\ UNCHANGED <<clock, mandates, acquisitions, approvals, children, boot, active,
                       commands, disposal>>
    BY DEF Refresh, At, RunFile, authority
  <1>1. /\ active # None /\ active \in Binding /\ active.artifact = run[p].artifact
        /\ \A q \in Processes \ {p} : run[q] # None => run[q].step \notin InRoutine
        /\ run[p].artifact \in Artifacts
    BY <1>0, InRoutineFacts DEF InRoutine
  <1>2. /\ {"finish", "stage"} \subseteq Steps /\ {"finish", "stage"} \subseteq InRoutine
        /\ active' # None /\ active' \in {None} \cup Binding /\ active' = active
        /\ run[p].step \in InRoutine
    BY <1>0, <1>1 DEF Steps, InRoutine
  <1>3. CASE active.refreshed /\ Goto(p, "finish") /\ UNCHANGED <<current, applied>>
    <2>1. run[p].artifact \in applied' /\ ActiveSound' /\ current' \in {None} \cup Artifacts
      BY <1>0, <1>1, <1>3 DEF ActiveSound, TypeOK
    <2> QED
      BY <1>0, <1>1, <1>2, <1>3, <2>1, RoutineKept
  <1>4. CASE /\ current' = run[p].artifact /\ applied' = applied \cup {run[p].artifact}
             /\ Goto(p, "stage")
    <2>1. run[p].artifact \in applied' /\ ActiveSound' /\ current' \in {None} \cup Artifacts
      BY <1>0, <1>1, <1>4 DEF ActiveSound
    <2> QED
      BY <1>0, <1>1, <1>2, <1>4, <2>1, RoutineKept
  <1>5. CASE Leave(p) /\ UNCHANGED <<current, applied>>
    BY <1>0, <1>5, LeaveStep
  <1> QED
    BY <1>3, <1>4, <1>5 DEF Refresh

LEMMA StageStep ==
  ASSUME IInv, NEW p \in Processes, Stage(p)
  PROVE  IInv'
  <1> USE DEF IInv
  <1>0. /\ run[p] # None /\ run[p].step = "stage" /\ Goto(p, "finish")
        /\ active' = [active EXCEPT !.refreshed = TRUE]
        /\ UNCHANGED <<clock, mandates, acquisitions, approvals, children, boot, current, applied,
                       commands, disposal>>
    BY DEF Stage, At, RunFile, authority
  <1>1. /\ active \in Binding /\ active.artifact = run[p].artifact
        /\ \A q \in Processes \ {p} : run[q] # None => run[q].step \notin InRoutine
        /\ run[p].artifact \in applied
    BY <1>0, InRoutineFacts DEF InRoutine, AfterRefresh
  <1>2. active' \in Binding /\ active'.artifact = run[p].artifact /\ active' # None
    BY <1>0, <1>1 DEF Binding
  <1>3. "finish" \in Steps /\ "finish" \in InRoutine /\ run[p].step \in InRoutine
        /\ current' \in {None} \cup Artifacts
    BY <1>0 DEF Steps, InRoutine, TypeOK
  <1>4. ActiveSound'
    BY <1>0, <1>1, <1>2 DEF ActiveSound
  <1> QED
    BY <1>0, <1>1, <1>2, <1>3, <1>4, RoutineKept

LEMMA FinishStep ==
  ASSUME IInv, NEW p \in Processes, Finish(p)
  PROVE  IInv'
  <1> USE DEF IInv
  <1>0. /\ run[p] # None /\ run[p].step = "finish" /\ Goto(p, "consumeCurrent") /\ active' = None
        /\ UNCHANGED <<clock, mandates, acquisitions, approvals, children, boot, current, applied,
                       commands, disposal>>
    BY DEF Finish, At, RunFile, authority
  <1>1. /\ \A q \in Processes \ {p} : run[q] # None => run[q].step \notin InRoutine
        /\ run[p].artifact \in applied
    BY <1>0, InRoutineFacts DEF InRoutine, AfterRefresh
  <1>2. /\ "consumeCurrent" \in Steps /\ "consumeCurrent" \notin InRoutine
        /\ run[p].step \in InRoutine /\ current' \in {None} \cup Artifacts /\ ActiveSound'
    BY <1>0 DEF Steps, InRoutine, TypeOK, ActiveSound
  <1> QED
    BY <1>0, <1>1, <1>2, RoutineKept

-----------------------------------------------------------------------------
(* The disposition. *)

(* A step of the operator's leaves the commands alone. *)
LEMMA OperatorStep ==
  ASSUME IInv, Grows,
         acquisitions' \in [Operations -> {None} \cup Authorization],
         boot' \in [Operations -> {None} \cup Bootstrap], commands' \in 0 .. MaxCommands,
         disposal' = None \/ (/\ disposal' \in Disposal
                              /\ boot'[disposal'.op] # None /\ acquisitions'[disposal'.op] # None),
         BootSound', OneCurrent',
         UNCHANGED <<clock, mandates, approvals, children, active, current, applied, run>>
  PROVE  IInv'
  <1> USE DEF IInv
  <1>1. TypeOK'
    BY DEF TypeOK
  <1>2. RunSound'
    BY AllRunsKept
  <1> QED
    BY <1>1, <1>2, AppliedKept, ActiveKept DEF OneInRoutine, DisposalSound

LEMMA AssessStep ==
  ASSUME IInv,
         \/ \E o \in Operations : Assess(o) \/ Resume(o)
         \/ DisposeCrash
  PROVE  IInv'
  <1> USE DEF IInv
  <1>1. /\ UNCHANGED <<clock, mandates, acquisitions, approvals, children, boot, active, current,
                       applied, run>>
        /\ commands' \in 0 .. MaxCommands
    BY DEF Assess, Resume, DisposeCrash, Keeps, Given, TypeOK
  <1>2. Grows
    BY <1>1, GrowsByNothing
  <1>3. disposal' = None \/ (/\ disposal' \in Disposal
                             /\ boot'[disposal'.op] # None /\ acquisitions'[disposal'.op] # None)
    <2>1. ASSUME NEW o \in Operations, Assess(o) \/ Resume(o)
          PROVE  /\ disposal' \in Disposal
                 /\ boot'[disposal'.op] # None /\ acquisitions'[disposal'.op] # None
      BY <1>1, <2>1 DEF Assess, Resume, Disposal
    <2> QED
      BY <2>1 DEF DisposeCrash
  <1> QED
    BY <1>1, <1>2, <1>3, OperatorStep, FilesKept, CurrentKept DEF TypeOK

LEMMA DisposeStep ==
  ASSUME IInv, DisposePrepare \/ DisposeReview \/ DisposeFinish
  PROVE  IInv'
  <1> USE DEF IInv
  <1>0. /\ disposal # None /\ disposal \in Disposal
        /\ UNCHANGED <<clock, mandates, approvals, children, active, current, applied, run, commands>>
    BY DEF DisposePrepare, DisposeReview, DisposeFinish, Keeps, TypeOK
  <1> DEFINE o == disposal.op
  <1>1. /\ o \in Operations /\ boot[o] \in Bootstrap /\ boot[o] # None
        /\ acquisitions[o] \in Authorization /\ acquisitions[o] # None /\ RecordSound(o)
    BY <1>0 DEF DisposalSound, Disposal, TypeOK, BootSound
  <1>c. commands' \in 0 .. MaxCommands
    BY <1>0 DEF TypeOK
  <1>2. ASSUME NEW b \in Bootstrap, boot' = [boot EXCEPT ![o] = b], UNCHANGED acquisitions,
               b.artifact = boot[o].artifact,
               b.status \in {boot[o].status, "ACQUISITION_REVIEW_REQUIRED"},
               disposal' = None \/ (disposal' \in Disposal /\ disposal'.op = o)
        PROVE  IInv'
    <2>1. Grows
      BY <1>0, <1>1, <1>2, GrowsByBoot
    <2>2. /\ boot' \in [Operations -> {None} \cup Bootstrap] /\ boot'[o] = b /\ b # None
          /\ \A other \in Operations \ {o} : boot'[other] = boot[other]
      BY <1>1, <1>2, BootUpdate
    <2>3. acquisitions' \in [Operations -> {None} \cup Authorization]
      BY <1>2 DEF TypeOK
    <2>4. BootSound'
      <3>1. ASSUME NEW oo \in Operations, oo = o PROVE RecordSound(oo)'
        BY <1>0, <1>1, <1>2, <2>2, <3>1 DEF RecordSound, Receipted, HasChild, Used
      <3> QED
        BY <1>1, <2>1, <2>2, <3>1, BootKept
    <2> QED
      BY <1>0, <1>1, <1>2, <1>c, <2>1, <2>2, <2>3, <2>4, OperatorStep, CurrentKept
  <1>3. CASE DisposePrepare
    <2> DEFINE b == [boot[o] EXCEPT !.disposition = "PREPARED"]
    <2>1. b \in Bootstrap /\ b.artifact = boot[o].artifact /\ b.status = boot[o].status
      BY <1>1 DEF Bootstrap
    <2>2. boot' = [boot EXCEPT ![o] = b] /\ UNCHANGED acquisitions
          /\ disposal' = [disposal EXCEPT !.step = "review"]
      BY <1>3 DEF DisposePrepare
    <2>3. disposal' \in Disposal /\ disposal'.op = o
      BY <1>0, <2>2 DEF Disposal
    <2> HIDE DEF o, b
    <2> QED
      BY <1>2, <2>1, <2>2, <2>3
  <1>4. CASE DisposeFinish
    <2> DEFINE b == [[boot[o] EXCEPT !.status = "ACQUISITION_REVIEW_REQUIRED"] EXCEPT !.disposition = "COMPLETED"]
    <2>1. b \in Bootstrap /\ b.artifact = boot[o].artifact /\ b.status = "ACQUISITION_REVIEW_REQUIRED"
      BY <1>1 DEF Bootstrap
    <2>2. boot' = [boot EXCEPT ![o] = b] /\ UNCHANGED acquisitions /\ disposal' = None
      BY <1>4 DEF DisposeFinish
    <2> HIDE DEF o, b
    <2> QED
      BY <1>2, <2>1, <2>2
  <1>5. CASE DisposeReview /\ acquisitions[o].status = "COMPLETED"
    <2>1. disposal' = None /\ UNCHANGED <<acquisitions, boot>>
      BY <1>5 DEF DisposeReview
    <2>2. Grows
      BY <1>0, <2>1, GrowsByNothing
    <2> QED
      BY <1>0, <1>c, <2>1, <2>2, OperatorStep, FilesKept, CurrentKept DEF TypeOK
  <1>6. CASE DisposeReview /\ acquisitions[o].status # "COMPLETED"
    <2> DEFINE a == Reviewed(acquisitions[o])
    <2>1. /\ a \in Authorization /\ a.day = acquisitions[o].day /\ a.disposed
          /\ a.status = "REVIEW_REQUIRED"
      BY <1>1 DEF Reviewed, Authorization
    <2>2. /\ acquisitions' = [acquisitions EXCEPT ![o] = a] /\ UNCHANGED boot
          /\ disposal' = [disposal EXCEPT !.step = "finish"]
      BY <1>6 DEF DisposeReview
    <2>3. disposal' \in Disposal /\ disposal'.op = o
      BY <1>0, <2>2 DEF Disposal
    <2> HIDE DEF a
    <2>4. Grows /\ OneCurrent'
      BY <1>0, <1>1, <1>6, <2>1, <2>2, GrowsByAcquisition, CurrentUpdated
    <2>5. /\ acquisitions' \in [Operations -> {None} \cup Authorization] /\ acquisitions'[o] # None
      BY <1>1, <2>1, <2>2, AcquisitionUpdate
    <2>6. boot' \in [Operations -> {None} \cup Bootstrap] /\ boot'[o] # None
      BY <1>1, <2>2 DEF TypeOK
    <2> QED
      BY <1>0, <1>c, <2>2, <2>3, <2>4, <2>5, <2>6, OperatorStep, FilesKept
  <1> QED BY <1>3, <1>4, <1>5, <1>6

-----------------------------------------------------------------------------
LEMMA NextIInv == IInv /\ [Next]_vars => IInv'
  <1> SUFFICES ASSUME IInv, [Next]_vars PROVE IInv'
    OBVIOUS
  <1>1. CASE Tick \/ OthersRefresh
    BY <1>1, WorldStep
  <1>2. CASE Operator
    BY <1>2, WorldStep, ReattemptStep, AssessStep, DisposeStep DEF Operator
  <1>3. ASSUME NEW p \in Processes, Progress(p) PROVE IInv'
    BY <1>3, ExecuteStep, AuthorizeStep, IntentStep, AcquireStep, FailStep, RecordFailureStep,
       CompleteStep, RecordArtifactStep, PrepareStep, HistoryStep, PromoteStep, RoutineStep,
       RefreshStep, StageStep, FinishStep, ConsumeStep, CloseStep DEF Progress
  <1>4. ASSUME NEW p \in Processes, Crash(p) \/ \E m \in Mandates : Start(p, m) PROVE IInv'
    BY <1>4, CrashStep, StartStep
  <1>5. CASE UNCHANGED vars
    <2>1. Grows /\ UNCHANGED <<clock, mandates, acquisitions, approvals, children, boot, active, current,
                               applied, run, commands, disposal>>
      BY <1>5, GrowsByNothing DEF vars, authority
    <2>2. TypeOK'
      BY <2>1 DEF IInv, TypeOK
    <2> QED
      BY <2>1, <2>2, AllRunsKept, FilesKept, AppliedKept, ActiveKept, CurrentKept
         DEF IInv, OneInRoutine, DisposalSound
  <1> QED
    BY <1>1, <1>2, <1>3, <1>4, <1>5 DEF Next

LEMMA Invariance == Spec => []IInv
  BY InitIInv, NextIInv, PTL DEF Spec

(* The files, the commands and the disposition keep the shape the code gives them. *)
THEOREM RoutineTypeCorrect == Spec => []TypeOK
  <1>1. IInv => TypeOK
    BY DEF IInv
  <1> QED BY <1>1, Invariance, PTL

(* What the bootstrap file promotes is what the authority file receipted. *)
THEOREM LineageIsReceipted == Spec => []LineageReceipted
  <1>1. IInv => LineageReceipted
    BY DEF IInv, LineageReceipted, BootSound, RecordSound, Receipted
  <1> QED BY <1>1, Invariance, PTL

(* Current is refreshed only with a receipted artifact and under a child of it. *)
THEOREM CurrentIsAuthorized == Spec => []RefreshedUnderAuthority
  <1>1. IInv => RefreshedUnderAuthority
    BY DEF IInv, RefreshedUnderAuthority, AppliedSound, HasChild, Receipted
  <1> QED BY <1>1, Invariance, PTL

(* A routine recorded as completed refreshed Current and consumed both children. *)
THEOREM CompletionIsTrue == Spec => []CompletedRoutineApplied
  <1>1. IInv => CompletedRoutineApplied
    BY DEF IInv, CompletedRoutineApplied, BootSound, RecordSound, Used
  <1> QED BY <1>1, Invariance, PTL

(* A mandate completes one acquisition per local day, disposed ones apart. *)
THEOREM OneAcquisitionPerDay == Spec => []OneCompletedPerDay
  <1>1. IInv => OneCompletedPerDay
    BY DEF IInv, OneCompletedPerDay, OneCurrent, Standing
  <1> QED BY <1>1, Invariance, PTL

LEMMA FinalStep ==
  ASSUME IInv, [Next]_vars, NEW o \in Operations,
         acquisitions[o] # None, acquisitions[o].status = "COMPLETED"
  PROVE  acquisitions'[o] = acquisitions[o]
  <1> USE DEF IInv
  <1>1. ASSUME NEW p \in Processes, Authorize(p) PROVE acquisitions'[o] = acquisitions[o]
    BY <1>1 DEF Authorize, TypeOK
  <1>2. ASSUME NEW p \in Processes, Fail(p) PROVE acquisitions'[o] = acquisitions[o]
    BY <1>2 DEF Fail, TypeOK
  <1>3. ASSUME NEW p \in Processes, Complete(p) PROVE acquisitions'[o] = acquisitions[o]
    BY <1>3 DEF Complete, TypeOK
  <1>4. ASSUME NEW p \in Processes,
               \/ Execute(p) \/ Intent(p) \/ Acquire(p) \/ RecordFailure(p) \/ RecordArtifact(p)
               \/ Prepare(p) \/ History(p) \/ Promote(p) \/ Routine(p) \/ Refresh(p) \/ Stage(p)
               \/ Finish(p) \/ ConsumeCurrent(p) \/ ConsumeHistory(p) \/ Close(p) \/ Crash(p)
               \/ \E m \in Mandates : Start(p, m)
        PROVE  acquisitions' = acquisitions
    BY <1>4 DEF Execute, Intent, Acquire, RecordFailure, RecordArtifact, Prepare, History, Promote,
       Routine, Refresh, Stage, Finish, ConsumeCurrent, ConsumeHistory, Consume, Close, Crash, Start,
       RunFile, authority
  <1>5. ASSUME Operator PROVE acquisitions'[o] = acquisitions[o]
    <2>1. CASE DisposeReview
      BY <2>1 DEF DisposeReview, TypeOK
    <2>2. CASE DisposePrepare \/ DisposeFinish \/ DisposeCrash
      BY <2>2 DEF DisposePrepare, DisposeFinish, DisposeCrash
    <2>3. ASSUME NEW oo \in Operations, Assess(oo) \/ Resume(oo) PROVE acquisitions' = acquisitions
      BY <2>3 DEF Assess, Resume
    <2>4. ASSUME NEW m \in Mandates, CreateExclusive(m) \/ Transition(m) \/ AuthorizeReattempt(m)
                 \/ \E prior \in Mandates : Renew(prior, m)
          PROVE  acquisitions' = acquisitions
      BY <2>4 DEF CreateExclusive, Transition, AuthorizeReattempt, Renew, MandatesBecome, AuthorityBecomes
    <2> QED
      BY <1>5, <2>1, <2>2, <2>3, <2>4 DEF Operator
  <1>6. ASSUME Tick \/ OthersRefresh \/ UNCHANGED vars PROVE acquisitions' = acquisitions
    BY <1>6 DEF Tick, OthersRefresh, vars, authority
  <1> QED
    BY <1>1, <1>2, <1>3, <1>4, <1>5, <1>6 DEF Next, Progress

(* No failure, disposition or later download changes a completed acquisition. *)
THEOREM ReceiptsAreFinal == Spec => ReceiptFinal
  <1>1. IInv /\ [Next]_vars =>
          [\A o \in Operations :
              acquisitions[o] # None /\ acquisitions[o].status = "COMPLETED"
                  => acquisitions'[o] = acquisitions[o]]_acquisitions
    BY FinalStep
  <1> QED
    BY <1>1, Invariance, PTL DEF Spec, ReceiptFinal

-----------------------------------------------------------------------------
(* The attempts of a day. *)

LEMMA DayOfFinite ==
  ASSUME NEW m \in Mandates, NEW d \in Days
  PROVE  IsFiniteSet(DayOf(m, d)) /\ Cardinality(DayOf(m, d)) \in Nat
  <1> DEFINE f == [o \in DayOf(m, d) |-> o.day]
  <1>1. IsFiniteSet(Days)
    BY FS_Interval DEF Days
  <1>2. f \in [DayOf(m, d) -> Days] /\ \A o, other \in DayOf(m, d) : f[o] = f[other] => o = other
    BY DEF DayOf, Operations
  <1>3. f \in Injection(DayOf(m, d), Days)
    BY <1>2 DEF Injection, IsInjective
  <1> QED BY <1>1, <1>3, FS_Injection, FS_CardinalityType

(* The latest attempt of a day bears the number of the attempts. *)
LEMMA LatestIsCount ==
  ASSUME TypeOK, Ranked, NEW m \in Mandates, NEW prior \in Latest(m)
  PROVE  prior \in Operations /\ acquisitions[prior] # None /\ acquisitions[prior].attempt = Attempts(m)
  <1> DEFINE S == DayOf(m, Day)
             n == Cardinality(S)
             f == [o \in S |-> acquisitions[o].attempt]
  <1>1. Today(m) = S /\ Attempts(m) = n /\ prior \in S
    BY DEF Today, Attempts, DayOf, Latest
  <1>2. IsFiniteSet(S) /\ n \in Nat /\ Day \in Days
    BY DayInRange, DayOfFinite
  <1>3. \A o \in S : acquisitions[o] \in Authorization
    BY DEF DayOf, TypeOK
  <1>4. \A o \in S : acquisitions[o].attempt \in 1 .. n
    BY <1>2, <1>3 DEF Ranked, Authorization
  <1>5. \A o, other \in S : acquisitions[o].attempt = acquisitions[other].attempt => o = other
    BY <1>2 DEF Ranked
  <1>6. f \in Injection(S, 1 .. n)
    BY <1>4, <1>5 DEF Injection, IsInjective
  <1>7. IsFiniteSet(1 .. n) /\ Cardinality(1 .. n) = n
    BY <1>2, FS_Interval
  <1>8. f \in Surjection(S, 1 .. n)
    BY <1>6, <1>7, FS_Injection
  <1>9. n \in 1 .. n
    BY <1>1, <1>2, <1>4
  <1>10. PICK o \in S : f[o] = n
    BY <1>8, <1>9 DEF Surjection
  <1>11. acquisitions[o].attempt <= acquisitions[prior].attempt
    BY <1>1 DEF Latest
  <1> QED
    BY <1>1, <1>2, <1>4, <1>10, <1>11 DEF DayOf

AttemptsSound == Ranked /\ ApprovalsSound /\ EveryReattemptApproved

(* The acquisitions of a step that authorizes nothing. *)
SameNumbers ==
  /\ approvals' = approvals
  /\ \A o \in Operations :
       /\ acquisitions'[o] = None <=> acquisitions[o] = None
       /\ acquisitions[o] # None => /\ acquisitions'[o].day = acquisitions[o].day
                                    /\ acquisitions'[o].attempt = acquisitions[o].attempt

LEMMA NumbersKept ==
  ASSUME TypeOK, AttemptsSound, SameNumbers
  PROVE  AttemptsSound'
  <1>1. \A m, d : DayOf(m, d)' = DayOf(m, d)
    BY DEF DayOf, SameNumbers
  <1>2. Ranked'
    <2> SUFFICES ASSUME NEW m \in Mandates, NEW d \in Days,
                        NEW o \in DayOf(m, d)', NEW other \in DayOf(m, d)'
                 PROVE  /\ acquisitions'[o].attempt <= Cardinality(DayOf(m, d)')
                        /\ acquisitions'[o].attempt = acquisitions'[other].attempt => o = other
      BY DEF Ranked
    <2>1. o \in DayOf(m, d) /\ other \in DayOf(m, d) /\ Cardinality(DayOf(m, d)') = Cardinality(DayOf(m, d))
      BY <1>1
    <2>2. /\ acquisitions'[o].attempt = acquisitions[o].attempt
          /\ acquisitions'[other].attempt = acquisitions[other].attempt
      BY <2>1 DEF DayOf, SameNumbers
    <2>3. /\ acquisitions[o].attempt <= Cardinality(DayOf(m, d))
          /\ acquisitions[o].attempt = acquisitions[other].attempt => o = other
      BY <2>1 DEF AttemptsSound, Ranked
    <2> QED BY <2>1, <2>2, <2>3
  <1>3. \A a \in approvals : a.prior \in Operations
    BY DEF TypeOK, Approval
  <1>4. ApprovalsSound'
    BY <1>3 DEF AttemptsSound, ApprovalsSound, SameNumbers
  <1>5. EveryReattemptApproved'
    BY <1>3 DEF AttemptsSound, EveryReattemptApproved, SameNumbers
  <1> QED BY <1>2, <1>4, <1>5 DEF AttemptsSound

(* An approval names the attempt after the latest one. *)
LEMMA ApprovalStep ==
  ASSUME IInv, AttemptsSound, NEW m \in Mandates, AuthorizeReattempt(m)
  PROVE  AttemptsSound'
  <1>1. PICK prior \in Latest(m) :
           /\ approvals' = approvals \cup
                 {[mandate |-> m, day |-> Day, prior |-> prior, attempt |-> Attempts(m) + 1,
                   status |-> "APPROVED"]}
           /\ UNCHANGED acquisitions
    BY DEF AuthorizeReattempt, AuthorityBecomes
  <1>2. acquisitions[prior] # None /\ acquisitions[prior].attempt = Attempts(m) /\ Attempts(m) \in Nat
    BY LatestIsCount, AttemptsIsNat DEF IInv, AttemptsSound
  <1>3. Ranked'
    <2>1. \A mm, d : DayOf(mm, d)' = DayOf(mm, d)
      BY <1>1 DEF DayOf
    <2> SUFFICES ASSUME NEW mm \in Mandates, NEW d \in Days,
                        NEW o \in DayOf(mm, d)', NEW other \in DayOf(mm, d)'
                 PROVE  /\ acquisitions'[o].attempt <= Cardinality(DayOf(mm, d)')
                        /\ acquisitions'[o].attempt = acquisitions'[other].attempt => o = other
      BY DEF Ranked
    <2>2. o \in DayOf(mm, d) /\ other \in DayOf(mm, d) /\ Cardinality(DayOf(mm, d)') = Cardinality(DayOf(mm, d))
      BY <2>1
    <2>3. /\ acquisitions[o].attempt <= Cardinality(DayOf(mm, d))
          /\ acquisitions[o].attempt = acquisitions[other].attempt => o = other
      BY <2>2 DEF AttemptsSound, Ranked
    <2> QED BY <1>1, <2>2, <2>3
  <1>4. approvals \subseteq approvals'
    BY <1>1
  <1>5. EveryReattemptApproved'
    <2> SUFFICES ASSUME NEW o \in Operations, acquisitions[o] # None, acquisitions[o].attempt > 1
                 PROVE  \E a \in approvals' :
                          /\ a.mandate = o.mandate /\ a.day = acquisitions[o].day
                          /\ a.attempt = acquisitions[o].attempt /\ a.status = "CONSUMED"
                          /\ acquisitions[a.prior] # None
                          /\ acquisitions[a.prior].attempt = a.attempt - 1
      BY <1>1 DEF EveryReattemptApproved
    <2> QED BY <1>4 DEF AttemptsSound, EveryReattemptApproved
  <1>6. ApprovalsSound'
    BY <1>1, <1>2 DEF AttemptsSound, ApprovalsSound
  <1> QED BY <1>3, <1>5, <1>6 DEF AttemptsSound

(* A new attempt bears the next number of its day, and consumes its approval. *)
LEMMA AttemptStep ==
  ASSUME IInv, AttemptsSound, NEW o \in Operations, acquisitions[o] = None, Admissible(o.mandate),
         acquisitions' = [acquisitions EXCEPT ![o] =
             [day |-> Day, attempt |-> Attempts(o.mandate) + 1, artifact |-> None,
              status |-> "AUTHORIZED", failure |-> "NONE", disposed |-> FALSE]],
         approvals' = (approvals \ Approved(o.mandate))
                         \cup {Consumption(a) : a \in Approved(o.mandate)}
  PROVE  AttemptsSound'
  <1> USE DEF IInv, AttemptsSound
  <1> DEFINE mm == o.mandate
             n == Attempts(mm)
             new == [day |-> Day, attempt |-> n + 1, artifact |-> None,
                     status |-> "AUTHORIZED", failure |-> "NONE", disposed |-> FALSE]
  <1>1. mm \in Mandates /\ Day \in Days /\ n \in Nat /\ Today(mm) = DayOf(mm, Day)
        /\ n = Cardinality(DayOf(mm, Day))
    BY DayInRange, AttemptsIsNat DEF Operations, Today, DayOf, Attempts
  <1>2. new \in Authorization /\ new.attempt = n + 1 /\ new.day = Day
    BY <1>1 DEF Authorization
  <1>3. /\ acquisitions'[o] = new /\ acquisitions'[o] # None
        /\ \A other \in Operations \ {o} : acquisitions'[other] = acquisitions[other]
    BY <1>2, AcquisitionUpdate
  <1> HIDE DEF n, new
  <1>4. \A a \in Approved(mm) : /\ Consumption(a).prior = a.prior /\ Consumption(a).attempt = a.attempt
                                /\ Consumption(a).mandate = a.mandate /\ Consumption(a).day = a.day
                                /\ Consumption(a).status = "CONSUMED" /\ a \in approvals
                                /\ a.mandate = mm /\ a.day = Day
    BY DEF Approved, Consumption, TypeOK, Approval
  <1>5. Ranked'
    <2> SUFFICES ASSUME NEW m \in Mandates, NEW d \in Days,
                        NEW x \in DayOf(m, d)', NEW y \in DayOf(m, d)'
                 PROVE  /\ acquisitions'[x].attempt <= Cardinality(DayOf(m, d)')
                        /\ acquisitions'[x].attempt = acquisitions'[y].attempt => x = y
      BY DEF Ranked
    <2>1. CASE m = mm /\ d = Day
      <3>1. DayOf(m, d)' = DayOf(m, d) \cup {o} /\ o \notin DayOf(m, d)
        BY <1>2, <1>3, <2>1 DEF DayOf
      <3>2. Cardinality(DayOf(m, d)') = n + 1
        BY <1>1, <2>1, <3>1, DayOfFinite, FS_AddElement
      <3>3. \A z \in DayOf(m, d) : /\ acquisitions'[z] = acquisitions[z] /\ acquisitions[z].attempt \in Nat
                                   /\ acquisitions[z].attempt <= n
        BY <1>1, <1>3, <2>1, <3>1 DEF DayOf, Ranked, TypeOK, Authorization
      <3>4. CASE x # o /\ y # o
        BY <1>1, <2>1, <3>1, <3>2, <3>3, <3>4 DEF Ranked
      <3>5. CASE x = o \/ y = o
        BY <1>1, <1>2, <1>3, <3>1, <3>2, <3>3, <3>5
      <3> QED BY <3>4, <3>5
    <2>2. CASE ~(m = mm /\ d = Day)
      <3>1. DayOf(m, d)' = DayOf(m, d) /\ o \notin DayOf(m, d)
        BY <1>2, <1>3, <2>2 DEF DayOf
      <3>2. acquisitions'[x] = acquisitions[x] /\ acquisitions'[y] = acquisitions[y]
        BY <1>3, <3>1 DEF DayOf
      <3> QED BY <3>1, <3>2 DEF Ranked
    <2> QED BY <2>1, <2>2
  <1>6. ApprovalsSound'
    <2> SUFFICES ASSUME NEW a \in approvals'
                 PROVE  acquisitions'[a.prior] # None /\ acquisitions'[a.prior].attempt = a.attempt - 1
      BY DEF ApprovalsSound
    <2>1. PICK b \in approvals : a.prior = b.prior /\ a.attempt = b.attempt
      BY <1>4
    <2>2. b.prior \in Operations /\ acquisitions[b.prior] # None
          /\ acquisitions[b.prior].attempt = b.attempt - 1
      BY DEF TypeOK, Approval, ApprovalsSound
    <2> QED BY <1>3, <2>1, <2>2
  <1>7. EveryReattemptApproved'
    <2> SUFFICES ASSUME NEW x \in Operations, acquisitions'[x] # None, acquisitions'[x].attempt > 1
                 PROVE  \E a \in approvals' :
                           /\ a.mandate = x.mandate /\ a.day = acquisitions'[x].day
                           /\ a.attempt = acquisitions'[x].attempt /\ a.status = "CONSUMED"
                           /\ acquisitions'[a.prior] # None
                           /\ acquisitions'[a.prior].attempt = a.attempt - 1
      BY DEF EveryReattemptApproved
    <2>1. CASE x # o
      <3>1. PICK a \in approvals :
                /\ a.mandate = x.mandate /\ a.day = acquisitions[x].day
                /\ a.attempt = acquisitions[x].attempt /\ a.status = "CONSUMED"
        BY <1>3, <2>1 DEF EveryReattemptApproved
      <3>2. a \in approvals'
        BY <3>1 DEF Approved
      <3> QED BY <1>3, <1>6, <2>1, <3>1, <3>2 DEF ApprovalsSound
    <2>2. CASE x = o
      <3>1. Today(mm) # {}
        <4>1. n >= 1
          BY <1>1, <1>2, <1>3, <2>2
        <4>2. Cardinality({}) = 0
          BY FS_EmptySet
        <4> SUFFICES ASSUME Today(mm) = {} PROVE FALSE
          OBVIOUS
        <4>3. DayOf(mm, Day) = {}
          BY <1>1
        <4>4. n = Cardinality({})
          BY <1>1, <4>3
        <4> QED BY <4>1, <4>2, <4>4
      <3>2. PICK a \in Approved(mm) : a.attempt = n + 1
        BY <3>1 DEF Admissible, n
      <3>3. Consumption(a) \in approvals'
        BY <3>2
      <3> QED BY <1>2, <1>3, <1>4, <1>6, <2>2, <3>2, <3>3 DEF ApprovalsSound
    <2> QED BY <2>1, <2>2
  <1> QED BY <1>5, <1>6, <1>7

(* Every other action leaves the numbers of the attempts alone. *)
LEMMA UpdatedNumber ==
  ASSUME TypeOK, NEW o \in Operations, acquisitions[o] # None,
         NEW a, a # None, a.day = acquisitions[o].day, a.attempt = acquisitions[o].attempt,
         acquisitions' = [acquisitions EXCEPT ![o] = a], approvals' = approvals
  PROVE  SameNumbers
  BY DEF TypeOK, SameNumbers

LEMMA FailNumbers ==
  ASSUME IInv, NEW p \in Processes, Fail(p)
  PROVE  SameNumbers
  <1> USE DEF IInv
  <1> DEFINE a == Failed(acquisitions[Op(p)], run[p].failure)
  <1>1. /\ Op(p) \in Operations /\ acquisitions[Op(p)] \in Authorization /\ acquisitions[Op(p)] # None
        /\ run[p].failure \in {"NONE", "CLEAN", "UNCLEAN"}
    BY NoneAssumption DEF Fail, At, RunSound, CommandSound, Op, TypeOK, Run
  <1>2. a \in Authorization /\ a.day = acquisitions[Op(p)].day /\ a.attempt = acquisitions[Op(p)].attempt
    BY <1>1 DEF Failed, Authorization
  <1>3. a # None
    BY <1>2, NoneAssumption
  <1>4. approvals' = approvals
    BY DEF Fail, Untouched
  <1>5. CASE acquisitions' = acquisitions
    BY <1>4, <1>5 DEF SameNumbers
  <1>6. CASE acquisitions' = [acquisitions EXCEPT ![Op(p)] = a]
    <2> HIDE DEF a
    <2> QED BY <1>1, <1>2, <1>3, <1>4, <1>6, UpdatedNumber
  <1>7. acquisitions' = acquisitions \/ acquisitions' = [acquisitions EXCEPT ![Op(p)] = a]
    BY DEF Fail
  <1> QED BY <1>5, <1>6, <1>7

LEMMA CompleteNumbers ==
  ASSUME IInv, NEW p \in Processes, Complete(p)
  PROVE  SameNumbers
  <1> USE DEF IInv
  <1> DEFINE a == Completed(acquisitions[Op(p)], run[p].artifact)
  <1>1. /\ Op(p) \in Operations /\ acquisitions[Op(p)] \in Authorization /\ acquisitions[Op(p)] # None
        /\ run[p].artifact \in {None} \cup Artifacts
    BY NoneAssumption DEF Complete, At, RunSound, CommandSound, Op, TypeOK, Run
  <1>2. a \in Authorization /\ a.day = acquisitions[Op(p)].day /\ a.attempt = acquisitions[Op(p)].attempt
    BY <1>1 DEF Completed, Authorization
  <1>3. a # None
    BY <1>2, NoneAssumption
  <1>4. approvals' = approvals
    BY DEF Complete, Untouched
  <1>5. CASE acquisitions' = acquisitions
    BY <1>4, <1>5 DEF SameNumbers
  <1>6. CASE acquisitions' = [acquisitions EXCEPT ![Op(p)] = a]
    <2> HIDE DEF a
    <2> QED BY <1>1, <1>2, <1>3, <1>4, <1>6, UpdatedNumber
  <1>7. acquisitions' = acquisitions \/ acquisitions' = [acquisitions EXCEPT ![Op(p)] = a]
    BY DEF Complete
  <1> QED BY <1>5, <1>6, <1>7

LEMMA ReviewNumbers ==
  ASSUME IInv, DisposeReview
  PROVE  SameNumbers
  <1> USE DEF IInv
  <1> DEFINE o == disposal.op
             a == Reviewed(acquisitions[o])
  <1>1. o \in Operations /\ acquisitions[o] \in Authorization /\ acquisitions[o] # None
    BY NoneAssumption DEF DisposeReview, DisposalSound, TypeOK, Disposal
  <1>2. a \in Authorization /\ a.day = acquisitions[o].day /\ a.attempt = acquisitions[o].attempt
    BY <1>1 DEF Reviewed, Authorization
  <1>3. a # None
    BY <1>2, NoneAssumption
  <1>4. approvals' = approvals
    BY DEF DisposeReview, Keeps
  <1>5. CASE acquisitions' = acquisitions
    BY <1>4, <1>5 DEF SameNumbers
  <1>6. CASE acquisitions' = [acquisitions EXCEPT ![o] = a]
    <2> HIDE DEF a, o
    <2> QED BY <1>1, <1>2, <1>3, <1>4, <1>6, UpdatedNumber
  <1>7. acquisitions' = acquisitions \/ acquisitions' = [acquisitions EXCEPT ![o] = a]
    BY DEF DisposeReview
  <1> QED BY <1>5, <1>6, <1>7

LEMMA AuthorizeNumbers ==
  ASSUME IInv, AttemptsSound, NEW p \in Processes, Authorize(p)
  PROVE  AttemptsSound'
  <1> DEFINE o == Op(p)
  <1>1. o \in Operations
    BY NoneAssumption DEF Authorize, At, Op, IInv, TypeOK, Run
  <1>2. CASE acquisitions' = acquisitions /\ approvals' = approvals
    <2>1. SameNumbers
      BY <1>2 DEF SameNumbers
    <2> QED BY <2>1, NumbersKept DEF IInv
  <1>3. CASE /\ acquisitions[o] = None /\ Admissible(o.mandate)
             /\ acquisitions' = [acquisitions EXCEPT ![o] =
                    [day |-> Day, attempt |-> Attempts(o.mandate) + 1, artifact |-> None,
                     status |-> "AUTHORIZED", failure |-> "NONE", disposed |-> FALSE]]
             /\ approvals' = (approvals \ Approved(o.mandate))
                                \cup {Consumption(a) : a \in Approved(o.mandate)}
    <2> HIDE DEF o
    <2> QED BY <1>1, <1>3, AttemptStep
  <1> QED
    BY <1>2, <1>3 DEF Authorize

LEMMA AttemptsNext == IInv /\ AttemptsSound /\ [Next]_vars => AttemptsSound'
  <1> SUFFICES ASSUME IInv, AttemptsSound, [Next]_vars PROVE AttemptsSound'
    OBVIOUS
  <1>1. SameNumbers => AttemptsSound'
    BY NumbersKept DEF IInv
  <1>2. acquisitions' = acquisitions /\ approvals' = approvals => SameNumbers
    BY DEF SameNumbers
  <1>3. ASSUME NEW p \in Processes, Fail(p) \/ Complete(p) PROVE AttemptsSound'
    BY <1>1, <1>3, FailNumbers, CompleteNumbers
  <1>4. ASSUME NEW p \in Processes,
               \/ Execute(p) \/ Intent(p) \/ Acquire(p) \/ RecordFailure(p) \/ RecordArtifact(p)
               \/ Prepare(p) \/ History(p) \/ Promote(p) \/ Routine(p) \/ Refresh(p) \/ Stage(p)
               \/ Finish(p) \/ ConsumeCurrent(p) \/ ConsumeHistory(p) \/ Close(p) \/ Crash(p)
               \/ \E m \in Mandates : Start(p, m)
        PROVE  acquisitions' = acquisitions /\ approvals' = approvals
    BY <1>4 DEF Execute, Intent, Acquire, RecordFailure, RecordArtifact, Prepare, History, Promote,
       Routine, Refresh, Stage, Finish, ConsumeCurrent, ConsumeHistory, Consume, Close, Crash, Start,
       RunFile, authority, Untouched
  <1>5. ASSUME Operator PROVE AttemptsSound'
    <2>1. CASE DisposeReview
      BY <1>1, <2>1, ReviewNumbers
    <2>2. CASE DisposePrepare \/ DisposeFinish \/ DisposeCrash
      BY <1>1, <1>2, <2>2 DEF DisposePrepare, DisposeFinish, DisposeCrash, Keeps
    <2>3. ASSUME NEW o \in Operations, Assess(o) \/ Resume(o) PROVE AttemptsSound'
      BY <1>1, <1>2, <2>3 DEF Assess, Resume, Keeps
    <2>4. ASSUME NEW m \in Mandates,
                 CreateExclusive(m) \/ Transition(m) \/ \E prior \in Mandates : Renew(prior, m)
          PROVE  AttemptsSound'
      BY <1>1, <1>2, <2>4 DEF CreateExclusive, Transition, Renew, MandatesBecome
    <2>5. ASSUME NEW m \in Mandates, AuthorizeReattempt(m) PROVE AttemptsSound'
      BY <2>5, ApprovalStep
    <2> QED
      BY <1>5, <2>1, <2>2, <2>3, <2>4, <2>5 DEF Operator
  <1>6. ASSUME Tick \/ OthersRefresh \/ UNCHANGED vars
        PROVE  acquisitions' = acquisitions /\ approvals' = approvals
    BY <1>6 DEF Tick, OthersRefresh, vars, authority
  <1> QED
    BY <1>1, <1>2, <1>3, <1>4, <1>5, <1>6, AuthorizeNumbers DEF Next, Progress

(* Every later acquisition of a day consumed an approval for its number. *)
THEOREM ReattemptsAreApproved == Spec => []EveryReattemptApproved
  <1>1. Init => AttemptsSound
    BY DEF Init, AttemptsSound, Ranked, ApprovalsSound, EveryReattemptApproved, DayOf
  <1>2. IInv /\ AttemptsSound /\ [Next]_vars => AttemptsSound'
    BY AttemptsNext
  <1>3. AttemptsSound => EveryReattemptApproved
    BY DEF AttemptsSound
  <1> QED
    BY <1>1, <1>2, <1>3, Invariance, PTL DEF Spec
=============================================================================
