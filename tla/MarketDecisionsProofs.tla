----------------------- MODULE MarketDecisionsProofs -----------------------
(***************************************************************************)
(* Proofs about MarketDecisions, for every set of commands, observations   *)
(* and requests and every bound.  That the state keeps its type, and that  *)
(* the histories are kept, needs no assumption; how decisions follow one   *)
(* another, and what a build shows of them, is promised for as long as     *)
(* the commands record one at a time.                                      *)
(***************************************************************************)
EXTENDS MarketDecisions, FiniteSetTheorems, WellFoundedInduction, TLAPS

USE OffersAssumption, EstablishedAssumption, RequestsAssumption, LimitsAssumption,
    NoneAssumption
    DEF OffersAssumption, EstablishedAssumption, RequestsAssumption, LimitsAssumption,
    NoneAssumption
-----------------------------------------------------------------------------
(* What a process has read, by where it is. *)
Working == {"decide", "evaluate", "check", "recording", "consume"}

Fits(where, what, m) ==
  /\ where = "assess" => m.of \in Offers /\ m.decision \in Verdicts \cup Actions
  /\ where = "assess" /\ what = "execute" =>
        m.auth \in authorizations /\ m.of = m.auth.of /\ m.decision = m.auth.decision
  /\ where = "authorize" => m.auth \in Authorization
  /\ where \in Working => m.auth \in authorizations /\ m.of = m.auth.of
  /\ where = "decide" => m.auth.decision \in Verdicts
  /\ where \in {"evaluate", "check", "recording"} => m.auth.decision \in Actions
  /\ where \in {"check", "recording"} => m.review \in Nat
  /\ where = "judge" => m.of \in Offers

ProcessesSound == \A p \in Processes : Fits(pc[p], job[p], my[p])

IInv == TypeOK /\ ProcessesSound

(* The action that follows n decisions. *)
Turn(n) == IF n % 2 = 0 THEN "PUBLISH" ELSE "WITHDRAW"

(* An authorization follows decisions that are in the file. *)
Behind(a) ==
  a.decision \in Actions =>
     a.binding.predecessor <= Len(decisions[a.of]) /\ a.decision = Turn(a.binding.predecessor)

Backed(a, id) ==
  IF a.decision \in Verdicts
  THEN id \in 1..Len(reviews[a.of]) /\ reviews[a.of][id] = a
  ELSE id \in 1..Len(decisions[a.of]) /\ decisions[a.of][id].auth = a

AuthoritySound ==
  /\ \A a \in authorizations : Behind(a)
  /\ \A a, b \in authorizations : SameIntent(a, b) => a = b

FilesSound ==
  \A o \in Offers : \A i \in 1..Len(decisions[o]) :
     decisions[o][i].auth \in authorizations /\ decisions[o][i].auth.of = o

(* While turns are kept: one process at a time works on the file, as it is. *)
QueueSound ==
  /\ \A p, q \in Processes : pc[p] = "recording" /\ pc[q] = "recording" => p = q
  /\ \A p \in Processes : pc[p] = "recording" => my[p].file = decisions

Chained ==
  \A o \in Offers :
     /\ \A i \in 1..Len(reviews[o]) : reviews[o][i].binding.review = i - 1
     /\ \A i \in 1..Len(decisions[o]) :
          LET a == decisions[o][i].auth IN
          /\ a.binding.predecessor = i - 1
          /\ a.decision = IF i % 2 = 1 THEN "PUBLISH" ELSE "WITHDRAW"

AllBacked == \A c \in consumptions : Backed(c.of, c.id)

(* What a process knows of the files, though they have grown since. *)
Knows(where, m) ==
  /\ where = "assess" /\ m.decision \in Actions /\ m.predecessor # None =>
        /\ m.predecessor <= Len(decisions[m.of])
        /\ Turn(m.predecessor) = IF m.published THEN "WITHDRAW" ELSE "PUBLISH"
  /\ where = "authorize" => Behind(m.auth)
  /\ where = "consume" => Backed(m.auth, m.id)

Shared ==
  /\ QueueSound /\ Chained /\ AllBacked /\ FilesSound /\ AuthoritySound
  /\ \A p \in Processes : Knows(pc[p], my[p])
-----------------------------------------------------------------------------
Jobs == {"none", "prepare", "execute", "build"}
ProcessType == pc \in [Processes -> PC] /\ job \in [Processes -> Jobs] /\ my \in [Processes -> My]
WorldType ==
  /\ now \in 0..MaxTime /\ market \in [Offers -> {None} \cup Markets]
  /\ unsettled \in [Processes -> SUBSET Offers] /\ standing \in [Offers -> Seq(Publication)]
  /\ turns \in {"kept", "broken"}
FilesType ==
  /\ authorizations \subseteq Authorization
  /\ consumptions \subseteq [of : Authorization, id : Nat]
  /\ reviews \in [Offers -> Seq(Authorization)]
  /\ decisions \in [Offers -> Seq(Publication)]

(* The parts of the type invariant. *)
LEMMA TypeParts == TypeOK <=> ProcessType /\ WorldType /\ FilesType
<1>1. TypeOK => ProcessType /\ WorldType /\ FilesType
  BY DEF TypeOK, ProcessType, WorldType, FilesType, Jobs
<1>2. ProcessType /\ WorldType /\ FilesType => TypeOK
  BY DEF TypeOK, ProcessType, WorldType, FilesType, Jobs
<1>3. QED
  BY <1>1, <1>2

Sound == ProcessType /\ WorldType /\ FilesType /\ ProcessesSound

LEMMA SoundIsIInv == Sound <=> IInv
BY TypeParts DEF Sound, IInv

(* The memory of a new process is of its type. *)
LEMMA NothingTypes == NoDecisions \in [Offers -> Seq(Publication)] /\ NothingRead \in My
<1>1. NoDecisions \in [Offers -> Seq(Publication)]
  BY DEF NoDecisions
<1>2. QED
  BY <1>1 DEF NothingRead, My

(* A step of one process keeps the types when what it becomes fits. *)
LEMMA ProcessFrame ==
  ASSUME ProcessType, ProcessesSound, NEW p \in Processes,
         NEW to \in PC, NEW what \in Jobs, NEW m \in My, Fits(to, what, m),
         authorizations \subseteq authorizations',
         pc' = [pc EXCEPT ![p] = to], job' = [job EXCEPT ![p] = what], my' = [my EXCEPT ![p] = m]
  PROVE  ProcessType' /\ ProcessesSound'
<1>1. ProcessType'
  BY DEF ProcessType
<1>2. ASSUME NEW q \in Processes PROVE Fits(pc[q], job[q], my[q])'
  <2>1. CASE q = p
    <3>1. pc'[q] = to /\ job'[q] = what /\ my'[q] = m
      BY <2>1 DEF ProcessType
    <3>2. QED
      BY <3>1 DEF Fits
  <2>2. CASE q # p
    <3>1. pc'[q] = pc[q] /\ job'[q] = job[q] /\ my'[q] = my[q]
      BY <2>2 DEF ProcessType
    <3>2. QED
      BY <3>1 DEF ProcessesSound, Fits
  <2>3. QED
    BY <2>1, <2>2
<1>3. QED
  BY <1>1, <1>2 DEF ProcessesSound

(* A process that leaves keeps them. *)
LEMMA LeaveFrame ==
  ASSUME ProcessType, ProcessesSound, NEW p \in Processes, Leave(p),
         authorizations \subseteq authorizations'
  PROVE  ProcessType' /\ ProcessesSound'
<1>1. "idle" \in PC /\ "none" \in Jobs /\ NothingRead \in My /\ Fits("idle", "none", NothingRead)
  BY NothingTypes DEF PC, Jobs, Fits, Working
<1>2. QED
  BY <1>1, ProcessFrame DEF Leave, Goto, Learns

(* A process that moves on, and learns something, keeps them. *)
LEMMA MoveFrame ==
  ASSUME ProcessType, ProcessesSound, NEW p \in Processes, NEW to \in PC, NEW m \in My,
         Goto(p, to), UNCHANGED job, Learns(p, m), Fits(to, job[p], m),
         authorizations \subseteq authorizations'
  PROVE  ProcessType' /\ ProcessesSound'
<1>1. job[p] \in Jobs /\ job' = [job EXCEPT ![p] = job[p]]
  BY DEF ProcessType
<1>2. QED
  BY <1>1, ProcessFrame DEF Goto, Learns

(* What has changed is a set of observations. *)
LEMMA ChangedType == ASSUME WorldType, NEW o \in Offers, Changed(o)
                     PROVE unsettled' \in [Processes -> SUBSET Offers]
BY DEF WorldType, Changed

(* The decisions that stand are decisions. *)
LEMMA StandsType ==
  ASSUME standing \in [Offers -> Seq(Publication)], decisions' \in [Offers -> Seq(Publication)],
         turns \in {"kept", "broken"}, UNCHANGED history \/ Stands
  PROVE  standing' \in [Offers -> Seq(Publication)] /\ turns' \in {"kept", "broken"}
BY DEF Stands, history

(* A process that begins, ... *)
LEMMA BeginSound ==
  ASSUME Sound, NEW p \in Processes, NEW what \in Jobs, NEW to \in PC, NEW m \in My,
         Begin(p, what, to, m), Fits(to, what, m)
  PROVE  Sound'
<1>1. ProcessType' /\ ProcessesSound'
  BY ProcessFrame DEF Sound, Begin, Goto, Learns, files, authority
<1>2. WorldType' /\ FilesType'
  BY DEF Sound, Begin, files, authority, WorldType, FilesType, history
<1>3. QED
  BY <1>1, <1>2 DEF Sound

(* ... that ends, by itself or by its death, ... *)
LEMMA EndsSound == ASSUME Sound, NEW p \in Processes, Ends(p) PROVE Sound'
<1>1. ProcessType' /\ ProcessesSound'
  BY LeaveFrame DEF Sound, Ends, files, authority
<1>2. WorldType' /\ FilesType'
  BY StandsType DEF Sound, Ends, files, authority, WorldType, FilesType
<1>3. QED
  BY <1>1, <1>2 DEF Sound

(* ... that moves on without writing. *)
LEMMA GoesSound ==
  ASSUME Sound, NEW p \in Processes, NEW to \in PC, NEW m \in My, Goes(p, to, m), Fits(to, job[p], m)
  PROVE  Sound'
<1>1. ProcessType' /\ ProcessesSound'
  BY MoveFrame DEF Sound, Goes, files, authority
<1>2. WorldType' /\ FilesType'
  BY StandsType DEF Sound, Goes, files, authority, WorldType, FilesType
<1>3. QED
  BY <1>1, <1>2 DEF Sound

(* The parts of what a process has read. *)
LEMMA MemoryTypes ==
  ASSUME NEW m \in My
  PROVE  /\ m.of \in {None} \cup Offers /\ m.decision \in {None} \cup Verdicts \cup Actions
         /\ m.auth \in {None} \cup Authorization /\ m.asOf \in Nat /\ m.review \in {None} \cup Nat
         /\ m.predecessor \in {None} \cup Nat /\ m.published \in BOOLEAN
         /\ m.file \in [Offers -> Seq(Publication)] /\ m.id \in Nat
         /\ m.left \in SUBSET Offers /\ m.got \in SUBSET Offers
BY DEF My

LEMMA LengthTypes ==
  ASSUME FilesType, NEW o \in Offers
  PROVE  Effective(reviews, o) \in Nat /\ Effective(decisions, o) \in Nat
BY DEF FilesType, Effective

(* A command or a build that begins. *)
LEMMA PrepareSound ==
  ASSUME Sound, NEW p \in Processes, NEW o \in Offers, NEW d \in Verdicts \cup Actions, Prepare(p, o, d)
  PROVE  Sound'
<1> DEFINE m == [NothingRead EXCEPT !.of = o, !.decision = d, !.asOf = now,
                                    !.predecessor = Predecessor(d)]
<1>1. now \in Nat /\ Predecessor(d) \in {None} \cup Nat
  BY DEF Sound, WorldType, Predecessor
<1>2. m \in My /\ m.of = o /\ m.decision = d
  BY <1>1, NothingTypes DEF My
<1>3. Begin(p, "prepare", "assess", m)
  BY DEF Prepare
<1> HIDE DEF m
<1>4. "prepare" \in Jobs /\ "assess" \in PC /\ Fits("assess", "prepare", m)
  BY <1>2 DEF Jobs, PC, Fits, Working
<1>5. QED
  BY <1>2, <1>3, <1>4, BeginSound

LEMMA ExecuteSound ==
  ASSUME Sound, NEW p \in Processes, NEW a \in authorizations, Execute(p, a)
  PROVE  Sound'
<1> DEFINE m == [NothingRead EXCEPT !.of = a.of, !.decision = a.decision,
                   !.auth = a, !.asOf = now, !.predecessor = Predecessor(a.decision)]
<1>1. a \in Authorization /\ a.of \in Offers /\ a.decision \in Verdicts \cup Actions
  BY DEF Sound, FilesType, Authorization
<1>2. now \in Nat /\ Predecessor(a.decision) \in {None} \cup Nat
  BY DEF Sound, WorldType, Predecessor
<1>3. m \in My /\ m.of = a.of /\ m.decision = a.decision /\ m.auth = a
  BY <1>1, <1>2, NothingTypes DEF My
<1>4. Begin(p, "execute", "assess", m)
  BY DEF Execute
<1> HIDE DEF m
<1>5. "execute" \in Jobs /\ "assess" \in PC /\ Fits("assess", "execute", m)
  BY <1>1, <1>3 DEF Jobs, PC, Fits, Working
<1>6. QED
  BY <1>3, <1>4, <1>5, BeginSound

LEMMA BuildSound == ASSUME Sound, NEW p \in Processes, Build(p) PROVE Sound'
<1> DEFINE m == [NothingRead EXCEPT !.asOf = now, !.left = Offers]
<1>1. now \in Nat
  BY DEF Sound, WorldType
<1>2. m \in My
  BY <1>1, NothingTypes DEF My
<1>3. Begin(p, "build", "look", m)
  BY DEF Build
<1> HIDE DEF m
<1>4. "build" \in Jobs /\ "look" \in PC /\ Fits("look", "build", m)
  BY DEF Jobs, PC, Fits, Working
<1>5. QED
  BY <1>2, <1>3, <1>4, BeginSound

(* The reads of an assessment. *)
LEMMA ReadsSound ==
  ASSUME Sound, NEW p \in Processes, ReadReview(p) \/ ReadPredecessor(p)
  PROVE  Sound'
<1>1. my[p] \in My /\ job[p] \in Jobs /\ pc[p] = "assess" /\ "assess" \in PC /\ Fits("assess", job[p], my[p])
  BY DEF Sound, ProcessType, ProcessesSound, ReadReview, ReadPredecessor, PC
<1>2. my[p].of \in Offers
  BY <1>1 DEF Fits
<1>3. CASE ReadReview(p)
  <2> DEFINE m == [my[p] EXCEPT !.review = Effective(reviews, my[p].of)]
  <2>1. m \in My /\ m.of = my[p].of /\ m.decision = my[p].decision /\ m.auth = my[p].auth
    BY <1>1, <1>2, LengthTypes DEF Sound, My
  <2>2. Goes(p, "assess", m)
    BY <1>3 DEF ReadReview
  <2> HIDE DEF m
  <2>3. Fits("assess", job[p], m)
    BY <1>1, <2>1 DEF Fits, Working
  <2>4. QED
    BY <1>1, <2>1, <2>2, <2>3, GoesSound
<1>4. CASE ReadPredecessor(p)
  <2> DEFINE m == [my[p] EXCEPT !.predecessor = Effective(decisions, my[p].of),
                                !.published = Published(decisions, my[p].of)]
  <2>1. Published(decisions, my[p].of) \in BOOLEAN
    BY DEF Published
  <2>2. m \in My /\ m.of = my[p].of /\ m.decision = my[p].decision /\ m.auth = my[p].auth
    BY <1>1, <1>2, <2>1, LengthTypes DEF Sound, My
  <2>3. Goes(p, "assess", m)
    BY <1>4 DEF ReadPredecessor
  <2> HIDE DEF m
  <2>4. Fits("assess", job[p], m)
    BY <1>1, <2>2 DEF Fits, Working
  <2>5. QED
    BY <1>1, <2>2, <2>3, <2>4, GoesSound
<1>5. QED
  BY <1>3, <1>4

(* What an assessment binds is a binding. *)
LEMMA BindingTypes ==
  ASSUME Sound, NEW m \in My, m.of \in Offers, m.decision \in Verdicts \cup Actions,
         None \notin {m.review, m.predecessor}, Eligible(m)
  PROVE  BindingOf(m) \in Binding
<1>1. m.review \in Nat /\ m.predecessor \in Nat
  BY MemoryTypes
<1>2. m.decision = "PUBLISH" => market[m.of] \in Markets
  BY DEF Eligible, Qualifies, Sound, WorldType, Verdicts, Actions
<1>3. Effective(reviews, m.of) \in Nat
  BY LengthTypes DEF Sound
<1>4. QED
  BY <1>1, <1>2, <1>3 DEF BindingOf, Binding, Qualification

LEMMA DrawSound == ASSUME Sound, NEW p \in Processes, Draw(p) PROVE Sound'
<1>1. my[p] \in My /\ pc[p] = "assess" /\ Fits("assess", job[p], my[p])
  BY DEF Sound, ProcessType, ProcessesSound, Draw, Assessed
<1>2. my[p].of \in Offers /\ my[p].decision \in Verdicts \cup Actions
  BY <1>1 DEF Fits
<1>3. CASE Eligible(my[p])
  <2> DEFINE a == [of |-> my[p].of, decision |-> my[p].decision, binding |-> BindingOf(my[p]),
                   at |-> my[p].asOf]
             m == [NothingRead EXCEPT !.auth = a]
  <2>1. BindingOf(my[p]) \in Binding
    BY <1>1, <1>2, <1>3, BindingTypes DEF Draw, Assessed
  <2>2. a \in Authorization
    BY <1>1, <1>2, <2>1, MemoryTypes DEF Authorization
  <2>3. m \in My /\ m.auth = a
    BY <2>2, NothingTypes DEF My
  <2>4. Goes(p, "authorize", m)
    BY <1>3 DEF Draw
  <2> HIDE DEF m, a
  <2>5. "authorize" \in PC /\ Fits("authorize", job[p], m)
    BY <2>2, <2>3 DEF PC, Fits, Working
  <2>6. QED
    BY <2>3, <2>4, <2>5, GoesSound
<1>4. CASE ~Eligible(my[p])
  BY <1>4, EndsSound DEF Draw
<1>5. QED
  BY <1>3, <1>4

LEMMA RecordAuthorizationSound ==
  ASSUME Sound, NEW p \in Processes, RecordAuthorization(p) PROVE Sound'
<1>1. my[p].auth \in Authorization
  BY DEF Sound, ProcessesSound, Fits, RecordAuthorization
<1>2. authorizations' \subseteq Authorization /\ authorizations \subseteq authorizations'
  BY <1>1 DEF Sound, FilesType, RecordAuthorization
<1>3. ProcessType' /\ ProcessesSound'
  BY <1>2, LeaveFrame DEF Sound, RecordAuthorization
<1>4. WorldType' /\ FilesType'
  BY <1>2 DEF Sound, WorldType, FilesType, RecordAuthorization, history
<1>5. QED
  BY <1>3, <1>4 DEF Sound

LEMMA AssertBindingSound == ASSUME Sound, NEW p \in Processes, AssertBinding(p) PROVE Sound'
<1>1. my[p] \in My /\ job[p] = "execute" /\ pc[p] = "assess" /\ Fits("assess", "execute", my[p])
  BY DEF Sound, ProcessType, ProcessesSound, AssertBinding, Assessed
<1>2. /\ my[p].auth \in authorizations /\ my[p].of = my[p].auth.of /\ my[p].decision = my[p].auth.decision
      /\ my[p].of \in Offers /\ my[p].decision \in Verdicts \cup Actions
  BY <1>1 DEF Fits
<1> DEFINE to == IF my[p].decision \in Verdicts THEN "decide" ELSE "evaluate"
           t == IF my[p].decision = "PUBLISH" THEN my[p].asOf ELSE 0
           m == [NothingRead EXCEPT !.of = my[p].of, !.auth = my[p].auth, !.asOf = t]
<1>3. t \in Nat
  BY <1>1, MemoryTypes
<1> HIDE DEF t
<1>4. m \in My /\ m.of = my[p].of /\ m.auth = my[p].auth
  BY <1>1, <1>2, <1>3, MemoryTypes, NothingTypes DEF My
<1>5. Goes(p, to, m) \/ Ends(p)
  BY DEF AssertBinding, t
<1> HIDE DEF m
<1>6. to \in PC /\ Fits(to, job[p], m)
  BY <1>2, <1>4 DEF PC, Fits, Working, Verdicts, Actions
<1> HIDE DEF to
<1>7. QED
  BY <1>4, <1>5, <1>6, GoesSound, EndsSound

(* What every process at work knows. *)
LEMMA WorkerTypes ==
  ASSUME Sound, NEW p \in Processes, pc[p] \in Working
  PROVE  /\ my[p] \in My /\ my[p].auth \in authorizations /\ my[p].auth \in Authorization
         /\ my[p].of = my[p].auth.of /\ my[p].of \in Offers
<1>1. my[p] \in My /\ my[p].auth \in authorizations /\ my[p].of = my[p].auth.of
  BY DEF Sound, ProcessType, ProcessesSound, Fits
<1>2. my[p].auth \in Authorization
  BY <1>1 DEF Sound, FilesType
<1>3. QED
  BY <1>1, <1>2 DEF Authorization

(* What a decision leaves its process with. *)
LEMMA AnswerTypes ==
  ASSUME Sound, NEW p \in Processes, pc[p] \in Working, NEW i \in Nat
  PROVE  /\ [my[p] EXCEPT !.id = i] \in My /\ Answer(my[p], i) \in My
         /\ \A m \in {[my[p] EXCEPT !.id = i], Answer(my[p], i)} :
               m.of = my[p].of /\ m.auth = my[p].auth /\ m.id = i
<1>1. my[p] \in My /\ my[p].auth \in Authorization /\ my[p].of \in Offers
  BY WorkerTypes
<1>2. [my[p] EXCEPT !.id = i] \in My
  BY <1>1 DEF My
<1>3. [my[p] EXCEPT !.id = i].of = my[p].of /\ [my[p] EXCEPT !.id = i].auth = my[p].auth
      /\ [my[p] EXCEPT !.id = i].id = i
  BY <1>1 DEF My
<1>4. Answer(my[p], i) \in My /\ Answer(my[p], i).of = my[p].of
      /\ Answer(my[p], i).auth = my[p].auth /\ Answer(my[p], i).id = i
  <2> SUFFICES ASSUME NEW o \in Offers, o = my[p].of, NEW a \in Authorization, a = my[p].auth
               PROVE  LET m == [NothingRead EXCEPT !.of = o, !.auth = a, !.id = i] IN
                      m \in My /\ m.of = o /\ m.auth = a /\ m.id = i
    BY <1>1 DEF Answer
  <2> DEFINE m == [NothingRead EXCEPT !.of = o, !.auth = a, !.id = i]
  <2>1. m.of = o /\ m.auth = a /\ m.id = i
    BY DEF NothingRead
  <2>2. m \in My
    BY NothingTypes DEF My
  <2>3. QED
    BY <2>1, <2>2
<1>5. QED
  BY <1>2, <1>3, <1>4

(* A process that has its decision is ready to consume. *)
LEMMA ConsumerFits ==
  ASSUME Sound, NEW p \in Processes, pc[p] \in Working, NEW m, m.of = my[p].of, m.auth = my[p].auth
  PROVE  Fits("consume", job[p], m)
BY WorkerTypes DEF Fits, Working

LEMMA RecordReviewSound == ASSUME Sound, NEW p \in Processes, RecordReview(p) PROVE Sound'
<1> DEFINE s == reviews[my[p].of]
<1>1. pc[p] = "decide" /\ pc[p] \in Working /\ "consume" \in PC
  BY DEF RecordReview, Working, PC
<1>2. my[p].auth \in Authorization /\ my[p].of \in Offers
  BY <1>1, WorkerTypes
<1>3. s \in Seq(Authorization)
  BY <1>2 DEF Sound, FilesType
<1>4. ASSUME NEW i \in 1..Len(s), Goes(p, "consume", [my[p] EXCEPT !.id = i]) PROVE Sound'
  <2> DEFINE m == [my[p] EXCEPT !.id = i]
  <2>1. m \in My /\ m.of = my[p].of /\ m.auth = my[p].auth
    BY <1>1, <1>3, AnswerTypes
  <2>2. Goes(p, "consume", m)
    BY <1>4
  <2> HIDE DEF m
  <2>3. Fits("consume", job[p], m)
    BY <1>1, <2>1, ConsumerFits
  <2>4. QED
    BY <1>1, <2>1, <2>2, <2>3, GoesSound
<1>5. ASSUME reviews' = [reviews EXCEPT ![my[p].of] = Append(@, my[p].auth)],
             Goto(p, "consume"), Learns(p, [my[p] EXCEPT !.id = Len(s) + 1]), Changed(my[p].of),
             UNCHANGED <<job, now, market, authority, decisions, history>>
      PROVE  Sound'
  <2> DEFINE m == [my[p] EXCEPT !.id = Len(s) + 1]
  <2>1. Len(s) + 1 \in Nat
    BY <1>3
  <2>2. m \in My /\ m.of = my[p].of /\ m.auth = my[p].auth
    BY <1>1, <2>1, AnswerTypes
  <2>3. Learns(p, m)
    BY <1>5
  <2> HIDE DEF m
  <2>4. Fits("consume", job[p], m)
    BY <1>1, <2>2, ConsumerFits
  <2>5. ProcessType' /\ ProcessesSound'
    BY <1>1, <1>5, <2>2, <2>3, <2>4, MoveFrame DEF Sound, authority
  <2>6. reviews' \in [Offers -> Seq(Authorization)]
    BY <1>2, <1>3, <1>5 DEF Sound, FilesType
  <2>7. WorldType' /\ FilesType'
    BY <1>2, <1>5, <2>6, ChangedType DEF Sound, WorldType, FilesType, authority, history
  <2>8. QED
    BY <2>5, <2>7 DEF Sound
<1>6. QED
  BY <1>4, <1>5, EndsSound DEF RecordReview

LEMMA EvaluateSound == ASSUME Sound, NEW p \in Processes, Evaluate(p) PROVE Sound'
<1>1. pc[p] = "evaluate" /\ pc[p] \in Working
  BY DEF Evaluate, Working
<1>2. my[p] \in My /\ my[p].of \in Offers /\ my[p].auth \in authorizations /\ my[p].of = my[p].auth.of
  BY <1>1, WorkerTypes
<1>3. my[p].auth.decision \in Actions
  BY <1>1 DEF Sound, ProcessesSound, Fits
<1> DEFINE m == [my[p] EXCEPT !.asOf = 0, !.review = Effective(reviews, my[p].of)]
<1>4. Effective(reviews, my[p].of) \in Nat
  BY <1>2, LengthTypes DEF Sound
<1>5. m \in My /\ m.of = my[p].of /\ m.auth = my[p].auth /\ m.review \in Nat
  BY <1>2, <1>4 DEF My
<1>6. Goes(p, "check", m) \/ Ends(p)
  BY DEF Evaluate
<1> HIDE DEF m
<1>7. "check" \in PC /\ Fits("check", job[p], m)
  BY <1>2, <1>3, <1>5 DEF PC, Fits, Working
<1>8. QED
  BY <1>5, <1>6, <1>7, GoesSound, EndsSound

LEMMA CheckSound == ASSUME Sound, NEW p \in Processes, Check(p) PROVE Sound'
<1>1. pc[p] = "check" /\ pc[p] \in Working
  BY DEF Check, Working
<1>2. my[p] \in My /\ my[p].of \in Offers /\ my[p].auth \in authorizations /\ my[p].of = my[p].auth.of
  BY <1>1, WorkerTypes
<1>3. my[p].auth.decision \in Actions /\ my[p].review \in Nat
  BY <1>1 DEF Sound, ProcessesSound, Fits
<1> DEFINE m == [my[p] EXCEPT !.file = decisions]
<1>4. decisions \in [Offers -> Seq(Publication)]
  BY DEF Sound, FilesType
<1>5. m \in My /\ m.of = my[p].of /\ m.auth = my[p].auth /\ m.review = my[p].review
  BY <1>2, <1>4 DEF My
<1>6. Goes(p, "recording", m) \/ Ends(p)
  BY DEF Check
<1> HIDE DEF m
<1>7. "recording" \in PC /\ Fits("recording", job[p], m)
  BY <1>2, <1>3, <1>5 DEF PC, Fits, Working
<1>8. QED
  BY <1>5, <1>6, <1>7, GoesSound, EndsSound

LEMMA RecordDecisionSound == ASSUME Sound, NEW p \in Processes, RecordDecision(p) PROVE Sound'
<1> DEFINE s == my[p].file[my[p].of]
           d == [auth |-> my[p].auth, review |-> my[p].review]
<1>1. pc[p] = "recording" /\ pc[p] \in Working /\ "consume" \in PC
  BY DEF RecordDecision, Working, PC
<1>2. my[p] \in My /\ my[p].auth \in Authorization /\ my[p].of \in Offers
  BY <1>1, WorkerTypes
<1>3. my[p].file \in [Offers -> Seq(Publication)]
  BY <1>2, MemoryTypes
<1>4. s \in Seq(Publication)
  BY <1>2, <1>3
<1>5. d \in Publication
  BY <1>1, <1>2 DEF Sound, ProcessesSound, Fits, Publication
<1>6. ASSUME NEW i \in 1..Len(s), Goes(p, "consume", Answer(my[p], i)) PROVE Sound'
  <2> DEFINE m == Answer(my[p], i)
  <2>1. i \in Nat
    BY <1>4
  <2>2. m \in My /\ m.of = my[p].of /\ m.auth = my[p].auth
    BY <1>1, <2>1, AnswerTypes
  <2>3. Goes(p, "consume", m)
    BY <1>6
  <2> HIDE DEF m
  <2>4. Fits("consume", job[p], m)
    BY <1>1, <2>2, ConsumerFits
  <2>5. QED
    BY <1>1, <2>2, <2>3, <2>4, GoesSound
<1>7. ASSUME decisions' = [my[p].file EXCEPT ![my[p].of] = Append(@, d)],
             Goto(p, "consume"), Learns(p, Answer(my[p], Len(s) + 1)), Changed(my[p].of), Stands,
             UNCHANGED <<job, now, market, authority, reviews>>
      PROVE  Sound'
  <2> DEFINE m == Answer(my[p], Len(s) + 1)
  <2>1. Len(s) + 1 \in Nat
    BY <1>4
  <2>2. m \in My /\ m.of = my[p].of /\ m.auth = my[p].auth
    BY <1>1, <2>1, AnswerTypes
  <2>3. Learns(p, m)
    BY <1>7
  <2> HIDE DEF m, d
  <2>4. Fits("consume", job[p], m)
    BY <1>1, <2>2, ConsumerFits
  <2>5. ProcessType' /\ ProcessesSound'
    BY <1>1, <1>7, <2>2, <2>3, <2>4, MoveFrame DEF Sound, authority
  <2>6. decisions' \in [Offers -> Seq(Publication)]
    BY <1>2, <1>3, <1>4, <1>5, <1>7
  <2>7. WorldType' /\ FilesType'
    BY <1>2, <1>7, <2>6, ChangedType, StandsType DEF Sound, WorldType, FilesType, authority
  <2>8. QED
    BY <2>5, <2>7 DEF Sound
<1>8. QED
  BY <1>6, <1>7 DEF RecordDecision

LEMMA ConsumeSound == ASSUME Sound, NEW p \in Processes, Consume(p) PROVE Sound'
<1>1. my[p].auth \in Authorization /\ my[p].id \in Nat
  BY WorkerTypes, MemoryTypes DEF Consume, Working
<1>2. consumptions' \subseteq [of : Authorization, id : Nat]
  BY <1>1 DEF Sound, FilesType, Consume
<1>3. ProcessType' /\ ProcessesSound'
  BY LeaveFrame DEF Sound, Consume
<1>4. WorldType' /\ FilesType'
  BY <1>2 DEF Sound, WorldType, FilesType, Consume, history
<1>5. QED
  BY <1>3, <1>4 DEF Sound

(* The steps of a build. *)
LEMMA BuilderSound ==
  ASSUME Sound, NEW p \in Processes,
         \/ \E o \in Offers : Look(p, o)
         \/ Judge(p) \/ Snapshot(p)
  PROVE  Sound'
<1>1. my[p] \in My /\ "look" \in PC /\ "judge" \in PC /\ "shown" \in PC
  BY DEF Sound, ProcessType, PC
<1>2. my[p].left \in SUBSET Offers /\ my[p].got \in SUBSET Offers
  BY <1>1, MemoryTypes
<1>3. ASSUME NEW o \in Offers, Look(p, o) PROVE Sound'
  <2> DEFINE to == IF Published(decisions, o) THEN "judge" ELSE "look"
             of == IF Published(decisions, o) THEN o ELSE None
             m == [my[p] EXCEPT !.left = @ \ {o}, !.of = of]
  <2>1. of \in {None} \cup Offers /\ my[p].left \ {o} \in SUBSET Offers
    BY <1>2
  <2> HIDE DEF of
  <2>2. m \in My /\ m.of = of
    BY <1>1, <2>1 DEF My
  <2>3. Goes(p, to, m)
    BY <1>3 DEF Look, of
  <2> HIDE DEF m
  <2>4. to \in PC /\ Fits(to, job[p], m)
    BY <1>1, <2>2 DEF Fits, Working, of
  <2> HIDE DEF to
  <2>5. QED
    BY <2>2, <2>3, <2>4, GoesSound
<1>4. CASE Judge(p)
  <2> DEFINE got == IF Qualifies(my[p].of, my[p].asOf) THEN my[p].got \cup {my[p].of} ELSE my[p].got
             m == [my[p] EXCEPT !.of = None, !.got = got]
  <2>1. my[p].of \in Offers
    BY <1>4 DEF Sound, ProcessesSound, Fits, Judge
  <2>2. got \in SUBSET Offers
    BY <1>2, <2>1
  <2>3. Goes(p, "look", [my[p] EXCEPT !.of = None, !.got = got])
    BY <1>1, <1>4 DEF Judge, My
  <2> HIDE DEF got
  <2>4. m \in My
    BY <1>1, <2>2 DEF My
  <2>5. Goes(p, "look", m)
    BY <2>3
  <2> HIDE DEF m
  <2>6. Fits("look", job[p], m)
    BY DEF Fits, Working
  <2>7. QED
    BY <1>1, <2>4, <2>5, <2>6, GoesSound
<1>5. CASE Snapshot(p)
  <2> DEFINE m == [my[p] EXCEPT !.got = Cheapest(my[p].got)]
  <2>1. Cheapest(my[p].got) \in SUBSET Offers
    BY <1>2 DEF Cheapest
  <2>2. m \in My
    BY <1>1, <2>1 DEF My
  <2>3. Goes(p, "shown", m)
    BY <1>5 DEF Snapshot
  <2> HIDE DEF m
  <2>4. Fits("shown", job[p], m)
    BY DEF Fits, Working
  <2>5. QED
    BY <1>1, <2>2, <2>3, <2>4, GoesSound
<1>6. QED
  BY <1>3, <1>4, <1>5

(* The clock, and what changes around the commands. *)
LEMMA WorldSound ==
  ASSUME Sound, Tick \/ \E o \in Offers : Requalify(o)
  PROVE  Sound'
<1>1. FilesType' /\ ProcessType' /\ ProcessesSound'
  BY DEF Sound, Tick, Requalify, FilesType, ProcessType, ProcessesSound, Fits, authority, process
<1>2. CASE Tick
  BY <1>1, <1>2 DEF Sound, Tick, WorldType, history
<1>3. ASSUME NEW o \in Offers, Requalify(o) PROVE Sound'
  <2>1. market' \in [Offers -> {None} \cup Markets] /\ now' = now /\ UNCHANGED history
    BY <1>3 DEF Requalify, Sound, WorldType
  <2>2. unsettled' \in [Processes -> SUBSET Offers]
    BY <1>3, ChangedType DEF Requalify, Sound
  <2>3. QED
    BY <1>1, <2>1, <2>2 DEF Sound, WorldType, history
<1>4. QED
  BY <1>2, <1>3

LEMMA NextSound == ASSUME Sound, Next PROVE Sound'
<1>1. CASE Tick \/ \E o \in Offers : Requalify(o)
  BY <1>1, WorldSound
<1>2. ASSUME NEW p \in Processes, NEW r \in Requests, Prepare(p, r[1], r[2]) PROVE Sound'
  <2>1. r[1] \in Offers /\ r[2] \in Verdicts \cup Actions
    BY DEF Verdicts, Actions
  <2>2. QED
    BY <1>2, <2>1, PrepareSound
<1>3. ASSUME NEW p \in Processes, NEW a \in authorizations, Execute(p, a) PROVE Sound'
  BY <1>3, ExecuteSound
<1>4. ASSUME NEW p \in Processes,
             \/ ReadReview(p) \/ ReadPredecessor(p) \/ Draw(p) \/ RecordAuthorization(p)
             \/ AssertBinding(p) \/ RecordReview(p) \/ Evaluate(p) \/ Check(p)
             \/ RecordDecision(p) \/ Consume(p)
      PROVE  Sound'
  BY <1>4, ReadsSound, DrawSound, RecordAuthorizationSound, AssertBindingSound, RecordReviewSound,
     EvaluateSound, CheckSound, RecordDecisionSound, ConsumeSound
<1>5. ASSUME NEW p \in Processes,
             \/ Build(p) \/ Judge(p) \/ Snapshot(p)
             \/ \E o \in Offers : Look(p, o)
      PROVE  Sound'
  BY <1>5, BuildSound, BuilderSound
<1>6. ASSUME NEW p \in Processes, Returns(p) \/ Crash(p) PROVE Sound'
  BY <1>6, EndsSound DEF Returns, Crash
<1>7. QED
  BY <1>1, <1>2, <1>3, <1>4, <1>5, <1>6 DEF Next

LEMMA StutterSound == ASSUME Sound, UNCHANGED vars PROVE Sound'
BY DEF Sound, vars, ProcessType, WorldType, FilesType, ProcessesSound, Fits, authority, process, history

(* What was decided before the first step. *)
LEMMA EarlierTypes ==
  ASSUME NEW o \in Offers, NEW d \in {"REVIEWED", "PUBLISH"}, NEW found \in Markets
  PROVE  /\ Earlier(o, d, found) \in Authorization
         /\ Earlier(o, d, found).of = o /\ Earlier(o, d, found).decision = d
         /\ Earlier(o, d, found).binding.predecessor = 0
         /\ Earlier(o, d, found).binding.review = IF d = "PUBLISH" THEN 1 ELSE 0
<1> DEFINE q == IF d = "PUBLISH" THEN [review |-> 1, market |-> found] ELSE None
           n == IF d = "PUBLISH" THEN 1 ELSE 0
           b == [review |-> n, predecessor |-> 0, qualification |-> q]
<1>1. q \in {None} \cup Qualification /\ n \in Nat
  BY DEF Qualification
<1> HIDE DEF q
<1>2. b \in Binding /\ b.predecessor = 0 /\ b.review = n
  BY <1>1 DEF Binding
<1>3. Earlier(o, d, found) = [of |-> o, decision |-> d, at |-> 0, binding |-> b]
  BY DEF Earlier, q
<1> HIDE DEF b
<1>4. QED
  BY <1>2, <1>3 DEF Authorization, Verdicts, Actions

LEMMA InitSound == Init => Sound
<1> SUFFICES ASSUME Init PROVE Sound
  OBVIOUS
<1>1. market \in [Offers -> Markets]
  BY DEF Init
<1>2. \A o \in Offers, d \in {"REVIEWED", "PUBLISH"} : Earlier(o, d, market[o]) \in Authorization
  BY <1>1, EarlierTypes
<1>3. authorizations \subseteq Authorization
  BY <1>2 DEF Init
<1>4. consumptions \subseteq [of : Authorization, id : Nat]
  BY <1>3 DEF Init
<1>5. reviews \in [Offers -> Seq(Authorization)]
  BY <1>2 DEF Init
<1>6. ASSUME NEW o \in Offers
      PROVE  [auth |-> Earlier(o, "PUBLISH", market[o]), review |-> 1] \in Publication
  BY <1>2 DEF Publication
<1>7. decisions \in [Offers -> Seq(Publication)]
  BY <1>6 DEF Init
<1>8. WorldType
  BY <1>1, <1>7 DEF Init, WorldType
<1>9. ProcessType
  BY NothingTypes DEF Init, ProcessType, PC, Jobs
<1>10. ProcessesSound
  BY DEF Init, ProcessesSound, Fits, Working
<1>11. QED
  BY <1>3, <1>4, <1>5, <1>7, <1>8, <1>9, <1>10 DEF Sound, FilesType

(***************************************************************************)
(* Every variable keeps its type, however commands and builds overlap, die *)
(* and are given again, with one queue or without: in particular whatever  *)
(* a command holds between two steps is of the observation it is about.    *)
(***************************************************************************)
THEOREM MarketTypeCorrect == Spec => []TypeOK
<1>1. Init => Sound
  BY InitSound
<1>2. Sound /\ [Next]_vars => Sound'
  BY NextSound, StutterSound
<1>3. Sound => TypeOK
  BY SoundIsIInv DEF IInv
<1>4. QED
  BY <1>1, <1>2, <1>3, PTL DEF Spec
-----------------------------------------------------------------------------
(* Publications and withdrawals alternate. *)
LEMMA Turns ==
  ASSUME NEW i \in Nat \ {0}
  PROVE  /\ Turn(i - 1) = IF i % 2 = 1 THEN "PUBLISH" ELSE "WITHDRAW"
         /\ Turn(i) = IF i % 2 = 1 THEN "WITHDRAW" ELSE "PUBLISH"
         /\ Turn(0) = "PUBLISH"
BY DEF Turn

(* What follows the decisions there are. *)
LEMMA TurnOfFile ==
  ASSUME FilesType, Chained, NEW o \in Offers
  PROVE  Turn(Effective(decisions, o)) = IF Published(decisions, o) THEN "WITHDRAW" ELSE "PUBLISH"
<1> DEFINE n == Len(decisions[o])
<1>1. n \in Nat
  BY DEF FilesType
<1>2. CASE n = 0
  BY <1>2 DEF Turn, Published, Effective
<1>3. CASE n # 0
  <2>1. n \in 1..n
    BY <1>1, <1>3
  <2>2. decisions[o][n].auth.decision = IF n % 2 = 1 THEN "PUBLISH" ELSE "WITHDRAW"
    BY <2>1 DEF Chained
  <2>3. Turn(n) = IF n % 2 = 1 THEN "WITHDRAW" ELSE "PUBLISH"
    BY <1>1, <1>3, Turns
  <2>4. Published(decisions, o) <=> decisions[o][n].auth.decision = "PUBLISH"
    BY <1>1, <1>3 DEF Published, Effective
  <2> HIDE DEF n
  <2>5. Published(decisions, o) <=> n % 2 = 1
    BY <2>2, <2>4
  <2> USE DEF n
  <2>6. QED
    BY <2>3, <2>5 DEF Effective
<1>4. QED
  BY <1>2, <1>3

(* The files only grow. *)
FilesGrow ==
  /\ authorizations \subseteq authorizations'
  /\ \A o \in Offers : Extends(reviews[o], reviews'[o]) /\ Extends(decisions[o], decisions'[o])

LEMMA UnwrittenGrows ==
  ASSUME FilesType, authorizations \subseteq authorizations', UNCHANGED <<reviews, decisions>>
  PROVE  FilesGrow
<1>1. ASSUME NEW o \in Offers PROVE Extends(reviews[o], reviews[o]) /\ Extends(decisions[o], decisions[o])
  BY DEF FilesType, Extends
<1>2. QED
  BY <1>1 DEF FilesGrow

(* A history with one more entry. *)
LEMMA Appended ==
  ASSUME NEW S, NEW s \in Seq(S), NEW e \in S
  PROVE  /\ Extends(s, Append(s, e))
         /\ Len(Append(s, e)) = Len(s) + 1 /\ Append(s, e)[Len(s) + 1] = e
         /\ \A i \in 1..Len(s) : Append(s, e)[i] = s[i]
BY DEF Extends

(* What an authorization or a consumption says of the files stays true. *)
LEMMA BehindGrows ==
  ASSUME FilesType, FilesType', FilesGrow, NEW a \in Authorization, Behind(a)
  PROVE  Behind(a)'
<1>1. a.of \in Offers /\ a.binding.predecessor \in Nat
  BY DEF Authorization, Binding
<1>2. Len(decisions[a.of]) <= Len(decisions'[a.of])
  BY <1>1 DEF FilesGrow, Extends
<1>3. Len(decisions[a.of]) \in Nat /\ Len(decisions'[a.of]) \in Nat
  BY <1>1 DEF FilesType
<1>4. QED
  BY <1>1, <1>2, <1>3 DEF Behind

LEMMA BackedGrows ==
  ASSUME FilesType, FilesType', FilesGrow, NEW a \in Authorization, NEW id \in Nat, Backed(a, id)
  PROVE  Backed(a, id)'
<1>1. a.of \in Offers
  BY DEF Authorization
<1>2. /\ Len(reviews[a.of]) \in Nat /\ Len(reviews'[a.of]) \in Nat
      /\ Len(decisions[a.of]) \in Nat /\ Len(decisions'[a.of]) \in Nat
  BY <1>1 DEF FilesType
<1>3. Extends(reviews[a.of], reviews'[a.of]) /\ Extends(decisions[a.of], decisions'[a.of])
  BY <1>1 DEF FilesGrow
<1>4. CASE a.decision \in Verdicts
  BY <1>2, <1>3, <1>4 DEF Backed, Extends
<1>5. CASE a.decision \notin Verdicts
  BY <1>2, <1>3, <1>5 DEF Backed, Extends
<1>6. QED
  BY <1>4, <1>5

(* So does what a process knows that takes no step. *)
LEMMA OthersKnow ==
  ASSUME Sound, Sound', Shared, FilesGrow, NEW q \in Processes, pc'[q] = pc[q], my'[q] = my[q]
  PROVE  Knows(pc[q], my[q])'
<1>1. Knows(pc[q], my[q]) /\ my[q] \in My /\ Fits(pc[q], job[q], my[q])
  BY DEF Shared, Sound, ProcessType, ProcessesSound
<1>2. CASE pc[q] = "assess"
  <2>1. my[q].of \in Offers /\ my[q].predecessor \in {None} \cup Nat
    BY <1>1, <1>2, MemoryTypes DEF Fits
  <2>2. Len(decisions[my[q].of]) \in Nat /\ Len(decisions'[my[q].of]) \in Nat
    BY <2>1 DEF Sound, FilesType
  <2>3. Len(decisions[my[q].of]) <= Len(decisions'[my[q].of])
    BY <2>1 DEF FilesGrow, Extends
  <2>4. QED
    BY <1>1, <1>2, <2>1, <2>2, <2>3 DEF Knows
<1>3. CASE pc[q] = "authorize"
  <2>1. my[q].auth \in Authorization /\ Behind(my[q].auth)
    BY <1>1, <1>3 DEF Fits, Knows
  <2>2. ASSUME NEW a, a = my[q].auth PROVE Behind(a)'
    BY <2>1, <2>2, BehindGrows DEF Sound
  <2>3. Behind(my[q].auth)'
    BY <2>2 DEF Behind
  <2>4. QED
    BY <1>3, <2>3 DEF Knows
<1>4. CASE pc[q] = "consume"
  <2>1. my[q].auth \in Authorization /\ my[q].id \in Nat /\ Backed(my[q].auth, my[q].id)
    BY <1>1, <1>4, WorkerTypes, MemoryTypes DEF Knows, Working
  <2>2. ASSUME NEW a, NEW i, a = my[q].auth, i = my[q].id PROVE Backed(a, i)'
    BY <2>1, <2>2, BackedGrows DEF Sound
  <2>3. Backed(my[q].auth, my[q].id)'
    BY <2>2 DEF Backed
  <2>4. QED
    BY <1>4, <2>3 DEF Knows
<1>5. CASE pc[q] \notin {"assess", "authorize", "consume"}
  BY <1>5 DEF Knows
<1>6. QED
  BY <1>2, <1>3, <1>4, <1>5

(* A step that writes no file keeps all of it, when what the process learns is so. *)
LEMMA KeepsShared ==
  ASSUME Sound, Shared, NEW p \in Processes, NEW to, NEW m, Knows(to, m),
         pc' = [pc EXCEPT ![p] = to], my' = [my EXCEPT ![p] = m],
         UNCHANGED <<authorizations, consumptions, reviews, decisions>>,
         to = "recording" => m.file = decisions /\ \A q \in Processes : pc[q] # "recording"
  PROVE  Shared' /\ FilesGrow
<1>1. FilesGrow
  BY UnwrittenGrows DEF Sound
<1>2. pc'[p] = to /\ my'[p] = m
      /\ \A q \in Processes : q # p => pc'[q] = pc[q] /\ my'[q] = my[q]
  BY DEF Sound, ProcessType
<1>3. QueueSound'
  BY <1>2 DEF Shared, QueueSound
<1>4. (Chained /\ AllBacked /\ FilesSound /\ AuthoritySound)'
  <2>1. Chained'
    BY DEF Shared, Chained
  <2>2. AllBacked'
    BY DEF Shared, AllBacked, Backed
  <2>3. FilesSound'
    BY DEF Shared, FilesSound
  <2>4. AuthoritySound'
    BY DEF Shared, AuthoritySound, Behind, SameIntent
  <2>5. QED
    BY <2>1, <2>2, <2>3, <2>4
<1>5. ASSUME NEW q \in Processes PROVE Knows(pc[q], my[q])'
  <2>1. Knows(pc[q], my[q])
    BY DEF Shared
  <2>2. CASE q = p
    BY <1>2, <2>2 DEF Knows, Behind, Backed
  <2>3. CASE q # p
    BY <1>2, <2>1, <2>3 DEF Knows, Behind, Backed
  <2>4. QED
    BY <2>2, <2>3
<1>6. QED
  BY <1>1, <1>3, <1>4, <1>5 DEF Shared

LEMMA BeginShared ==
  ASSUME Sound, Shared, NEW p \in Processes, NEW what, NEW to, NEW m, Begin(p, what, to, m),
         Knows(to, m), to # "recording"
  PROVE  Shared' /\ FilesGrow
BY KeepsShared DEF Begin, Goto, Learns, files, authority

LEMMA EndsShared == ASSUME Sound, Shared, NEW p \in Processes, Ends(p) PROVE Shared' /\ FilesGrow
<1>1. Knows("idle", NothingRead)
  BY DEF Knows
<1>2. QED
  BY <1>1, KeepsShared DEF Ends, Leave, Goto, Learns, files, authority

LEMMA GoesShared ==
  ASSUME Sound, Shared, NEW p \in Processes, NEW to, NEW m, Goes(p, to, m), Knows(to, m),
         to # "recording"
  PROVE  Shared' /\ FilesGrow
BY KeepsShared DEF Goes, Goto, Learns, files, authority

(* A command begins with nothing read. *)
LEMMA BeginsShared ==
  ASSUME Sound, Shared, NEW p \in Processes,
         \/ \E o \in Offers, d \in Verdicts \cup Actions : Prepare(p, o, d)
         \/ \E a \in authorizations : Execute(p, a)
         \/ Build(p)
  PROVE  Shared' /\ FilesGrow
<1>1. ASSUME NEW o \in Offers, NEW d \in Verdicts \cup Actions, Prepare(p, o, d)
      PROVE  Shared' /\ FilesGrow
  <2> DEFINE m == [NothingRead EXCEPT !.of = o, !.decision = d, !.asOf = now,
                                      !.predecessor = Predecessor(d)]
  <2>1. m.decision = d /\ m.predecessor = Predecessor(d)
    BY DEF NothingRead
  <2>2. Begin(p, "prepare", "assess", m)
    BY <1>1 DEF Prepare
  <2> HIDE DEF m
  <2>3. Knows("assess", m)
    BY <2>1 DEF Knows, Predecessor, Verdicts, Actions
  <2>4. QED
    BY <2>2, <2>3, BeginShared
<1>2. ASSUME NEW a \in authorizations, Execute(p, a) PROVE Shared' /\ FilesGrow
  <2> DEFINE m == [NothingRead EXCEPT !.of = a.of, !.decision = a.decision,
                     !.auth = a, !.asOf = now, !.predecessor = Predecessor(a.decision)]
  <2>1. m.decision = a.decision /\ m.predecessor = Predecessor(a.decision)
    BY DEF NothingRead
  <2>2. Begin(p, "execute", "assess", m)
    BY <1>2 DEF Execute
  <2> HIDE DEF m
  <2>3. Knows("assess", m)
    BY <2>1 DEF Knows, Predecessor, Verdicts, Actions
  <2>4. QED
    BY <2>2, <2>3, BeginShared
<1>3. CASE Build(p)
  <2> DEFINE m == [NothingRead EXCEPT !.asOf = now, !.left = Offers]
  <2>1. Begin(p, "build", "look", m)
    BY <1>3 DEF Build
  <2> HIDE DEF m
  <2>2. Knows("look", m)
    BY DEF Knows
  <2>3. QED
    BY <2>1, <2>2, BeginShared
<1>4. QED
  BY <1>1, <1>2, <1>3

(* What an assessment reads, and what it draws up, follows the decisions there are. *)
LEMMA ReadsShared ==
  ASSUME Sound, Shared, NEW p \in Processes, ReadReview(p) \/ ReadPredecessor(p)
  PROVE  Shared' /\ FilesGrow
<1>1. my[p] \in My /\ pc[p] = "assess" /\ Fits("assess", job[p], my[p]) /\ Knows("assess", my[p])
  BY DEF Sound, ProcessType, ProcessesSound, Shared, ReadReview, ReadPredecessor
<1>2. my[p].of \in Offers
  BY <1>1 DEF Fits
<1>3. CASE ReadReview(p)
  <2> DEFINE m == [my[p] EXCEPT !.review = Effective(reviews, my[p].of)]
  <2>1. /\ m.of = my[p].of /\ m.decision = my[p].decision
        /\ m.predecessor = my[p].predecessor /\ m.published = my[p].published
    BY <1>1 DEF My
  <2>2. Goes(p, "assess", m)
    BY <1>3 DEF ReadReview
  <2> HIDE DEF m
  <2>3. Knows("assess", m)
    BY <1>1, <2>1 DEF Knows
  <2>4. QED
    BY <2>2, <2>3, GoesShared
<1>4. CASE ReadPredecessor(p)
  <2> DEFINE m == [my[p] EXCEPT !.predecessor = Effective(decisions, my[p].of),
                                !.published = Published(decisions, my[p].of)]
  <2>1. /\ m.of = my[p].of /\ m.predecessor = Effective(decisions, my[p].of)
        /\ m.published = Published(decisions, my[p].of)
    BY <1>1 DEF My
  <2>2. Goes(p, "assess", m)
    BY <1>4 DEF ReadPredecessor
  <2> HIDE DEF m
  <2>3. Effective(decisions, my[p].of) = Len(decisions[m.of]) /\ Len(decisions[m.of]) \in Nat
    BY <1>2, <2>1 DEF Effective, Sound, FilesType
  <2>4. Turn(m.predecessor) = IF m.published THEN "WITHDRAW" ELSE "PUBLISH"
    BY <1>2, <2>1, TurnOfFile DEF Sound, Shared
  <2>5. Knows("assess", m)
    BY <2>1, <2>3, <2>4 DEF Knows
  <2>6. QED
    BY <2>2, <2>5, GoesShared
<1>5. QED
  BY <1>3, <1>4

LEMMA DrawShared == ASSUME Sound, Shared, NEW p \in Processes, Draw(p) PROVE Shared' /\ FilesGrow
<1>1. my[p] \in My /\ pc[p] = "assess" /\ Fits("assess", job[p], my[p]) /\ Knows("assess", my[p])
      /\ my[p].predecessor # None
  BY DEF Sound, ProcessType, ProcessesSound, Shared, Draw, Assessed
<1>2. my[p].decision \in Verdicts \cup Actions
  BY <1>1 DEF Fits
<1>3. CASE Eligible(my[p])
  <2> DEFINE a == [of |-> my[p].of, decision |-> my[p].decision, binding |-> BindingOf(my[p]),
                   at |-> my[p].asOf]
             m == [NothingRead EXCEPT !.auth = a]
  <2>1. a.of = my[p].of /\ a.decision = my[p].decision
        /\ a.binding.predecessor = my[p].predecessor
    BY DEF BindingOf
  <2>2. m.auth = a
    BY DEF NothingRead
  <2>3. Goes(p, "authorize", m)
    BY <1>3 DEF Draw
  <2> HIDE DEF a, m
  <2>4. Behind(a)
    <3>1. SUFFICES ASSUME a.decision \in Actions
                   PROVE  /\ a.binding.predecessor <= Len(decisions[a.of])
                          /\ a.decision = Turn(a.binding.predecessor)
      BY DEF Behind
    <3>2. /\ my[p].predecessor <= Len(decisions[my[p].of])
          /\ Turn(my[p].predecessor) = IF my[p].published THEN "WITHDRAW" ELSE "PUBLISH"
      BY <1>1, <2>1, <3>1 DEF Knows
    <3>3. my[p].decision = IF my[p].published THEN "WITHDRAW" ELSE "PUBLISH"
      BY <1>3, <2>1, <3>1 DEF Eligible, Verdicts, Actions
    <3>4. QED
      BY <2>1, <3>2, <3>3
  <2>5. Knows("authorize", m)
    BY <2>2, <2>4 DEF Knows
  <2>6. QED
    BY <2>3, <2>5, GoesShared
<1>4. CASE ~Eligible(my[p])
  BY <1>4, EndsShared DEF Draw
<1>5. QED
  BY <1>3, <1>4

(* The steps between an assessment and a record. *)
LEMMA WorksShared ==
  ASSUME turns' = "kept", Sound, Shared, NEW p \in Processes, AssertBinding(p) \/ Evaluate(p) \/ Check(p)
  PROVE  Shared' /\ FilesGrow
<1>1. ASSUME NEW to \in {"decide", "evaluate", "check"}, NEW m, Goes(p, to, m)
      PROVE  Shared' /\ FilesGrow
  <2>1. Knows(to, m)
    BY DEF Knows
  <2>2. QED
    BY <1>1, <2>1, GoesShared
<1>2. CASE AssertBinding(p)
  <2> DEFINE to == IF my[p].decision \in Verdicts THEN "decide" ELSE "evaluate"
             m == [NothingRead EXCEPT !.of = my[p].of, !.auth = my[p].auth,
                     !.asOf = IF my[p].decision = "PUBLISH" THEN my[p].asOf ELSE 0]
  <2>1. Goes(p, to, m) \/ Ends(p)
    BY <1>2 DEF AssertBinding
  <2> HIDE DEF m
  <2>2. QED
    BY <1>1, <2>1, EndsShared
<1>3. CASE Evaluate(p)
  <2> DEFINE m == [my[p] EXCEPT !.asOf = 0, !.review = Effective(reviews, my[p].of)]
  <2>1. Goes(p, "check", m) \/ Ends(p)
    BY <1>3 DEF Evaluate
  <2> HIDE DEF m
  <2>2. QED
    BY <1>1, <2>1, EndsShared
<1>4. CASE Check(p)
  <2> DEFINE m == [my[p] EXCEPT !.file = decisions]
  <2>1. Goes(p, "recording", m) \/ Ends(p)
    BY <1>4 DEF Check
  <2>2. m.file = decisions
    BY DEF Sound, ProcessType, My
  <2> HIDE DEF m
  <2>3. Knows("recording", m)
    BY DEF Knows
  <2>4. ASSUME Goes(p, "recording", m), NEW q \in Processes PROVE pc[q] # "recording"
    <3>1. pc[p] = "check" /\ pc' = [pc EXCEPT ![p] = "recording"] /\ pc \in [Processes -> PC]
      BY <1>4, <2>4 DEF Check, Goes, Goto, Sound, ProcessType
    <3>2. q # p => ~(pc'[p] = "recording" /\ pc'[q] = "recording")
      BY <2>4 DEF Goes, Stands
    <3>3. QED
      BY <3>1, <3>2
  <2>5. ASSUME Goes(p, "recording", m) PROVE Shared' /\ FilesGrow
    BY <2>2, <2>3, <2>4, <2>5, KeepsShared DEF Goes, Goto, Learns, files, authority
  <2>6. QED
    BY <2>1, <2>5, EndsShared
<1>5. QED
  BY <1>2, <1>3, <1>4

(* A build learns nothing it has to keep. *)
LEMMA BuilderShared ==
  ASSUME Sound, Shared, NEW p \in Processes,
         \/ \E o \in Offers : Look(p, o)
         \/ Judge(p) \/ Snapshot(p)
  PROVE  Shared' /\ FilesGrow
<1>1. ASSUME NEW to \in {"look", "judge", "shown"}, NEW m, Goes(p, to, m) PROVE Shared' /\ FilesGrow
  <2>1. Knows(to, m)
    BY DEF Knows
  <2>2. QED
    BY <1>1, <2>1, GoesShared
<1>2. ASSUME NEW o \in Offers, Look(p, o) PROVE Shared' /\ FilesGrow
  <2> DEFINE to == IF Published(decisions, o) THEN "judge" ELSE "look"
             m == [my[p] EXCEPT !.left = @ \ {o}, !.of = IF Published(decisions, o) THEN o ELSE None]
  <2>1. Goes(p, to, m)
    BY <1>2 DEF Look
  <2> HIDE DEF m
  <2>2. QED
    BY <1>1, <2>1
<1>3. CASE Judge(p)
  BY <1>1, <1>3 DEF Judge
<1>4. CASE Snapshot(p)
  BY <1>1, <1>4 DEF Snapshot
<1>5. QED
  BY <1>2, <1>3, <1>4

(* What changes around the commands is no file of theirs. *)
LEMMA WorldShared ==
  ASSUME Sound, Shared, UNCHANGED <<authorizations, consumptions, reviews, decisions, pc, my>>
  PROVE  Shared' /\ FilesGrow
<1>1. FilesGrow
  BY UnwrittenGrows DEF Sound
<1>2. QueueSound' /\ Chained' /\ AllBacked' /\ FilesSound'
  BY DEF Shared, QueueSound, Chained, AllBacked, FilesSound, Backed
<1>3. AuthoritySound'
  BY DEF Shared, AuthoritySound, Behind, SameIntent
<1>4. \A q \in Processes : Knows(pc[q], my[q])'
  BY DEF Shared, Knows, Behind, Backed
<1>5. QED
  BY <1>1, <1>2, <1>3, <1>4 DEF Shared

(* A command that leaves, with whatever it has written. *)
LEMMA LeavesKnow ==
  ASSUME Sound, Sound', Shared, FilesGrow, NEW p \in Processes, Leave(p)
  PROVE  \A q \in Processes : Knows(pc[q], my[q])'
<1>1. ASSUME NEW q \in Processes PROVE Knows(pc[q], my[q])'
  <2>1. CASE q = p
    <3>1. pc'[q] = "idle"
      BY <2>1 DEF Leave, Goto, Sound, ProcessType
    <3>2. QED
      BY <3>1 DEF Knows
  <2>2. CASE q # p
    <3>1. pc'[q] = pc[q] /\ my'[q] = my[q]
      BY <2>2 DEF Leave, Goto, Learns, Sound, ProcessType
    <3>2. QED
      BY <3>1, OthersKnow
  <2>3. QED
    BY <2>1, <2>2
<1>2. QED
  BY <1>1

(* It is not, any more, at work on the file. *)
LEMMA LeavesQueue ==
  ASSUME Sound, Shared, NEW p \in Processes, Leave(p), UNCHANGED decisions
  PROVE  QueueSound'
<1>1. pc'[p] = "idle" /\ \A q \in Processes : q # p => pc'[q] = pc[q] /\ my'[q] = my[q]
  BY DEF Leave, Goto, Learns, Sound, ProcessType
<1>2. QED
  BY <1>1 DEF Shared, QueueSound

(* An intent has one authorization, and the decisions it follows are there. *)
LEMMA RecordAuthorizationShared ==
  ASSUME Sound, Sound', Shared, NEW p \in Processes, RecordAuthorization(p)
  PROVE  Shared' /\ FilesGrow
<1> DEFINE a == my[p].auth
<1>1. a \in Authorization /\ Behind(a)
  BY DEF Sound, ProcessesSound, Fits, Shared, Knows, RecordAuthorization
<1>2. FilesGrow
  BY UnwrittenGrows DEF Sound, RecordAuthorization
<1>3. /\ UNCHANGED <<consumptions, reviews, decisions>> /\ Leave(p)
      /\ authorizations' = IF \E b \in authorizations : SameIntent(a, b)
                           THEN authorizations ELSE authorizations \cup {a}
  BY DEF RecordAuthorization
<1> HIDE DEF a
<1>4. AuthoritySound'
  <2>1. \A b \in authorizations' : Behind(b)
    BY <1>1, <1>3 DEF Shared, AuthoritySound
  <2>2. (\A b \in authorizations : Behind(b))'
    BY <1>3, <2>1 DEF Behind
  <2>3. \A b, c \in authorizations : SameIntent(b, c) => b = c
    BY DEF Shared, AuthoritySound
  <2>4. \A b \in Authorization, c \in Authorization : SameIntent(b, c) => SameIntent(c, b)
    BY DEF SameIntent
  <2>5. authorizations \subseteq Authorization
    BY DEF Sound, FilesType
  <2>6. \A b, c \in authorizations' : SameIntent(b, c) => b = c
    BY <1>1, <1>3, <2>3, <2>4, <2>5
  <2>7. (\A b, c \in authorizations : SameIntent(b, c) => b = c)'
    BY <2>6 DEF SameIntent
  <2>8. QED
    BY <2>2, <2>7 DEF AuthoritySound
<1>5. FilesSound'
  BY <1>3 DEF Shared, FilesSound
<1>6. Chained'
  BY <1>3 DEF Shared, Chained
<1>7. AllBacked'
  BY <1>3 DEF Shared, AllBacked, Backed
<1>8. QueueSound'
  BY <1>3, LeavesQueue
<1>9. QED
  BY <1>2, <1>3, <1>4, <1>5, <1>6, <1>7, <1>8, LeavesKnow DEF Shared

(* A consumption names what its command was answered. *)
LEMMA ConsumeShared ==
  ASSUME Sound, Sound', Shared, NEW p \in Processes, Consume(p)
  PROVE  Shared' /\ FilesGrow
<1> DEFINE c == [of |-> my[p].auth, id |-> my[p].id]
<1>1. Backed(c.of, c.id)
  BY DEF Shared, Knows, Consume
<1>2. FilesGrow
  BY UnwrittenGrows DEF Sound, Consume
<1>3. /\ UNCHANGED <<authorizations, reviews, decisions>> /\ Leave(p)
      /\ consumptions' \subseteq consumptions \cup {c}
  BY DEF Consume
<1> HIDE DEF c
<1>4. AllBacked'
  <2>1. \A d \in consumptions' : Backed(d.of, d.id)
    BY <1>1, <1>3 DEF Shared, AllBacked, Backed
  <2>2. QED
    BY <1>3, <2>1 DEF AllBacked, Backed
<1>5. AuthoritySound'
  BY <1>3 DEF Shared, AuthoritySound, Behind, SameIntent
<1>6. FilesSound'
  BY <1>3 DEF Shared, FilesSound
<1>7. Chained'
  BY <1>3 DEF Shared, Chained
<1>8. QueueSound'
  BY <1>3, LeavesQueue
<1>9. QED
  BY <1>2, <1>3, <1>4, <1>5, <1>6, <1>7, <1>8, LeavesKnow DEF Shared

(* A command that goes on, with whatever it has written. *)
LEMMA MovesKnow ==
  ASSUME Sound, Sound', Shared, FilesGrow, NEW p \in Processes, NEW to, NEW m,
         Goto(p, to), Learns(p, m), Knows(to, m)'
  PROVE  \A q \in Processes : Knows(pc[q], my[q])'
<1>1. pc'[p] = to /\ my'[p] = m
      /\ \A q \in Processes : q # p => pc'[q] = pc[q] /\ my'[q] = my[q]
  BY DEF Goto, Learns, Sound, ProcessType
<1>2. ASSUME NEW q \in Processes, q # p PROVE Knows(pc[q], my[q])'
  BY <1>1, <1>2, OthersKnow
<1>3. Knows(pc[p], my[p])'
  BY <1>1 DEF Knows, Backed, Behind
<1>4. QED
  BY <1>2, <1>3

(* Consumptions stay backed while the files grow. *)
LEMMA StaysBacked ==
  ASSUME Sound, Sound', Shared, FilesGrow, UNCHANGED consumptions
  PROVE  AllBacked'
<1>1. ASSUME NEW c \in consumptions PROVE Backed(c.of, c.id)'
  <2>1. c.of \in Authorization /\ c.id \in Nat
    BY DEF Sound, FilesType
  <2>2. Backed(c.of, c.id)
    BY DEF Shared, AllBacked, Backed
  <2>3. QED
    BY <2>1, <2>2, BackedGrows DEF Sound
<1>2. QED
  BY <1>1 DEF AllBacked, Backed

(* The review that is recorded follows the one its authorization was drawn up under. *)
LEMMA RecordReviewShared ==
  ASSUME Sound, Sound', Shared, NEW p \in Processes, RecordReview(p)
  PROVE  Shared' /\ FilesGrow
<1> SUFFICES ASSUME NEW a, a = my[p].auth, NEW o, o = my[p].of, NEW s, s = reviews[o]
             PROVE  Shared' /\ FilesGrow
  OBVIOUS
<1>1. pc[p] = "decide" /\ pc[p] \in Working
  BY DEF RecordReview, Working
<1>2. a \in Authorization /\ o \in Offers /\ a.of = o /\ a.decision \in Verdicts
  BY <1>1, WorkerTypes DEF Sound, ProcessesSound, Fits
<1>3. s \in Seq(Authorization) /\ Len(s) \in Nat
  <2>1. reviews \in [Offers -> Seq(Authorization)]
    BY DEF Sound, FilesType
  <2>2. s \in Seq(Authorization)
    BY <1>2, <2>1
  <2>3. QED
    BY <2>2
<1>4. ASSUME NEW i \in 1..Len(s), s[i] = a, Goes(p, "consume", [my[p] EXCEPT !.id = i])
      PROVE  Shared' /\ FilesGrow
  <2> DEFINE m == [my[p] EXCEPT !.id = i]
  <2>1. m.auth = a /\ m.id = i
    BY <1>1, <1>3, AnswerTypes
  <2>2. Goes(p, "consume", m)
    BY <1>4
  <2>3. Backed(a, i)
    BY <1>2, <1>4 DEF Backed
  <2> HIDE DEF m
  <2>4. Knows("consume", m)
    BY <2>1, <2>3 DEF Knows
  <2>5. QED
    BY <2>2, <2>4, GoesShared
<1>5. ASSUME Len(s) = a.binding.review, reviews' = [reviews EXCEPT ![o] = Append(@, a)],
             Goto(p, "consume"), Learns(p, [my[p] EXCEPT !.id = Len(s) + 1]),
             UNCHANGED <<authority, decisions>>
      PROVE  Shared' /\ FilesGrow
  <2>1. PICK t : /\ Len(t) = Len(s) + 1 /\ t[Len(s) + 1] = a
                 /\ \A i \in 1..Len(s) : t[i] = s[i]
                 /\ Extends(s, t)
                 /\ reviews' = [reviews EXCEPT ![o] = t]
    <3>1. reviews' = [reviews EXCEPT ![o] = Append(s, a)]
      BY <1>5
    <3>2. /\ Len(Append(s, a)) = Len(s) + 1 /\ Append(s, a)[Len(s) + 1] = a
          /\ \A i \in 1..Len(s) : Append(s, a)[i] = s[i]
          /\ Extends(s, Append(s, a))
      BY <1>2, <1>3, Appended
    <3>3. QED
      BY <3>1, <3>2, Zenon
  <2>2. reviews'[o] = t /\ \A q \in Offers : q # o => reviews'[q] = reviews[q]
    BY <1>2, <2>1 DEF Sound, FilesType
  <2>3. UNCHANGED <<authorizations, consumptions, decisions>>
    BY <1>5 DEF authority
  <2>4. FilesGrow
    <3>1. ASSUME NEW q \in Offers
          PROVE  Extends(reviews[q], reviews'[q]) /\ Extends(decisions[q], decisions'[q])
      <4>1. Extends(decisions[q], decisions'[q])
        BY <2>3 DEF Extends, Sound, FilesType
      <4>2. Extends(reviews[q], reviews'[q])
        <5>1. CASE q = o
          BY <2>1, <2>2, <5>1
        <5>2. CASE q # o
          <6>1. reviews'[q] = reviews[q] /\ reviews[q] \in Seq(Authorization)
            BY <2>2, <5>2 DEF Sound, FilesType
          <6>2. QED
            BY <6>1 DEF Extends
        <5>3. QED
          BY <5>1, <5>2
      <4>3. QED
        BY <4>1, <4>2
    <3>2. QED
      BY <2>3, <3>1 DEF FilesGrow
  <2>5. Chained'
    <3>1. ASSUME NEW q \in Offers, NEW i \in 1..Len(reviews'[q]) PROVE reviews'[q][i].binding.review = i - 1
      <4>1. CASE q # o
        BY <2>2, <4>1 DEF Shared, Chained
      <4>2. CASE q = o /\ i = Len(s) + 1
        <5>1. reviews'[q][i] = a
          BY <2>1, <2>2, <4>2
        <5>2. a.binding.review = Len(s)
          BY <1>5
        <5>3. i - 1 = Len(s)
          BY <1>3, <4>2
        <5>4. QED
          BY <5>1, <5>2, <5>3
      <4>3. CASE q = o /\ i # Len(s) + 1
        <5>1. i \in 1..Len(s) /\ reviews'[q][i] = s[i]
          BY <1>3, <2>1, <2>2, <4>3
        <5>2. s[i].binding.review = i - 1
          BY <1>2, <5>1 DEF Shared, Chained
        <5>3. QED
          BY <5>1, <5>2
      <4>4. QED
        BY <4>1, <4>2, <4>3
    <3>2. QED
      BY <2>3, <3>1 DEF Shared, Chained
  <2>6. AuthoritySound' /\ FilesSound'
    BY <2>3 DEF Shared, AuthoritySound, FilesSound, Behind, SameIntent
  <2>7. QueueSound'
    BY <1>5, <2>3 DEF Goto, Learns, Sound, ProcessType, Shared, QueueSound
  <2>8. \A q \in Processes : Knows(pc[q], my[q])'
    <3> SUFFICES ASSUME NEW m, m = [my[p] EXCEPT !.id = Len(s) + 1]
                 PROVE  \A q \in Processes : Knows(pc[q], my[q])'
      OBVIOUS
    <3>1. m.auth = a /\ m.id = Len(s) + 1
      BY <1>1, <1>3, AnswerTypes
    <3>2. Len(s) + 1 \in 1..Len(reviews'[o]) /\ reviews'[o][Len(s) + 1] = a
      BY <1>3, <2>1, <2>2
    <3>3. Backed(a, Len(s) + 1)'
      BY <1>2, <3>2 DEF Backed
    <3>4. Knows("consume", m)'
      BY <3>1, <3>3 DEF Knows, Backed
    <3>5. QED
      BY <1>5, <2>4, <3>4, MovesKnow
  <2>9. QED
    BY <2>3, <2>4, <2>5, <2>6, <2>7, <2>8, StaysBacked DEF Shared
<1>6. ASSUME Ends(p) PROVE Shared' /\ FilesGrow
  BY <1>6, EndsShared
<1>7. QED
  BY <1>4, <1>5, <1>6 DEF RecordReview

(* An authorization without a decision follows the last decision there is: had one *)
(* followed the same predecessor, it would be of the same intent, hence of the     *)
(* same authorization.                                                             *)
LEMMA FollowsTheLast ==
  ASSUME Sound, Shared, NEW a \in authorizations, NEW o \in Offers, a.of = o, a.decision \in Actions,
         \A i \in 1..Len(decisions[o]) : decisions[o][i].auth # a
  PROVE  a.binding.predecessor = Len(decisions[o]) /\ a.decision = Turn(Len(decisions[o]))
<1> DEFINE n == a.binding.predecessor
<1>1. Behind(a) /\ n \in Nat /\ Len(decisions[o]) \in Nat
  BY DEF Shared, AuthoritySound, Sound, FilesType, Authorization, Binding
<1>2. n <= Len(decisions[o]) /\ a.decision = Turn(n)
  BY <1>1 DEF Behind
<1>3. ASSUME n < Len(decisions[o]) PROVE FALSE
  <2>1. n + 1 \in 1..Len(decisions[o]) /\ n + 1 \in Nat \ {0} /\ (n + 1) - 1 = n
    BY <1>1, <1>3
  <2> DEFINE b == decisions[o][n + 1].auth
  <2>2. b \in authorizations /\ b.of = o
    BY <2>1 DEF Shared, FilesSound
  <2>3. /\ b.binding.predecessor = (n + 1) - 1
        /\ b.decision = IF (n + 1) % 2 = 1 THEN "PUBLISH" ELSE "WITHDRAW"
    BY <2>1 DEF Shared, Chained
  <2>4. Turn((n + 1) - 1) = IF (n + 1) % 2 = 1 THEN "PUBLISH" ELSE "WITHDRAW"
    BY <2>1, Turns
  <2> HIDE DEF b, n
  <2>5. b.decision = a.decision /\ b.binding.predecessor = n
    BY <1>2, <2>1, <2>3, <2>4
  <2>6. SameIntent(a, b)
    BY <2>2, <2>5 DEF SameIntent, Verdicts, Actions, n
  <2>7. a = b
    BY <2>2, <2>6 DEF Shared, AuthoritySound
  <2>8. QED
    BY <2>1, <2>7 DEF b
<1>4. QED
  BY <1>1, <1>2, <1>3

(* The decision that is recorded follows the last one, on the file as it is. *)
LEMMA RecordDecisionShared ==
  ASSUME Sound, Sound', Shared, NEW p \in Processes, RecordDecision(p)
  PROVE  Shared' /\ FilesGrow
<1> SUFFICES ASSUME NEW a, a = my[p].auth, NEW o, o = my[p].of, NEW s, s = decisions[o],
                    NEW d, d = [auth |-> a, review |-> my[p].review]
             PROVE  Shared' /\ FilesGrow
  OBVIOUS
<1>1. pc[p] = "recording" /\ pc[p] \in Working
  BY DEF RecordDecision, Working
<1>2. a \in authorizations /\ o \in Offers /\ a.of = o /\ a.decision \in Actions
  BY <1>1, WorkerTypes DEF Sound, ProcessesSound, Fits
<1>3. my[p].file = decisions
  BY <1>1 DEF Shared, QueueSound
<1>4. s \in Seq(Publication) /\ Len(s) \in Nat
  <2>1. decisions \in [Offers -> Seq(Publication)]
    BY DEF Sound, FilesType
  <2>2. s \in Seq(Publication)
    BY <1>2, <2>1
  <2>3. QED
    BY <2>2
<1>5. d \in Publication /\ d.auth = a
  BY <1>1, <1>2, WorkerTypes DEF Sound, ProcessesSound, Fits, Publication
<1>6. ASSUME NEW i \in 1..Len(s), s[i].auth = a, Goes(p, "consume", Answer(my[p], i))
      PROVE  Shared' /\ FilesGrow
  <2> DEFINE m == Answer(my[p], i)
  <2>1. m.auth = a /\ m.id = i
    BY DEF Answer, NothingRead
  <2>2. Goes(p, "consume", m)
    BY <1>6
  <2>3. Backed(a, i)
    BY <1>2, <1>6 DEF Backed, Verdicts, Actions
  <2> HIDE DEF m
  <2>4. Knows("consume", m)
    BY <2>1, <2>3 DEF Knows
  <2>5. QED
    BY <2>2, <2>4, GoesShared
<1>7. ASSUME \A i \in 1..Len(s) : s[i].auth # a, decisions' = [decisions EXCEPT ![o] = Append(@, d)],
             Goto(p, "consume"), Learns(p, Answer(my[p], Len(s) + 1)),
             UNCHANGED <<authority, reviews>>
      PROVE  Shared' /\ FilesGrow
  <2>1. PICK t : /\ Len(t) = Len(s) + 1 /\ t[Len(s) + 1] = d
                 /\ \A i \in 1..Len(s) : t[i] = s[i]
                 /\ Extends(s, t)
                 /\ decisions' = [decisions EXCEPT ![o] = t]
    <3>1. decisions' = [decisions EXCEPT ![o] = Append(s, d)]
      BY <1>7
    <3>2. /\ Len(Append(s, d)) = Len(s) + 1 /\ Append(s, d)[Len(s) + 1] = d
          /\ \A i \in 1..Len(s) : Append(s, d)[i] = s[i]
          /\ Extends(s, Append(s, d))
      BY <1>4, <1>5, Appended
    <3>3. QED
      BY <3>1, <3>2, Zenon
  <2>2. decisions'[o] = t /\ \A q \in Offers : q # o => decisions'[q] = decisions[q]
    BY <1>2, <2>1 DEF Sound, FilesType
  <2>3. UNCHANGED <<authorizations, consumptions, reviews>>
    BY <1>7 DEF authority
  <2>4. FilesGrow
    <3>1. ASSUME NEW q \in Offers
          PROVE  Extends(reviews[q], reviews'[q]) /\ Extends(decisions[q], decisions'[q])
      <4>1. Extends(reviews[q], reviews'[q])
        BY <2>3 DEF Extends, Sound, FilesType
      <4>2. Extends(decisions[q], decisions'[q])
        <5>1. CASE q = o
          BY <2>1, <2>2, <5>1
        <5>2. CASE q # o
          <6>1. decisions'[q] = decisions[q] /\ decisions[q] \in Seq(Publication)
            BY <2>2, <5>2 DEF Sound, FilesType
          <6>2. QED
            BY <6>1 DEF Extends
        <5>3. QED
          BY <5>1, <5>2
      <4>3. QED
        BY <4>1, <4>2
    <3>2. QED
      BY <2>3, <3>1 DEF FilesGrow
  <2>5. a.binding.predecessor = Len(s) /\ a.decision = Turn(Len(s))
    <3>1. \A i \in 1..Len(s) : s[i].auth # a
      BY <1>7
    <3>2. QED
      BY <1>2, <3>1, FollowsTheLast
  <2>6. Chained'
    <3>1. ASSUME NEW q \in Offers, NEW i \in 1..Len(decisions'[q])
          PROVE  /\ decisions'[q][i].auth.binding.predecessor = i - 1
                 /\ decisions'[q][i].auth.decision = IF i % 2 = 1 THEN "PUBLISH" ELSE "WITHDRAW"
      <4>1. CASE q # o
        BY <2>2, <4>1 DEF Shared, Chained
      <4>2. CASE q = o /\ i = Len(s) + 1
        <5>1. decisions'[q][i] = d
          BY <2>1, <2>2, <4>2
        <5>2. i - 1 = Len(s) /\ i \in Nat \ {0}
          BY <1>4, <4>2
        <5>3. Turn(i - 1) = IF i % 2 = 1 THEN "PUBLISH" ELSE "WITHDRAW"
          BY <5>2, Turns
        <5>4. QED
          BY <1>5, <2>5, <5>1, <5>2, <5>3
      <4>3. CASE q = o /\ i # Len(s) + 1
        <5>1. i \in 1..Len(s) /\ decisions'[q][i] = s[i]
          BY <1>4, <2>1, <2>2, <4>3
        <5>2. /\ s[i].auth.binding.predecessor = i - 1
              /\ s[i].auth.decision = IF i % 2 = 1 THEN "PUBLISH" ELSE "WITHDRAW"
          BY <1>2, <5>1 DEF Shared, Chained
        <5>3. QED
          BY <5>1, <5>2
      <4>4. QED
        BY <4>1, <4>2, <4>3
    <3>2. QED
      BY <2>3, <3>1 DEF Shared, Chained
  <2>7. FilesSound'
    <3>1. ASSUME NEW q \in Offers, NEW i \in 1..Len(decisions'[q])
          PROVE  decisions'[q][i].auth \in authorizations /\ decisions'[q][i].auth.of = q
      <4>1. CASE q # o
        BY <2>2, <4>1 DEF Shared, FilesSound
      <4>2. CASE q = o /\ i = Len(s) + 1
        <5>1. decisions'[q][i] = d
          BY <2>1, <2>2, <4>2
        <5>2. QED
          BY <1>2, <1>5, <4>2, <5>1
      <4>3. CASE q = o /\ i # Len(s) + 1
        <5>1. i \in 1..Len(s) /\ decisions'[q][i] = s[i]
          BY <1>4, <2>1, <2>2, <4>3
        <5>2. QED
          BY <1>2, <4>3, <5>1 DEF Shared, FilesSound
      <4>4. QED
        BY <4>1, <4>2, <4>3
    <3>2. QED
      BY <2>3, <3>1 DEF FilesSound
  <2>8. AuthoritySound'
    <3>1. ASSUME NEW b \in authorizations PROVE Behind(b)'
      <4>1. b \in Authorization /\ Behind(b)
        BY DEF Sound, FilesType, Shared, AuthoritySound
      <4>2. QED
        BY <2>4, <4>1, BehindGrows DEF Sound
    <3>2. QED
      BY <2>3, <3>1 DEF Shared, AuthoritySound, SameIntent
  <2>9. QueueSound'
    <3>1. pc'[p] = "consume" /\ \A q \in Processes : q # p => pc'[q] = pc[q]
      BY <1>7 DEF Goto, Sound, ProcessType
    <3>2. \A q \in Processes : pc'[q] # "recording"
      BY <1>1, <3>1 DEF Shared, QueueSound
    <3>3. QED
      BY <3>2 DEF QueueSound
  <2>10. \A q \in Processes : Knows(pc[q], my[q])'
    <3> SUFFICES ASSUME NEW m, m = Answer(my[p], Len(s) + 1)
                 PROVE  \A q \in Processes : Knows(pc[q], my[q])'
      OBVIOUS
    <3>1. m.auth = a /\ m.id = Len(s) + 1
      BY DEF Answer, NothingRead
    <3>2. Len(s) + 1 \in 1..Len(decisions'[o]) /\ decisions'[o][Len(s) + 1].auth = a
      BY <1>4, <1>5, <2>1, <2>2
    <3>3. a.decision \notin Verdicts
      BY <1>2 DEF Verdicts, Actions
    <3>4. Backed(a, Len(s) + 1)'
      BY <1>2, <3>2, <3>3 DEF Backed
    <3>5. Knows("consume", m)'
      BY <3>1, <3>4 DEF Knows, Backed
    <3>6. QED
      BY <1>7, <2>4, <3>5, MovesKnow
  <2>11. QED
    BY <2>3, <2>4, <2>6, <2>7, <2>8, <2>9, <2>10, StaysBacked DEF Shared
<1>8. QED
  BY <1>3, <1>6, <1>7 DEF RecordDecision

(* Every step lets the files grow, and keeps what is said of them. *)
LEMMA SharedStep ==
  ASSUME turns' = "kept", Sound, Shared, [Next]_vars
  PROVE  Sound' /\ Shared' /\ FilesGrow
<1>1. Sound'
  BY NextSound, StutterSound
<1>2. CASE Tick \/ (\E o \in Offers : Requalify(o)) \/ UNCHANGED vars
  <2>1. UNCHANGED <<authorizations, consumptions, reviews, decisions, pc, my>>
    BY <1>2 DEF Tick, Requalify, vars, authority, process
  <2>2. QED
    BY <1>1, <2>1, WorldShared
<1>3. ASSUME NEW p \in Processes,
             \/ \E r \in Requests : Prepare(p, r[1], r[2])
             \/ \E a \in authorizations : Execute(p, a)
             \/ Build(p)
      PROVE  Shared' /\ FilesGrow
  <2>1. \A r \in Requests : r[1] \in Offers /\ r[2] \in Verdicts \cup Actions
    BY DEF Verdicts, Actions
  <2>2. QED
    BY <1>3, <2>1, BeginsShared
<1>4. ASSUME NEW p \in Processes,
             ReadReview(p) \/ ReadPredecessor(p) \/ Draw(p) \/ AssertBinding(p) \/ Evaluate(p) \/ Check(p)
      PROVE  Shared' /\ FilesGrow
  BY <1>4, ReadsShared, DrawShared, WorksShared
<1>5. ASSUME NEW p \in Processes,
             RecordAuthorization(p) \/ RecordReview(p) \/ RecordDecision(p) \/ Consume(p)
      PROVE  Shared' /\ FilesGrow
  BY <1>1, <1>5, RecordAuthorizationShared, RecordReviewShared, RecordDecisionShared, ConsumeShared
<1>6. ASSUME NEW p \in Processes,
             \/ Judge(p) \/ Snapshot(p)
             \/ \E o \in Offers : Look(p, o)
      PROVE  Shared' /\ FilesGrow
  BY <1>6, BuilderShared
<1>7. ASSUME NEW p \in Processes, Returns(p) \/ Crash(p) PROVE Shared' /\ FilesGrow
  BY <1>7, EndsShared DEF Returns, Crash
<1>8. Shared' /\ FilesGrow
  BY <1>2, <1>3, <1>4, <1>5, <1>6, <1>7 DEF Next
<1>9. QED
  BY <1>1, <1>8

LEMMA SharedInit == Init => Shared
<1> SUFFICES ASSUME Init PROVE Shared
  OBVIOUS
<1>1. /\ market \in [Offers -> Markets]
      /\ authorizations = {Earlier(o, d, market[o]) : o \in Established, d \in {"REVIEWED", "PUBLISH"}}
      /\ consumptions = {[of |-> a, id |-> 1] : a \in authorizations}
  BY DEF Init
<1>2. ASSUME NEW o \in Offers
      PROVE  /\ reviews[o] = IF o \in Established THEN <<Earlier(o, "REVIEWED", market[o])>> ELSE << >>
             /\ decisions[o] = IF o \in Established
                               THEN <<[auth |-> Earlier(o, "PUBLISH", market[o]), review |-> 1]>>
                               ELSE << >>
  BY DEF Init
<1>3. ASSUME NEW o \in Established, NEW d \in {"REVIEWED", "PUBLISH"}
      PROVE  /\ Earlier(o, d, market[o]).of = o /\ Earlier(o, d, market[o]).decision = d
             /\ Earlier(o, d, market[o]).binding.predecessor = 0
             /\ Earlier(o, d, market[o]).binding.review = IF d = "PUBLISH" THEN 1 ELSE 0
  <2>1. o \in Offers /\ market[o] \in Markets
    BY <1>1
  <2>2. ASSUME NEW found \in Markets
        PROVE  /\ Earlier(o, d, found).of = o /\ Earlier(o, d, found).decision = d
               /\ Earlier(o, d, found).binding.predecessor = 0
               /\ Earlier(o, d, found).binding.review = IF d = "PUBLISH" THEN 1 ELSE 0
    BY <2>1, EarlierTypes
  <2>3. QED
    BY <2>1, <2>2
<1>4. ASSUME NEW o \in Established
      PROVE  /\ Len(reviews[o]) = 1 /\ reviews[o][1] = Earlier(o, "REVIEWED", market[o])
             /\ Len(decisions[o]) = 1 /\ decisions[o][1].auth = Earlier(o, "PUBLISH", market[o])
  <2> SUFFICES ASSUME NEW r, r = Earlier(o, "REVIEWED", market[o]),
                      NEW e, e = Earlier(o, "PUBLISH", market[o])
               PROVE  /\ Len(reviews[o]) = 1 /\ reviews[o][1] = r
                      /\ Len(decisions[o]) = 1 /\ decisions[o][1].auth = e
    OBVIOUS
  <2>1. reviews[o] = <<r>> /\ decisions[o] = <<[auth |-> e, review |-> 1]>>
    BY <1>2
  <2>2. QED
    BY <2>1
<1>5. ASSUME NEW o \in Offers, o \notin Established
      PROVE  Len(reviews[o]) = 0 /\ Len(decisions[o]) = 0
  <2>1. reviews[o] = << >> /\ decisions[o] = << >>
    BY <1>2, <1>5
  <2>2. QED
    BY <2>1
<1>6. QueueSound /\ \A p \in Processes : Knows(pc[p], my[p])
  BY DEF Init, QueueSound, Knows
<1>7. Chained
  <2>1. ASSUME NEW o \in Offers, NEW i \in 1..Len(reviews[o]) PROVE reviews[o][i].binding.review = i - 1
    BY <1>3, <1>4, <1>5
  <2>2. ASSUME NEW o \in Offers, NEW i \in 1..Len(decisions[o])
        PROVE  /\ decisions[o][i].auth.binding.predecessor = i - 1
               /\ decisions[o][i].auth.decision = IF i % 2 = 1 THEN "PUBLISH" ELSE "WITHDRAW"
    <3>1. o \in Established /\ i = 1
      <4>1. CASE o \in Established
        <5>1. Len(decisions[o]) = 1
          BY <1>4, <4>1
        <5>2. QED
          BY <4>1, <5>1
      <4>2. CASE o \notin Established
        BY <1>5, <4>2
      <4>3. QED
        BY <4>1, <4>2
    <3>2. decisions[o][i].auth = Earlier(o, "PUBLISH", market[o])
      BY <1>4, <3>1
    <3>3. QED
      BY <1>3, <3>1, <3>2
  <2>3. QED
    BY <2>1, <2>2 DEF Chained
<1>8. AllBacked
  <2>1. ASSUME NEW o \in Established, NEW d \in {"REVIEWED", "PUBLISH"}
        PROVE  Backed(Earlier(o, d, market[o]), 1)
    BY <1>3, <1>4 DEF Backed, Verdicts
  <2>2. ASSUME NEW c \in consumptions PROVE Backed(c.of, c.id)
    BY <1>1, <2>1
  <2>3. QED
    BY <2>2 DEF AllBacked, Backed
<1>9. FilesSound
  <2>1. ASSUME NEW o \in Offers, NEW i \in 1..Len(decisions[o])
        PROVE  decisions[o][i].auth \in authorizations /\ decisions[o][i].auth.of = o
    <3>1. o \in Established /\ i = 1
      <4>1. CASE o \in Established
        <5>1. Len(decisions[o]) = 1
          BY <1>4, <4>1
        <5>2. QED
          BY <4>1, <5>1
      <4>2. CASE o \notin Established
        BY <1>5, <4>2
      <4>3. QED
        BY <4>1, <4>2
    <3>2. decisions[o][i].auth = Earlier(o, "PUBLISH", market[o])
      BY <1>4, <3>1
    <3>3. Earlier(o, "PUBLISH", market[o]) \in authorizations
      BY <1>1, <3>1
    <3>4. Earlier(o, "PUBLISH", market[o]).of = o
      BY <1>3, <3>1
    <3>5. QED
      BY <3>2, <3>3, <3>4
  <2>2. QED
    BY <2>1 DEF FilesSound
<1>10. AuthoritySound
  <2>1. ASSUME NEW a \in authorizations
        PROVE  \E o \in Established, d \in {"REVIEWED", "PUBLISH"} : a = Earlier(o, d, market[o])
    BY <1>1
  <2>2. ASSUME NEW a \in authorizations PROVE Behind(a)
    <3>1. PICK o \in Established, d \in {"REVIEWED", "PUBLISH"} : a = Earlier(o, d, market[o])
      BY <2>1
    <3>2. a.of = o /\ a.decision = d /\ a.binding.predecessor = 0
      BY <1>3, <3>1
    <3>3. Len(decisions[o]) = 1 /\ Turn(0) = "PUBLISH"
      BY <1>4 DEF Turn
    <3>4. QED
      BY <3>2, <3>3 DEF Behind, Actions
  <2>3. ASSUME NEW a \in authorizations, NEW b \in authorizations, SameIntent(a, b) PROVE a = b
    <3>1. PICK o \in Established, d \in {"REVIEWED", "PUBLISH"} : a = Earlier(o, d, market[o])
      BY <2>1
    <3>2. PICK q \in Established, e \in {"REVIEWED", "PUBLISH"} : b = Earlier(q, e, market[q])
      BY <2>1
    <3>3. a.of = o /\ a.decision = d /\ b.of = q /\ b.decision = e
      BY <1>3, <3>1, <3>2
    <3>4. o = q /\ d = e
      BY <2>3, <3>3 DEF SameIntent, Verdicts
    <3>5. QED
      BY <3>1, <3>2, <3>4
  <2>4. QED
    BY <2>2, <2>3 DEF AuthoritySound
<1>11. QED
  BY <1>6, <1>7, <1>8, <1>9, <1>10 DEF Shared

(* Turns once broken stay so. *)
LEMMA TurnsKept == ASSUME [Next]_vars, turns' = "kept" PROVE turns = "kept"
<1>1. CASE UNCHANGED history \/ Stands
  BY <1>1 DEF history, Stands
<1>2. ASSUME NEW p \in Processes,
             \/ \E r \in Requests : Prepare(p, r[1], r[2])
             \/ \E a \in authorizations : Execute(p, a)
             \/ Build(p)
      PROVE  UNCHANGED history
  BY <1>2 DEF Prepare, Execute, Build, Begin
<1>3. ASSUME NEW p \in Processes, RecordAuthorization(p) \/ Consume(p) PROVE UNCHANGED history
  BY <1>3 DEF RecordAuthorization, Consume
<1>4. ASSUME NEW p \in Processes,
             \/ ReadReview(p) \/ ReadPredecessor(p) \/ Draw(p) \/ AssertBinding(p) \/ Evaluate(p)
             \/ Check(p) \/ Returns(p) \/ Crash(p)
      PROVE  Stands
  BY <1>4 DEF ReadReview, ReadPredecessor, Draw, AssertBinding, Evaluate, Check, Returns, Crash, Goes, Ends
<1>5. ASSUME NEW p \in Processes, Judge(p) \/ Snapshot(p) \/ \E o \in Offers : Look(p, o) PROVE Stands
  BY <1>5 DEF Judge, Snapshot, Look, Goes
<1>6. ASSUME NEW p \in Processes, RecordReview(p) \/ RecordDecision(p) PROVE UNCHANGED history \/ Stands
  BY <1>6 DEF RecordReview, RecordDecision, Goes, Ends
<1>7. CASE Tick \/ (\E o \in Offers : Requalify(o)) \/ UNCHANGED vars
  BY <1>1, <1>7 DEF Tick, Requalify, vars
<1>8. QED
  BY <1>1, <1>2, <1>3, <1>4, <1>5, <1>6, <1>7 DEF Next

LEMMA SharedAlways == Spec => [](Sound /\ (turns = "kept" => Shared))
<1>1. Init => Sound /\ Shared
  BY InitSound, SharedInit
<1>2. Sound /\ (turns = "kept" => Shared) /\ [Next]_vars => (Sound /\ (turns = "kept" => Shared))'
  BY SharedStep, TurnsKept, NextSound, StutterSound
<1>3. QED
  BY <1>1, <1>2, PTL DEF Spec
-----------------------------------------------------------------------------
(* While decisions have been recorded one at a time, each follows the one  *)
(* its authorization was drawn up against, and publications and            *)
(* withdrawals alternate, though recording looks at no predecessor: an     *)
(* intent has one authorization, and an authorization one decision.        *)
THEOREM DecisionsAreChained == Spec => []DecisionsChained
<1>1. (turns = "kept" => Shared) => DecisionsChained
  BY DEF Shared, Chained, DecisionsChained
<1>2. QED
  BY <1>1, SharedAlways, PTL

(* While decisions have been recorded one at a time, a consumption names   *)
(* the decision its authorization led to, wherever commands die between    *)
(* the two files and are given again.                                      *)
THEOREM ConsumptionsAreBacked == Spec => []ConsumptionsBacked
<1>1. (turns = "kept" => Shared) => ConsumptionsBacked
  BY DEF Shared, AllBacked, Backed, ConsumptionsBacked
<1>2. QED
  BY <1>1, SharedAlways, PTL
-----------------------------------------------------------------------------
(* What every change of the decision file and every command between its     *)
(* read and its write keep, in turns or at once: what stood when last       *)
(* nobody was between them.                                                 *)
Grows(f, g) == \A o \in Offers : Extends(f[o], g[o])

StandingKept ==
  /\ Grows(standing, decisions)
  /\ \A p \in Processes : pc[p] = "recording" => Grows(standing, my[p].file)

Histories == [Offers -> Seq(Publication)]

LEMMA GrowsItself == ASSUME NEW f \in Histories PROVE Grows(f, f)
BY DEF Grows, Extends, Histories

LEMMA GrowsOn ==
  ASSUME NEW f \in Histories, NEW g \in Histories, NEW h \in Histories, Grows(f, g), Grows(g, h)
  PROVE  Grows(f, h)
<1>1. ASSUME NEW o \in Offers PROVE Extends(f[o], h[o])
  <2>1. f[o] \in Seq(Publication) /\ g[o] \in Seq(Publication) /\ h[o] \in Seq(Publication)
    BY DEF Histories
  <2>2. Extends(f[o], g[o]) /\ Extends(g[o], h[o])
    BY DEF Grows
  <2>3. PICK s, t, u : s = f[o] /\ t = g[o] /\ u = h[o]
    OBVIOUS
  <2>4. Len(s) \in Nat /\ Len(t) \in Nat /\ Len(u) \in Nat
    BY <2>1, <2>3
  <2>5. PICK i, j, k \in Nat : i = Len(s) /\ j = Len(t) /\ k = Len(u)
    BY <2>4
  <2>6. i <= j /\ j <= k
    BY <2>2, <2>3, <2>5 DEF Extends
  <2>7. ASSUME NEW n \in 1..i PROVE u[n] = s[n]
    <3>1. n \in 1..j
      BY <2>6
    <3>2. QED
      BY <2>2, <2>3, <2>5, <3>1 DEF Extends
  <2>8. QED
    BY <2>3, <2>5, <2>6, <2>7 DEF Extends
<1>2. QED
  BY <1>1 DEF Grows

LEMMA AppendGrows ==
  ASSUME NEW f \in Histories, NEW o \in Offers, NEW d \in Publication
  PROVE  Grows(f, [f EXCEPT ![o] = Append(@, d)])
<1>1. ASSUME NEW q \in Offers PROVE Extends(f[q], [f EXCEPT ![o] = Append(@, d)][q])
  <2>1. f[q] \in Seq(Publication)
    BY DEF Histories
  <2>2. CASE q = o
    <3>1. [f EXCEPT ![o] = Append(@, d)][q] = Append(f[q], d)
      BY <2>2 DEF Histories
    <3>2. QED
      BY <2>1, <3>1, Appended
  <2>3. CASE q # o
    <3>1. [f EXCEPT ![o] = Append(@, d)][q] = f[q]
      BY <2>3 DEF Histories
    <3>2. QED
      BY <2>1, <3>1 DEF Extends
  <2>4. QED
    BY <2>2, <2>3
<1>2. QED
  BY <1>1 DEF Grows

(* A step that leaves the file, and puts nobody between read and write. *)
LEMMA DecisionsStay ==
  ASSUME Sound, StandingKept, decisions' = decisions, standing' = standing \/ Stands,
         \A q \in Processes : pc'[q] = "recording" => pc[q] = "recording" /\ my'[q] = my[q]
  PROVE  Grows(standing, decisions') /\ StandingKept'
<1>0. decisions \in Histories /\ standing \in Histories
  BY DEF Sound, FilesType, WorldType, Histories
<1>1. CASE standing' = standing
  BY <1>1 DEF StandingKept, Grows
<1>2. CASE standing' # standing
  <2>1. standing' = decisions /\ \A q \in Processes : pc'[q] # "recording"
    BY <1>2 DEF Stands
  <2>2. Grows(standing', decisions')
    BY <1>0, <2>1, GrowsItself
  <2>3. Grows(standing, decisions')
    BY DEF StandingKept, Grows
  <2>4. QED
    BY <2>1, <2>2, <2>3 DEF StandingKept, Grows
<1>3. QED
  BY <1>1, <1>2

(* A step that reads the file to write it. *)
LEMMA DecisionsRead ==
  ASSUME Sound, StandingKept, NEW p \in Processes, NEW m, m.file = decisions, Goes(p, "recording", m)
  PROVE  Grows(standing, decisions') /\ StandingKept'
<1>0. pc \in [Processes -> PC] /\ my \in [Processes -> My]
  BY DEF Sound, ProcessType
<1>1. pc'[p] = "recording" /\ my'[p] = m /\ decisions' = decisions
  BY <1>0 DEF Goes, Goto, Learns, files
<1>2. standing' = standing
  BY <1>1 DEF Goes, Stands
<1>3. \A q \in Processes : q # p => pc'[q] = pc[q] /\ my'[q] = my[q]
  BY <1>0 DEF Goes, Goto, Learns
<1>4. ASSUME NEW q \in Processes, pc'[q] = "recording" PROVE Grows(standing, my'[q].file)
  BY <1>1, <1>3, <1>4 DEF StandingKept
<1>5. QED
  BY <1>1, <1>2, <1>4 DEF StandingKept, Grows

(* A step that appends to what was read. *)
LEMMA DecisionsWritten ==
  ASSUME Sound, Sound', StandingKept, NEW p \in Processes, pc[p] = "recording", NEW m,
         Goto(p, "consume"), Learns(p, m), Stands, Grows(my[p].file, decisions')
  PROVE  Grows(standing, decisions') /\ StandingKept'
<1>0. /\ pc \in [Processes -> PC] /\ my \in [Processes -> My] /\ my[p].file \in Histories
      /\ standing \in Histories /\ decisions' \in Histories
  BY DEF Sound, ProcessType, WorldType, FilesType, My, Histories
<1>1. Grows(standing, decisions')
  BY <1>0, GrowsOn DEF StandingKept
<1>2. pc'[p] = "consume" /\ \A q \in Processes : q # p => pc'[q] = pc[q] /\ my'[q] = my[q]
  BY <1>0 DEF Goto, Learns
<1>3. CASE standing' = standing
  <2>1. ASSUME NEW q \in Processes, pc'[q] = "recording" PROVE Grows(standing, my'[q].file)
    BY <1>2, <2>1 DEF StandingKept
  <2>2. QED
    BY <1>1, <1>3, <2>1 DEF StandingKept, Grows
<1>4. CASE standing' # standing
  <2>1. standing' = decisions' /\ \A q \in Processes : pc'[q] # "recording"
    BY <1>4 DEF Stands
  <2>2. Grows(standing', decisions')
    BY <1>0, <2>1, GrowsItself
  <2>3. QED
    BY <1>1, <2>1, <2>2 DEF StandingKept, Grows
<1>5. QED
  BY <1>3, <1>4

(* The steps that neither read the decision file to write it nor write it,  *)
(* and the reviews that grow under their lock.                              *)
DecisionsLeft(p) ==
  /\ decisions' = decisions /\ (standing' = standing \/ Stands)
  /\ \A o \in Offers : Extends(reviews[o], reviews'[o])
  /\ \A q \in Processes : pc'[q] = "recording" => pc[q] = "recording" /\ my'[q] = my[q]

LEMMA MovesLeave ==
  ASSUME Sound, NEW p \in Processes, NEW to, to # "recording", Goto(p, to), NEW m, Learns(p, m),
         decisions' = decisions, standing' = standing \/ Stands, reviews' = reviews
  PROVE  DecisionsLeft(p)
<1>1. pc'[p] = to /\ \A q \in Processes : q # p => pc'[q] = pc[q] /\ my'[q] = my[q]
  BY DEF Goto, Learns, Sound, ProcessType
<1>2. \A o \in Offers : Extends(reviews[o], reviews'[o])
  BY DEF Sound, FilesType, Extends
<1>3. QED
  BY <1>1, <1>2 DEF DecisionsLeft

LEMMA EndsLeave == ASSUME Sound, NEW p \in Processes, Ends(p) PROVE DecisionsLeft(p)
BY MovesLeave DEF Ends, Leave, files

LEMMA GoesLeave ==
  ASSUME Sound, NEW p \in Processes, NEW to, to # "recording", NEW m, Goes(p, to, m)
  PROVE  DecisionsLeft(p)
BY MovesLeave DEF Goes, files

LEMMA BeginsLeave ==
  ASSUME Sound, NEW p \in Processes,
         NEW what, NEW to, NEW m, to # "recording", Begin(p, what, to, m)
  PROVE  DecisionsLeft(p)
BY MovesLeave DEF Begin, files, history

LEMMA ReviewLeaves == ASSUME Sound, NEW p \in Processes, RecordReview(p) PROVE DecisionsLeft(p)
<1>1. CASE Ends(p)
  BY <1>1, EndsLeave
<1>2. CASE \E m : Goes(p, "consume", m)
  BY <1>2, GoesLeave
<1>3. CASE /\ reviews' = [reviews EXCEPT ![my[p].of] = Append(@, my[p].auth)]
           /\ Goto(p, "consume") /\ UNCHANGED <<decisions, history>>
           /\ \E m : Learns(p, m)
  <2>1. my[p].of \in Offers /\ my[p].auth \in Authorization
    <3>1. pc[p] \in Working
      BY DEF RecordReview, Working
    <3>2. QED
      BY <3>1, WorkerTypes
  <2>2. ASSUME NEW o \in Offers PROVE Extends(reviews[o], reviews'[o])
    <3>1. reviews[o] \in Seq(Authorization)
      BY DEF Sound, FilesType
    <3>2. CASE o = my[p].of
      <4>1. reviews'[o] = Append(reviews[o], my[p].auth)
        BY <1>3, <2>1, <3>2 DEF Sound, FilesType
      <4>2. QED
        BY <2>1, <3>1, <4>1, Appended
    <3>3. CASE o # my[p].of
      <4>1. reviews'[o] = reviews[o]
        BY <1>3, <2>1, <3>3 DEF Sound, FilesType
      <4>2. QED
        BY <3>1, <4>1 DEF Extends
    <3>4. QED
      BY <3>2, <3>3
  <2>3. pc'[p] = "consume" /\ \A q \in Processes : q # p => pc'[q] = pc[q] /\ my'[q] = my[q]
    BY <1>3 DEF Goto, Learns, Sound, ProcessType
  <2>4. QED
    BY <1>3, <2>2, <2>3 DEF DecisionsLeft, history
<1>4. QED
  BY <1>1, <1>2, <1>3, Zenon DEF RecordReview

LEMMA OthersLeave ==
  ASSUME Sound, NEW p \in Processes,
         \/ \E r \in Requests : Prepare(p, r[1], r[2])
         \/ \E a \in authorizations : Execute(p, a)
         \/ ReadReview(p) \/ ReadPredecessor(p) \/ Draw(p) \/ RecordAuthorization(p) \/ AssertBinding(p)
         \/ RecordReview(p) \/ Evaluate(p) \/ Consume(p)
         \/ Build(p) \/ Judge(p) \/ Snapshot(p) \/ Returns(p)
         \/ \E o \in Offers : Look(p, o)
         \/ Crash(p)
  PROVE  DecisionsLeft(p)
<1>1. CASE \/ \E r \in Requests : Prepare(p, r[1], r[2])
           \/ \E a \in authorizations : Execute(p, a)
           \/ Build(p)
  BY <1>1, BeginsLeave DEF Prepare, Execute, Build
<1>2. CASE ReadReview(p) \/ ReadPredecessor(p) \/ Judge(p) \/ Snapshot(p)
  BY <1>2, GoesLeave DEF ReadReview, ReadPredecessor, Judge, Snapshot
<1>3. CASE \E o \in Offers : Look(p, o)
  <2>1. PICK o \in Offers : Look(p, o)
    BY <1>3
  <2>2. \E to \in {"judge", "look"} : \E m : Goes(p, to, m)
    BY <2>1 DEF Look
  <2>3. QED
    BY <2>2, GoesLeave
<1>4. CASE Draw(p)
  BY <1>4, GoesLeave, EndsLeave DEF Draw
<1>5. CASE Evaluate(p)
  BY <1>5, GoesLeave, EndsLeave DEF Evaluate
<1>6. CASE AssertBinding(p)
  <2>1. Ends(p) \/ \E to \in {"decide", "evaluate"} : \E m : Goes(p, to, m)
    BY <1>6 DEF AssertBinding
  <2>2. QED
    BY <2>1, GoesLeave, EndsLeave
<1>7. CASE RecordAuthorization(p) \/ Consume(p)
  BY <1>7, MovesLeave DEF RecordAuthorization, Consume, Leave, history
<1>8. CASE Returns(p) \/ Crash(p)
  BY <1>8, EndsLeave DEF Returns, Crash
<1>9. QED
  BY <1>1, <1>2, <1>3, <1>4, <1>5, <1>6, <1>7, <1>8, ReviewLeaves

HistoriesKept ==
  \A o \in Offers : Extends(reviews[o], reviews'[o]) /\ Extends(standing[o], decisions'[o])

LEMMA StandingStep ==
  ASSUME Sound, StandingKept, [Next]_vars
  PROVE  HistoriesKept /\ StandingKept'
<1>0. Sound'
  BY NextSound, StutterSound
<1>1. ASSUME NEW p \in Processes, DecisionsLeft(p) PROVE HistoriesKept /\ StandingKept'
  BY <1>1, DecisionsStay DEF DecisionsLeft, HistoriesKept, Grows
<1>r. ASSUME reviews' = reviews PROVE \A o \in Offers : Extends(reviews[o], reviews'[o])
  BY <1>r DEF Sound, FilesType, Extends
<1>2. CASE Tick \/ (\E o \in Offers : Requalify(o)) \/ UNCHANGED vars
  <2>1. UNCHANGED <<reviews, decisions, standing, pc, my>>
    BY <1>2 DEF Tick, Requalify, vars, process, history
  <2>2. QED
    BY <1>r, <2>1, DecisionsStay DEF HistoriesKept, Grows
<1>3. ASSUME NEW p \in Processes, Check(p) PROVE HistoriesKept /\ StandingKept'
  <2>1. CASE Ends(p)
    BY <1>1, <2>1, EndsLeave
  <2>2. CASE ~Ends(p)
    <3>1. Goes(p, "recording", [my[p] EXCEPT !.file = decisions])
      BY <1>3, <2>2 DEF Check
    <3>2. [my[p] EXCEPT !.file = decisions].file = decisions
      BY DEF Sound, ProcessType, My
    <3>3. reviews' = reviews
      BY <3>1 DEF Goes, files
    <3>4. QED
      BY <1>r, <3>1, <3>2, <3>3, DecisionsRead DEF HistoriesKept, Grows
  <2>3. QED
    BY <2>1, <2>2
<1>4. ASSUME NEW p \in Processes, RecordDecision(p) PROVE HistoriesKept /\ StandingKept'
  <2>1. CASE \E m : Goes(p, "consume", m)
    BY <1>1, <2>1, GoesLeave
  <2>2. CASE ~\E m : Goes(p, "consume", m)
    <3> DEFINE d == [auth |-> my[p].auth, review |-> my[p].review]
    <3>1. /\ pc[p] = "recording" /\ Goto(p, "consume") /\ Stands /\ reviews' = reviews
          /\ decisions' = [my[p].file EXCEPT ![my[p].of] = Append(@, d)]
          /\ \E m : Learns(p, m)
      BY <1>4, <2>2 DEF RecordDecision
    <3>2. pc[p] \in Working /\ my[p].review \in Nat
      BY <3>1 DEF Working, Sound, ProcessesSound, Fits
    <3>3. my[p].of \in Offers /\ my[p].auth \in Authorization /\ my[p] \in My
      BY <3>2, WorkerTypes
    <3>4. d \in Publication /\ my[p].file \in Histories
      BY <3>2, <3>3 DEF Publication, My, Histories
    <3> HIDE DEF d
    <3>5. Grows(my[p].file, decisions')
      BY <3>1, <3>3, <3>4, AppendGrows
    <3>6. QED
      BY <1>0, <1>r, <3>1, <3>5, DecisionsWritten DEF HistoriesKept, Grows
  <2>3. QED
    BY <2>1, <2>2
<1>5. QED
  BY <1>1, <1>2, <1>3, <1>4, OthersLeave DEF Next

(* Whether the commands share a queue or not, no step takes back or         *)
(* replaces a recorded review, nor a publication decision that was in the   *)
(* file when last no command was between its read and its write.            *)
THEOREM HistoryIsKept == Spec => HistoryKept
<1>1. Init => Sound /\ StandingKept
  <2>1. Init => Sound
    BY InitSound
  <2>2. Sound /\ Init => StandingKept
    <3> SUFFICES ASSUME Sound, Init PROVE StandingKept
      OBVIOUS
    <3>1. decisions \in Histories /\ standing = decisions
      BY DEF Sound, FilesType, Histories, Init
    <3>2. \A p \in Processes : pc[p] = "idle"
      BY DEF Init
    <3>3. QED
      BY <3>1, <3>2, GrowsItself DEF StandingKept
  <2>3. QED
    BY <2>1, <2>2
<1>2. (Sound /\ StandingKept) /\ [Next]_vars => (Sound /\ StandingKept)'
  BY NextSound, StutterSound, StandingStep
<1>3. (Sound /\ StandingKept) /\ [Next]_vars =>
        [\A o \in Offers : Extends(reviews[o], reviews'[o]) /\ Extends(standing[o], decisions'[o])]_vars
  BY StandingStep DEF HistoriesKept
<1>4. QED
  BY <1>1, <1>2, <1>3, PTL DEF Spec, HistoryKept
-----------------------------------------------------------------------------
(* The order of the naturals, and what it gives: a least element of every  *)
(* set of naturals, and induction, with a set for what is shown.           *)
Below == {pair \in Nat \X Nat : pair[1] < pair[2]}

LEMMA BelowWellFounded == IsWellFoundedOn(Below, Nat)
BY NatLessThanWellFounded DEF OpToRel, Below

LEMMA Least ==
  ASSUME NEW S, S \subseteq Nat, S # {}
  PROVE  \E x \in S : \A y \in S : x <= y
<1>1. PICK x \in S : \A y \in S : <<y, x>> \notin Below
  BY BelowWellFounded, WFMin
<1>2. ASSUME NEW y \in S PROVE x <= y
  <2>1. <<y, x>> \notin Below
    BY <1>1
  <2>2. QED
    BY <2>1 DEF Below
<1>3. QED
  BY <1>2

LEMMA SetInduction ==
  ASSUME NEW S, 0 \in S, \A n \in Nat : n \in S => n + 1 \in S
  PROVE  Nat \subseteq S
<1> SUFFICES ASSUME Nat \ S # {} PROVE FALSE
  OBVIOUS
<1>1. PICK x \in Nat \ S : \A y \in Nat \ S : x <= y
  BY Least
<1>2. x # 0 /\ x - 1 \in Nat
  BY <1>1
<1>3. x - 1 \in S
  BY <1>1, <1>2
<1>4. QED
  BY <1>1, <1>2, <1>3

(* A finite set of naturals that is not empty has a greatest element, by   *)
(* induction over its size.                                                *)
Topped(S) == S = {} \/ \E x \in S : \A y \in S : y <= x

LEMMA Greatest ==
  ASSUME NEW S \in SUBSET Nat, IsFiniteSet(S)
  PROVE  Topped(S)
<1> DEFINE Sizes == {n \in Nat : \A R \in SUBSET Nat :
                                    IsFiniteSet(R) /\ Cardinality(R) = n => Topped(R)}
<1>1. 0 \in Sizes
  BY FS_EmptySet DEF Topped
<1>2. ASSUME NEW n \in Nat, n \in Sizes PROVE n + 1 \in Sizes
  <2> SUFFICES ASSUME NEW R \in SUBSET Nat, IsFiniteSet(R), Cardinality(R) = n + 1
               PROVE  Topped(R)
    OBVIOUS
  <2>1. PICK x : x \in R
    BY FS_EmptySet
  <2>2. IsFiniteSet(R \ {x}) /\ Cardinality(R \ {x}) = n
    <3>1. IsFiniteSet(R \ {x}) /\ Cardinality(R \ {x}) = Cardinality(R) - 1
      BY <2>1, FS_RemoveElement
    <3>2. (n + 1) - 1 = n
      OBVIOUS
    <3>3. QED
      BY <3>1, <3>2
  <2>3. Topped(R \ {x})
    BY <1>2, <2>2
  <2>4. CASE R \ {x} = {}
    <3>1. \A y \in R : y <= x
      BY <2>1, <2>4
    <3>2. QED
      BY <2>1, <3>1 DEF Topped
  <2>5. CASE R \ {x} # {}
    <3>1. PICK z \in R \ {x} : \A y \in R \ {x} : y <= z
      BY <2>3, <2>5 DEF Topped
    <3>2. CASE x <= z
      <4>1. \A y \in R : y <= z
        BY <3>1, <3>2
      <4>2. QED
        BY <3>1, <4>1 DEF Topped
    <3>3. CASE ~(x <= z)
      <4>1. \A y \in R : y <= x
        BY <2>1, <3>1, <3>3
      <4>2. QED
        BY <2>1, <4>1 DEF Topped
    <3>4. QED
      BY <3>2, <3>3
  <2>6. QED
    BY <2>4, <2>5
<1>3. Nat \subseteq Sizes
  <2> HIDE DEF Sizes
  <2>1. QED
    BY <1>1, <1>2, SetInduction
<1>4. Cardinality(S) \in Nat
  BY FS_CardinalityType
<1>5. QED
  BY <1>3, <1>4

(* The elements of a finite set of naturals below a given one. *)
Under(s, o) == {c \in s : c < o}

LEMMA UnderTypes ==
  ASSUME NEW s \in SUBSET Nat, IsFiniteSet(s), NEW o \in Nat
  PROVE  /\ IsFiniteSet(Under(s, o)) /\ Cardinality(Under(s, o)) \in Nat
         /\ \A u \in SUBSET s : /\ IsFiniteSet(Under(u, o))
                                /\ Cardinality(Under(u, o)) <= Cardinality(Under(s, o))
<1>1. Under(s, o) \in SUBSET s
  BY DEF Under
<1>2. IsFiniteSet(Under(s, o)) /\ Cardinality(Under(s, o)) \in Nat
  BY <1>1, FS_Subset, FS_CardinalityType
<1>3. ASSUME NEW u \in SUBSET s
      PROVE  IsFiniteSet(Under(u, o)) /\ Cardinality(Under(u, o)) <= Cardinality(Under(s, o))
  <2>1. Under(u, o) \in SUBSET Under(s, o)
    BY DEF Under
  <2>2. QED
    BY <1>2, <2>1, FS_Subset
<1>4. QED
  BY <1>2, <1>3

LEMMA CheapestIs ==
  ASSUME NEW s
  PROVE  Cheapest(s) \in SUBSET s /\ \A o \in s : o \in Cheapest(s) <=> Cardinality(Under(s, o)) < MaxOffers
BY DEF Cheapest, Under

(* The comparison is never longer than it may be: the dearest of the       *)
(* cheapest has fewer than MaxOffers under it. *)
LEMMA CheapestBounded ==
  ASSUME NEW s \in SUBSET Nat, IsFiniteSet(s)
  PROVE  Cardinality(Cheapest(s)) <= MaxOffers
<1>1. Cheapest(s) \in SUBSET s /\ Cheapest(s) \in SUBSET Nat /\ IsFiniteSet(Cheapest(s))
  BY CheapestIs, FS_Subset
<1>2. CASE Cheapest(s) = {}
  BY <1>2, FS_EmptySet
<1>3. CASE Cheapest(s) # {}
  <2>1. PICK x \in Cheapest(s) : \A y \in Cheapest(s) : y <= x
    BY <1>1, <1>3, Greatest DEF Topped
  <2>2. x \in Nat /\ x \in s
    BY <1>1, <2>1
  <2>3. Cardinality(Under(s, x)) < MaxOffers /\ Cardinality(Under(s, x)) \in Nat
    BY <2>1, <2>2, CheapestIs, UnderTypes
  <2>4. Cardinality(Under(Cheapest(s), x)) <= Cardinality(Under(s, x))
        /\ IsFiniteSet(Under(Cheapest(s), x)) /\ Cardinality(Under(Cheapest(s), x)) \in Nat
    BY <1>1, <2>2, UnderTypes
  <2>5. Cheapest(s) = Under(Cheapest(s), x) \cup {x} /\ x \notin Under(Cheapest(s), x)
    BY <1>1, <2>1, <2>2 DEF Under
  <2>6. Cardinality(Cheapest(s)) = Cardinality(Under(Cheapest(s), x)) + 1
    <3>1. Cardinality(Under(Cheapest(s), x) \cup {x}) = Cardinality(Under(Cheapest(s), x)) + 1
      BY <2>4, <2>5, FS_AddElement
    <3>2. QED
      BY <2>5, <3>1
  <2>7. QED
    BY <2>3, <2>4, <2>6
<1>4. QED
  BY <1>2, <1>3

(* What is left out has MaxOffers of those kept under it: the least of what *)
(* is left out has only kept ones under it. *)
LEMMA CheapestDisplace ==
  ASSUME NEW s \in SUBSET Nat, IsFiniteSet(s), NEW o \in s, o \notin Cheapest(s)
  PROVE  Cardinality({c \in Cheapest(s) : c < o}) >= MaxOffers
<1>1. Cheapest(s) \in SUBSET s /\ Cheapest(s) \in SUBSET Nat /\ IsFiniteSet(Cheapest(s))
  BY CheapestIs, FS_Subset
<1>2. PICK k \in s \ Cheapest(s) : \A y \in s \ Cheapest(s) : k <= y
  BY Least
<1>3. Under(Cheapest(s), k) = Under(s, k)
  <2>1. ASSUME NEW c \in s, c < k PROVE c \in Cheapest(s)
    <3>1. c \in Nat /\ k \in Nat /\ ~(k <= c)
      BY <1>2, <2>1
    <3>2. QED
      BY <1>2, <3>1
  <2>2. QED
    BY <1>1, <2>1 DEF Under
<1>4. Cardinality(Under(s, k)) \in Nat /\ ~(Cardinality(Under(s, k)) < MaxOffers)
  BY <1>2, CheapestIs, UnderTypes
<1>5. Under(Cheapest(s), k) \in SUBSET Under(Cheapest(s), o)
  BY <1>1, <1>2 DEF Under
<1>6. IsFiniteSet(Under(Cheapest(s), o)) /\ Cardinality(Under(Cheapest(s), o)) \in Nat
  BY <1>1, UnderTypes
<1>7. Cardinality(Under(Cheapest(s), k)) <= Cardinality(Under(Cheapest(s), o))
  BY <1>5, <1>6, FS_Subset
<1>8. Cardinality(Under(Cheapest(s), o)) >= MaxOffers
  BY <1>3, <1>4, <1>6, <1>7
<1>9. QED
  BY <1>8 DEF Under
-----------------------------------------------------------------------------
(* A build: what it has collected stays what it could show now, whatever    *)
(* the others do to the observations that have not changed.                 *)
Showing == {"look", "judge", "shown"}

BuildKnows(p) ==
  /\ pc[p] \in Showing => job[p] = "build"
  /\ pc[p] \in {"look", "judge"} => Looking(p)
  /\ pc[p] = "shown" => Faithful(p)

LEMMA BuildsAre == BuildsInv <=> \A p \in Processes : BuildKnows(p)
BY DEF BuildsInv, BuildKnows, Showing

Same(o) == decisions'[o] = decisions[o] /\ reviews'[o] = reviews[o] /\ market'[o] = market[o]

(* An observation nothing has changed about is shown as before. *)
LEMMA SameShows ==
  ASSUME NEW o \in Offers, NEW t, Same(o)
  PROVE  /\ Published(decisions, o)' <=> Published(decisions, o)
         /\ Showable(o, t)' <=> Showable(o, t)
<1>1. Published(decisions, o)' <=> Published(decisions, o)
  BY DEF Same, Published, Effective
<1>2. Qualifies(o, t)' <=> Qualifies(o, t)
  BY DEF Same, Qualifies, Reviewed, Effective, Fresh
<1>3. QED
  BY <1>1, <1>2 DEF Showable

(* What a step leaves of a process that does not take it. *)
Keeps(q) ==
  /\ pc'[q] = pc[q] /\ job'[q] = job[q] /\ my'[q] = my[q]
  /\ unsettled[q] \subseteq unsettled'[q]
  /\ job[q] = "build" => \A o \in Offers \ unsettled'[q] : Same(o)

LEMMA KeepsSound ==
  ASSUME NEW p \in Processes, BuildKnows(p), Keeps(p)
  PROVE  BuildKnows(p)'
<1>1. CASE pc[p] \notin Showing
  BY <1>1 DEF Keeps, BuildKnows, Showing
<1>2. CASE pc[p] \in Showing
  <2>1. pc'[p] = pc[p] /\ job'[p] = "build" /\ my'[p] = my[p] /\ unsettled[p] \subseteq unsettled'[p]
    BY <1>2 DEF Keeps, BuildKnows
  <2>2. ASSUME NEW o \in Offers \ unsettled'[p], NEW t
        PROVE  /\ Published(decisions, o)' <=> Published(decisions, o)
               /\ Showable(o, t)' <=> Showable(o, t)
    <3>1. Same(o)
      BY <1>2 DEF Keeps, BuildKnows
    <3>2. QED
      BY <3>1, SameShows
  <2>3. \A o \in Offers : Fresh(o, my[p].asOf)' <=> Fresh(o, my[p].asOf)
    BY <2>1 DEF Fresh
  <2>4. CASE pc[p] \in {"look", "judge"}
    <3>1. Looking(p)
      BY <2>4 DEF BuildKnows
    <3>2. ASSUME NEW o \in Offers, Through(p, o)' PROVE Through(p, o) /\ o \in Offers \ unsettled'[p]
      BY <2>1, <3>2 DEF Through
    <3>3. ASSUME NEW o \in Offers, Through(p, o)'
          PROVE  o \in my'[p].got <=> Showable(o, my[p].asOf)'
      BY <2>1, <2>2, <3>1, <3>2, <3>3 DEF Looking
    <3>4. my'[p].got \cap my'[p].left = {} /\ \A o \in my'[p].got : Fresh(o, my'[p].asOf)
      BY <2>1, <3>1 DEF Looking
    <3>5. pc'[p] = "judge" =>
            /\ my'[p].of \in Offers \ (my'[p].left \cup my'[p].got)
            /\ my'[p].of \notin unsettled'[p] => Published(decisions, my[p].of)'
      BY <2>1, <2>2, <3>1 DEF Looking
    <3>6. Looking(p)'
      BY <2>1, <3>3, <3>4, <3>5 DEF Looking, Fresh
    <3>7. QED
      BY <2>1, <2>4, <3>6 DEF BuildKnows
  <2>5. CASE pc[p] = "shown"
    <3>1. Faithful(p)
      BY <2>5 DEF BuildKnows
    <3>2. ASSUME NEW o \in Offers \ unsettled'[p]
          PROVE  IF o \in my[p].got THEN Showable(o, my[p].asOf)'
                 ELSE Showable(o, my[p].asOf)' => Cardinality({c \in my[p].got : c < o}) >= MaxOffers
      BY <2>1, <2>2, <3>1 DEF Faithful
    <3>3. Faithful(p)'
      BY <2>1, <3>1, <3>2 DEF Faithful, Fresh
    <3>4. QED
      BY <2>1, <2>5, <3>3 DEF BuildKnows
  <2>6. QED
    BY <1>2, <2>4, <2>5 DEF Showing
<1>3. QED
  BY <1>1, <1>2

(* A process that does not build afterwards. *)
LEMMA NotShowing == ASSUME NEW p \in Processes, pc'[p] \notin Showing PROVE BuildKnows(p)'
BY DEF BuildKnows, Showing

Elsewhere(p) == \A q \in Processes \ {p} : Keeps(q)

LEMMA FrameElsewhere ==
  ASSUME ProcessType, NEW p \in Processes,
         NEW to, NEW what, NEW m,
         pc' = [pc EXCEPT ![p] = to], job' = [job EXCEPT ![p] = what], my' = [my EXCEPT ![p] = m],
         \A q \in Processes \ {p} : unsettled'[q] = unsettled[q],
         UNCHANGED <<decisions, reviews, market>>
  PROVE  Elsewhere(p) /\ pc'[p] = to /\ job'[p] = what /\ my'[p] = m
<1>1. \A q \in Processes \ {p} : pc'[q] = pc[q] /\ job'[q] = job[q] /\ my'[q] = my[q]
  BY DEF ProcessType
<1>2. pc'[p] = to /\ job'[p] = what /\ my'[p] = m
  BY DEF ProcessType
<1>3. QED
  BY <1>1, <1>2 DEF Elsewhere, Keeps, Same

LEMMA BeginElsewhere ==
  ASSUME Sound, NEW p \in Processes, NEW what, NEW to, NEW m, Begin(p, what, to, m)
  PROVE  Elsewhere(p) /\ pc'[p] = to /\ job'[p] = what /\ my'[p] = m /\ unsettled'[p] = {}
<1>1. /\ pc' = [pc EXCEPT ![p] = to] /\ job' = [job EXCEPT ![p] = what] /\ my' = [my EXCEPT ![p] = m]
      /\ UNCHANGED <<decisions, reviews, market>>
  BY DEF Begin, Goto, Learns, files, authority
<1>2. unsettled'[p] = {} /\ \A q \in Processes \ {p} : unsettled'[q] = unsettled[q]
  BY DEF Begin, Sound, WorldType
<1>3. \A q \in Processes \ {p} : pc'[q] = pc[q] /\ job'[q] = job[q] /\ my'[q] = my[q]
  BY <1>1 DEF Sound, ProcessType
<1>4. pc'[p] = to /\ job'[p] = what /\ my'[p] = m
  BY <1>1 DEF Sound, ProcessType
<1>5. Elsewhere(p)
  BY <1>1, <1>2, <1>3 DEF Elsewhere, Keeps, Same
<1>6. QED
  BY <1>2, <1>4, <1>5

LEMMA LeaveElsewhere ==
  ASSUME Sound, NEW p \in Processes, Leave(p), UNCHANGED <<decisions, reviews, market>>,
         \A q \in Processes \ {p} : unsettled'[q] = unsettled[q]
  PROVE  Elsewhere(p) /\ BuildKnows(p)'
<1>1. /\ pc' = [pc EXCEPT ![p] = "idle"] /\ job' = [job EXCEPT ![p] = "none"]
      /\ my' = [my EXCEPT ![p] = NothingRead]
  BY DEF Leave, Goto, Learns
<1>2. Elsewhere(p) /\ pc'[p] = "idle"
  BY <1>1, FrameElsewhere DEF Sound
<1>3. QED
  BY <1>2, NotShowing DEF Showing

LEMMA EndsElsewhere ==
  ASSUME Sound, NEW p \in Processes, Ends(p) PROVE Elsewhere(p) /\ BuildKnows(p)'
<1>1. \A q \in Processes \ {p} : unsettled'[q] = unsettled[q]
  BY DEF Ends, Sound, WorldType
<1>2. QED
  BY <1>1, LeaveElsewhere DEF Ends, files, authority

LEMMA GoesElsewhere ==
  ASSUME Sound, NEW p \in Processes, NEW to, NEW m, Goes(p, to, m)
  PROVE  /\ Elsewhere(p) /\ pc'[p] = to /\ job'[p] = job[p] /\ my'[p] = m
         /\ unsettled' = unsettled /\ UNCHANGED <<decisions, reviews, market>>
<1>1. /\ pc' = [pc EXCEPT ![p] = to] /\ my' = [my EXCEPT ![p] = m]
      /\ UNCHANGED <<decisions, reviews, market>> /\ job' = job /\ unsettled' = unsettled
  BY DEF Goes, Goto, Learns, files, authority
<1>2. job' = [job EXCEPT ![p] = job[p]]
  BY <1>1 DEF Sound, ProcessType
<1>3. QED
  BY <1>1, <1>2, FrameElsewhere DEF Sound

(* A process that appends to a file tells every build of it. *)
LEMMA WritesElsewhere ==
  ASSUME Sound, NEW p \in Processes, NEW o \in Offers, NEW m,
         Goto(p, "consume"), Learns(p, m), job' = job, Changed(o),
         \A u \in Offers \ {o} : Same(u)
  PROVE  Elsewhere(p) /\ BuildKnows(p)'
<1>1. ASSUME NEW q \in Processes \ {p} PROVE Keeps(q)
  <2>1. pc'[q] = pc[q] /\ job'[q] = job[q] /\ my'[q] = my[q]
    BY DEF Goto, Learns, Sound, ProcessType
  <2>2. unsettled'[q] = IF job[q] = "build" THEN unsettled[q] \cup {o} ELSE unsettled[q]
    BY DEF Changed
  <2>3. QED
    BY <2>1, <2>2 DEF Keeps
<1>2. pc'[p] = "consume"
  BY DEF Goto, Sound, ProcessType
<1>3. QED
  BY <1>1, <1>2, NotShowing DEF Elsewhere, Showing

LEMMA RecordReviewElsewhere ==
  ASSUME Sound, NEW p \in Processes, RecordReview(p)
  PROVE  Elsewhere(p) /\ BuildKnows(p)'
<1>1. my[p].of \in Offers /\ reviews \in [Offers -> Seq(Authorization)]
  BY WorkerTypes DEF RecordReview, Working, Sound, FilesType
<1>2. ASSUME NEW i, Goes(p, "consume", [my[p] EXCEPT !.id = i])
      PROVE  Elsewhere(p) /\ BuildKnows(p)'
  <2>1. Elsewhere(p) /\ pc'[p] = "consume"
    BY <1>2, GoesElsewhere
  <2>2. QED
    BY <2>1, NotShowing DEF Showing
<1>3. ASSUME NEW r, reviews' = [reviews EXCEPT ![my[p].of] = r], NEW m,
             Goto(p, "consume"), Learns(p, m), Changed(my[p].of), UNCHANGED <<job, market, decisions>>
      PROVE  Elsewhere(p) /\ BuildKnows(p)'
  <2>1. \A u \in Offers \ {my[p].of} : Same(u)
    BY <1>1, <1>3 DEF Same
  <2>2. QED
    BY <1>1, <1>3, <2>1, WritesElsewhere
<1>4. QED
  BY <1>2, <1>3, EndsElsewhere DEF RecordReview

LEMMA RecordDecisionElsewhere ==
  ASSUME Sound, Shared, NEW p \in Processes, RecordDecision(p)
  PROVE  Elsewhere(p) /\ BuildKnows(p)'
<1>1. my[p].of \in Offers /\ decisions \in [Offers -> Seq(Publication)]
  BY WorkerTypes DEF RecordDecision, Working, Sound, FilesType
<1>2. my[p].file = decisions
  BY DEF RecordDecision, Shared, QueueSound
<1>3. ASSUME NEW m, Goes(p, "consume", m) PROVE Elsewhere(p) /\ BuildKnows(p)'
  <2>1. Elsewhere(p) /\ pc'[p] = "consume"
    BY <1>3, GoesElsewhere
  <2>2. QED
    BY <2>1, NotShowing DEF Showing
<1>4. ASSUME NEW r, decisions' = [my[p].file EXCEPT ![my[p].of] = r], NEW m,
             Goto(p, "consume"), Learns(p, m), Changed(my[p].of), UNCHANGED <<job, market, reviews>>
      PROVE  Elsewhere(p) /\ BuildKnows(p)'
  <2>1. \A u \in Offers \ {my[p].of} : Same(u)
    BY <1>1, <1>2, <1>4 DEF Same
  <2>2. QED
    BY <1>1, <1>4, <2>1, WritesElsewhere
<1>5. QED
  BY <1>3, <1>4 DEF RecordDecision

(* The build's own steps.  It begins through with nothing. *)
LEMMA BuildBegins ==
  ASSUME Sound, NEW p \in Processes, Build(p) PROVE Elsewhere(p) /\ BuildKnows(p)'
<1>1. /\ Elsewhere(p) /\ pc'[p] = "look" /\ job'[p] = "build" /\ unsettled'[p] = {}
      /\ my'[p] = [NothingRead EXCEPT !.asOf = now, !.left = Offers]
  BY BeginElsewhere DEF Build
<1>2. my'[p].left = Offers /\ my'[p].got = {}
  BY <1>1 DEF NothingRead
<1>3. Looking(p)'
  BY <1>1, <1>2 DEF Looking, Through
<1>4. QED
  BY <1>1, <1>3 DEF BuildKnows

LEMMA BuilderGoes ==
  ASSUME Sound, NEW p \in Processes, pc[p] \in Showing, BuildKnows(p), NEW to, NEW m, Goes(p, to, m)
  PROVE  /\ Elsewhere(p) /\ pc'[p] = to /\ job'[p] = "build" /\ my'[p] = m /\ unsettled' = unsettled
         /\ \A o \in Offers : Published(decisions, o)' <=> Published(decisions, o)
         /\ \A o \in Offers, t \in Nat : Showable(o, t)' <=> Showable(o, t)
<1>1. /\ Elsewhere(p) /\ pc'[p] = to /\ job'[p] = job[p] /\ my'[p] = m
      /\ unsettled' = unsettled /\ UNCHANGED <<decisions, reviews, market>>
  BY GoesElsewhere
<1>2. job[p] = "build"
  BY DEF BuildKnows
<1>3. \A o \in Offers : Same(o)
  BY <1>1 DEF Same
<1>4. QED
  BY <1>1, <1>2, <1>3, SameShows

LEMMA BuilderTypes ==
  ASSUME Sound, NEW p \in Processes
  PROVE  /\ my[p] \in My /\ my[p].asOf \in Nat
         /\ my[p].left \in SUBSET Offers /\ my[p].got \in SUBSET Offers
<1>1. my[p] \in My
  BY DEF Sound, ProcessType
<1>2. QED
  BY <1>1, MemoryTypes

(* It looks at an observation: it is through with one that is not published. *)
LEMMA LookSound ==
  ASSUME Sound, NEW p \in Processes, BuildKnows(p), NEW o \in Offers, Look(p, o)
  PROVE  Elsewhere(p) /\ BuildKnows(p)'
<1> DEFINE to == IF Published(decisions, o) THEN "judge" ELSE "look"
           of == IF Published(decisions, o) THEN o ELSE None
           m == [my[p] EXCEPT !.left = @ \ {o}, !.of = of]
<1>1. pc[p] = "look" /\ o \in my[p].left /\ Goes(p, to, m) /\ Looking(p)
  BY DEF Look, BuildKnows
<1>2. my[p] \in My
  BY BuilderTypes
<1>3. m.left = my[p].left \ {o} /\ m.of = of /\ m.got = my[p].got /\ m.asOf = my[p].asOf
  BY <1>2 DEF My
<1>4. to \in {"look", "judge"} /\ (to = "judge" => Published(decisions, o) /\ of = o)
  OBVIOUS
<1>5. to = "look" => ~Published(decisions, o)
  OBVIOUS
<1> HIDE DEF to, of, m
<1>6. /\ Elsewhere(p) /\ pc'[p] = to /\ job'[p] = "build" /\ my'[p] = m /\ unsettled' = unsettled
      /\ \A u \in Offers : Published(decisions, u)' <=> Published(decisions, u)
      /\ \A u \in Offers, t \in Nat : Showable(u, t)' <=> Showable(u, t)
  BY <1>1, BuilderGoes DEF Showing
<1>7. ASSUME NEW u \in Offers, Through(p, u)'
      PROVE  u \in my'[p].got <=> Showable(u, my[p].asOf)'
  <2>1. u \notin unsettled[p] /\ u \notin my[p].left \ {o} /\ (to = "judge" => u # o)
    BY <1>3, <1>4, <1>6, <1>7 DEF Through
  <2>2. my[p].asOf \in Nat
    BY BuilderTypes
  <2>3. CASE u = o
    <3>1. u \notin my[p].got
      BY <1>1, <2>3 DEF Looking
    <3>2. ~Published(decisions, u)
      BY <1>4, <1>5, <2>1, <2>3
    <3>3. QED
      BY <1>3, <1>6, <2>2, <3>1, <3>2 DEF Showable
  <2>4. CASE u # o
    <3>1. Through(p, u)
      BY <1>1, <2>1, <2>4 DEF Through
    <3>2. u \in my[p].got <=> Showable(u, my[p].asOf)
      BY <1>1, <3>1 DEF Looking
    <3>3. QED
      BY <1>3, <1>6, <2>2, <3>2
  <2>5. QED
    BY <2>3, <2>4
<1>8. my'[p].got \cap my'[p].left = {} /\ \A u \in my'[p].got : Fresh(u, my'[p].asOf)
  BY <1>1, <1>3, <1>6 DEF Looking
<1>9. to = "judge" => o \in Offers \ (my'[p].left \cup my'[p].got) /\ Published(decisions, o)'
  BY <1>1, <1>3, <1>4, <1>6 DEF Looking
<1>10. Looking(p)'
  BY <1>3, <1>4, <1>6, <1>7, <1>8, <1>9 DEF Looking, Fresh
<1>11. QED
  BY <1>4, <1>6, <1>10 DEF BuildKnows

(* It judges one: it is through with it. *)
LEMMA JudgeSound ==
  ASSUME Sound, NEW p \in Processes, BuildKnows(p), Judge(p)
  PROVE  Elsewhere(p) /\ BuildKnows(p)'
<1> DEFINE of == my[p].of
           got == IF Qualifies(of, my[p].asOf) THEN my[p].got \cup {of} ELSE my[p].got
           m == [my[p] EXCEPT !.of = None, !.got = got]
<1>1. pc[p] = "judge" /\ Looking(p) /\ of \in Offers \ (my[p].left \cup my[p].got)
  BY DEF Judge, BuildKnows, Looking
<1>2. my[p] \in My
  BY BuilderTypes
<1>3. Goes(p, "look", m)
  BY <1>2 DEF Judge, My
<1>4. m.left = my[p].left /\ m.got = got /\ m.asOf = my[p].asOf
  BY <1>2 DEF My
<1>5. /\ \A u \in Offers \ {of} : u \in got <=> u \in my[p].got
      /\ of \in got <=> Qualifies(of, my[p].asOf)
      /\ got \subseteq my[p].got \cup {of}
  BY <1>1
<1> HIDE DEF got, m, of
<1>6. /\ Elsewhere(p) /\ pc'[p] = "look" /\ job'[p] = "build" /\ my'[p] = m /\ unsettled' = unsettled
      /\ \A u \in Offers, t \in Nat : Showable(u, t)' <=> Showable(u, t)
  BY <1>1, <1>3, BuilderGoes DEF Showing
<1>7. ASSUME NEW u \in Offers, Through(p, u)'
      PROVE  u \in my'[p].got <=> Showable(u, my[p].asOf)'
  <2>1. u \notin unsettled[p] /\ u \notin my[p].left
    BY <1>4, <1>6, <1>7 DEF Through
  <2>2. my[p].asOf \in Nat
    BY BuilderTypes
  <2>3. CASE u = of
    <3>1. Published(decisions, u)
      BY <1>1, <2>1, <2>3 DEF Looking, of
    <3>2. QED
      BY <1>4, <1>5, <1>6, <2>2, <2>3, <3>1 DEF Showable
  <2>4. CASE u # of
    <3>1. Through(p, u)
      BY <1>1, <2>1, <2>4 DEF Through, of
    <3>2. u \in my[p].got <=> Showable(u, my[p].asOf)
      BY <1>1, <3>1 DEF Looking
    <3>3. QED
      BY <1>4, <1>5, <1>6, <2>2, <2>4, <3>2
  <2>5. QED
    BY <2>3, <2>4
<1>8. \A u \in my'[p].got : Fresh(u, my'[p].asOf)
  <2>1. \A u \in my[p].got : Fresh(u, my[p].asOf)
    BY <1>1 DEF Looking
  <2>2. of \in got => Fresh(of, my[p].asOf)
    BY <1>5 DEF Qualifies
  <2>3. QED
    BY <1>4, <1>5, <1>6, <2>1, <2>2
<1>9. my'[p].got \cap my'[p].left = {}
  BY <1>1, <1>4, <1>5, <1>6 DEF Looking
<1>10. Looking(p)'
  BY <1>4, <1>6, <1>7, <1>8, <1>9 DEF Looking, Fresh
<1>11. QED
  BY <1>6, <1>10 DEF BuildKnows

(* It shows the cheapest of what it has collected: nothing is left, so it   *)
(* is through with every observation. *)
LEMMA SnapshotSound ==
  ASSUME Sound, NEW p \in Processes, BuildKnows(p), Snapshot(p)
  PROVE  Elsewhere(p) /\ BuildKnows(p)'
<1> DEFINE old == my[p].got
           m == [my[p] EXCEPT !.got = Cheapest(old)]
<1>1. pc[p] = "look" /\ my[p].left = {} /\ Goes(p, "shown", m) /\ Looking(p)
  BY DEF Snapshot, BuildKnows
<1>2. my[p] \in My /\ my[p].asOf \in Nat /\ old \in SUBSET Nat /\ IsFiniteSet(old)
  <2>1. my[p] \in My /\ my[p].asOf \in Nat /\ old \in SUBSET Offers
    BY BuilderTypes
  <2>2. QED
    BY <2>1, FS_Subset
<1>3. m.got = Cheapest(old) /\ m.asOf = my[p].asOf
  BY <1>2 DEF My
<1> HIDE DEF m, old
<1>4. /\ Elsewhere(p) /\ pc'[p] = "shown" /\ job'[p] = "build" /\ my'[p] = m /\ unsettled' = unsettled
      /\ \A u \in Offers, t \in Nat : Showable(u, t)' <=> Showable(u, t)
  BY <1>1, BuilderGoes DEF Showing
<1>5. Cheapest(old) \in SUBSET old /\ Cardinality(Cheapest(old)) <= MaxOffers
  BY <1>2, CheapestIs, CheapestBounded
<1>6. ASSUME NEW u \in Offers \ unsettled[p]
      PROVE  IF u \in Cheapest(old) THEN Showable(u, my[p].asOf)'
             ELSE Showable(u, my[p].asOf)' =>
                    Cardinality({c \in Cheapest(old) : c < u}) >= MaxOffers
  <2>1. Through(p, u)
    BY <1>1 DEF Through
  <2>2. u \in old <=> Showable(u, my[p].asOf)'
    BY <1>1, <1>2, <1>3, <1>4, <2>1 DEF Looking, old
  <2>3. QED
    BY <1>2, <1>5, <2>2, CheapestDisplace
<1>7. \A u \in Cheapest(old) : Fresh(u, my[p].asOf)
  BY <1>1, <1>5 DEF Looking, old
<1>8. Faithful(p)'
  BY <1>3, <1>4, <1>5, <1>6, <1>7 DEF Faithful, Fresh
<1>9. QED
  BY <1>4, <1>8 DEF BuildKnows

(* The other commands, and what changes around them. *)
LEMMA CommandSound ==
  ASSUME Sound, Shared, NEW p \in Processes,
         \/ \E r \in Requests : Prepare(p, r[1], r[2])
         \/ \E a \in authorizations : Execute(p, a)
         \/ ReadReview(p) \/ ReadPredecessor(p) \/ Draw(p) \/ RecordAuthorization(p) \/ AssertBinding(p)
         \/ RecordReview(p) \/ Evaluate(p) \/ Check(p) \/ RecordDecision(p) \/ Consume(p)
         \/ Returns(p) \/ Crash(p)
  PROVE  Elsewhere(p) /\ BuildKnows(p)'
<1>1. ASSUME NEW what, NEW to, NEW m, to \notin Showing, Begin(p, what, to, m)
      PROVE  Elsewhere(p) /\ BuildKnows(p)'
  <2>1. Elsewhere(p) /\ pc'[p] = to
    BY <1>1, BeginElsewhere
  <2>2. QED
    BY <1>1, <2>1, NotShowing
<1>2. ASSUME NEW to, NEW m, to \notin Showing, Goes(p, to, m)
      PROVE  Elsewhere(p) /\ BuildKnows(p)'
  <2>1. Elsewhere(p) /\ pc'[p] = to
    BY <1>2, GoesElsewhere
  <2>2. QED
    BY <1>2, <2>1, NotShowing
<1>3. "assess" \notin Showing /\ "authorize" \notin Showing /\ "decide" \notin Showing
      /\ "evaluate" \notin Showing /\ "check" \notin Showing /\ "recording" \notin Showing
  BY DEF Showing
<1>4. ASSUME NEW o, NEW d, Prepare(p, o, d) PROVE Elsewhere(p) /\ BuildKnows(p)'
  BY <1>1, <1>3, <1>4 DEF Prepare
<1>5. ASSUME NEW a \in authorizations, Execute(p, a) PROVE Elsewhere(p) /\ BuildKnows(p)'
  BY <1>1, <1>3, <1>5 DEF Execute
<1>6. CASE ReadReview(p)
  BY <1>2, <1>3, <1>6 DEF ReadReview
<1>7. CASE ReadPredecessor(p)
  BY <1>2, <1>3, <1>7 DEF ReadPredecessor
<1>8. CASE Draw(p)
  BY <1>2, <1>3, <1>8, EndsElsewhere DEF Draw
<1>9. CASE RecordAuthorization(p)
  BY <1>9, LeaveElsewhere DEF RecordAuthorization
<1>10. CASE AssertBinding(p)
  BY <1>2, <1>3, <1>10, EndsElsewhere DEF AssertBinding
<1>11. CASE Evaluate(p)
  BY <1>2, <1>3, <1>11, EndsElsewhere DEF Evaluate
<1>12. CASE Check(p)
  BY <1>2, <1>3, <1>12, EndsElsewhere DEF Check
<1>13. CASE Consume(p)
  BY <1>13, LeaveElsewhere DEF Consume
<1>14. CASE RecordReview(p) \/ RecordDecision(p)
  BY <1>14, RecordReviewElsewhere, RecordDecisionElsewhere
<1>15. CASE Returns(p) \/ Crash(p)
  BY <1>15, EndsElsewhere DEF Returns, Crash
<1>16. QED
  BY <1>4, <1>5, <1>6, <1>7, <1>8, <1>9, <1>10, <1>11, <1>12, <1>13, <1>14, <1>15

LEMMA WorldKeeps ==
  ASSUME Sound, Tick \/ (\E o \in Offers : Requalify(o)) \/ UNCHANGED vars, NEW q \in Processes
  PROVE  Keeps(q)
<1>1. CASE Tick \/ UNCHANGED vars
  BY <1>1 DEF Tick, vars, authority, process, Keeps, Same
<1>2. ASSUME NEW o \in Offers, Requalify(o) PROVE Keeps(q)
  <2>1. UNCHANGED <<decisions, reviews, pc, job, my>> /\ Changed(o)
    BY <1>2 DEF Requalify, process
  <2>2. \A u \in Offers \ {o} : Same(u)
    BY <1>2, <2>1 DEF Requalify, Same, Sound, WorldType
  <2>3. unsettled'[q] = IF job[q] = "build" THEN unsettled[q] \cup {o} ELSE unsettled[q]
    BY <2>1 DEF Changed
  <2>4. QED
    BY <2>1, <2>2, <2>3 DEF Keeps
<1>3. QED
  BY <1>1, <1>2

LEMMA BuildsStep ==
  ASSUME Sound, Shared, BuildsInv, [Next]_vars
  PROVE  BuildsInv'
<1>1. \A p \in Processes : BuildKnows(p)
  BY BuildsAre
<1>0. (\A p \in Processes : BuildKnows(p)') => BuildsInv'
  BY DEF BuildsInv, BuildKnows, Showing
<1>2. CASE Tick \/ (\E o \in Offers : Requalify(o)) \/ UNCHANGED vars
  <2>1. \A p \in Processes : Keeps(p)
    BY <1>2, WorldKeeps
  <2>2. QED
    BY <1>0, <1>1, <2>1, KeepsSound
<1>3. ASSUME NEW p \in Processes, Elsewhere(p), BuildKnows(p)' PROVE BuildsInv'
  <2>1. \A q \in Processes \ {p} : BuildKnows(q)'
    BY <1>1, <1>3, KeepsSound DEF Elsewhere
  <2>2. \A q \in Processes : BuildKnows(q)'
    BY <1>3, <2>1
  <2>3. QED
    BY <1>0, <2>2
<1>4. ASSUME NEW p \in Processes,
             \/ \E r \in Requests : Prepare(p, r[1], r[2])
             \/ \E a \in authorizations : Execute(p, a)
             \/ ReadReview(p) \/ ReadPredecessor(p) \/ Draw(p) \/ RecordAuthorization(p)
             \/ AssertBinding(p) \/ RecordReview(p) \/ Evaluate(p) \/ Check(p)
             \/ RecordDecision(p) \/ Consume(p) \/ Returns(p) \/ Crash(p)
      PROVE  BuildsInv'
  BY <1>3, <1>4, CommandSound
<1>5. ASSUME NEW p \in Processes,
             \/ Build(p) \/ Judge(p) \/ Snapshot(p)
             \/ \E o \in Offers : Look(p, o)
      PROVE  BuildsInv'
  BY <1>1, <1>3, <1>5, BuildBegins, LookSound, JudgeSound, SnapshotSound
<1>6. QED
  BY <1>2, <1>4, <1>5 DEF Next

(* While decisions have been recorded one at a time, what a build shows is *)
(* fresh at its time, no longer than MaxOffers and, of the observations    *)
(* nothing has changed about since it began, exactly what is published,    *)
(* reviewed and qualified but for what MaxOffers cheaper ones displace:    *)
(* however reviewers and publishers come between its steps.                *)
THEOREM SnapshotsAreFaithful == Spec => []SnapshotFaithful
<1>1. Init => BuildsInv
  BY DEF Init, BuildsInv
<1>2. Sound /\ (turns = "kept" => Shared) /\ (turns = "kept" => BuildsInv) /\ [Next]_vars =>
        (turns = "kept" => BuildsInv)'
  BY BuildsStep, TurnsKept
<1>3. (turns = "kept" => BuildsInv) => SnapshotFaithful
  BY DEF BuildsInv, SnapshotFaithful
<1>4. QED
  BY <1>1, <1>2, <1>3, SharedAlways, PTL DEF Spec
=============================================================================
