---------------------- MODULE CanonicalAdmissionProofs ----------------------
(***************************************************************************)
(* Proofs about CanonicalAdmission, for every set of commands, evidence,   *)
(* offers and bindings, every life and retention and every bound.  Neither *)
(* what is said of the authorization file nor that the observation file    *)
(* keeps what was settled needs an assumption; truthful consumptions and   *)
(* expired payloads are promised for as long as the file has one writer at *)
(* a time.                                                                 *)
(***************************************************************************)
EXTENDS CanonicalAdmission, FiniteSetTheorems, TLAPS

USE BoundAssumption, KeyAssumption, BindingAssumption, NoneAssumption
    DEF BoundAssumption, KeyAssumption, BindingAssumption, NoneAssumption

-----------------------------------------------------------------------------
(* What a command has read, by where it is. *)
Fits(where, what, m) ==
  /\ where = "record" => m.auth # None /\ m.auth.gen = 0
  /\ where = "supersede" => m.auth # None /\ m.auth.gen # 0 /\ m.binding # None
  /\ where \in {"assess", "admit", "consume"} => what = "execute"
  /\ where = "normalize" => what = "ingest"
  /\ where \in {"allocate", "allocating", "accept", "accepting"} => what \in {"execute", "ingest"}
  /\ where \in {"purge", "purging", "replay"} => what \in {"execute", "read"}
  /\ where \in {"normalize", "accept", "accepting"} => m.id # 0
  /\ what = "execute" => m.auth # None /\ m.key = m.auth.ev
  /\ what = "ingest" => m.key \in Offers

CommandsSound == \A p \in Processes : Fits(pc[p], job[p], my[p])

(* The authorizations of an evidence: the active one is the youngest, and   *)
(* every other is superseded and has expired.                               *)
ChainSound(e) ==
  /\ active[e] = None => \A a \in authorizations : a.ev # e
  /\ active[e] # None => active[e] \in authorizations /\ active[e].ev = e /\ ~Superseded(active[e])
  /\ \A a \in authorizations :
       a.ev = e => a = active[e] \/ (Superseded(a) /\ a.gen < active[e].gen)
  /\ \A a, b \in Root(e) : a = b
  /\ active[e] # None => Root(e) # {}

SupersessionsSound ==
  /\ \A s, t \in supersessions : s.of = t.of \/ s.by = t.by => s = t
  /\ \A s \in supersessions : /\ {s.of, s.by} \subseteq authorizations
                              /\ s.by.ev = s.of.ev /\ s.by.gen = s.of.gen + 1
                              /\ Expired(s.of)

AuthoritySound == SupersessionsSound /\ \A e \in Evidence : ChainSound(e)

IInv == TypeOK /\ CommandsSound /\ AuthoritySound

(* While turns are kept: one writer at a time works on the file as it is. *)
QueueSound ==
  /\ \A p, q \in Processes : pc[p] \in Queued /\ pc[q] \in Queued => p = q
  /\ \A p \in Processes : pc[p] \in Queued => my[p].file = store

RecordsSound(file) ==
  /\ \A r, s \in file.records : r.id = s.id => r = s
  /\ \A k \in Keys : file.idempotency[k] # 0 =>
       \E r \in file.records : r.id = file.idempotency[k] /\ r.key = k

StoreSound ==
  /\ RecordsSound(store)
  /\ \A c \in consumptions : c.id # 0 /\ store.idempotency[c.of.ev] = c.id

(* An EXECUTE about to replay or to consume has the evidence's identifier. *)
Identified(where, what, m, file) ==
  what = "execute" /\ where \in {"purge", "purging", "replay", "consume"} =>
      m.id # 0 /\ file.idempotency[m.key] = m.id

(* What a reader saw expire has lost its payload by the time it reads again. *)
Unexpired(s, t) == s.until = None \/ s.until > t
Reads(where, what, m, file) ==
  /\ what = "read" /\ where = "replay" =>
       \A s \in m.file.records :
          /\ \E r \in file.records : r.id = s.id
          /\ \A r \in file.records : r.id = s.id => ~r.payload \/ Unexpired(s, m.asOf)
  /\ where # "returned" => m.got = {}
  /\ \A r \in m.got : \A s \in m.file.records : s.id = r.id => Unexpired(s, m.asOf)

ReadersSound == \A p \in Processes : /\ Identified(pc[p], job[p], my[p], store)
                                     /\ Reads(pc[p], job[p], my[p], store)

SharedInv == IInv /\ QueueSound /\ StoreSound /\ ReadersSound
-----------------------------------------------------------------------------
Jobs == {"none", "prepare", "supersede", "execute", "ingest", "read"}

CommandType == pc \in [Processes -> PC] /\ job \in [Processes -> Jobs] /\ my \in [Processes -> My]
WorldType == /\ now \in 0..MaxTime /\ binding \in [Evidence -> {None} \cup Bindings]
             /\ store \in Store /\ settled \in Store /\ turns \in {"kept", "broken"}
AuthorityType ==
  /\ authorizations \subseteq Authorization
  /\ active \in [Evidence -> {None} \cup Authorization]
  /\ supersessions \subseteq [by : Authorization, of : Authorization]
  /\ consumptions \subseteq [of : Authorization, id : Nat]

(* The parts of the type invariant. *)
LEMMA TypeParts == TypeOK <=> CommandType /\ WorldType /\ AuthorityType
<1>1. TypeOK => CommandType /\ WorldType /\ AuthorityType
  BY DEF TypeOK, CommandType, WorldType, AuthorityType, Jobs
<1>2. CommandType /\ WorldType /\ AuthorityType => TypeOK
  BY DEF TypeOK, CommandType, WorldType, AuthorityType, Jobs
<1>3. QED
  BY <1>1, <1>2

(* The empty file and the memory of a new command are of their types. *)
LEMMA NothingTypes == EmptyStore \in Store /\ NothingRead \in My
<1>1. EmptyStore \in Store
  BY DEF EmptyStore, Store
<1>2. /\ NothingRead.key \in {None} \cup Keys /\ NothingRead.auth \in {None} \cup Authorization
      /\ NothingRead.binding \in {None} \cup Bindings /\ NothingRead.file \in Store
      /\ NothingRead.asOf \in Nat /\ NothingRead.seen \in Nat /\ NothingRead.id \in Nat
      /\ NothingRead.got \in SUBSET Observation
  BY <1>1 DEF NothingRead
<1>3. QED
  BY <1>1, <1>2 DEF NothingRead, My

(* A step of one command keeps the types when what it becomes fits. *)
LEMMA CommandFrame ==
  ASSUME CommandType, CommandsSound, NEW p \in Processes, NEW to \in PC, NEW what \in Jobs, NEW m \in My,
         Fits(to, what, m),
         pc' = [pc EXCEPT ![p] = to], job' = [job EXCEPT ![p] = what], my' = [my EXCEPT ![p] = m]
  PROVE  CommandType' /\ CommandsSound'
<1>1. CommandType'
  BY DEF CommandType
<1>2. ASSUME NEW q \in Processes PROVE Fits(pc[q], job[q], my[q])'
  <2>1. CASE q = p
    <3>1. pc'[q] = to /\ job'[q] = what /\ my'[q] = m
      BY <2>1 DEF CommandType
    <3>2. QED
      BY <3>1 DEF Fits
  <2>2. CASE q # p
    <3>1. pc'[q] = pc[q] /\ job'[q] = job[q] /\ my'[q] = my[q]
      BY <2>2 DEF CommandType
    <3>2. QED
      BY <3>1 DEF CommandsSound, Fits
  <2>3. QED
    BY <2>1, <2>2
<1>3. QED
  BY <1>1, <1>2 DEF CommandsSound

(* A command that leaves keeps them. *)
LEMMA LeaveFrame ==
  ASSUME CommandType, CommandsSound, NEW p \in Processes, Leave(p)
  PROVE  CommandType' /\ CommandsSound'
<1>1. Fits("idle", "none", NothingRead)
  BY DEF Fits
<1>2. "idle" \in PC /\ "none" \in Jobs /\ NothingRead \in My
  BY NothingTypes DEF PC, Jobs
<1>3. QED
  BY <1>1, <1>2, CommandFrame DEF Leave, Goto

(* A command that moves on, and learns something, keeps them. *)
LEMMA MoveFrame ==
  ASSUME CommandType, CommandsSound, NEW p \in Processes, NEW to \in PC, NEW m \in My,
         Goto(p, to), UNCHANGED job, Learns(p, m), Fits(to, job[p], m)
  PROVE  CommandType' /\ CommandsSound'
<1>1. job[p] \in Jobs /\ job' = [job EXCEPT ![p] = job[p]]
  BY DEF CommandType
<1>2. QED
  BY <1>1, CommandFrame DEF Goto, Learns

LEMMA StayFrame ==
  ASSUME CommandType, CommandsSound, NEW p \in Processes, NEW to \in PC,
         Goto(p, to), UNCHANGED <<job, my>>, Fits(to, job[p], my[p])
  PROVE  CommandType' /\ CommandsSound'
<1>1. my[p] \in My /\ Learns(p, my[p])
  BY DEF CommandType, Learns
<1>2. QED
  BY <1>1, MoveFrame

LEMMA BeginFrame ==
  ASSUME CommandType, CommandsSound, NEW p \in Processes, NEW to \in PC, NEW what \in Jobs, NEW m \in My,
         Begin(p, what, to, m), Fits(to, what, m)
  PROVE  CommandType' /\ CommandsSound'
BY CommandFrame DEF Begin, Goto

LEMMA WorldFrame ==
  ASSUME WorldType, now' = now, binding' = binding, store' = store, UNCHANGED history \/ Settles
  PROVE  WorldType'
BY DEF WorldType, Settles, history

LEMMA AuthorityFrame == ASSUME AuthorityType, UNCHANGED authority PROVE AuthorityType'
BY DEF AuthorityType, authority

(* The whole file that a command commits is of its type. *)
LEMMA CommitWorld ==
  ASSUME WorldType, NEW file \in Store, store' = file, now' = now, binding' = binding, Settles
  PROVE  WorldType'
BY DEF WorldType, Settles

Sound == CommandType /\ WorldType /\ AuthorityType /\ CommandsSound

(* A command that begins: its draft is an authorization of the type. *)
LEMMA BeginsSound ==
  ASSUME Sound, NEW p \in Processes,
         \/ \E e \in Evidence : Prepare(p, e)
         \/ \E a \in authorizations : Supersede(p, a) \/ Execute(p, a)
         \/ \E o \in Offers : Ingest(p, o)
         \/ Read(p)
  PROVE  Sound'
<1> USE DEF Sound
<1>1. ASSUME NEW what, NEW to, NEW m, Begin(p, what, to, m),
             what \in Jobs, to \in PC, m \in My, Fits(to, what, m)
      PROVE  Sound'
  <2>1. CommandType' /\ CommandsSound'
    BY <1>1, BeginFrame
  <2>2. WorldType' /\ AuthorityType'
    BY <1>1, WorldFrame, AuthorityFrame DEF Begin
  <2>3. QED
    BY <2>1, <2>2
<1>2. CASE \E e \in Evidence : Prepare(p, e)
  <2>1. PICK e \in Evidence : Prepare(p, e)
    BY <1>2
  <2> DEFINE d == [ev |-> e, gen |-> 0, binding |-> binding[e], at |-> now]
             m == [NothingRead EXCEPT !.auth = d]
  <2>2. d \in Authorization /\ d # None /\ d.gen = 0
    BY <2>1 DEF Prepare, WorldType, Authorization
  <2>3. m \in My /\ m.auth = d
    BY <2>2, NothingTypes DEF My
  <2>4. Begin(p, "prepare", "record", m)
    BY <2>1 DEF Prepare
  <2> HIDE DEF d, m
  <2>5. "prepare" \in Jobs /\ "record" \in PC /\ Fits("record", "prepare", m)
    BY <2>2, <2>3 DEF Jobs, PC, Fits
  <2>6. QED
    BY <1>1, <2>3, <2>4, <2>5
<1>3. CASE \E a \in authorizations : Supersede(p, a)
  <2>1. PICK a \in authorizations : Supersede(p, a)
    BY <1>3
  <2>2. a \in Authorization
    BY DEF AuthorityType
  <2> DEFINE d == [ev |-> a.ev, gen |-> a.gen + 1, binding |-> binding[a.ev], at |-> now]
             m == [NothingRead EXCEPT !.asOf = a.at, !.binding = a.binding, !.auth = d]
  <2>3. a.ev \in Evidence /\ a.gen \in Nat /\ a.at \in Nat /\ a.binding \in Bindings
    BY <2>2 DEF Authorization
  <2>4. binding[a.ev] \in Bindings
    BY <2>1, <2>3 DEF Supersede, WorldType
  <2>5. d \in Authorization /\ d # None /\ d.gen # 0
    BY <2>3, <2>4 DEF Authorization, WorldType
  <2>6. m \in My /\ m.auth = d /\ m.binding = a.binding
    BY <2>3, <2>5, NothingTypes DEF My
  <2>7. Begin(p, "supersede", "supersede", m)
    BY <2>1 DEF Supersede
  <2>8. a.binding # None
    BY <2>3
  <2> HIDE DEF d, m
  <2>9. "supersede" \in Jobs /\ "supersede" \in PC /\ Fits("supersede", "supersede", m)
    BY <2>5, <2>6, <2>8 DEF Jobs, PC, Fits
  <2>10. QED
    BY <1>1, <2>6, <2>7, <2>9
<1>4. CASE \E a \in authorizations : Execute(p, a)
  <2>1. PICK a \in authorizations : Execute(p, a)
    BY <1>4
  <2>2. a \in Authorization /\ a.ev \in Keys /\ a # None
    BY DEF AuthorityType, Authorization, Keys
  <2> DEFINE m == [NothingRead EXCEPT !.auth = a, !.key = a.ev]
  <2>3. m \in My /\ m.auth = a /\ m.key = a.ev
    BY <2>2, NothingTypes DEF My
  <2>4. Begin(p, "execute", "assess", m)
    BY <2>1 DEF Execute
  <2> HIDE DEF m
  <2>5. "execute" \in Jobs /\ "assess" \in PC /\ Fits("assess", "execute", m)
    BY <2>2, <2>3 DEF Jobs, PC, Fits
  <2>6. QED
    BY <1>1, <2>3, <2>4, <2>5
<1>5. CASE \E o \in Offers : Ingest(p, o)
  <2>1. PICK o \in Offers, t \in 0..now :
          Begin(p, "ingest", "allocate", [NothingRead EXCEPT !.key = o, !.seen = t])
    BY <1>5 DEF Ingest
  <2> DEFINE m == [NothingRead EXCEPT !.key = o, !.seen = t]
  <2>2. t \in Nat /\ o \in Keys
    BY DEF WorldType, Keys
  <2>3. m \in My /\ m.key = o
    BY <2>2, NothingTypes DEF My
  <2>4. Begin(p, "ingest", "allocate", m)
    BY <2>1
  <2> HIDE DEF m
  <2>5. "ingest" \in Jobs /\ "allocate" \in PC /\ Fits("allocate", "ingest", m)
    BY <2>3 DEF Jobs, PC, Fits
  <2>6. QED
    BY <1>1, <2>3, <2>4, <2>5
<1>6. CASE Read(p)
  <2>1. "read" \in Jobs /\ "purge" \in PC /\ Fits("purge", "read", NothingRead)
    BY DEF Jobs, PC, Fits
  <2>2. QED
    BY <1>1, <1>6, <2>1, NothingTypes DEF Read
<1>7. QED
  BY <1>2, <1>3, <1>4, <1>5, <1>6

(* A command that ends, by itself or by its death. *)
LEMMA EndsSound == ASSUME Sound, NEW p \in Processes, Ends(p) PROVE Sound'
<1>1. CommandType' /\ CommandsSound'
  BY LeaveFrame DEF Sound, Ends
<1>2. WorldType' /\ AuthorityType'
  BY WorldFrame, AuthorityFrame DEF Sound, Ends
<1>3. QED
  BY <1>1, <1>2 DEF Sound

(* ... that moves on, and learns, without writing. *)
LEMMA MovesSound ==
  ASSUME Sound, NEW p \in Processes, NEW to \in PC, NEW m \in My,
         Moves(p, to), Learns(p, m), Fits(to, job[p], m)
  PROVE  Sound'
<1>1. CommandType' /\ CommandsSound'
  BY MoveFrame DEF Sound, Moves
<1>2. WorldType' /\ AuthorityType'
  BY WorldFrame, AuthorityFrame DEF Sound, Moves
<1>3. QED
  BY <1>1, <1>2 DEF Sound

LEMMA StaysSound ==
  ASSUME Sound, NEW p \in Processes, NEW to \in PC, Moves(p, to), UNCHANGED my, Fits(to, job[p], my[p])
  PROVE  Sound'
<1>1. my[p] \in My /\ Learns(p, my[p])
  BY DEF Sound, CommandType, Learns
<1>2. QED
  BY <1>1, MovesSound

(* ... that commits the file. *)
LEMMA CommitsSound ==
  ASSUME Sound, NEW p \in Processes, NEW to \in PC, NEW file \in Store, NEW m \in My,
         Commit(p, to, file, m), Fits(to, job[p], m)
  PROVE  Sound'
<1>1. CommandType' /\ CommandsSound'
  BY MoveFrame DEF Sound, Commit
<1>2. WorldType' /\ AuthorityType'
  BY CommitWorld, AuthorityFrame DEF Sound, Commit
<1>3. QED
  BY <1>1, <1>2 DEF Sound

(* The authorization file keeps its type. *)
LEMMA AuthoritiesSound ==
  ASSUME Sound, NEW p \in Processes, Record(p) \/ RecordSuccessor(p) \/ Consume(p)
  PROVE  Sound'
<1> USE DEF Sound
<1>1. my[p] \in My /\ Fits(pc[p], job[p], my[p])
  BY DEF CommandType, CommandsSound
<1>2. CommandType' /\ CommandsSound'
  BY LeaveFrame DEF Record, RecordSuccessor, Consume
<1>3. WorldType'
  BY WorldFrame DEF Record, RecordSuccessor, Consume
<1>4. CASE Record(p)
  <2>1. my[p].auth \in Authorization /\ my[p].auth.ev \in Evidence
    BY <1>1, <1>4 DEF Record, Fits, My, Authorization
  <2>2. authorizations' \subseteq Authorization /\ active' \in [Evidence -> {None} \cup Authorization]
    BY <1>4, <2>1 DEF Record, AuthorityType
  <2>3. QED
    BY <1>2, <1>3, <1>4, <2>2 DEF Record, AuthorityType
<1>5. CASE RecordSuccessor(p)
  <2> DEFINE m == my[p]  a == Predecessor(m)
  <2>1. m.auth \in Authorization /\ m.auth.ev \in Evidence /\ m.auth.gen # 0 /\ m.binding \in Bindings
    BY <1>1, <1>5 DEF RecordSuccessor, Fits, My, Authorization
  <2>2. m.asOf \in Nat /\ m.auth.gen - 1 \in Nat
    BY <1>1, <2>1 DEF My, Authorization
  <2>3. a \in Authorization
    BY <2>1, <2>2 DEF Predecessor, Authorization
  <2>4. /\ consumptions' = consumptions
        /\ \/ authorizations' = authorizations /\ supersessions' = supersessions /\ active' = active
           \/ /\ authorizations' = authorizations \cup {m.auth}
              /\ supersessions' = supersessions \cup {[of |-> a, by |-> m.auth]}
              /\ active' = [active EXCEPT ![m.auth.ev] = m.auth]
    BY <1>5 DEF RecordSuccessor
  <2> HIDE DEF m, a
  <2>5. QED
    BY <1>2, <1>3, <2>1, <2>3, <2>4 DEF AuthorityType
<1>6. CASE Consume(p)
  <2>1. my[p].auth \in Authorization /\ my[p].id \in Nat
    BY <1>1, <1>6 DEF Consume, Fits, My
  <2>2. consumptions' \subseteq [of : Authorization, id : Nat]
    BY <1>6, <2>1 DEF Consume, AuthorityType
  <2>3. QED
    BY <1>2, <1>3, <1>6, <2>2 DEF Consume, AuthorityType
<1>7. QED
  BY <1>4, <1>5, <1>6

(* The steps that read the files, or write the observation file. *)
LEMMA FilesSound ==
  ASSUME Sound, NEW p \in Processes,
         \/ AssertAuthorization(p) \/ Admit(p)
         \/ Allocating(p) \/ Allocate(p) \/ Normalize(p) \/ Accepting(p) \/ Accept(p)
         \/ Purging(p) \/ Purge(p) \/ ReadAll(p) \/ Replay(p) \/ Returns(p) \/ Crash(p)
  PROVE  Sound'
<1> DEFINE m == my[p]
<1>1. m \in My /\ pc[p] \in PC /\ job[p] \in Jobs /\ Fits(pc[p], job[p], m) /\ store \in Store /\ now \in Nat
  BY DEF Sound, CommandType, CommandsSound, WorldType
<1>2. {"idle", "record", "supersede", "assess", "admit", "consume", "purge", "replay", "allocate",
       "normalize", "accept", "returned", "purging", "allocating", "accepting"} \subseteq PC
  BY DEF PC, Queued
<1>3. CASE Ends(p)
  BY <1>3, EndsSound
<1>4. CASE AssertAuthorization(p)
  <2>1. CASE Moves(p, "admit") /\ UNCHANGED my
    <3>1. Fits("admit", job[p], my[p])
      BY <1>1, <1>4 DEF Fits, AssertAuthorization
    <3>2. QED
      BY <2>1, <3>1, <1>2, StaysSound
  <2>2. QED
    BY <1>3, <1>4, <2>1 DEF AssertAuthorization
<1>5. CASE Admit(p)
  <2> DEFINE id == store.idempotency[m.key]
             n == [m EXCEPT !.binding = binding[m.key], !.id = id]
             to == IF id # 0 THEN "purge" ELSE "allocate"
  <2>1. CASE binding[m.key] # None /\ Moves(p, to) /\ Learns(p, n)
    <3>1. job[p] = "execute" /\ m.auth # None /\ m.key = m.auth.ev
      BY <1>1, <1>5 DEF Admit, Fits
    <3>2. m.auth \in Authorization /\ m.key \in Evidence /\ m.key \in Keys
      BY <1>1, <3>1 DEF My, Authorization, Keys
    <3>3. binding[m.key] \in {None} \cup Bindings /\ id \in Nat
      BY <3>2, <1>1 DEF Sound, WorldType, Store
    <3>4. n \in My /\ n.auth = m.auth /\ n.key = m.key
      BY <1>1, <3>3 DEF My
    <3> HIDE DEF n
    <3>5. Fits(to, job[p], n)
      BY <3>1, <3>4 DEF Fits
    <3>6. to \in PC
      BY <1>2
    <3>7. QED
      BY <2>1, <3>4, <3>5, <3>6, MovesSound
  <2>2. QED
    BY <1>3, <1>5, <2>1 DEF Admit
<1>6. ASSUME NEW to \in {"purging", "allocating", "accepting"}, NEW from, ReadStore(p, from, to),
             Fits(to, job[p], m)
      PROVE  Sound'
  <2> DEFINE t == IF to = "purging" THEN now ELSE 0
             n == [m EXCEPT !.file = store, !.asOf = t]
  <2>1. n \in My /\ n.auth = m.auth /\ n.key = m.key /\ n.id = m.id
    BY <1>1 DEF My
  <2>2. Moves(p, to) /\ Learns(p, n)
    BY <1>6 DEF ReadStore
  <2> HIDE DEF n
  <2>3. Fits(to, job[p], n)
    BY <1>6, <2>1 DEF Fits
  <2>4. QED
    BY <1>2, <2>1, <2>2, <2>3, MovesSound
<1>7. CASE Allocating(p)
  <2>1. Fits("allocating", job[p], m)
    BY <1>1, <1>7 DEF Allocating, ReadStore, Fits
  <2>2. QED
    BY <1>6, <1>7, <2>1 DEF Allocating
<1>8. CASE Accepting(p)
  <2>1. Fits("accepting", job[p], m)
    BY <1>1, <1>8 DEF Accepting, ReadStore, Fits
  <2>2. QED
    BY <1>6, <1>8, <2>1 DEF Accepting
<1>9. CASE Purging(p)
  <2>1. Fits("purging", job[p], m)
    BY <1>1, <1>9 DEF Purging, ReadStore, Fits
  <2>2. QED
    BY <1>6, <1>9, <2>1 DEF Purging
<1>10. CASE Allocate(p)
  <2> DEFINE next == m.file.sequence + 1
             file == [m.file EXCEPT !.sequence = next]
             n == [m EXCEPT !.id = next, !.file = EmptyStore]
             to == IF job[p] = "ingest" THEN "normalize" ELSE "accept"
  <2>1. m.file \in Store /\ next \in Nat /\ next # 0
    BY <1>1 DEF My, Store
  <2>2. file \in Store
    BY <2>1 DEF Store
  <2>3. n \in My /\ n.auth = m.auth /\ n.key = m.key /\ n.id = next
    BY <1>1, <2>1, NothingTypes DEF My
  <2>4. Commit(p, to, file, n)
    BY <1>10 DEF Allocate
  <2> HIDE DEF n, file, next
  <2>5. Fits(to, job[p], n)
    BY <1>1, <1>10, <2>1, <2>3 DEF Allocate, Fits
  <2>6. to \in PC
    BY <1>2
  <2>7. QED
    BY <2>2, <2>3, <2>4, <2>5, <2>6, CommitsSound
<1>11. CASE Normalize(p)
  <2>1. CASE Moves(p, "accept") /\ UNCHANGED my
    <3>1. Fits("accept", job[p], my[p])
      BY <1>1, <1>11 DEF Fits, Normalize
    <3>2. QED
      BY <2>1, <3>1, <1>2, StaysSound
  <2>2. QED
    BY <1>3, <1>11, <2>1 DEF Normalize
<1>12. CASE Accept(p)
  <2> DEFINE to == AfterAccept(p)
             file == [m.file EXCEPT !.records = @ \cup {Admitted(m)}, !.idempotency[m.key] = m.id]
             taken == m.file.idempotency[m.key]
  <2>1. job[p] \in {"execute", "ingest"} /\ m.id # 0 /\ m.id \in Nat
    BY <1>1, <1>12 DEF Accept, Fits, My
  <2>2. m.key \in Keys
    <3>1. CASE job[p] = "execute"
      BY <1>1, <3>1 DEF Fits, My, Authorization, Keys
    <3>2. CASE job[p] = "ingest"
      BY <1>1, <3>2 DEF Fits, Keys
    <3>3. QED
      BY <2>1, <3>1, <3>2
  <2>3. m.file \in Store /\ taken \in Nat
    BY <1>1, <2>2 DEF My, Store
  <2>4. Admitted(m) \in Observation
    <3>1. m.binding \in {None} \cup Bindings /\ m.seen \in Nat
      BY <1>1 DEF My
    <3>2. QED
      BY <3>1, <2>1, <2>2 DEF Admitted, Observation
  <2>5. file \in Store
    BY <2>1, <2>2, <2>3, <2>4 DEF Store
  <2>6. ASSUME NEW id \in Nat
        PROVE  Done(m, id) \in My /\ Fits(to, job[p], Done(m, id))
    <3> DEFINE n == Done(m, id)
    <3>1. m.auth \in {None} \cup Authorization
      BY <1>1 DEF My
    <3>2. n \in My /\ n.auth = m.auth /\ n.key = m.key
      BY <2>2, <3>1, NothingTypes DEF Done, My
    <3> HIDE DEF n
    <3>3. Fits(to, job[p], n)
      BY <1>1, <2>1, <3>2 DEF Fits, AfterAccept
    <3>4. QED
      BY <3>2, <3>3 DEF n
  <2>7. to \in PC
    BY <1>2 DEF AfterAccept
  <2>8. \/ Moves(p, to) /\ Learns(p, Done(m, taken))
        \/ Ends(p)
        \/ Commit(p, to, file, Done(m, m.id))
    BY <1>12 DEF Accept
  <2> HIDE DEF to, file, taken, m
  <2>9. CASE Moves(p, to) /\ Learns(p, Done(m, taken))
    BY <2>3, <2>6, <2>7, <2>9, MovesSound
  <2>10. CASE Commit(p, to, file, Done(m, m.id))
    BY <2>1, <2>5, <2>6, <2>7, <2>10, CommitsSound
  <2>11. QED
    BY <1>3, <2>8, <2>9, <2>10
<1>13. CASE Purge(p)
  <2> DEFINE file == Purged(m.file, m.asOf)
  <2>1. m.file \in Store
    BY <1>1 DEF My
  <2>2. file \in Store
    <3>1. {IF Due(r, m.asOf) THEN [r EXCEPT !.payload = FALSE] ELSE r : r \in m.file.records}
            \subseteq Observation
      BY <2>1 DEF Store, Observation
    <3>2. QED
      BY <2>1, <3>1 DEF Purged, Store
  <2>3. Fits("replay", job[p], m)
    BY <1>1, <1>13 DEF Purge, Fits
  <2>4. \/ Commit(p, "replay", file, m)
        \/ Moves(p, "replay") /\ UNCHANGED my
    BY <1>13 DEF Purge
  <2> HIDE DEF file
  <2>5. QED
    BY <1>1, <1>2, <2>2, <2>3, <2>4, CommitsSound, StaysSound
<1>14. CASE ReadAll(p)
  <2> DEFINE n == [m EXCEPT !.got = {r \in store.records : r.payload}]
  <2>1. n \in My /\ n.auth = m.auth /\ n.key = m.key
    <3>1. {r \in store.records : r.payload} \in SUBSET Observation
      BY <1>1 DEF Store
    <3>2. QED
      BY <1>1, <3>1 DEF My
  <2>2. Moves(p, "returned") /\ Learns(p, n)
    BY <1>14 DEF ReadAll
  <2> HIDE DEF n
  <2>3. Fits("returned", job[p], n)
    BY <1>1, <1>14 DEF ReadAll, Fits
  <2>4. QED
    BY <1>2, <2>1, <2>2, <2>3, MovesSound
<1>15. CASE Replay(p)
  <2>1. CASE Moves(p, "consume") /\ UNCHANGED my
    <3>1. Fits("consume", job[p], my[p])
      BY <1>1, <1>15 DEF Fits, Replay
    <3>2. QED
      BY <2>1, <3>1, <1>2, StaysSound
  <2>2. QED
    BY <1>3, <1>15, <2>1 DEF Replay
<1>16. CASE Returns(p) \/ Crash(p)
  BY <1>3, <1>16 DEF Returns, Crash
<1>17. QED
  BY <1>4, <1>5, <1>7, <1>8, <1>9, <1>10, <1>11, <1>12, <1>13, <1>14, <1>15, <1>16

(* Every step keeps the types, and what each command has read fits. *)
LEMMA StepSound == ASSUME TypeOK, CommandsSound, [Next]_vars PROVE TypeOK' /\ CommandsSound'
<1>1. Sound
  BY TypeParts DEF Sound
<1>2. Sound'
  <2>1. CASE Tick
    <3>1. WorldType'
      BY <1>1, <2>1 DEF Tick, Sound, WorldType, history
    <3>2. CommandType' /\ CommandsSound' /\ AuthorityType'
      BY <1>1, <2>1 DEF Tick, Sound, command, authority, CommandType, CommandsSound, AuthorityType
    <3>3. QED
      BY <3>1, <3>2 DEF Sound
  <2>2. CASE \E e \in Evidence : Reassess(e)
    <3>1. WorldType'
      BY <1>1, <2>2 DEF Reassess, Sound, WorldType, history
    <3>2. CommandType' /\ CommandsSound' /\ AuthorityType'
      BY <1>1, <2>2 DEF Reassess, Sound, command, authority, CommandType, CommandsSound, AuthorityType
    <3>3. QED
      BY <3>1, <3>2 DEF Sound
  <2>3. CASE UNCHANGED vars
    BY <1>1, <2>3 DEF vars, Sound, WorldType, command, authority, CommandType, CommandsSound, AuthorityType, history
  <2>4. QED
    BY <1>1, <2>1, <2>2, <2>3, BeginsSound, AuthoritiesSound, FilesSound DEF Next
<1>3. TypeOK'
  <2>1. CommandType' /\ WorldType' /\ AuthorityType'
    BY <1>2 DEF Sound
  <2>2. QED
    BY <2>1 DEF TypeOK, CommandType, WorldType, AuthorityType, Jobs
<1>4. QED
  BY <1>2, <1>3 DEF Sound
-----------------------------------------------------------------------------
(* What has expired stays so. *)
LEMMA ExpiredStays ==
  ASSUME TypeOK, TypeOK', now' >= now, NEW a \in Authorization, Expired(a)
  PROVE  Expired(a)'
<1>1. a.at \in Nat /\ now \in Nat /\ now' \in Nat
  BY DEF TypeOK, Authorization
<1>2. now >= a.at + Ttl
  BY DEF Expired
<1>3. now' >= a.at + Ttl
  BY <1>1, <1>2
<1>4. QED
  BY <1>3 DEF Expired

(* A step that leaves the authorizations alone keeps what is said of them. *)
LEMMA AuthorityKept ==
  ASSUME TypeOK, TypeOK', AuthoritySound, now' >= now, UNCHANGED <<authorizations, active, supersessions>>
  PROVE  AuthoritySound'
<1>1. ASSUME NEW s \in supersessions PROVE Expired(s.of)'
  <2>1. s.of \in Authorization /\ Expired(s.of)
    BY DEF TypeOK, AuthoritySound, SupersessionsSound
  <2>2. QED
    BY <2>1, ExpiredStays
<1>2. SupersessionsSound'
  BY <1>1 DEF AuthoritySound, SupersessionsSound
<1>3. ASSUME NEW e \in Evidence PROVE ChainSound(e)'
  BY DEF AuthoritySound, ChainSound, Superseded, Root
<1>4. QED
  BY <1>2, <1>3 DEF AuthoritySound

(* PREPARE records a root only where there is no authorization. *)
LEMMA RecordKeeps ==
  ASSUME IInv, TypeOK', NEW p \in Processes, Record(p)
  PROVE  AuthoritySound'
<1>a. PICK a : a = my[p].auth
  OBVIOUS
<1>1. a \in Authorization /\ a # None /\ a.gen = 0 /\ a.ev \in Evidence
  <2>1. my[p] \in My /\ Fits(pc[p], job[p], my[p]) /\ pc[p] = "record"
    BY DEF IInv, TypeOK, CommandsSound, Record
  <2>2. QED
    BY <1>a, <2>1 DEF Fits, My, Authorization
<1>2. now' = now /\ supersessions' = supersessions
  BY DEF Record
<1>3. CASE Root(a.ev) # {}
  <2>1. UNCHANGED <<authorizations, active, supersessions>>
    BY <1>a, <1>3 DEF Record
  <2>2. now' >= now
    BY <1>2 DEF IInv, TypeOK
  <2>3. QED
    BY <2>1, <2>2, AuthorityKept DEF IInv
<1>4. CASE Root(a.ev) = {}
  <2>1. authorizations' = authorizations \cup {a} /\ active' = [active EXCEPT ![a.ev] = a]
    BY <1>a, <1>4 DEF Record
  <2>2. \A b \in authorizations : b.ev # a.ev
    <3>1. ChainSound(a.ev)
      BY <1>1 DEF IInv, AuthoritySound
    <3>2. active[a.ev] = None
      BY <1>4, <3>1 DEF ChainSound
    <3>3. QED
      BY <3>1, <3>2 DEF ChainSound
  <2>3. SupersessionsSound'
    <3>1. SupersessionsSound
      BY DEF IInv, AuthoritySound
    <3>2. \A s \in supersessions : Expired(s.of)'
      BY <3>1, <1>2 DEF SupersessionsSound, Expired
    <3>3. QED
      BY <3>1, <3>2, <1>2, <2>1 DEF SupersessionsSound
  <2>4. \A s \in supersessions : s.of # a
    BY <2>2 DEF IInv, AuthoritySound, SupersessionsSound
  <2>5. ASSUME NEW e \in Evidence PROVE ChainSound(e)'
    <3>1. active \in [Evidence -> {None} \cup Authorization] /\ ChainSound(e)
      BY DEF IInv, TypeOK, AuthoritySound
    <3>2. CASE e = a.ev
      <4>1. active'[e] = a /\ \A b \in authorizations' : b.ev = e => b = a
        BY <1>1, <2>1, <2>2, <3>1, <3>2
      <4>2. a \in Root(e)' /\ \A b \in Root(e)' : b = a
        BY <1>1, <2>1, <3>2, <4>1 DEF Root
      <4>3. ~Superseded(a)'
        BY <1>2, <2>4 DEF Superseded
      <4>4. a \in authorizations'
        BY <2>1
      <4>5. QED
        BY <1>1, <3>2, <4>1, <4>2, <4>3, <4>4 DEF ChainSound
    <3>3. CASE e # a.ev
      <4>1. active'[e] = active[e] /\ Root(e)' = Root(e)
        BY <1>1, <2>1, <3>1, <3>3 DEF Root
      <4>2. \A b : Superseded(b)' <=> Superseded(b)
        BY <1>2 DEF Superseded
      <4>3. \A b \in authorizations' : b.ev = e => b \in authorizations
        BY <2>1, <3>3
      <4>4. QED
        BY <2>1, <3>1, <4>1, <4>2, <4>3 DEF ChainSound
    <3>4. QED
      BY <3>2, <3>3
  <2>6. QED
    BY <2>3, <2>5 DEF AuthoritySound
<1>5. QED
  BY <1>3, <1>4

(* SUPERSEDE lengthens a chain at its end. *)
LEMMA SuccessorKeeps ==
  ASSUME IInv, TypeOK', NEW p \in Processes, RecordSuccessor(p)
  PROVE  AuthoritySound'
<1>a. PICK m, a, b : m = my[p] /\ a = Predecessor(m) /\ b = m.auth
  OBVIOUS
<1>1. b \in Authorization /\ b.ev \in Evidence /\ a \in Authorization /\ a.ev = b.ev /\ a.gen \in Nat
      /\ b.gen = a.gen + 1
  <2>1. m \in My /\ Fits(pc[p], job[p], m) /\ pc[p] = "supersede"
    BY <1>a DEF IInv, TypeOK, CommandsSound, RecordSuccessor
  <2>2. b \in Authorization /\ m.binding \in Bindings /\ m.asOf \in Nat /\ b.gen # 0
    BY <1>a, <2>1 DEF Fits, My
  <2>3. b.ev \in Evidence /\ b.gen \in Nat
    BY <2>2 DEF Authorization
  <2>4. QED
    BY <1>a, <2>2, <2>3 DEF Predecessor, Authorization
<1>2. now' = now
  BY DEF RecordSuccessor
<1>3. CASE ~MaySupersede(m)
  <2>1. UNCHANGED <<authorizations, active, supersessions>>
    BY <1>a, <1>3 DEF RecordSuccessor
  <2>2. now' >= now
    BY <1>2 DEF IInv, TypeOK
  <2>3. QED
    BY <2>1, <2>2, AuthorityKept DEF IInv
<1>4. CASE MaySupersede(m)
  <2>1. /\ authorizations' = authorizations \cup {b}
        /\ supersessions' = supersessions \cup {[of |-> a, by |-> b]}
        /\ active' = [active EXCEPT ![b.ev] = b]
    BY <1>a, <1>4 DEF RecordSuccessor
  <2>2. ~Superseded(a) /\ active[a.ev] = a /\ Expired(a)
    BY <1>a, <1>4 DEF MaySupersede
  <2>3. a # None /\ b # None
    BY <1>1 DEF Authorization
  <2>4. ChainSound(b.ev) /\ SupersessionsSound
    BY <1>1 DEF IInv, AuthoritySound
  <2>5. a \in authorizations /\ b \notin authorizations
    <3>1. a \in authorizations
      BY <1>1, <2>2, <2>3, <2>4 DEF ChainSound
    <3>2. b \in authorizations => b = a \/ b.gen < a.gen
      BY <1>1, <2>2, <2>4 DEF ChainSound
    <3>3. QED
      BY <1>1, <3>1, <3>2
  <2>6. SupersessionsSound'
    <3> DEFINE t == [of |-> a, by |-> b]
    <3>1. t.of = a /\ t.by = b /\ supersessions' = supersessions \cup {t}
      BY <2>1
    <3> HIDE DEF t
    <3>2. \A s \in supersessions : s.of # a /\ s.by # b
      BY <2>2, <2>4, <2>5 DEF Superseded, SupersessionsSound
    <3>3. \A s, u \in supersessions' : s.of = u.of \/ s.by = u.by => s = u
      BY <2>4, <3>1, <3>2 DEF SupersessionsSound
    <3>4. \A s \in supersessions' : Expired(s.of)'
      BY <1>2, <2>2, <2>4, <3>1 DEF SupersessionsSound, Expired
    <3>5. \A s \in supersessions' : {s.of, s.by} \subseteq authorizations'
                                    /\ s.by.ev = s.of.ev /\ s.by.gen = s.of.gen + 1
      BY <1>1, <2>1, <2>4, <2>5, <3>1 DEF SupersessionsSound
    <3>6. QED
      BY <3>3, <3>4, <3>5 DEF SupersessionsSound
  <2>7. ASSUME NEW c PROVE Superseded(c)' <=> Superseded(c) \/ c = a
    <3>1. PICK t : t = [of |-> a, by |-> b]
      OBVIOUS
    <3>2. t.of = a /\ supersessions' = supersessions \cup {t}
      BY <2>1, <3>1
    <3>3. Superseded(c)' <=> \E s \in supersessions \cup {t} : s.of = c
      BY <3>2 DEF Superseded
    <3>4. QED
      BY <3>2, <3>3 DEF Superseded
  <2>8. ~Superseded(b)
    BY <2>4, <2>5 DEF Superseded, SupersessionsSound
  <2>9. ASSUME NEW e \in Evidence PROVE ChainSound(e)'
    <3>1. active \in [Evidence -> {None} \cup Authorization] /\ ChainSound(e)
      BY DEF IInv, TypeOK, AuthoritySound
    <3>2. Root(e)' = Root(e)
      BY <1>1, <2>1 DEF Root
    <3>3. CASE e = b.ev
      <4>1. active'[e] = b /\ active[e] = a
        BY <1>1, <2>1, <2>2, <3>1, <3>3
      <4>2. b \in authorizations' /\ ~Superseded(b)'
        BY <1>1, <2>1, <2>5, <2>7, <2>8
      <4>3. ASSUME NEW c \in authorizations', c.ev = e
            PROVE  c = b \/ (Superseded(c)' /\ c.gen < b.gen)
        <5>1. CASE c = a
          BY <1>1, <2>7, <5>1
        <5>2. CASE c # a /\ c # b
          <6>1. c \in authorizations /\ Superseded(c) /\ c.gen < a.gen
            BY <2>1, <3>1, <4>1, <4>3, <5>2 DEF ChainSound
          <6>2. c.gen \in Nat
            BY <6>1 DEF IInv, TypeOK, Authorization
          <6>3. QED
            BY <1>1, <2>7, <6>1, <6>2
        <5>3. QED
          BY <5>1, <5>2
      <4>4. Root(e) # {} /\ \A c, d \in Root(e) : c = d
        BY <2>3, <3>1, <4>1 DEF ChainSound
      <4>5. QED
        BY <2>3, <3>2, <3>3, <4>1, <4>2, <4>3, <4>4 DEF ChainSound
    <3>4. CASE e # b.ev
      <4>1. active'[e] = active[e]
        BY <1>1, <2>1, <3>1, <3>4
      <4>2. a # active[e]
        BY <1>1, <2>3, <3>1, <3>4 DEF ChainSound
      <4>3. \A c \in authorizations' : c.ev = e => c \in authorizations
        BY <2>1, <3>4
      <4>4. QED
        BY <2>1, <2>7, <3>1, <3>2, <4>1, <4>2, <4>3 DEF ChainSound
    <3>5. QED
      BY <3>3, <3>4
  <2>10. QED
    BY <2>6, <2>9 DEF AuthoritySound
<1>5. QED
  BY <1>3, <1>4

(* The other steps leave the authorizations alone; only the clock advances. *)
LEMMA OthersKeepAuthority ==
  ASSUME TypeOK, [Next]_vars, \A p \in Processes : ~Record(p) /\ ~RecordSuccessor(p)
  PROVE  UNCHANGED <<authorizations, active, supersessions>> /\ now' >= now
<1>1. now' = now => now' >= now
  BY DEF TypeOK
<1>2. CASE Tick
  BY <1>2 DEF Tick, authority, TypeOK
<1>3. CASE UNCHANGED vars
  BY <1>1, <1>3 DEF vars, authority
<1>4. CASE \E e \in Evidence : Reassess(e)
  BY <1>1, <1>4 DEF Reassess, authority
<1>5. ASSUME NEW p \in Processes,
             \/ \E e \in Evidence : Prepare(p, e)
             \/ \E a \in authorizations : Supersede(p, a) \/ Execute(p, a)
             \/ \E o \in Offers : Ingest(p, o)
             \/ Read(p)
      PROVE  UNCHANGED <<now, authority>>
  BY <1>5 DEF Prepare, Supersede, Execute, Ingest, Read, Begin
<1>6. ASSUME NEW p \in Processes,
             AssertAuthorization(p) \/ Admit(p) \/ Allocating(p) \/ Normalize(p) \/ Accepting(p)
             \/ Purging(p) \/ ReadAll(p) \/ Replay(p) \/ Returns(p) \/ Crash(p)
      PROVE  UNCHANGED <<now, authority>>
  BY <1>6 DEF AssertAuthorization, Admit, Allocating, Normalize, Accepting, Purging, ReadAll, Replay,
              Returns, Crash, Ends, Moves, ReadStore
<1>7. ASSUME NEW p \in Processes, Allocate(p) \/ Accept(p) \/ Purge(p)
      PROVE  UNCHANGED <<now, authority>>
  BY <1>7 DEF Allocate, Accept, Purge, Commit, Moves, Ends
<1>8. ASSUME NEW p \in Processes, Consume(p)
      PROVE  UNCHANGED <<now, authorizations, active, supersessions>>
  BY <1>8 DEF Consume
<1>9. QED
  BY <1>1, <1>2, <1>3, <1>4, <1>5, <1>6, <1>7, <1>8 DEF Next, authority

(* IInv is inductive. *)
LEMMA IInvInit == Init => IInv
<1> SUFFICES ASSUME Init PROVE IInv
  OBVIOUS
<1>1. TypeOK
  BY NothingTypes DEF Init, TypeOK, PC
<1>2. CommandsSound
  BY DEF Init, CommandsSound, Fits
<1>3. AuthoritySound
  BY DEF Init, AuthoritySound, SupersessionsSound, ChainSound, Root
<1>4. QED
  BY <1>1, <1>2, <1>3 DEF IInv

LEMMA IInvStep == IInv /\ [Next]_vars => IInv'
<1> SUFFICES ASSUME IInv, [Next]_vars PROVE IInv'
  OBVIOUS
<1>1. TypeOK' /\ CommandsSound'
  BY StepSound DEF IInv
<1>2. AuthoritySound'
  <2>1. CASE \E p \in Processes : Record(p)
    BY <1>1, <2>1, RecordKeeps
  <2>2. CASE \E p \in Processes : RecordSuccessor(p)
    BY <1>1, <2>2, SuccessorKeeps
  <2>3. CASE \A p \in Processes : ~Record(p) /\ ~RecordSuccessor(p)
    <3>1. UNCHANGED <<authorizations, active, supersessions>> /\ now' >= now
      BY <2>3, OthersKeepAuthority DEF IInv
    <3>2. QED
      BY <1>1, <3>1, AuthorityKept DEF IInv
  <2>4. QED
    BY <2>1, <2>2, <2>3
<1>3. QED
  BY <1>1, <1>2 DEF IInv

LEMMA IInvAlways == Spec => []IInv
<1>1. Init => IInv
  BY IInvInit
<1>2. IInv /\ [Next]_vars => IInv'
  BY IInvStep
<1>3. QED
  BY <1>1, <1>2, PTL DEF Spec
-----------------------------------------------------------------------------
(* Every variable keeps its type, whatever the commands do to the two       *)
(* files and whenever one of them dies.                                     *)
THEOREM AdmissionTypeCorrect == Spec => []TypeOK
<1>1. IInv => TypeOK
  BY DEF IInv
<1>2. QED
  BY <1>1, IInvAlways, PTL

(* At most one authorization of an evidence is unexpired, however PREPARE   *)
(* and SUPERSEDE overlap and however long ago a successor was drawn up:     *)
(* all but the active one have been superseded, which takes expiry.         *)
THEOREM OneLive == Spec => []OneLiveAuthorization
<1>1. IInv => OneLiveAuthorization
  <2> SUFFICES ASSUME IInv, NEW a \in authorizations, NEW b \in authorizations,
                      a.ev = b.ev, ~Expired(a), ~Expired(b)
               PROVE  a = b
    BY DEF OneLiveAuthorization
  <2>1. a.ev \in Evidence
    BY DEF IInv, TypeOK, Authorization
  <2>2. ASSUME NEW c \in authorizations, c.ev = a.ev, ~Expired(c) PROVE c = active[a.ev]
    <3>1. c = active[a.ev] \/ Superseded(c)
      BY <2>1, <2>2 DEF IInv, AuthoritySound, ChainSound
    <3>2. ~Superseded(c)
      BY <2>2 DEF IInv, AuthoritySound, SupersessionsSound, Superseded
    <3>3. QED
      BY <3>1, <3>2
  <2>3. QED
    BY <2>2
<1>2. QED
  BY <1>1, IInvAlways, PTL

(* No operation leaves an authorization file that _validateState refuses:   *)
(* the authorizations of an evidence are one chain from one root.           *)
THEOREM ChainReadable == Spec => []Readable
<1>1. IInv => Readable
  <2> SUFFICES ASSUME IInv PROVE Readable
    OBVIOUS
  <2>1. SupersessionsSound
    BY DEF IInv, AuthoritySound
  <2>2. ASSUME NEW e \in Evidence, {a \in authorizations : a.ev = e} # {}
        PROVE  /\ active[e] \in {a \in authorizations : a.ev = e} /\ ~Superseded(active[e])
               /\ \A a \in {c \in authorizations : c.ev = e} : a # active[e] => Superseded(a)
               /\ Cardinality(Root(e)) = 1
    <3>1. ChainSound(e) /\ active[e] # None
      BY <2>2 DEF IInv, AuthoritySound, ChainSound
    <3>2. PICK r : r \in Root(e)
      BY <3>1 DEF ChainSound
    <3>3. Root(e) = {r}
      BY <3>1, <3>2 DEF ChainSound
    <3>4. Cardinality(Root(e)) = 1
      BY <3>3, FS_Singleton
    <3>5. QED
      BY <3>1, <3>4 DEF ChainSound
  <2>3. ASSUME NEW e \in Evidence, {a \in authorizations : a.ev = e} = {}
        PROVE  active[e] = None
    BY <2>3 DEF IInv, AuthoritySound, ChainSound
  <2>4. QED
    BY <2>1, <2>2, <2>3 DEF Readable, SupersessionsSound
<1>2. QED
  BY <1>1, IInvAlways, PTL
-----------------------------------------------------------------------------
(* What a step may do to the observation file while one queue is shared. *)
Grows ==
  /\ \A r \in store.records : \E s \in store'.records : Kept(r, s)
  /\ \A k \in Keys : store.idempotency[k] # 0 => store'.idempotency[k] = store.idempotency[k]
  /\ store'.sequence >= store.sequence
  /\ \A s \in store'.records : \/ \A r \in store.records : r.id # s.id
                               \/ \E r \in store.records : r.id = s.id /\ (s.payload => r.payload)

(* A file that does not change does not shrink. *)
LEMMA SameGrows == ASSUME store \in Store, store' = store PROVE Grows
<1>1. store.sequence >= store.sequence
  BY DEF Store
<1>2. QED
  BY <1>1 DEF Grows, Kept

(* The purge keeps every record, its key and its identifier. *)
LEMMA PurgedRecords ==
  ASSUME NEW file \in Store, NEW t \in Nat
  PROVE  /\ Purged(file, t) \in Store
         /\ Purged(file, t).sequence = file.sequence /\ Purged(file, t).idempotency = file.idempotency
         /\ \A s \in Purged(file, t).records : \E r \in file.records :
              /\ s.id = r.id /\ s.key = r.key /\ s.until = r.until
              /\ IF Due(r, t) THEN s.payload = FALSE /\ s = [r EXCEPT !.payload = FALSE] ELSE s = r
         /\ \A r \in file.records : \E s \in Purged(file, t).records :
              Kept(r, s) /\ s.id = r.id /\ s.key = r.key
<1> DEFINE After(r) == IF Due(r, t) THEN [r EXCEPT !.payload = FALSE] ELSE r
<1>1. Purged(file, t) = [file EXCEPT !.records = {After(r) : r \in file.records}]
  BY DEF Purged
<1>2. \A r \in file.records :
        /\ After(r) \in Observation /\ Kept(r, After(r))
        /\ After(r).id = r.id /\ After(r).key = r.key /\ After(r).until = r.until
        /\ IF Due(r, t) THEN After(r).payload = FALSE /\ After(r) = [r EXCEPT !.payload = FALSE]
           ELSE After(r) = r
  BY DEF Store, Observation, Kept
<1> HIDE DEF After
<1>3. /\ Purged(file, t).records = {After(r) : r \in file.records}
      /\ Purged(file, t).sequence = file.sequence /\ Purged(file, t).idempotency = file.idempotency
  BY <1>1 DEF Store
<1>4. Purged(file, t) \in Store
  <2>1. {After(r) : r \in file.records} \subseteq Observation
    BY <1>2
  <2>2. QED
    BY <1>1, <2>1 DEF Store
<1>5. ASSUME NEW s \in Purged(file, t).records
      PROVE  \E r \in file.records :
                /\ s.id = r.id /\ s.key = r.key /\ s.until = r.until
                /\ IF Due(r, t) THEN s.payload = FALSE /\ s = [r EXCEPT !.payload = FALSE] ELSE s = r
  <2>1. PICK r \in file.records : s = After(r)
    BY <1>3, <1>5
  <2>2. QED
    BY <1>2, <2>1
<1>6. ASSUME NEW r \in file.records
      PROVE  \E s \in Purged(file, t).records : Kept(r, s) /\ s.id = r.id /\ s.key = r.key
  <2>1. After(r) \in Purged(file, t).records
    BY <1>3
  <2>2. QED
    BY <1>2, <2>1
<1>7. QED
  BY <1>3, <1>4, <1>5, <1>6

(* The step that gives out an identifier. *)
LEMMA AllocateGrows ==
  ASSUME store \in Store, RecordsSound(store), store' = [store EXCEPT !.sequence = store.sequence + 1]
  PROVE  Grows /\ RecordsSound(store')
<1>1. store'.records = store.records /\ store'.idempotency = store.idempotency
      /\ store'.sequence = store.sequence + 1 /\ store.sequence \in Nat
  BY DEF Store
<1>2. store'.sequence >= store.sequence
  BY <1>1
<1>3. QED
  BY <1>1, <1>2 DEF Grows, RecordsSound, Kept

(* The step that accepts an observation. *)
LEMMA AcceptGrows ==
  ASSUME store \in Store, RecordsSound(store), NEW r \in Observation, NEW k \in Keys, r.key = k,
         store.idempotency[k] = 0, \A s \in store.records : s.id # r.id,
         store' = [store EXCEPT !.records = @ \cup {r}, !.idempotency[k] = r.id]
  PROVE  Grows /\ RecordsSound(store') /\ store'.idempotency[k] = r.id
<1>1. store'.records = store.records \cup {r} /\ store'.sequence = store.sequence
  BY DEF Store
<1>2. store'.idempotency[k] = r.id
  BY DEF Store
<1>3. \A j \in Keys : j # k => store'.idempotency[j] = store.idempotency[j]
  BY DEF Store
<1>4. store'.sequence >= store.sequence
  BY <1>1 DEF Store
<1>5. Grows
  BY <1>1, <1>3, <1>4 DEF Grows, Kept
<1>6. RecordsSound(store')
  <2>1. \A s, t \in store'.records : s.id = t.id => s = t
    BY <1>1 DEF RecordsSound
  <2>2. ASSUME NEW j \in Keys, store'.idempotency[j] # 0
        PROVE  \E s \in store'.records : s.id = store'.idempotency[j] /\ s.key = j
    <3>1. CASE j = k
      BY <1>1, <1>2, <3>1
    <3>2. CASE j # k
      BY <1>1, <1>3, <2>2, <3>2 DEF RecordsSound
    <3>3. QED
      BY <3>1, <3>2
  <2>3. QED
    BY <2>1, <2>2 DEF RecordsSound
<1>7. QED
  BY <1>2, <1>5, <1>6

(* The step that purges. *)
LEMMA PurgeGrows ==
  ASSUME store \in Store, RecordsSound(store), NEW t \in Nat, store' = Purged(store, t)
  PROVE  Grows /\ RecordsSound(store')
<1> DEFINE f == Purged(store, t)
<1>a. /\ f.sequence = store.sequence /\ f.idempotency = store.idempotency
      /\ \A s \in f.records : \E r \in store.records :
           /\ s.id = r.id /\ s.key = r.key
           /\ IF Due(r, t) THEN s.payload = FALSE /\ s = [r EXCEPT !.payload = FALSE] ELSE s = r
      /\ \A r \in store.records : \E s \in f.records : Kept(r, s) /\ s.id = r.id /\ s.key = r.key
  <2>1. f.sequence = store.sequence /\ f.idempotency = store.idempotency
    BY PurgedRecords
  <2>2. \A s \in f.records : \E r \in store.records :
           /\ s.id = r.id /\ s.key = r.key /\ s.until = r.until
           /\ IF Due(r, t) THEN s.payload = FALSE /\ s = [r EXCEPT !.payload = FALSE] ELSE s = r
    BY ONLY PurgedRecords, store \in Store, t \in Nat, Zenon
  <2>3. \A r \in store.records : \E s \in f.records : Kept(r, s) /\ s.id = r.id /\ s.key = r.key
    BY PurgedRecords
  <2>4. QED
    BY <2>1, <2>2, <2>3
<1>b. store' = f
  OBVIOUS
<1> HIDE DEF f
<1>1. store'.sequence >= store.sequence /\ store'.idempotency = store.idempotency
  BY <1>a, <1>b DEF Store
<1>2. \A s \in store'.records : \E r \in store.records :
        /\ s.id = r.id /\ s.key = r.key
        /\ IF Due(r, t) THEN s.payload = FALSE /\ s = [r EXCEPT !.payload = FALSE] ELSE s = r
  BY <1>a, <1>b
<1>3. \A r \in store.records : \E s \in store'.records : Kept(r, s) /\ s.id = r.id /\ s.key = r.key
  BY <1>a, <1>b
<1>4. Grows
  <2>1. \A s \in store'.records : \E r \in store.records : r.id = s.id /\ (s.payload => r.payload)
    BY <1>2
  <2>2. QED
    BY <1>1, <1>3, <2>1 DEF Grows
<1>5. ASSUME NEW s \in store'.records, NEW u \in store'.records, s.id = u.id PROVE s = u
  <2>1. PICK r \in store.records :
          /\ s.id = r.id
          /\ IF Due(r, t) THEN s.payload = FALSE /\ s = [r EXCEPT !.payload = FALSE] ELSE s = r
    BY <1>2
  <2>2. PICK q \in store.records :
          /\ u.id = q.id
          /\ IF Due(q, t) THEN u.payload = FALSE /\ u = [q EXCEPT !.payload = FALSE] ELSE u = q
    BY <1>2
  <2>3. r = q
    BY <1>5, <2>1, <2>2 DEF RecordsSound
  <2>4. CASE Due(r, t)
    <3>1. s = [r EXCEPT !.payload = FALSE] /\ u = [r EXCEPT !.payload = FALSE]
      BY <2>1, <2>2, <2>3, <2>4
    <3>2. QED
      BY <3>1
  <2>5. CASE ~Due(r, t)
    BY <2>1, <2>2, <2>3, <2>5
  <2>6. QED
    BY <2>4, <2>5
<1>6. QED
  BY <1>1, <1>3, <1>4, <1>5 DEF RecordsSound

(* What the others have read stays true of a file that grows. *)
LEMMA OthersRead ==
  ASSUME store \in Store, Grows, NEW where, NEW what, NEW m \in My,
         what = "execute" => m.key \in Keys,
         Identified(where, what, m, store), Reads(where, what, m, store)
  PROVE  Identified(where, what, m, store') /\ Reads(where, what, m, store')
<1>1. Identified(where, what, m, store')
  BY DEF Identified, Grows
<1>2. ASSUME what = "read", where = "replay", NEW s \in m.file.records
      PROVE  /\ \E r \in store'.records : r.id = s.id
             /\ \A r \in store'.records : r.id = s.id => ~r.payload \/ Unexpired(s, m.asOf)
  <2>1. PICK r \in store.records : r.id = s.id
    BY <1>2 DEF Reads
  <2>2. PICK u \in store'.records : Kept(r, u)
    BY DEF Grows
  <2>3. r \in Observation
    BY DEF Store
  <2>4. u.id = s.id
    <3>1. CASE u = r
      BY <2>1, <3>1
    <3>2. CASE u = [r EXCEPT !.payload = FALSE]
      BY <2>1, <2>3, <3>2 DEF Observation
    <3>3. QED
      BY <2>2, <3>1, <3>2 DEF Kept
  <2>5. ASSUME NEW v \in store'.records, v.id = s.id PROVE ~v.payload \/ Unexpired(s, m.asOf)
    <3>1. PICK w \in store.records : w.id = s.id /\ (v.payload => w.payload)
      BY <2>1, <2>5 DEF Grows
    <3>2. ~w.payload \/ Unexpired(s, m.asOf)
      BY <1>2, <3>1 DEF Reads
    <3>3. QED
      BY <3>1, <3>2
  <2>6. QED
    BY <2>4, <2>5
<1>3. Reads(where, what, m, store')
  BY <1>2 DEF Reads
<1>4. QED
  BY <1>1, <1>3

(* A step of one command keeps what is said of the observation file, when   *)
(* the file grows, the command leaves the queue with what it writes or      *)
(* enters it when nobody is in it, and what it has read is so.              *)
LEMMA SharedFrame ==
  ASSUME SharedInv, NEW p \in Processes, NEW to, NEW what, NEW m,
         pc' = [pc EXCEPT ![p] = to], job' = [job EXCEPT ![p] = what], my' = [my EXCEPT ![p] = m],
         consumptions' = consumptions, Grows, RecordsSound(store'),
         \/ to \notin Queued /\ (store' = store \/ pc[p] \in Queued)
         \/ to \in Queued /\ store' = store /\ m.file = store /\ \A q \in Processes : pc[q] \notin Queued,
         Identified(to, what, m, store'), Reads(to, what, m, store')
  PROVE  QueueSound' /\ StoreSound' /\ ReadersSound'
<1>1. CommandType /\ CommandsSound /\ QueueSound /\ StoreSound /\ ReadersSound /\ store \in Store
  BY DEF SharedInv, IInv, TypeOK, CommandType, Jobs
<1>2. pc'[p] = to /\ job'[p] = what /\ my'[p] = m
  BY <1>1 DEF CommandType
<1>3. \A q \in Processes : q # p => pc'[q] = pc[q] /\ job'[q] = job[q] /\ my'[q] = my[q]
  BY <1>1 DEF CommandType
<1>4. QueueSound'
  <2>1. CASE to \notin Queued /\ store' = store
    BY <1>1, <1>2, <1>3, <2>1 DEF QueueSound
  <2>2. CASE to \notin Queued /\ pc[p] \in Queued
    BY <1>1, <1>2, <1>3, <2>2 DEF QueueSound
  <2>3. CASE to \in Queued /\ store' = store /\ m.file = store /\ \A q \in Processes : pc[q] \notin Queued
    BY <1>1, <1>2, <1>3, <2>3 DEF QueueSound
  <2>4. QED
    BY <2>1, <2>2, <2>3
<1>5. StoreSound'
  <2>1. \A c \in consumptions : c.of.ev \in Keys
    BY DEF SharedInv, IInv, TypeOK, Authorization, Keys
  <2>2. \A c \in consumptions : c.id # 0 /\ store'.idempotency[c.of.ev] = c.id
    BY <1>1, <2>1 DEF StoreSound, Grows
  <2>3. RecordsSound(store)'
    BY DEF RecordsSound
  <2>4. QED
    BY <2>2, <2>3 DEF StoreSound
<1>6. ASSUME NEW q \in Processes
      PROVE  (Identified(pc[q], job[q], my[q], store) /\ Reads(pc[q], job[q], my[q], store))'
  <2>1. CASE q = p
    <3>1. Identified(pc'[q], job'[q], my'[q], store') /\ Reads(pc'[q], job'[q], my'[q], store')
      BY <1>2, <2>1
    <3>2. QED
      BY <3>1 DEF Identified, Reads, Unexpired
  <2>2. CASE q # p
    <3>1. my[q] \in My /\ Fits(pc[q], job[q], my[q])
      BY <1>1 DEF CommandType, CommandsSound
    <3>2. job[q] = "execute" => my[q].key \in Keys
      BY <3>1 DEF Fits, My, Authorization, Keys
    <3>3. Identified(pc[q], job[q], my[q], store) /\ Reads(pc[q], job[q], my[q], store)
      BY <1>1 DEF ReadersSound
    <3>4. Identified(pc[q], job[q], my[q], store') /\ Reads(pc[q], job[q], my[q], store')
      BY <1>1, <3>1, <3>2, <3>3, OthersRead
    <3>5. Identified(pc'[q], job'[q], my'[q], store') /\ Reads(pc'[q], job'[q], my'[q], store')
      BY <1>3, <2>2, <3>4
    <3>6. QED
      BY <3>5 DEF Identified, Reads, Unexpired
  <2>3. QED
    BY <2>1, <2>2
<1>7. QED
  BY <1>4, <1>5, <1>6 DEF ReadersSound

Shared == QueueSound /\ StoreSound /\ ReadersSound

(* ... a step that leaves the file alone and does not enter the queue. *)
LEMMA QuietFrame ==
  ASSUME SharedInv, NEW p \in Processes, NEW to, to \notin Queued, NEW what, NEW m,
         pc' = [pc EXCEPT ![p] = to], job' = [job EXCEPT ![p] = what], my' = [my EXCEPT ![p] = m],
         consumptions' = consumptions, store' = store,
         Identified(to, what, m, store), Reads(to, what, m, store)
  PROVE  Shared'
<1>1. Grows /\ RecordsSound(store)
  BY SameGrows DEF SharedInv, IInv, TypeOK, StoreSound
<1>2. QueueSound' /\ StoreSound' /\ ReadersSound'
  BY <1>1, SharedFrame
<1>3. QED
  BY <1>2 DEF Shared

LEMMA BeginsShared ==
  ASSUME SharedInv, NEW p \in Processes,
         \/ \E e \in Evidence : Prepare(p, e)
         \/ \E a \in authorizations : Supersede(p, a) \/ Execute(p, a)
         \/ \E o \in Offers : Ingest(p, o)
         \/ Read(p)
  PROVE  Shared'
<1>1. ASSUME NEW what, NEW to, NEW m, Begin(p, what, to, m), m.got = {}, to \notin Queued,
             to \notin {"replay", "consume"}, what = "execute" => to = "assess"
      PROVE  Shared'
  <2>1. Identified(to, what, m, store) /\ Reads(to, what, m, store)
    BY <1>1 DEF Identified, Reads
  <2>2. QED
    BY <1>1, <2>1, QuietFrame DEF Begin, Goto, authority
<1>2. CASE \E e \in Evidence : Prepare(p, e)
  <2>1. PICK m : Begin(p, "prepare", "record", m) /\ m.got = {}
    BY <1>2 DEF Prepare, NothingRead
  <2>2. QED
    BY <1>1, <2>1 DEF Queued
<1>3. CASE \E a \in authorizations : Supersede(p, a)
  <2>a. PICK a \in authorizations : Supersede(p, a)
    BY <1>3
  <2> DEFINE n == [NothingRead EXCEPT !.asOf = a.at, !.binding = a.binding,
               !.auth = [ev |-> a.ev, gen |-> a.gen + 1, binding |-> binding[a.ev], at |-> now]]
  <2>b. Begin(p, "supersede", "supersede", n)
    BY <2>a DEF Supersede
  <2>c. n.got = {}
    BY DEF NothingRead
  <2>1. PICK m : Begin(p, "supersede", "supersede", m) /\ m.got = {}
    BY <2>b, <2>c
  <2>2. QED
    BY <1>1, <2>1 DEF Queued
<1>4. CASE \E a \in authorizations : Execute(p, a)
  <2>a. PICK a \in authorizations : Execute(p, a)
    BY <1>4
  <2> DEFINE n == [NothingRead EXCEPT !.auth = a, !.key = a.ev]
  <2>b. Begin(p, "execute", "assess", n)
    BY <2>a DEF Execute
  <2>c. n.got = {}
    BY DEF NothingRead
  <2>1. PICK m : Begin(p, "execute", "assess", m) /\ m.got = {}
    BY <2>b, <2>c
  <2>2. QED
    BY <1>1, <2>1 DEF Queued
<1>5. CASE \E o \in Offers : Ingest(p, o)
  <2>a. PICK o \in Offers, t \in 0..now :
          Begin(p, "ingest", "allocate", [NothingRead EXCEPT !.key = o, !.seen = t])
    BY <1>5 DEF Ingest
  <2>b. [NothingRead EXCEPT !.key = o, !.seen = t].got = {}
    BY DEF NothingRead
  <2>1. PICK m : Begin(p, "ingest", "allocate", m) /\ m.got = {}
    BY <2>a, <2>b
  <2>2. QED
    BY <1>1, <2>1 DEF Queued
<1>6. CASE Read(p)
  <2>1. Begin(p, "read", "purge", NothingRead) /\ NothingRead.got = {}
    BY <1>6 DEF Read, NothingRead
  <2>2. QED
    BY <1>1, <2>1 DEF Queued
<1>7. QED
  BY <1>2, <1>3, <1>4, <1>5, <1>6

(* ... one that ends, with or without a word to the authorization file. *)
LEMMA LeavesShared ==
  ASSUME SharedInv, NEW p \in Processes, Leave(p), consumptions' = consumptions, store' = store
  PROVE  Shared'
<1>1. Identified("idle", "none", NothingRead, store) /\ Reads("idle", "none", NothingRead, store)
  BY DEF Identified, Reads, NothingRead
<1>2. "idle" \notin Queued
  BY DEF Queued
<1>3. QED
  BY <1>1, <1>2, QuietFrame DEF Leave, Goto

LEMMA EndsShared == ASSUME SharedInv, NEW p \in Processes, Ends(p) PROVE Shared'
BY LeavesShared DEF Ends, authority

LEMMA MovesShared ==
  ASSUME SharedInv, NEW p \in Processes, NEW to, to \notin Queued, NEW m, Moves(p, to), Learns(p, m),
         Identified(to, job[p], m, store), Reads(to, job[p], m, store)
  PROVE  Shared'
<1>1. job' = [job EXCEPT ![p] = job[p]]
  BY DEF Moves, SharedInv, IInv, TypeOK
<1>2. QED
  BY <1>1, QuietFrame DEF Moves, Goto, Learns, authority

LEMMA StaysShared ==
  ASSUME SharedInv, NEW p \in Processes, NEW to, to \notin Queued, Moves(p, to), UNCHANGED my,
         Identified(to, job[p], my[p], store), Reads(to, job[p], my[p], store)
  PROVE  Shared'
<1>1. Learns(p, my[p])
  BY DEF Learns, SharedInv, IInv, TypeOK
<1>2. QED
  BY <1>1, MovesShared

LEMMA CommitsShared ==
  ASSUME SharedInv, NEW p \in Processes, pc[p] \in Queued, NEW to, to \notin Queued, NEW file, NEW m,
         Commit(p, to, file, m), Grows, RecordsSound(store'),
         Identified(to, job[p], m, store'), Reads(to, job[p], m, store')
  PROVE  Shared'
<1>1. job' = [job EXCEPT ![p] = job[p]] /\ consumptions' = consumptions
  BY DEF Commit, SharedInv, IInv, TypeOK, authority
<1>2. QueueSound' /\ StoreSound' /\ ReadersSound'
  BY <1>1, SharedFrame DEF Commit, Goto, Learns
<1>3. QED
  BY <1>2 DEF Shared

(* Starting to write: nobody else is, and the file is read as it is. *)
LEMMA EntersShared ==
  ASSUME turns' = "kept", SharedInv, NEW p \in Processes, NEW from, NEW to \in {"purging", "allocating", "accepting"},
         ReadStore(p, from, to), from \in {"purge", "allocate", "accept"}, (to = "purging" <=> from = "purge")
  PROVE  Shared'
<1> DEFINE m == my[p]
           n == [m EXCEPT !.file = store, !.asOf = IF to = "purging" THEN now ELSE 0]
<1>1. pc[p] = from /\ m \in My /\ store \in Store /\ Fits(from, job[p], m)
      /\ Identified(from, job[p], m, store) /\ Reads(from, job[p], m, store)
  BY DEF SharedInv, IInv, TypeOK, CommandsSound, ReadersSound, ReadStore
<1>2. n.file = store /\ n.got = m.got /\ n.id = m.id /\ n.key = m.key
  BY <1>1 DEF My
<1>3. Moves(p, to) /\ Learns(p, n)
  BY DEF ReadStore
<1> HIDE DEF n
<1>4. Identified(to, job[p], n, store)
  BY <1>1, <1>2 DEF Identified
<1>5. Reads(to, job[p], n, store)
  BY <1>1, <1>2 DEF Reads
<1>6. Grows /\ RecordsSound(store') /\ store' = store
  BY <1>3, SameGrows DEF SharedInv, IInv, TypeOK, StoreSound, Moves
<1>7. job' = [job EXCEPT ![p] = job[p]] /\ consumptions' = consumptions
  BY <1>3 DEF Moves, SharedInv, IInv, TypeOK, authority
<1>8. to \in Queued
  BY DEF Queued
<1>a. Identified(to, job[p], n, store') /\ Reads(to, job[p], n, store')
  BY <1>4, <1>5, <1>6
<1>b. pc' = [pc EXCEPT ![p] = to] /\ my' = [my EXCEPT ![p] = n]
  BY <1>3 DEF Moves, Goto, Learns
<1>d. ASSUME NEW q \in Processes PROVE pc[q] \notin Queued
  <2>1. pc \in [Processes -> PC] /\ from \notin Queued
    BY DEF SharedInv, IInv, TypeOK, Queued
  <2>2. q # p => ~({pc'[p], pc'[q]} \subseteq Queued)
    BY <1>3 DEF Moves, Settles
  <2>3. QED
    BY <1>1, <1>8, <1>b, <2>1, <2>2
<1>c. to \in Queued /\ store' = store /\ n.file = store /\ \A q \in Processes : pc[q] \notin Queued
  BY <1>2, <1>6, <1>8, <1>d
<1>9. QueueSound' /\ StoreSound' /\ ReadersSound'
  BY <1>6, <1>7, <1>a, <1>b, <1>c, SharedFrame
<1>10. QED
  BY <1>9 DEF Shared

(* What is known of a command under the invariant. *)
LEMMA Known ==
  ASSUME SharedInv, NEW p \in Processes
  PROVE  /\ pc[p] \in PC /\ job[p] \in Jobs /\ my[p] \in My /\ Fits(pc[p], job[p], my[p])
         /\ Identified(pc[p], job[p], my[p], store) /\ Reads(pc[p], job[p], my[p], store)
         /\ store \in Store /\ RecordsSound(store)
         /\ job[p] \in {"execute", "ingest"} => my[p].key \in Keys
         /\ pc[p] \in Queued => my[p].file = store
<1>1. /\ pc[p] \in PC /\ job[p] \in Jobs /\ my[p] \in My /\ Fits(pc[p], job[p], my[p])
      /\ Identified(pc[p], job[p], my[p], store) /\ Reads(pc[p], job[p], my[p], store)
      /\ store \in Store /\ RecordsSound(store)
      /\ pc[p] \in Queued => my[p].file = store
  BY DEF SharedInv, IInv, TypeOK, Jobs, CommandsSound, ReadersSound, StoreSound, QueueSound
<1>2. job[p] = "execute" => my[p].key \in Keys
  BY <1>1 DEF Fits, My, Authorization, Keys
<1>3. job[p] = "ingest" => my[p].key \in Keys
  BY <1>1 DEF Fits, Keys
<1>4. QED
  BY <1>1, <1>2, <1>3

(* The three writes of the observation file. *)
LEMMA AllocateShared ==
  ASSUME SharedInv, NEW p \in Processes, Allocate(p) PROVE Grows /\ Shared'
<1> DEFINE m == my[p]  next == m.file.sequence + 1
           n == [m EXCEPT !.id = next, !.file = EmptyStore]
           to == IF job[p] = "ingest" THEN "normalize" ELSE "accept"
<1>1. pc[p] = "allocating" /\ pc[p] \in Queued /\ to \notin Queued /\ m.file = store /\ m \in My
      /\ store \in Store /\ RecordsSound(store) /\ Reads(pc[p], job[p], m, store)
  BY Known DEF Allocate, Queued
<1>2. Commit(p, to, [m.file EXCEPT !.sequence = next], n)
  BY DEF Allocate
<1>3. store' = [store EXCEPT !.sequence = store.sequence + 1]
  BY <1>1, <1>2 DEF Commit
<1>4. Grows /\ RecordsSound(store')
  BY <1>1, <1>3, AllocateGrows
<1>5. n.got = {}
  BY <1>1 DEF Reads, My
<1> DEFINE file == [m.file EXCEPT !.sequence = next]
<1> HIDE DEF n, file
<1>6. Identified(to, job[p], n, store') /\ Reads(to, job[p], n, store')
  BY <1>5 DEF Identified, Reads
<1>7. Commit(p, to, file, n)
  BY <1>2 DEF file
<1>8. QED
  BY <1>1, <1>4, <1>6, <1>7, CommitsShared

LEMMA AcceptShared ==
  ASSUME SharedInv, NEW p \in Processes, Accept(p) PROVE Grows /\ Shared'
<1> DEFINE m == my[p]  to == AfterAccept(p)  taken == m.file.idempotency[m.key]
           file == [m.file EXCEPT !.records = @ \cup {Admitted(m)}, !.idempotency[m.key] = m.id]
<1>1. pc[p] = "accepting" /\ pc[p] \in Queued /\ m.file = store /\ m \in My
      /\ store \in Store /\ RecordsSound(store) /\ Fits(pc[p], job[p], m)
  BY Known DEF Accept, Queued
<1>2. to \in {"consume", "returned"} /\ to \notin Queued
  BY DEF AfterAccept, Queued
<1>3. m.key \in Keys /\ m.id # 0 /\ m.id \in Nat /\ taken \in Nat
  <2>1. m.key \in Keys
    BY <1>1, Known DEF Fits
  <2>2. QED
    BY <1>1, <2>1 DEF Fits, My, Store
<1>4. ASSUME NEW id PROVE Done(m, id).id = id /\ Done(m, id).key = m.key /\ Done(m, id).got = {}
  BY DEF Done, NothingRead
<1>5. ASSUME NEW id, NEW f, id # 0, f.idempotency[m.key] = id
      PROVE  Identified(to, job[p], Done(m, id), f) /\ Reads(to, job[p], Done(m, id), f)
  <2> DEFINE n == Done(m, id)
  <2>1. n.id = id /\ n.key = m.key /\ n.got = {}
    BY <1>4
  <2> HIDE DEF n
  <2>2. Identified(to, job[p], n, f) /\ Reads(to, job[p], n, f)
    BY <1>2, <1>5, <2>1 DEF Identified, Reads
  <2>3. QED
    BY <2>2 DEF n
<1>6. CASE taken # 0
  <2>1. Moves(p, to) /\ Learns(p, Done(m, taken))
    BY <1>6 DEF Accept
  <2>2. Grows
    BY <1>1, <2>1, SameGrows DEF Moves
  <2>3. Identified(to, job[p], Done(m, taken), store) /\ Reads(to, job[p], Done(m, taken), store)
    BY <1>1, <1>5, <1>6
  <2> HIDE DEF m, to, taken
  <2>4. QED
    BY <1>2, <2>1, <2>2, <2>3, MovesShared
<1>7. CASE taken = 0 /\ \E r \in m.file.records : r.id = m.id
  <2>1. Ends(p)
    BY <1>7 DEF Accept
  <2>2. Grows
    BY <1>1, <2>1, SameGrows DEF Ends
  <2>3. QED
    BY <2>1, <2>2, EndsShared
<1>8. CASE taken = 0 /\ ~\E r \in m.file.records : r.id = m.id
  <2>1. Commit(p, to, file, Done(m, m.id))
    BY <1>8 DEF Accept
  <2>2. PICK r : r = Admitted(m)
    OBVIOUS
  <2>3. r.id = m.id /\ r.key = m.key
    BY <2>2 DEF Admitted
  <2>4. r \in Observation
    <3>1. m.binding \in {None} \cup Bindings /\ m.seen \in Nat
      BY <1>1 DEF My
    <3>2. QED
      BY <1>3, <2>2, <3>1 DEF Admitted, Observation
  <2>5. store' = [store EXCEPT !.records = @ \cup {r}, !.idempotency[m.key] = r.id]
    BY <1>1, <2>1, <2>2, <2>3 DEF Commit
  <2>6. store.idempotency[m.key] = 0 /\ \A s \in store.records : s.id # r.id
    BY <1>1, <1>8, <2>3
  <2>7. Grows /\ RecordsSound(store') /\ store'.idempotency[m.key] = r.id
    BY <1>1, <1>3, <2>3, <2>4, <2>5, <2>6, AcceptGrows
  <2>8. Identified(to, job[p], Done(m, m.id), store') /\ Reads(to, job[p], Done(m, m.id), store')
    BY <1>3, <1>5, <2>3, <2>7
  <2> HIDE DEF m, to, file
  <2>9. QED
    BY <1>1, <1>2, <2>1, <2>7, <2>8, CommitsShared
<1>9. QED
  BY <1>6, <1>7, <1>8

LEMMA PurgeShared ==
  ASSUME SharedInv, NEW p \in Processes, Purge(p) PROVE Grows /\ Shared'
<1> DEFINE m == my[p]
<1>t. PICK t \in Nat : t = m.asOf
  BY Known DEF My
<1>1. pc[p] = "purging" /\ pc[p] \in Queued /\ m.file = store /\ m \in My
      /\ store \in Store /\ RecordsSound(store) /\ m.got = {}
      /\ Identified(pc[p], job[p], m, store)
  BY Known DEF Purge, Queued, Reads, My
<1>2. "replay" \notin Queued
  BY DEF Queued
<1>3. CASE \E r \in m.file.records : Due(r, t)
  <2>1. Commit(p, "replay", Purged(store, t), m)
    BY <1>1, <1>3, <1>t DEF Purge
  <2>2. store' = Purged(store, t)
    BY <2>1 DEF Commit
  <2>3. Grows /\ RecordsSound(store')
    BY <1>1, <2>2, PurgeGrows
  <2> DEFINE f == Purged(store, t)
  <2>4. f.idempotency = store.idempotency
    BY ONLY PurgedRecords, <1>1, t \in Nat, Zenon
  <2>5. \A u \in f.records : \E r \in store.records :
           /\ u.id = r.id /\ u.key = r.key /\ u.until = r.until
           /\ IF Due(r, t) THEN u.payload = FALSE /\ u = [r EXCEPT !.payload = FALSE] ELSE u = r
    BY ONLY PurgedRecords, <1>1, t \in Nat, Zenon
  <2>6. \A r \in store.records : \E u \in f.records : Kept(r, u) /\ u.id = r.id /\ u.key = r.key
    BY <1>1, PurgedRecords
  <2>7. store' = f
    BY <2>2
  <2> HIDE DEF f
  <2>8. Identified("replay", job[p], m, store')
    BY <1>1, <2>4, <2>7 DEF Identified
  <2>9. ASSUME NEW s \in store.records
        PROVE  /\ \E r \in f.records : r.id = s.id
               /\ \A r \in f.records : r.id = s.id => ~r.payload \/ Unexpired(s, t)
    <3>1. \E r \in f.records : r.id = s.id
      BY <2>6
    <3>2. ASSUME NEW u \in f.records, u.id = s.id PROVE ~u.payload \/ Unexpired(s, t)
      <4>1. PICK r \in store.records :
               u.id = r.id /\ IF Due(r, t) THEN u.payload = FALSE /\ u = [r EXCEPT !.payload = FALSE] ELSE u = r
        BY <2>5
      <4>2. r = s
        BY <1>1, <3>2, <4>1 DEF RecordsSound
      <4>3. CASE Due(s, t)
        BY <4>1, <4>2, <4>3
      <4>4. CASE ~Due(s, t)
        <5>1. u = s
          BY <4>1, <4>2, <4>4
        <5>2. s.until \in {None} \cup Nat
          BY <1>1 DEF Store, Observation
        <5>3. QED
          BY <1>1, <4>4, <5>1, <5>2 DEF Due, Unexpired
      <4>5. QED
        BY <4>3, <4>4
    <3>3. QED
      BY <3>1, <3>2
  <2>10. Reads("replay", job[p], m, store')
    BY <1>1, <1>t, <2>7, <2>9 DEF Reads
  <2>11. QED
    BY <1>1, <1>2, <2>1, <2>3, <2>8, <2>10, CommitsShared
<1>4. CASE ~\E r \in m.file.records : Due(r, t)
  <2>1. Moves(p, "replay") /\ UNCHANGED my
    BY <1>4, <1>t DEF Purge
  <2>2. Grows
    BY <1>1, <2>1, SameGrows DEF Moves
  <2>3. Identified("replay", job[p], m, store)
    BY <1>1 DEF Identified
  <2>4. ASSUME NEW s \in store.records, NEW r \in store.records, r.id = s.id
        PROVE  ~r.payload \/ Unexpired(s, t)
    <3>1. r = s /\ ~Due(s, t)
      BY <1>1, <1>4, <2>4 DEF RecordsSound
    <3>2. s.until \in {None} \cup Nat
      BY <1>1 DEF Store, Observation
    <3>3. QED
      BY <1>1, <3>1, <3>2 DEF Due, Unexpired
  <2>5. Reads("replay", job[p], m, store)
    BY <1>1, <1>t, <2>4 DEF Reads
  <2>6. QED
    BY <1>2, <2>1, <2>2, <2>3, <2>5, StaysShared
<1>5. QED
  BY <1>3, <1>4

(* The other steps of a command leave the observation file alone. *)
LEMMA ReadsShared ==
  ASSUME SharedInv, NEW p \in Processes,
         AssertAuthorization(p) \/ Admit(p) \/ Normalize(p) \/ ReadAll(p) \/ Replay(p) \/ Returns(p) \/ Crash(p)
  PROVE  store' = store /\ Shared'
<1> DEFINE m == my[p]
<1>1. /\ m \in My /\ Fits(pc[p], job[p], m) /\ store \in Store
      /\ Identified(pc[p], job[p], m, store) /\ Reads(pc[p], job[p], m, store)
  BY Known
<1>2. \A x \in {"admit", "purge", "allocate", "accept", "returned", "consume"} : x \notin Queued
  BY DEF Queued
<1>3. CASE Ends(p)
  BY <1>3, EndsShared DEF Ends
<1>4. CASE AssertAuthorization(p) /\ Moves(p, "admit") /\ UNCHANGED my
  <2>1. Identified("admit", job[p], m, store) /\ Reads("admit", job[p], m, store)
    BY <1>1, <1>4 DEF Identified, Reads, AssertAuthorization
  <2>2. QED
    BY <1>2, <1>4, <2>1, StaysShared DEF Moves
<1>5. CASE Admit(p) /\ ~Ends(p)
  <2> DEFINE id == store.idempotency[m.key]
             n == [m EXCEPT !.binding = binding[m.key], !.id = id]
             to == IF id # 0 THEN "purge" ELSE "allocate"
  <2>1. Moves(p, to) /\ Learns(p, n) /\ pc[p] = "admit"
    BY <1>5 DEF Admit
  <2>2. n.id = id /\ n.key = m.key /\ n.got = m.got /\ m.got = {} /\ job[p] = "execute"
    BY <1>1, <2>1 DEF My, Reads, Fits
  <2>3. to \notin Queued
    BY <1>2
  <2> HIDE DEF n
  <2>4. Identified(to, job[p], n, store) /\ Reads(to, job[p], n, store)
    BY <2>2 DEF Identified, Reads
  <2>5. QED
    BY <2>1, <2>3, <2>4, MovesShared DEF Moves
<1>6. CASE Normalize(p) /\ Moves(p, "accept") /\ UNCHANGED my
  <2>1. Identified("accept", job[p], m, store) /\ Reads("accept", job[p], m, store)
    BY <1>1, <1>6 DEF Identified, Reads, Normalize
  <2>2. QED
    BY <1>2, <1>6, <2>1, StaysShared DEF Moves
<1>7. CASE ReadAll(p)
  <2> DEFINE n == [m EXCEPT !.got = {r \in store.records : r.payload}]
  <2>1. Moves(p, "returned") /\ Learns(p, n) /\ pc[p] = "replay" /\ job[p] = "read"
    BY <1>7 DEF ReadAll
  <2>2. n.got = {r \in store.records : r.payload} /\ n.file = m.file /\ n.asOf = m.asOf
    BY <1>1 DEF My
  <2> HIDE DEF n
  <2>3. ASSUME NEW r \in n.got, NEW s \in n.file.records, s.id = r.id PROVE Unexpired(s, n.asOf)
    BY <1>1, <2>1, <2>2, <2>3 DEF Reads
  <2>4. Identified("returned", job[p], n, store) /\ Reads("returned", job[p], n, store)
    BY <2>1, <2>3 DEF Identified, Reads
  <2>5. QED
    BY <1>2, <2>1, <2>4, MovesShared DEF Moves
<1>8. CASE Replay(p) /\ Moves(p, "consume") /\ UNCHANGED my
  <2>1. Identified("consume", job[p], m, store) /\ Reads("consume", job[p], m, store)
    BY <1>1, <1>8 DEF Identified, Reads, Replay
  <2>2. QED
    BY <1>2, <1>8, <2>1, StaysShared DEF Moves
<1>9. QED
  BY <1>3, <1>4, <1>5, <1>6, <1>7, <1>8 DEF AssertAuthorization, Normalize, Replay, Returns, Crash

(* A consumption names the observation the evidence was admitted as. *)
LEMMA ConsumeShared == ASSUME SharedInv, NEW p \in Processes, Consume(p) PROVE store' = store /\ Shared'
<1> DEFINE m == my[p]
<1>1. /\ m \in My /\ Fits(pc[p], job[p], m) /\ Identified(pc[p], job[p], m, store) /\ pc[p] = "consume"
      /\ RecordsSound(store)
  BY Known DEF Consume
<1>2. m.id # 0 /\ store.idempotency[m.auth.ev] = m.id
  BY <1>1 DEF Fits, Identified
<1>3. Leave(p) /\ store' = store
  BY DEF Consume
<1>4. StoreSound'
  <2>1. PICK x : x = [of |-> m.auth, id |-> m.id]
    OBVIOUS
  <2>2. x.id # 0 /\ store.idempotency[x.of.ev] = x.id
    BY <1>2, <2>1
  <2>3. consumptions' \subseteq consumptions \cup {x}
    BY <2>1 DEF Consume
  <2>4. \A c \in consumptions' : c.id # 0 /\ store'.idempotency[c.of.ev] = c.id
    BY <1>3, <2>2, <2>3 DEF SharedInv, StoreSound
  <2>5. RecordsSound(store)'
    BY <1>1, <1>3 DEF RecordsSound
  <2>6. QED
    BY <2>4, <2>5 DEF StoreSound
<1>5. QueueSound'
  <2>1. QueueSound /\ pc \in [Processes -> PC] /\ my \in [Processes -> My]
    BY DEF SharedInv, IInv, TypeOK
  <2>2. pc'[p] = "idle" /\ "idle" \notin Queued
    BY <1>3, <2>1 DEF Leave, Goto, Queued
  <2>3. \A q \in Processes : q # p => pc'[q] = pc[q] /\ my'[q] = my[q]
    BY <1>3, <2>1 DEF Leave, Goto
  <2>4. QED
    BY <1>3, <2>1, <2>2, <2>3 DEF QueueSound
<1>6. ReadersSound'
  <2>1. /\ pc \in [Processes -> PC] /\ my \in [Processes -> My] /\ job \in [Processes -> Jobs]
        /\ ReadersSound
    BY DEF SharedInv, IInv, TypeOK, Jobs
  <2>2. pc'[p] = "idle" /\ my'[p] = NothingRead /\ job'[p] = "none"
    BY <1>3, <2>1 DEF Leave, Goto
  <2>3. ASSUME NEW q \in Processes
        PROVE  (Identified(pc[q], job[q], my[q], store) /\ Reads(pc[q], job[q], my[q], store))'
    <3>1. CASE q = p
      BY <2>2, <3>1 DEF Identified, Reads, NothingRead
    <3>2. CASE q # p
      <4>1. pc'[q] = pc[q] /\ my'[q] = my[q] /\ job'[q] = job[q]
        BY <1>3, <2>1, <3>2 DEF Leave, Goto
      <4>2. QED
        BY <1>3, <2>1, <4>1 DEF ReadersSound, Identified, Reads, Unexpired
    <3>3. QED
      BY <3>1, <3>2
  <2>4. QED
    BY <2>3 DEF ReadersSound
<1>7. QED
  BY <1>3, <1>4, <1>5, <1>6 DEF Shared

(* Every step lets the file grow, and keeps what is said of it. *)
LEMMA SharedStep == ASSUME turns' = "kept", SharedInv, [Next]_vars PROVE Grows /\ SharedInv'
<1>1. IInv' /\ store \in Store
  BY IInvStep DEF SharedInv, IInv, TypeOK
<1>2. ASSUME UNCHANGED <<store, command, consumptions>> PROVE Grows /\ Shared'
  <2>1. Grows
    BY <1>1, <1>2, SameGrows
  <2>2. QED
    BY <1>2, <2>1 DEF Shared, SharedInv, command, QueueSound, StoreSound, RecordsSound, ReadersSound,
                      Identified, Reads, Unexpired
<1>3. ASSUME Tick \/ (\E e \in Evidence : Reassess(e)) \/ UNCHANGED vars PROVE Grows /\ Shared'
  <2>1. UNCHANGED <<store, command, authority>>
    BY <1>3 DEF Tick, Reassess, vars
  <2>2. UNCHANGED <<store, command, consumptions>>
    BY <2>1 DEF authority
  <2>3. QED
    BY <1>2, <2>2
<1>4. ASSUME NEW p \in Processes,
             \/ \E e \in Evidence : Prepare(p, e)
             \/ \E a \in authorizations : Supersede(p, a) \/ Execute(p, a)
             \/ \E o \in Offers : Ingest(p, o)
             \/ Read(p)
      PROVE  Grows /\ Shared'
  <2>1. store' = store
    BY <1>4 DEF Prepare, Supersede, Execute, Ingest, Read, Begin
  <2>2. QED
    BY <1>1, <1>4, <2>1, SameGrows, BeginsShared
<1>5. ASSUME NEW p \in Processes, Record(p) \/ RecordSuccessor(p) PROVE Grows /\ Shared'
  <2>1. Leave(p) /\ store' = store /\ consumptions' = consumptions
    BY <1>5 DEF Record, RecordSuccessor
  <2>2. QED
    BY <1>1, <2>1, SameGrows, LeavesShared
<1>6. ASSUME NEW p \in Processes,
             AssertAuthorization(p) \/ Admit(p) \/ Normalize(p) \/ ReadAll(p) \/ Replay(p) \/ Returns(p) \/ Crash(p)
      PROVE  Grows /\ Shared'
  BY <1>1, <1>6, SameGrows, ReadsShared
<1>7. ASSUME NEW p \in Processes, Consume(p) PROVE Grows /\ Shared'
  BY <1>1, <1>7, SameGrows, ConsumeShared
<1>8. ASSUME NEW p \in Processes, Allocating(p) \/ Accepting(p) \/ Purging(p) PROVE Grows /\ Shared'
  <2>1. store' = store
    BY <1>8 DEF Allocating, Accepting, Purging, ReadStore, Moves
  <2>2. Shared'
    <3>1. CASE Allocating(p)
      BY <3>1, EntersShared DEF Allocating
    <3>2. CASE Accepting(p)
      BY <3>2, EntersShared DEF Accepting
    <3>3. CASE Purging(p)
      BY <3>3, EntersShared DEF Purging
    <3>4. QED
      BY <1>8, <3>1, <3>2, <3>3
  <2>3. QED
    BY <1>1, <2>1, <2>2, SameGrows
<1>9. ASSUME NEW p \in Processes, Allocate(p) \/ Accept(p) \/ Purge(p) PROVE Grows /\ Shared'
  BY <1>9, AllocateShared, AcceptShared, PurgeShared
<1>10. Grows /\ Shared'
  BY <1>3, <1>4, <1>5, <1>6, <1>7, <1>8, <1>9 DEF Next
<1>11. QED
  BY <1>1, <1>10 DEF Shared, SharedInv

(* Turns once broken stay so. *)
LEMMA TurnsKept == ASSUME [Next]_vars, turns' = "kept" PROVE turns = "kept"
<1>1. CASE UNCHANGED history \/ Settles
  BY <1>1 DEF history, Settles
<1>2. ASSUME NEW p \in Processes, NEW what, NEW to, NEW m, Begin(p, what, to, m) PROVE UNCHANGED history
  BY <1>2 DEF Begin
<1>3. ASSUME NEW p \in Processes,
             Record(p) \/ RecordSuccessor(p) \/ Consume(p)
      PROVE  UNCHANGED history
  BY <1>3 DEF Record, RecordSuccessor, Consume
<1>4. ASSUME NEW p \in Processes,
             \/ \E e \in Evidence : Prepare(p, e)
             \/ \E a \in authorizations : Supersede(p, a) \/ Execute(p, a)
             \/ \E o \in Offers : Ingest(p, o)
             \/ Read(p)
      PROVE  UNCHANGED history
  BY <1>2, <1>4 DEF Prepare, Supersede, Execute, Ingest, Read
<1>5. ASSUME NEW p \in Processes,
             AssertAuthorization(p) \/ Admit(p) \/ Normalize(p) \/ ReadAll(p) \/ Replay(p) \/ Returns(p) \/ Crash(p)
      PROVE  Settles
  BY <1>5 DEF AssertAuthorization, Admit, Normalize, ReadAll, Replay, Returns, Crash, Ends, Moves
<1>6. ASSUME NEW p \in Processes, Allocating(p) \/ Accepting(p) \/ Purging(p) PROVE Settles
  BY <1>6 DEF Allocating, Accepting, Purging, ReadStore, Moves
<1>7. ASSUME NEW p \in Processes, Allocate(p) \/ Accept(p) \/ Purge(p) PROVE Settles
  BY <1>7 DEF Allocate, Accept, Purge, Commit, Moves, Ends
<1>8. CASE Tick \/ (\E e \in Evidence : Reassess(e)) \/ UNCHANGED vars
  BY <1>1, <1>8 DEF Tick, Reassess, vars
<1>9. QED
  BY <1>1, <1>3, <1>4, <1>5, <1>6, <1>7, <1>8 DEF Next

LEMMA SharedAlways == Spec => [](turns = "kept" => SharedInv)
<1>1. Init => SharedInv
  <2> SUFFICES ASSUME Init PROVE SharedInv
    OBVIOUS
  <2>1. IInv
    BY IInvInit
  <2>2. QueueSound
    BY DEF Init, QueueSound, Queued
  <2>3. StoreSound
    BY DEF Init, StoreSound, RecordsSound, EmptyStore
  <2>4. ReadersSound
    BY DEF Init, ReadersSound, Identified, Reads, NothingRead
  <2>5. QED
    BY <2>1, <2>2, <2>3, <2>4 DEF SharedInv
<1>2. (turns = "kept" => SharedInv) /\ [Next]_vars => (turns = "kept" => SharedInv)'
  BY SharedStep, TurnsKept
<1>3. QED
  BY <1>1, <1>2, PTL DEF Spec
-----------------------------------------------------------------------------
(* While the observation file has had one writer at a time, what a          *)
(* consumption names is what the evidence was admitted as, wherever a       *)
(* command dies between the two files.                                      *)
THEOREM ConsumptionsAreTruthful == Spec => []ConsumptionsTruthful
<1>1. (turns = "kept" => SharedInv) => ConsumptionsTruthful
  <2> SUFFICES ASSUME turns = "kept", SharedInv, NEW c \in consumptions
               PROVE  /\ store.idempotency[c.of.ev] = c.id
                      /\ \E r \in store.records : r.id = c.id /\ r.key = c.of.ev
    BY DEF ConsumptionsTruthful
  <2>1. c.of.ev \in Keys
    BY DEF SharedInv, IInv, TypeOK, Authorization, Keys
  <2>2. QED
    BY <2>1 DEF SharedInv, StoreSound, RecordsSound
<1>2. QED
  BY <1>1, SharedAlways, PTL

(* While the observation file has had one writer at a time, getAll()        *)
(* returns no payload that was in the file and out of its retention when it *)
(* was asked.                                                               *)
THEOREM NoExpiredPayloadReturned == Spec => []NothingExpiredReturned
<1>1. (turns = "kept" => SharedInv) => NothingExpiredReturned
  BY DEF SharedInv, ReadersSound, Reads, Unexpired, NothingExpiredReturned
<1>2. QED
  BY <1>1, SharedAlways, PTL

-----------------------------------------------------------------------------
(* What every change of the file and every command that is writing it keep, *)
(* in turns or at once: the file as it was when last at rest.              *)
SettledKept ==
  /\ Keeps(settled, store)
  /\ \A p \in Processes : pc[p] \in Queued => Keeps(settled, my[p].file)

LEMMA KeepsItself == ASSUME NEW f \in Store PROVE Keeps(f, f)
BY DEF Keeps, Kept, Store

LEMMA KeepsOn ==
  ASSUME NEW f \in Store, NEW g \in Store, NEW h \in Store, Keeps(f, g), Keeps(g, h)
  PROVE  Keeps(f, h)
<1>1. ASSUME NEW r \in f.records PROVE \E t \in h.records : Kept(r, t)
  <2>1. PICK s \in g.records : Kept(r, s)
    BY DEF Keeps
  <2>2. PICK t \in h.records : Kept(s, t)
    BY DEF Keeps
  <2>3. Kept(r, t)
    BY <2>1, <2>2 DEF Kept
  <2>4. QED
    BY <2>3
<1>2. f.sequence \in Nat /\ g.sequence \in Nat /\ h.sequence \in Nat
  BY DEF Store
<1>3. h.sequence >= f.sequence
  BY <1>2 DEF Keeps
<1>4. \A k \in Keys : f.idempotency[k] # 0 => h.idempotency[k] = f.idempotency[k]
  BY DEF Keeps
<1>5. QED
  BY <1>1, <1>3, <1>4 DEF Keeps

(* What a command writes keeps what it has read. *)
LEMMA AllocateKeeps ==
  ASSUME NEW f \in Store
  PROVE  /\ [f EXCEPT !.sequence = f.sequence + 1] \in Store
         /\ Keeps(f, [f EXCEPT !.sequence = f.sequence + 1])
BY DEF Keeps, Kept, Store

LEMMA AcceptKeeps ==
  ASSUME NEW f \in Store, NEW r \in Observation, NEW k \in Keys, f.idempotency[k] = 0
  PROVE  Keeps(f, [f EXCEPT !.records = @ \cup {r}, !.idempotency[k] = r.id])
<1> DEFINE g == [f EXCEPT !.records = @ \cup {r}, !.idempotency[k] = r.id]
<1>1. g.records = f.records \cup {r} /\ g.sequence = f.sequence /\ f.sequence \in Nat
  BY DEF Store
<1>2. \A j \in Keys : j # k => g.idempotency[j] = f.idempotency[j]
  BY DEF Store
<1> HIDE DEF g
<1>3. \A j \in Keys : f.idempotency[j] # 0 => g.idempotency[j] = f.idempotency[j]
  BY <1>2
<1>4. g.sequence >= f.sequence
  BY <1>1
<1>5. Keeps(f, g)
  BY <1>1, <1>3, <1>4 DEF Keeps, Kept
<1>6. QED
  BY <1>5 DEF g

LEMMA PurgeKeeps == ASSUME NEW f \in Store, NEW t \in Nat PROVE Keeps(f, Purged(f, t))
<1>1. /\ Purged(f, t).sequence = f.sequence /\ Purged(f, t).idempotency = f.idempotency
      /\ \A r \in f.records : \E s \in Purged(f, t).records : Kept(r, s)
  BY PurgedRecords
<1>2. PICK n \in Nat : n = f.sequence
  BY DEF Store
<1>3. Purged(f, t).sequence >= f.sequence
  BY <1>1, <1>2
<1>4. QED
  BY <1>1, <1>3 DEF Keeps

(* A step that leaves the file, and puts nobody between read and write. *)
LEMMA FileStays ==
  ASSUME TypeOK, SettledKept, store' = store, settled' = settled \/ Settles,
         \A q \in Processes : pc'[q] \in Queued => pc[q] \in Queued /\ my'[q].file = my[q].file
  PROVE  Keeps(settled, store') /\ SettledKept'
<1>0. store \in Store /\ settled \in Store
  BY DEF TypeOK
<1>1. CASE settled' = settled
  BY <1>1 DEF SettledKept
<1>2. CASE settled' # settled
  <2>1. settled' = store /\ \A q \in Processes : pc'[q] \notin Queued
    BY <1>2 DEF Settles
  <2>2. Keeps(settled', store')
    BY <1>0, <2>1, KeepsItself
  <2>3. QED
    BY <2>1, <2>2 DEF SettledKept
<1>3. QED
  BY <1>1, <1>2

(* A step that reads the file to write it. *)
LEMMA FileRead ==
  ASSUME TypeOK, SettledKept, NEW p \in Processes, NEW from, NEW to \in Queued, ReadStore(p, from, to)
  PROVE  Keeps(settled, store') /\ SettledKept'
<1>0. pc \in [Processes -> PC] /\ my \in [Processes -> My] /\ store \in Store
  BY DEF TypeOK
<1>1. pc'[p] = to /\ store' = store /\ settled' = settled
  BY <1>0 DEF ReadStore, Moves, Goto, Settles
<1>2. my'[p].file = store
  BY <1>0 DEF ReadStore, Learns, My
<1>3. \A q \in Processes : q # p => pc'[q] = pc[q] /\ my'[q] = my[q]
  BY <1>0 DEF ReadStore, Moves, Goto, Learns
<1>4. ASSUME NEW q \in Processes, pc'[q] \in Queued PROVE Keeps(settled, my'[q].file)
  BY <1>2, <1>3, <1>4 DEF SettledKept
<1>5. QED
  BY <1>1, <1>4 DEF SettledKept

(* A step that writes what keeps what was read. *)
LEMMA FileWritten ==
  ASSUME TypeOK, TypeOK', SettledKept, NEW p \in Processes, pc[p] \in Queued,
         NEW to \in PC \ Queued, NEW file, NEW learnt, Commit(p, to, file, learnt),
         Keeps(my[p].file, file)
  PROVE  Keeps(settled, store') /\ SettledKept'
<1>0. /\ pc \in [Processes -> PC] /\ my \in [Processes -> My] /\ my[p].file \in Store
      /\ settled \in Store /\ store' \in Store
  BY DEF TypeOK, My
<1>1. store' = file /\ pc'[p] = to /\ Settles
  BY <1>0 DEF Commit, Goto
<1>2. Keeps(settled, store')
  BY <1>0, <1>1, KeepsOn DEF SettledKept
<1>3. \A q \in Processes : q # p => pc'[q] = pc[q] /\ my'[q] = my[q]
  BY <1>0 DEF Commit, Goto, Learns
<1>4. CASE settled' = settled
  <2>1. ASSUME NEW q \in Processes, pc'[q] \in Queued PROVE Keeps(settled', my'[q].file)
    BY <1>1, <1>3, <1>4, <2>1 DEF SettledKept
  <2>2. QED
    BY <1>2, <1>4, <2>1 DEF SettledKept
<1>5. CASE settled' # settled
  <2>1. settled' = store' /\ \A q \in Processes : pc'[q] \notin Queued
    BY <1>1, <1>5 DEF Settles
  <2>2. Keeps(settled', store')
    BY <1>0, <2>1, KeepsItself
  <2>3. QED
    BY <1>2, <2>1, <2>2 DEF SettledKept
<1>6. QED
  BY <1>4, <1>5

(* The steps that neither read the file to write it nor write it. *)
LEMMA FileLeft ==
  ASSUME TypeOK, NEW p \in Processes,
         \/ \E e \in Evidence : Prepare(p, e)
         \/ \E a \in authorizations : Supersede(p, a) \/ Execute(p, a)
         \/ \E o \in Offers : Ingest(p, o)
         \/ Record(p) \/ RecordSuccessor(p) \/ AssertAuthorization(p) \/ Admit(p) \/ Read(p)
         \/ Normalize(p) \/ ReadAll(p) \/ Replay(p) \/ Consume(p) \/ Returns(p) \/ Crash(p)
  PROVE  /\ store' = store /\ (settled' = settled \/ Settles)
         /\ \A q \in Processes : pc'[q] \in Queued => pc[q] \in Queued /\ my'[q].file = my[q].file
<1>0. pc \in [Processes -> PC] /\ my \in [Processes -> My]
  BY DEF TypeOK
<1>1. /\ store' = store /\ (settled' = settled \/ Settles)
      /\ \E to \in PC \ Queued : Goto(p, to)
      /\ \A q \in Processes : q # p => my'[q] = my[q]
  <2> USE <1>0 DEF PC, Queued
  <2>1. CASE \E e \in Evidence : Prepare(p, e)
    BY <2>1 DEF Prepare, Begin, history
  <2>2. CASE \E a \in authorizations : Supersede(p, a) \/ Execute(p, a)
    BY <2>2 DEF Supersede, Execute, Begin, history
  <2>3. CASE \E o \in Offers : Ingest(p, o)
    BY <2>3 DEF Ingest, Begin, history
  <2>4. CASE Record(p) \/ RecordSuccessor(p) \/ Consume(p)
    BY <2>4 DEF Record, RecordSuccessor, Consume, Leave, history
  <2>5. CASE AssertAuthorization(p)
    BY <2>5 DEF AssertAuthorization, Moves, Ends, Leave
  <2>6. CASE Admit(p)
    BY <2>6 DEF Admit, Moves, Ends, Leave, Learns
  <2>7. CASE Read(p)
    BY <2>7 DEF Read, Begin, history
  <2>8. CASE Normalize(p)
    BY <2>8 DEF Normalize, Moves, Ends, Leave
  <2>9. CASE ReadAll(p)
    BY <2>9 DEF ReadAll, Moves, Learns
  <2>10. CASE Replay(p)
    BY <2>10 DEF Replay, Moves, Ends, Leave
  <2>11. CASE Returns(p) \/ Crash(p)
    BY <2>11 DEF Returns, Crash, Ends, Leave
  <2>12. QED
    BY <2>1, <2>2, <2>3, <2>4, <2>5, <2>6, <2>7, <2>8, <2>9, <2>10, <2>11
<1>2. \A q \in Processes : pc'[q] \in Queued => q # p /\ pc[q] \in Queued
  BY <1>0, <1>1 DEF Goto
<1>3. QED
  BY <1>1, <1>2

LEMMA SettledStep ==
  ASSUME IInv, SettledKept, [Next]_vars
  PROVE  Keeps(settled, store') /\ SettledKept'
<1>0. TypeOK /\ TypeOK'
  BY IInvStep DEF IInv
<1>k. ASSUME NEW p \in Processes
      PROVE  /\ my[p].file \in Store /\ my[p].asOf \in Nat
             /\ "consume" \in PC \ Queued /\ "returned" \in PC \ Queued /\ "replay" \in PC \ Queued
             /\ "accept" \in PC \ Queued /\ "normalize" \in PC \ Queued
  BY <1>0 DEF TypeOK, My, PC, Queued
<1>1. CASE Tick \/ (\E e \in Evidence : Reassess(e)) \/ UNCHANGED vars
  <2>1. UNCHANGED <<store, command, settled>>
    BY <1>1 DEF Tick, Reassess, vars, history
  <2>2. QED
    BY <1>0, <2>1, FileStays DEF command
<1>2. ASSUME NEW p \in Processes,
             \/ \E e \in Evidence : Prepare(p, e)
             \/ \E a \in authorizations : Supersede(p, a) \/ Execute(p, a)
             \/ \E o \in Offers : Ingest(p, o)
             \/ Record(p) \/ RecordSuccessor(p) \/ AssertAuthorization(p) \/ Admit(p) \/ Read(p)
             \/ Normalize(p) \/ ReadAll(p) \/ Replay(p) \/ Consume(p) \/ Returns(p) \/ Crash(p)
      PROVE  Keeps(settled, store') /\ SettledKept'
  BY <1>0, <1>2, FileLeft, FileStays
<1>3. ASSUME NEW p \in Processes, Allocating(p) \/ Accepting(p) \/ Purging(p)
      PROVE  Keeps(settled, store') /\ SettledKept'
  <2>1. \E from : \E to \in Queued : ReadStore(p, from, to)
    <3>1. {"allocating", "accepting", "purging"} \subseteq Queued
      BY DEF Queued
    <3>2. CASE Allocating(p)
      BY <3>1, <3>2 DEF Allocating
    <3>3. CASE Accepting(p)
      BY <3>1, <3>3 DEF Accepting
    <3>4. CASE Purging(p)
      BY <3>1, <3>4 DEF Purging
    <3>5. QED
      BY <1>3, <3>2, <3>3, <3>4
  <2>2. QED
    BY <1>0, <2>1, FileRead
<1>4. ASSUME NEW p \in Processes, Allocate(p)
      PROVE  Keeps(settled, store') /\ SettledKept'
  <2>1. PICK to, learnt :
          /\ to \in PC \ Queued
          /\ Commit(p, to, [my[p].file EXCEPT !.sequence = my[p].file.sequence + 1], learnt)
    BY <1>4, <1>k DEF Allocate
  <2>2. pc[p] \in Queued
    BY <1>4 DEF Allocate, Queued
  <2>3. QED
    BY <1>0, <1>k, <2>1, <2>2, AllocateKeeps, FileWritten
<1>5. ASSUME NEW p \in Processes, Accept(p)
      PROVE  Keeps(settled, store') /\ SettledKept'
  <2> DEFINE m == my[p]
             file == [m.file EXCEPT !.records = @ \cup {Admitted(m)}, !.idempotency[m.key] = m.id]
  <2>1. /\ pc[p] \in Queued /\ m \in My /\ m.key \in Keys /\ m.id # 0 /\ m.id \in Nat
        /\ AfterAccept(p) \in PC \ Queued
    <3>1. pc[p] = "accepting" /\ m \in My /\ Fits(pc[p], job[p], m)
      BY <1>5, <1>0 DEF Accept, IInv, CommandsSound, TypeOK
    <3>2. m.key \in Keys
      BY <3>1 DEF Fits, My, Authorization, Keys
    <3>3. QED
      BY <3>1, <3>2, <1>k DEF Fits, My, Queued, AfterAccept
  <2>2. CASE m.file.idempotency[m.key] # 0
    <3>1. PICK learnt : Moves(p, AfterAccept(p)) /\ Learns(p, learnt)
      BY <1>5, <2>2 DEF Accept
    <3>2. store' = store /\ Settles
      BY <3>1 DEF Moves
    <3>3. \A q \in Processes : pc'[q] \in Queued => pc[q] \in Queued /\ my'[q] = my[q]
      BY <1>0, <2>1, <3>1 DEF TypeOK, Moves, Goto, Learns
    <3>4. QED
      BY <1>0, <3>2, <3>3, FileStays
  <2>3. CASE m.file.idempotency[m.key] = 0 /\ \E r \in m.file.records : r.id = m.id
    <3>1. Ends(p)
      BY <1>5, <2>3 DEF Accept
    <3>2. Crash(p)
      BY <1>5, <3>1 DEF Accept, Crash
    <3>3. QED
      BY <1>2, <3>2
  <2>4. CASE m.file.idempotency[m.key] = 0 /\ ~\E r \in m.file.records : r.id = m.id
    <3>1. PICK learnt : Commit(p, AfterAccept(p), file, learnt)
      BY <1>5, <2>4 DEF Accept
    <3>2. Admitted(m) \in Observation /\ Admitted(m).id = m.id
      BY <2>1 DEF Admitted, Observation, My
    <3>3. Keeps(m.file, file)
      BY <1>k, <2>1, <2>4, <3>2, AcceptKeeps
    <3> HIDE DEF file
    <3>4. QED
      BY <1>0, <2>1, <3>1, <3>3, FileWritten
  <2>5. QED
    BY <2>2, <2>3, <2>4
<1>6. ASSUME NEW p \in Processes, Purge(p)
      PROVE  Keeps(settled, store') /\ SettledKept'
  <2>1. pc[p] \in Queued
    BY <1>6 DEF Purge, Queued
  <2>2. CASE \E r \in my[p].file.records : Due(r, my[p].asOf)
    <3>1. Commit(p, "replay", Purged(my[p].file, my[p].asOf), my[p])
      BY <1>6, <2>2 DEF Purge
    <3>2. Keeps(my[p].file, Purged(my[p].file, my[p].asOf))
      BY <1>k, PurgeKeeps
    <3>3. QED
      BY <1>0, <1>k, <2>1, <3>1, <3>2, FileWritten
  <2>3. CASE ~\E r \in my[p].file.records : Due(r, my[p].asOf)
    <3>1. Moves(p, "replay") /\ UNCHANGED my
      BY <1>6, <2>3 DEF Purge
    <3>2. store' = store /\ Settles
      BY <3>1 DEF Moves
    <3>3. \A q \in Processes : pc'[q] \in Queued => pc[q] \in Queued /\ my'[q] = my[q]
      BY <1>0, <1>k, <3>1 DEF TypeOK, Moves, Goto
    <3>4. QED
      BY <1>0, <3>2, <3>3, FileStays
  <2>4. QED
    BY <2>2, <2>3
<1>7. QED
  BY <1>1, <1>2, <1>3, <1>4, <1>5, <1>6 DEF Next

(* Whether the commands share a queue or not, no step takes from the file   *)
(* what it held when last nobody was between its read and its write.        *)
THEOREM AcceptedIsForGood == Spec => AcceptedForGood
<1>1. Init => SettledKept
  <2>1. Init => EmptyStore \in Store /\ settled = EmptyStore /\ store = EmptyStore
    BY NothingTypes DEF Init
  <2>2. QED
    BY <2>1, KeepsItself DEF Init, SettledKept, Queued
<1>2. IInv /\ SettledKept /\ [Next]_vars => SettledKept'
  BY SettledStep
<1>3. IInv /\ SettledKept /\ [Next]_vars => [Keeps(settled, store')]_vars
  BY SettledStep
<1>4. QED
  BY <1>1, <1>2, <1>3, IInvAlways, PTL DEF Spec, AcceptedForGood
===============================================================================
