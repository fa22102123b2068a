------------------------- MODULE CanonicalAdmission -------------------------
(***************************************************************************)
(* The governed admission of retained evidence as canonical observations:  *)
(* PREPARE, SUPERSEDE and EXECUTE of an admission authorization, and the   *)
(* durable observation file that EXECUTE shares with the ingestion of      *)
(* curated offers and with the readers, which purge what has expired.      *)
(*                                                                         *)
(* A process is one command.  The authorization file is written under the  *)
(* single-writer lock (RunLock), so each of its operations is one step.    *)
(* Each write of the observation file is a read followed by a rename of    *)
(* the new whole file.  Only the callers of one repository object queue    *)
(* for them, findByIdempotencyKey() and the reads do not, and every        *)
(* command line is a process with an object of its own: here any two       *)
(* commands may be between read and rename at once.  Two history           *)
(* variables, which no guard reads, tell what they did: settled is the     *)
(* file when last no command was there, turns whether they have so far     *)
(* been there one at a time, as those of one queue are.                    *)
(***************************************************************************)
EXTENDS Naturals, FiniteSets

CONSTANTS
    Processes,
    Evidence,        \* retained evidence that may be admitted
    Offers,          \* curated offers that may be ingested into the same file
    Bindings,        \* the candidate bindings an assessment may yield
    Ttl,             \* life of an authorization
    Retention,       \* contentTtlMs of the offers' source; evidence is durable
    MaxTime,         \* bound of the clock
    MaxId,           \* bound of the observation identifiers
    MaxGeneration,   \* bound of the successors of an authorization
    None

ASSUME BoundAssumption ==
    /\ Ttl \in Nat \ {0} /\ Retention \in Nat
    /\ MaxTime \in Nat /\ MaxId \in Nat /\ MaxGeneration \in Nat
ASSUME KeyAssumption == Evidence \cap Offers = {}
ASSUME BindingAssumption == None \notin Bindings
ASSUME NoneAssumption ==
    None \notin [ev : Evidence, gen : Nat, binding : Bindings, at : Nat]

VARIABLES
    now,
    binding,          \* what the assessment of each evidence yields now; None: not eligible
    authorizations, active, supersessions, consumptions,     \* the authorization file
    store,            \* the observation file
    pc, job, my,      \* where a command is, what it does, what it has read
    settled,          \* history: the file when last no command was writing it
    turns             \* history: "kept" while never two of them were writing it at once

authority == <<authorizations, active, supersessions, consumptions>>
command == <<pc, job, my>>
history == <<settled, turns>>
vars == <<now, binding, authority, store, command, history>>

Keys == Evidence \cup Offers
Authorization == [ev : Evidence, gen : Nat, binding : Bindings, at : Nat]
Expired(a) == now >= a.at + Ttl
Consumed(a) == \E c \in consumptions : c.of = a

Observation == [id : Nat \ {0}, key : Keys, binding : {None} \cup Bindings,
                until : {None} \cup Nat, payload : BOOLEAN]
Store == [sequence : Nat, records : SUBSET Observation, idempotency : [Keys -> Nat]]
EmptyStore == [sequence |-> 0, records |-> {}, idempotency |-> [k \in Keys |-> 0]]

My == [key : {None} \cup Keys, auth : {None} \cup Authorization, binding : {None} \cup Bindings,
       file : Store, asOf : Nat, seen : Nat, id : Nat, got : SUBSET Observation]
NothingRead == [key |-> None, auth |-> None, binding |-> None, file |-> EmptyStore,
                asOf |-> 0, seen |-> 0, id |-> 0, got |-> {}]

Queued == {"purging", "allocating", "accepting"}
PC == {"idle", "record", "supersede", "assess", "admit", "consume", "purge", "replay", "allocate",
       "normalize", "accept", "returned"} \cup Queued

TypeOK ==
    /\ now \in 0..MaxTime
    /\ binding \in [Evidence -> {None} \cup Bindings]
    /\ authorizations \subseteq Authorization
    /\ active \in [Evidence -> {None} \cup Authorization]
    /\ supersessions \subseteq [by : Authorization, of : Authorization]
    /\ consumptions \subseteq [of : Authorization, id : Nat]
    /\ store \in Store
    /\ pc \in [Processes -> PC]
    /\ job \in [Processes -> {"none", "prepare", "supersede", "execute", "ingest", "read"}]
    /\ my \in [Processes -> My]
    /\ settled \in Store /\ turns \in {"kept", "broken"}

Init ==
    /\ now = 0
    /\ binding \in [Evidence -> Bindings]
    /\ authorizations = {} /\ active = [e \in Evidence |-> None]
    /\ supersessions = {} /\ consumptions = {}
    /\ store = EmptyStore
    /\ pc = [p \in Processes |-> "idle"]
    /\ job = [p \in Processes |-> "none"]
    /\ my = [p \in Processes |-> NothingRead]
    /\ settled = store /\ turns = "kept"
-----------------------------------------------------------------------------
Tick ==
    /\ now < MaxTime /\ now' = now + 1
    /\ UNCHANGED <<binding, authority, store, command, history>>

\* reviews, identity decisions and the catalogue change what an assessment finds
Reassess(e) ==
    /\ \E b \in ({None} \cup Bindings) \ {binding[e]} : binding' = [binding EXCEPT ![e] = b]
    /\ UNCHANGED <<now, authority, store, command, history>>

Goto(p, to) == pc' = [pc EXCEPT ![p] = to]
Begin(p, what, to, read) ==
    /\ pc[p] = "idle" /\ Goto(p, to)
    /\ job' = [job EXCEPT ![p] = what] /\ my' = [my EXCEPT ![p] = read]
    /\ UNCHANGED <<now, binding, authority, store, history>>

\* the file is at rest when nobody is between its read and its write
Settles ==
    /\ settled' = IF \E p \in Processes : pc'[p] \in Queued THEN settled ELSE store'
    /\ turns' = IF \E p, q \in Processes : p # q /\ {pc'[p], pc'[q]} \subseteq Queued
                THEN "broken" ELSE turns

\* the command ends: an answer, a refusal, an error or the death of its process
Leave(p) ==
    /\ Goto(p, "idle")
    /\ job' = [job EXCEPT ![p] = "none"] /\ my' = [my EXCEPT ![p] = NothingRead]

Ends(p) == Leave(p) /\ UNCHANGED <<now, binding, authority, store>> /\ Settles
Crash(p) == pc[p] # "idle" /\ Ends(p)

Moves(p, to) == Goto(p, to) /\ UNCHANGED <<job, now, binding, authority, store>> /\ Settles
Learns(p, what) == my' = [my EXCEPT ![p] = what]
-----------------------------------------------------------------------------
\* PREPARE
Prepare(p, e) ==
    /\ binding[e] # None
    /\ Begin(p, "prepare", "record", [NothingRead EXCEPT !.auth =
               [ev |-> e, gen |-> 0, binding |-> binding[e], at |-> now]])

Root(e) == {a \in authorizations : a.ev = e /\ a.gen = 0}

RecordAgain(p) == LET a == my[p].auth IN     \* Mutated: the root is not looked for
    /\ pc[p] = "record" /\ Leave(p)
    /\ authorizations' = authorizations \cup {a}
    /\ active' = [active EXCEPT ![a.ev] = a]
    /\ UNCHANGED <<now, binding, supersessions, consumptions, store, history>>

\* an evidence has one root: its replay returns it, any other conflicts
Record(p) == LET a == my[p].auth IN
    /\ pc[p] = "record" /\ Leave(p)
    /\ IF Root(a.ev) = {}
       THEN /\ authorizations' = authorizations \cup {a}
            /\ active' = [active EXCEPT ![a.ev] = a]
       ELSE UNCHANGED <<authorizations, active>>
    /\ UNCHANGED <<now, binding, supersessions, consumptions, store, history>>

\* SUPERSEDE: the successor is drawn up from what is read without the lock
Superseded(a) == \E s \in supersessions : s.of = a
Supersede(p, a) ==
    /\ a \in authorizations /\ a.gen < MaxGeneration
    /\ ~Consumed(a) /\ (Superseded(a) \/ Expired(a))
    /\ binding[a.ev] # None
    /\ Begin(p, "supersede", "supersede", [NothingRead EXCEPT !.asOf = a.at, !.binding = a.binding,
               !.auth = [ev |-> a.ev, gen |-> a.gen + 1, binding |-> binding[a.ev], at |-> now]])

Predecessor(m) == [ev |-> m.auth.ev, gen |-> m.auth.gen - 1, binding |-> m.binding, at |-> m.asOf]

MaySupersedeAgain(m) == LET a == Predecessor(m) IN     \* Mutated: what was read is trusted
    ~Consumed(a) /\ Expired(a)

MaySupersede(m) == LET a == Predecessor(m) IN
    ~Superseded(a) /\ active[a.ev] = a /\ ~Consumed(a) /\ Expired(a)

\* ... and checked again under it
RecordSuccessor(p) == LET m == my[p] IN
    /\ pc[p] = "supersede" /\ Leave(p)
    /\ IF MaySupersede(m)
       THEN /\ authorizations' = authorizations \cup {m.auth}
            /\ supersessions' = supersessions \cup {[of |-> Predecessor(m), by |-> m.auth]}
            /\ active' = [active EXCEPT ![m.auth.ev] = m.auth]
       ELSE UNCHANGED <<authorizations, supersessions, active>>
    /\ UNCHANGED <<now, binding, consumptions, store, history>>
-----------------------------------------------------------------------------
\* EXECUTE: a consumed authorization is answered, any other is assessed and asserted
Execute(p, a) ==
    /\ a \in authorizations /\ ~Consumed(a)
    /\ Begin(p, "execute", "assess", [NothingRead EXCEPT !.auth = a, !.key = a.ev])

AssertAuthorization(p) == LET a == my[p].auth IN
    /\ pc[p] = "assess"
    /\ \/ ~Expired(a) /\ binding[a.ev] = a.binding /\ Moves(p, "admit") /\ UNCHANGED my
       \/ (Expired(a) \/ binding[a.ev] # a.binding) /\ Ends(p)

\* admit() assesses once more, and looks the key up
Admit(p) == LET m == my[p] IN
    /\ pc[p] = "admit"
    /\ \/ binding[m.key] = None /\ Ends(p)
       \/ /\ binding[m.key] # None
          /\ Moves(p, IF store.idempotency[m.key] # 0 THEN "purge" ELSE "allocate")
          /\ Learns(p, [m EXCEPT !.binding = binding[m.key], !.id = store.idempotency[m.key]])

\* ingest(): the key of an offer already accepted is answered, a new one, seen at some
\* time before, gets an identifier
Ingest(p, o) ==
    /\ store.idempotency[o] = 0
    /\ \E t \in 0..now : Begin(p, "ingest", "allocate", [NothingRead EXCEPT !.key = o, !.seen = t])

Read(p) == Begin(p, "read", "purge", NothingRead)
-----------------------------------------------------------------------------
\* The observation file: read the whole, change, rename the new whole over it.
ReadStore(p, from, to) ==
    /\ pc[p] = from /\ Moves(p, to)
    /\ Learns(p, [my[p] EXCEPT !.file = store, !.asOf = IF to = "purging" THEN now ELSE 0])

Allocating(p) == store.sequence < MaxId /\ ReadStore(p, "allocate", "allocating")
Accepting(p) == ReadStore(p, "accept", "accepting")
Purging(p) == ReadStore(p, "purge", "purging")

Commit(p, to, file, learnt) ==
    /\ Goto(p, to) /\ store' = file /\ Learns(p, learnt) /\ Settles
    /\ UNCHANGED <<job, now, binding, authority>>

Allocate(p) == LET m == my[p]  next == m.file.sequence + 1 IN
    /\ pc[p] = "allocating"
    /\ Commit(p, IF job[p] = "ingest" THEN "normalize" ELSE "accept",
              [m.file EXCEPT !.sequence = next], [m EXCEPT !.id = next, !.file = EmptyStore])

\* the adapter or the validation refuses the candidate: the identifier is spent
Normalize(p) ==
    /\ pc[p] = "normalize"
    /\ (Moves(p, "accept") /\ UNCHANGED my) \/ Ends(p)

Admitted(m) == [id |-> m.id, key |-> m.key, binding |-> m.binding, payload |-> TRUE,
                until |-> IF m.key \in Offers THEN m.seen + Retention ELSE None]
Done(m, id) == [NothingRead EXCEPT !.auth = m.auth, !.key = m.key, !.id = id]
AfterAccept(p) == IF job[p] = "execute" THEN "consume" ELSE "returned"

AcceptOwn(p) == LET m == my[p] IN     \* Mutated: a duplicate is answered with the new identifier
    /\ pc[p] = "accepting"
    /\ IF m.file.idempotency[m.key] # 0
       THEN Moves(p, AfterAccept(p)) /\ Learns(p, Done(m, m.id))
       ELSE IF \E r \in m.file.records : r.id = m.id THEN Ends(p)
       ELSE Commit(p, AfterAccept(p), [m.file EXCEPT !.records = @ \cup {Admitted(m)},
                                                     !.idempotency[m.key] = m.id], Done(m, m.id))

\* the key is taken: DUPLICATE with the identifier it has; the identifier is taken: an error
Accept(p) == LET m == my[p] IN
    /\ pc[p] = "accepting"
    /\ IF m.file.idempotency[m.key] # 0
       THEN Moves(p, AfterAccept(p)) /\ Learns(p, Done(m, m.file.idempotency[m.key]))
       ELSE IF \E r \in m.file.records : r.id = m.id THEN Ends(p)
       ELSE Commit(p, AfterAccept(p), [m.file EXCEPT !.records = @ \cup {Admitted(m)},
                                                     !.idempotency[m.key] = m.id], Done(m, m.id))
-----------------------------------------------------------------------------
\* Every reader by identifier, and every reader of all, purges first and reads again.
DueLater(r, t) == r.payload /\ r.until # None /\ r.until < t     \* Mutated: the last instant is kept
Due(r, t) == r.payload /\ r.until # None /\ r.until <= t

PurgedAway(file, t) ==     \* Mutated: the record goes with its payload
    [file EXCEPT !.records = {r \in @ : ~Due(r, t)}]
Purged(file, t) ==
    [file EXCEPT !.records = {IF Due(r, t) THEN [r EXCEPT !.payload = FALSE] ELSE r : r \in @}]

Purge(p) == LET m == my[p] IN
    /\ pc[p] = "purging"
    /\ IF \E r \in m.file.records : Due(r, m.asOf)
       THEN Commit(p, "replay", Purged(m.file, m.asOf), m)
       ELSE Moves(p, "replay") /\ UNCHANGED my

\* getAll() returns the payloads that are left
ReadAll(p) ==
    /\ pc[p] = "replay" /\ job[p] = "read"
    /\ Moves(p, "returned")
    /\ Learns(p, [my[p] EXCEPT !.got = {r \in store.records : r.payload}])

\* a replayed admission compares the stored material with the evidence of now
Material(r, m) == r.id = m.id /\ r.payload /\ r.binding = m.binding
Replay(p) ==
    /\ pc[p] = "replay" /\ job[p] = "execute"
    /\ IF \E r \in store.records : Material(r, my[p])
       THEN Moves(p, "consume") /\ UNCHANGED my
       ELSE Ends(p)

\* the authorization is consumed by the observation, whatever became of it meanwhile
Consume(p) == LET m == my[p] IN
    /\ pc[p] = "consume" /\ Leave(p)
    /\ consumptions' = IF Consumed(m.auth) THEN consumptions
                       ELSE consumptions \cup {[of |-> m.auth, id |-> m.id]}
    /\ UNCHANGED <<now, binding, authorizations, active, supersessions, store, history>>

Returns(p) == pc[p] = "returned" /\ Ends(p)
-----------------------------------------------------------------------------
Next ==
    \/ Tick
    \/ \E e \in Evidence : Reassess(e)
    \/ \E p \in Processes :
         \/ \E e \in Evidence : Prepare(p, e)
         \/ \E a \in authorizations : Supersede(p, a) \/ Execute(p, a)
         \/ \E o \in Offers : Ingest(p, o)
         \/ Record(p) \/ RecordSuccessor(p) \/ AssertAuthorization(p) \/ Admit(p) \/ Read(p)
         \/ Allocating(p) \/ Allocate(p) \/ Normalize(p)
         \/ Accepting(p) \/ Accept(p)
         \/ Purging(p) \/ Purge(p) \/ ReadAll(p) \/ Replay(p)
         \/ Consume(p) \/ Returns(p) \/ Crash(p)

Spec == Init /\ [][Next]_vars
-----------------------------------------------------------------------------
(* "At most one unconsumed, unexpired authorization can exist for an        *)
(* evidence/admission intent": however PREPARE and SUPERSEDE commands       *)
(* overlap, and although a successor is drawn up outside the lock.          *)
OneLiveAuthorization ==
    \A a, b \in authorizations :
        a.ev = b.ev /\ ~Expired(a) /\ ~Expired(b) => a = b

(* No operation leaves a file that _validateState refuses on the next read, *)
(* which would lock every operator out: the authorizations of an evidence   *)
(* form one chain of supersessions from its root to its active one.         *)
Readable ==
    /\ \A s, t \in supersessions : s.of = t.of \/ s.by = t.by => s = t
    /\ \A s \in supersessions :
         {s.of, s.by} \subseteq authorizations /\ s.by.ev = s.of.ev /\ s.by.gen = s.of.gen + 1
    /\ \A e \in Evidence :
         LET chain == {a \in authorizations : a.ev = e} IN
         IF chain = {} THEN active[e] = None
         ELSE /\ active[e] \in chain /\ ~Superseded(active[e])
              /\ \A a \in chain : a # active[e] => Superseded(a)
              /\ Cardinality(Root(e)) = 1

(* What a consumption names is what the evidence was admitted as: the two   *)
(* files agree although EXECUTE writes them one after the other, may die    *)
(* between the two and be given again, or finds the evidence admitted, for  *)
(* as long as the observation file has had one writer at a time.            *)
ConsumptionsTruthful ==
    turns = "kept" => \A c \in consumptions :
        /\ store.idempotency[c.of.ev] = c.id
        /\ \E r \in store.records : r.id = c.id /\ r.key = c.of.ev

(* getAll() returns no payload that was in the file and out of its          *)
(* retention when it was asked, though the purge and the read are two steps *)
(* and others write between them, for as long as they do it one at a time.  *)
NothingExpiredReturned ==
    turns = "kept" => \A p \in Processes : \A r \in my[p].got : \A s \in my[p].file.records :
        s.id = r.id => s.until = None \/ s.until > my[p].asOf

(* Whoever shares a queue or does not, dies, or writes late what it read    *)
(* early: no step takes from the file what it held when last nobody was     *)
(* writing it.  The audit envelope of such an observation is neither        *)
(* removed nor altered, its key keeps its identifier, a payload purged by   *)
(* then does not come back, and no identifier given out is given again.     *)
Kept(r, s) == s = r \/ s = [r EXCEPT !.payload = FALSE]
Keeps(old, new) ==
    /\ \A r \in old.records : \E s \in new.records : Kept(r, s)
    /\ \A k \in Keys : old.idempotency[k] # 0 => new.idempotency[k] = old.idempotency[k]
    /\ new.sequence >= old.sequence
AcceptedForGood == [][Keeps(settled, store')]_vars

(* The envelope of every accepted observation remains in the file.          *)
EnvelopesRemain ==
    [][\A r \in store.records : \E s \in store'.records : s.id = r.id /\ s.key = r.key]_store
=============================================================================
