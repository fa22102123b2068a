--------------------------- MODULE MarketDecisions ---------------------------
(***************************************************************************)
(* The governed decisions about canonical observations, and what a build   *)
(* of the site shows of them: REVIEWED or REJECTED by a reviewer, PUBLISH  *)
(* or WITHDRAW by a publisher, each by PREPARE and EXECUTE of a single-use *)
(* authorization, and the comparison of current offers a build derives.    *)
(*                                                                         *)
(* Four files: the two of authorizations and the review decisions change   *)
(* under the single-writer lock (RunLock), one step each; the publication  *)
(* decisions are read and replaced whole without it.  Only the callers of  *)
(* one repository object queue for that, and every command line is a       *)
(* process with an object of its own: here any two commands may be between *)
(* read and write at once.  Two history variables, which no guard reads,   *)
(* tell what they did: standing is the file when last no command was       *)
(* there, turns whether they have so far been there one at a time, as      *)
(* those of one queue are.  The observations are durable and do not change.*)
(***************************************************************************)
EXTENDS Naturals, Sequences, FiniteSets

CONSTANTS
    Processes,       \* commands and builds
    Offers,          \* the observations, numbered as their offers compare: the cheapest first
    Markets,         \* what a qualification may find of rights, condition, confidence
    FreshUntil,      \* observation time + currentUntilMs of the policy that applies
    Established,     \* the observations reviewed and published before the first step
    Requests,        \* what the operators ask for: pairs of an observation and a decision
    Volatile,        \* bound of Requalify: what changes in qualification but by its age
    Ttl,             \* life of an authorization
    MaxOffers,       \* MAX_COMPARISON_OFFERS
    MaxTime,         \* bound of the clock
    MaxReviews,      \* bound of the review decisions on one observation
    MaxDecisions,    \* bound of the publication decisions on one observation
    MaxDrawn,        \* bound of the authorizations of all
    None

ASSUME OffersAssumption ==
    Offers \subseteq Nat /\ IsFiniteSet(Offers) /\ FreshUntil \in [Offers -> Nat]
ASSUME EstablishedAssumption == Established \subseteq Offers /\ Markets # {}
ASSUME RequestsAssumption ==
    Requests \subseteq Offers \X {"REVIEWED", "REJECTED", "PUBLISH", "WITHDRAW"}
ASSUME LimitsAssumption ==
    /\ Ttl \in Nat \ {0} /\ MaxOffers \in Nat
    /\ MaxTime \in Nat /\ MaxReviews \in Nat /\ MaxDecisions \in Nat /\ MaxDrawn \in Nat
ASSUME NoneAssumption == None \notin Markets \cup Nat

VARIABLES
    now,
    market,           \* what a qualification of each observation finds now; None: not qualified
    authorizations, consumptions,     \* the files of both kinds of authorization
    reviews,          \* the review decisions of each observation, in order
    decisions,        \* its publication decisions, in order
    pc, job, my,      \* where a process is, what it does, what it has read
    unsettled,        \* history: what has changed since the process began to build
    standing,         \* history: the decisions when last no command was recording one
    turns             \* history: "kept" while never two of them were recording at once

authority == <<authorizations, consumptions>>
process == <<pc, job, my>>
history == <<standing, turns>>
vars == <<now, market, authority, reviews, decisions, process, unsettled, history>>

Verdicts == {"REVIEWED", "REJECTED"}
Actions == {"PUBLISH", "WITHDRAW"}

\* An identifier of a decision is its place among those on its observation, 0 is none.
Qualification == [review : Nat, market : Markets]
Binding == [review : Nat, predecessor : Nat, qualification : {None} \cup Qualification]
Authorization == [of : Offers, decision : Verdicts \cup Actions, binding : Binding, at : Nat]
Publication == [auth : Authorization, review : Nat]

Expired(a, t) == t >= a.at + Ttl
Consumed(a) == \E c \in consumptions : c.of = a

\* a review intent replaces one effective review, a publication intent one effective decision
SameIntentAgain(a, b) ==     \* Mutated: byIntent is not looked at
    a = b
SameIntent(a, b) ==
    /\ a.of = b.of
    /\ IF a.decision \in Verdicts
       THEN b.decision \in Verdicts /\ a.binding.review = b.binding.review
       ELSE a.decision = b.decision /\ a.binding.predecessor = b.binding.predecessor

Effective(file, o) == Len(file[o])
Published(file, o) == Effective(file, o) > 0 /\ file[o][Effective(file, o)].auth.decision = "PUBLISH"
Reviewed(o) == Effective(reviews, o) > 0 /\ reviews[o][Effective(reviews, o)].decision = "REVIEWED"

Fresh(o, t) == t <= FreshUntil[o]
Qualifies(o, t) == Reviewed(o) /\ market[o] # None /\ Fresh(o, t)

NoDecisions == [o \in Offers |-> << >>]
My == [of : {None} \cup Offers, decision : {None} \cup Verdicts \cup Actions,
       auth : {None} \cup Authorization, asOf : Nat, review : {None} \cup Nat,
       predecessor : {None} \cup Nat, published : BOOLEAN,
       file : [Offers -> Seq(Publication)], id : Nat, left : SUBSET Offers, got : SUBSET Offers]
NothingRead == [of |-> None, decision |-> None, auth |-> None, asOf |-> 0, review |-> None,
                predecessor |-> None, published |-> FALSE, file |-> NoDecisions, id |-> 0,
                left |-> {}, got |-> {}]

PC == {"idle", "assess", "authorize", "decide", "evaluate", "check", "recording", "consume",
       "look", "judge", "shown"}

TypeOK ==
    /\ now \in 0..MaxTime
    /\ market \in [Offers -> {None} \cup Markets]
    /\ authorizations \subseteq Authorization
    /\ consumptions \subseteq [of : Authorization, id : Nat]
    /\ reviews \in [Offers -> Seq(Authorization)]
    /\ decisions \in [Offers -> Seq(Publication)]
    /\ pc \in [Processes -> PC]
    /\ job \in [Processes -> {"none", "prepare", "execute", "build"}]
    /\ my \in [Processes -> My]
    /\ unsettled \in [Processes -> SUBSET Offers]
    /\ standing \in [Offers -> Seq(Publication)] /\ turns \in {"kept", "broken"}

Earlier(o, d, found) ==
    [of |-> o, decision |-> d, at |-> 0,
     binding |-> [review |-> IF d = "PUBLISH" THEN 1 ELSE 0, predecessor |-> 0,
                  qualification |-> IF d = "PUBLISH" THEN [review |-> 1, market |-> found]
                                    ELSE None]]

Init ==
    /\ now = 0 /\ market \in [Offers -> Markets]
    /\ authorizations = {Earlier(o, d, market[o]) : o \in Established, d \in {"REVIEWED", "PUBLISH"}}
    /\ consumptions = {[of |-> a, id |-> 1] : a \in authorizations}
    /\ reviews = [o \in Offers |-> IF o \in Established
                                  THEN <<Earlier(o, "REVIEWED", market[o])>> ELSE << >>]
    /\ decisions = [o \in Offers |-> IF o \in Established
                    THEN <<[auth |-> Earlier(o, "PUBLISH", market[o]), review |-> 1]>> ELSE << >>]
    /\ pc = [p \in Processes |-> "idle"]
    /\ job = [p \in Processes |-> "none"]
    /\ my = [p \in Processes |-> NothingRead]
    /\ unsettled = [p \in Processes |-> {}]
    /\ standing = decisions /\ turns = "kept"
-----------------------------------------------------------------------------
Changed(o) == unsettled' = [p \in Processes |->
                              IF job[p] = "build" THEN unsettled[p] \cup {o} ELSE unsettled[p]]

Tick ==
    /\ now < MaxTime /\ now' = now + 1
    /\ UNCHANGED <<market, authority, reviews, decisions, process, unsettled, history>>

\* rights, catalogue, adapters and evidence of condition change what a qualification finds
Requalify(o) ==
    /\ o \in Volatile
    /\ \E m \in ({None} \cup Markets) \ {market[o]} : market' = [market EXCEPT ![o] = m]
    /\ Changed(o)
    /\ UNCHANGED <<now, authority, reviews, decisions, process, history>>

Goto(p, to) == pc' = [pc EXCEPT ![p] = to]
Learns(p, what) == my' = [my EXCEPT ![p] = what]
files == <<now, market, authority, reviews, decisions>>

Begin(p, what, to, read) ==
    /\ pc[p] = "idle" /\ Goto(p, to) /\ Learns(p, read)
    /\ job' = [job EXCEPT ![p] = what]
    /\ unsettled' = [unsettled EXCEPT ![p] = {}]
    /\ UNCHANGED <<files, history>>

\* what the decision file holds stands when no command is between its read and its write
Stands ==
    /\ standing' = IF \E p \in Processes : pc'[p] = "recording" THEN standing ELSE decisions'
    /\ turns' = IF \E p, q \in Processes : p # q /\ pc'[p] = "recording" /\ pc'[q] = "recording"
                THEN "broken" ELSE turns

\* the command ends: an answer, a refusal, an error or the death of its process
Leave(p) ==
    /\ Goto(p, "idle") /\ Learns(p, NothingRead)
    /\ job' = [job EXCEPT ![p] = "none"]

Ends(p) == Leave(p) /\ unsettled' = [unsettled EXCEPT ![p] = {}] /\ UNCHANGED files /\ Stands
Crash(p) == pc[p] # "idle" /\ Ends(p)

Goes(p, to, what) == Goto(p, to) /\ Learns(p, what) /\ UNCHANGED <<job, files, unsettled>> /\ Stands
-----------------------------------------------------------------------------
Predecessor(d) == IF d \in Verdicts THEN 0 ELSE None

Prepare(p, o, d) ==
    Begin(p, "prepare", "assess", [NothingRead EXCEPT !.of = o, !.decision = d, !.asOf = now,
                                                      !.predecessor = Predecessor(d)])

\* a consumed authorization is answered, any other is assessed again
Execute(p, a) ==
    /\ a \in authorizations /\ ~Consumed(a)
    /\ Begin(p, "execute", "assess", [NothingRead EXCEPT !.of = a.of, !.decision = a.decision,
               !.auth = a, !.asOf = now, !.predecessor = Predecessor(a.decision)])

\* the files are read at once, in any order
ReadReview(p) == LET m == my[p] IN
    /\ pc[p] = "assess" /\ m.review = None
    /\ Goes(p, "assess", [m EXCEPT !.review = Effective(reviews, m.of)])

ReadPredecessor(p) == LET m == my[p] IN
    /\ pc[p] = "assess" /\ m.predecessor = None
    /\ Goes(p, "assess", [m EXCEPT !.predecessor = Effective(decisions, m.of),
                                   !.published = Published(decisions, m.of)])

\* PUBLISH is qualified, which reads the review again
Eligible(m) ==
    \/ m.decision \in Verdicts
    \/ /\ m.decision = "PUBLISH" /\ ~m.published
       /\ m.review > 0 /\ reviews[m.of][m.review].decision = "REVIEWED"
       /\ Qualifies(m.of, m.asOf)
    \/ m.decision = "WITHDRAW" /\ m.published

BindingOf(m) ==
    [review |-> m.review, predecessor |-> m.predecessor,
     qualification |-> IF m.decision = "PUBLISH"
                       THEN [review |-> Effective(reviews, m.of), market |-> market[m.of]]
                       ELSE None]

Assessed(p, what) == pc[p] = "assess" /\ job[p] = what /\ None \notin {my[p].review, my[p].predecessor}

Draw(p) == LET m == my[p] IN
    /\ Assessed(p, "prepare") /\ Cardinality(authorizations) < MaxDrawn
    /\ IF Eligible(m)
       THEN Goes(p, "authorize", [NothingRead EXCEPT !.auth =
               [of |-> m.of, decision |-> m.decision, binding |-> BindingOf(m), at |-> m.asOf]])
       ELSE Ends(p)

\* under the lock: an intent has one authorization, for good
RecordAuthorization(p) == LET a == my[p].auth IN
    /\ pc[p] = "authorize" /\ Leave(p)
    /\ authorizations' = IF \E b \in authorizations : SameIntent(a, b)
                         THEN authorizations ELSE authorizations \cup {a}
    /\ UNCHANGED <<now, market, consumptions, reviews, decisions, unsettled, history>>

AssertBinding(p) == LET m == my[p] IN
    /\ Assessed(p, "execute")
    /\ IF ~Expired(m.auth, m.asOf) /\ Eligible(m) /\ BindingOf(m) = m.auth.binding
       THEN Goes(p, IF m.decision \in Verdicts THEN "decide" ELSE "evaluate",
                 [NothingRead EXCEPT !.of = m.of, !.auth = m.auth,
                                     !.asOf = IF m.decision = "PUBLISH" THEN m.asOf ELSE 0])
       ELSE Ends(p)
-----------------------------------------------------------------------------
\* the review file, under its lock: recorded already, appended, or superseded meanwhile
RecordReview(p) == LET m == my[p]  s == reviews[m.of] IN
    /\ pc[p] = "decide"
    /\ \/ \E i \in 1..Len(s) : s[i] = m.auth /\ Goes(p, "consume", [m EXCEPT !.id = i])
       \/ /\ \A i \in 1..Len(s) : s[i] # m.auth
          /\ IF Len(s) = m.auth.binding.review
             THEN /\ Len(s) < MaxReviews
                  /\ reviews' = [reviews EXCEPT ![m.of] = Append(@, m.auth)]
                  /\ Goto(p, "consume") /\ Learns(p, [m EXCEPT !.id = Len(s) + 1])
                  /\ Changed(m.of)
                  /\ UNCHANGED <<job, now, market, authority, decisions, history>>
             ELSE Ends(p)

\* PUBLISH is evaluated once more; the draft names the review that is effective now
Evaluate(p) == LET m == my[p] IN
    /\ pc[p] = "evaluate"
    /\ IF m.auth.decision = "PUBLISH" => Qualifies(m.of, m.asOf)
       THEN Goes(p, "check", [m EXCEPT !.asOf = 0, !.review = Effective(reviews, m.of)])
       ELSE Ends(p)

\* recordDecision(): the review a PUBLISH names, the whole file
Check(p) == LET m == my[p] IN
    /\ pc[p] = "check"
    /\ IF m.auth.decision = "PUBLISH" => m.review = Effective(reviews, m.of)
       THEN Goes(p, "recording", [m EXCEPT !.file = decisions])
       ELSE Ends(p)

Answer(m, id) == [NothingRead EXCEPT !.of = m.of, !.auth = m.auth, !.id = id]

RecordLatest(p) == LET m == my[p]  s == m.file[m.of] IN     \* Mutated: a replay is answered the latest decision
    /\ pc[p] = "recording"
    /\ \/ /\ \E i \in 1..Len(s) : s[i].auth = m.auth
          /\ Goes(p, "consume", Answer(m, Len(s)))
       \/ /\ \A i \in 1..Len(s) : s[i].auth # m.auth
          /\ Len(s) < MaxDecisions
          /\ decisions' = [m.file EXCEPT ![m.of] = Append(@, [auth |-> m.auth, review |-> m.review])]
          /\ Goto(p, "consume") /\ Learns(p, Answer(m, Len(s) + 1))
          /\ Changed(m.of) /\ Stands
          /\ UNCHANGED <<job, now, market, authority, reviews>>

RecordInPlace(p) == LET m == my[p]  s == m.file[m.of] IN     \* Mutated: a decision replaces the effective one
    /\ pc[p] = "recording"
    /\ \/ \E i \in 1..Len(s) : s[i].auth = m.auth /\ Goes(p, "consume", Answer(m, i))
       \/ /\ \A i \in 1..Len(s) : s[i].auth # m.auth
          /\ decisions' = [m.file EXCEPT ![m.of] = <<[auth |-> m.auth, review |-> m.review]>>]
          /\ Goto(p, "consume") /\ Learns(p, Answer(m, 1))
          /\ Changed(m.of) /\ Stands
          /\ UNCHANGED <<job, now, market, authority, reviews>>

\* ... and the new whole, unless the authorization has its decision already
RecordDecision(p) == LET m == my[p]  s == m.file[m.of] IN
    /\ pc[p] = "recording"
    /\ \/ \E i \in 1..Len(s) : s[i].auth = m.auth /\ Goes(p, "consume", Answer(m, i))
       \/ /\ \A i \in 1..Len(s) : s[i].auth # m.auth
          /\ Len(s) < MaxDecisions
          /\ decisions' = [m.file EXCEPT ![m.of] = Append(@, [auth |-> m.auth, review |-> m.review])]
          /\ Goto(p, "consume") /\ Learns(p, Answer(m, Len(s) + 1))
          /\ Changed(m.of) /\ Stands
          /\ UNCHANGED <<job, now, market, authority, reviews>>

\* under the lock; another identifier for a consumed authorization is a conflict
Consume(p) == LET m == my[p] IN
    /\ pc[p] = "consume" /\ Leave(p)
    /\ consumptions' = IF Consumed(m.auth) THEN consumptions
                       ELSE consumptions \cup {[of |-> m.auth, id |-> m.id]}
    /\ UNCHANGED <<now, market, authorizations, reviews, decisions, unsettled, history>>
-----------------------------------------------------------------------------
\* A build: every observation in turn, if published, is evaluated at the build's time.
Build(p) == Begin(p, "build", "look", [NothingRead EXCEPT !.asOf = now, !.left = Offers])

Look(p, o) == LET m == my[p] IN
    /\ pc[p] = "look" /\ o \in m.left
    /\ Goes(p, IF Published(decisions, o) THEN "judge" ELSE "look",
            [m EXCEPT !.left = @ \ {o}, !.of = IF Published(decisions, o) THEN o ELSE None])

JudgeUnreviewed(p) == LET m == my[p] IN     \* Mutated: a publication is enough
    /\ pc[p] = "judge"
    /\ Goes(p, "look", [m EXCEPT !.of = None,
                                 !.got = IF Fresh(m.of, m.asOf) THEN @ \cup {m.of} ELSE @])

Judge(p) == LET m == my[p] IN
    /\ pc[p] = "judge"
    /\ Goes(p, "look", [m EXCEPT !.of = None,
                                 !.got = IF Qualifies(m.of, m.asOf) THEN @ \cup {m.of} ELSE @])

\* createSnapshot(): at most MaxOffers, the first in the order of comparison
Cheapest(s) == {o \in s : Cardinality({c \in s : c < o}) < MaxOffers}

Snapshot(p) == LET m == my[p] IN
    /\ pc[p] = "look" /\ m.left = {}
    /\ Goes(p, "shown", [m EXCEPT !.got = Cheapest(@)])

Returns(p) == pc[p] = "shown" /\ Ends(p)
-----------------------------------------------------------------------------
Next ==
    \/ Tick
    \/ \E o \in Offers : Requalify(o)
    \/ \E p \in Processes :
         \/ \E r \in Requests : Prepare(p, r[1], r[2])
         \/ \E a \in authorizations : Execute(p, a)
         \/ ReadReview(p) \/ ReadPredecessor(p) \/ Draw(p) \/ RecordAuthorization(p) \/ AssertBinding(p)
         \/ RecordReview(p) \/ Evaluate(p) \/ Check(p) \/ RecordDecision(p) \/ Consume(p)
         \/ Build(p) \/ Judge(p) \/ Snapshot(p) \/ Returns(p)
         \/ \E o \in Offers : Look(p, o)
         \/ Crash(p)

Spec == Init /\ [][Next]_vars
-----------------------------------------------------------------------------
(* Every decision follows the one its authorization was drawn up against:  *)
(* the predecessor is not looked at when a decision is recorded, yet no    *)
(* two commands, however late, publish or withdraw twice in a row or spend *)
(* an authorization twice, for as long as they record one at a time.       *)
DecisionsChained ==
    turns = "kept" => \A o \in Offers :
        /\ \A i \in 1..Len(reviews[o]) : reviews[o][i].binding.review = i - 1
        /\ \A i \in 1..Len(decisions[o]) :
             LET a == decisions[o][i].auth IN
             /\ a.binding.predecessor = i - 1
             /\ a.decision = IF i % 2 = 1 THEN "PUBLISH" ELSE "WITHDRAW"

(* A consumption names the decision its authorization led to, though the    *)
(* decision and the consumption are in two files and a command may die      *)
(* between them and be given again; for as long as commands record one at a *)
(* time.                                                                    *)
ConsumptionsBacked ==
    turns = "kept" => \A c \in consumptions :
        IF c.of.decision \in Verdicts
        THEN c.id \in 1..Len(reviews[c.of.of]) /\ reviews[c.of.of][c.id] = c.of
        ELSE c.id \in 1..Len(decisions[c.of.of]) /\ decisions[c.of.of][c.id].auth = c.of

(* The histories are append-only, whether the commands share a queue or     *)
(* not: none, however late it writes the file it has read, dies or is given *)
(* again, takes back or replaces a review, or a publication decision that   *)
(* was in the file when last nobody was recording one, on the same          *)
(* observation or on another.                                               *)
Extends(s, t) == Len(s) <= Len(t) /\ \A i \in 1..Len(s) : t[i] = s[i]
HistoryKept ==
    [][\A o \in Offers : Extends(reviews[o], reviews'[o]) /\ Extends(standing[o], decisions'[o])]_vars

(* Whatever was decided of the publication of an observation remains.       *)
DecisionsRemain == [][\A o \in Offers : Extends(decisions[o], decisions'[o])]_decisions

(* A build shows only what is fresh at its time, and of what has not        *)
(* changed since it began exactly what is published, reviewed and           *)
(* qualified, but for what MaxOffers cheaper ones displace; for as long as  *)
(* the decisions it reads are recorded one at a time.                       *)
Showable(o, t) == Published(decisions, o) /\ Qualifies(o, t)
Faithful(p) == LET m == my[p] IN
    /\ Cardinality(m.got) <= MaxOffers
    /\ \A o \in m.got : Fresh(o, m.asOf)
    /\ \A o \in Offers \ unsettled[p] :
         IF o \in m.got THEN Showable(o, m.asOf)
         ELSE Showable(o, m.asOf) => Cardinality({c \in m.got : c < o}) >= MaxOffers
SnapshotFaithful == turns = "kept" => \A p \in Processes : pc[p] = "shown" => Faithful(p)

(* An offer that is shown was published by a decision that references the   *)
(* effective review.  ADR-017 asks for it; nothing the build calls looks.   *)
ShownUnderItsReview ==
    \A p \in Processes : pc[p] = "shown" =>
        \A o \in my[p].got \ unsettled[p] :
            decisions[o][Effective(decisions, o)].review = Effective(reviews, o)

(* What is published can be withdrawn: the authorization that would do it   *)
(* is not drawn up yet or can still be executed.                            *)
Withdrawable ==
    \A o \in Offers : Published(decisions, o) =>
        \A a \in authorizations :
            a.of = o /\ a.decision = "WITHDRAW" /\ a.binding.predecessor = Effective(decisions, o)
              => ~Expired(a, now) /\ a.binding.review = Effective(reviews, o)

(* The review an authorization to PUBLISH was bound to is the one its       *)
(* decision references.                                                     *)
PublishedUnderBoundReview ==
    \A o \in Offers : \A i \in 1..Len(decisions[o]) :
        LET d == decisions[o][i] IN
        d.auth.decision = "PUBLISH" => d.review = d.auth.binding.review
-----------------------------------------------------------------------------
(* What makes a snapshot faithful, while the build is still looking: what   *)
(* it has collected is, among the observations it is through with and that  *)
(* have not changed since it began, exactly what it could show now.         *)
Through(p, o) ==
    /\ o \in Offers \ (unsettled[p] \cup my[p].left)
    /\ pc[p] = "judge" => o # my[p].of

Looking(p) == LET m == my[p] IN
    /\ m.got \cap m.left = {} /\ \A o \in m.got : Fresh(o, m.asOf)
    /\ \A o \in Offers : Through(p, o) => (o \in m.got <=> Showable(o, m.asOf))
    /\ pc[p] = "judge" =>
         /\ m.of \in Offers \ (m.left \cup m.got)
         /\ m.of \notin unsettled[p] => Published(decisions, m.of)

BuildsInv ==
    \A p \in Processes :
        /\ pc[p] \in {"look", "judge", "shown"} => job[p] = "build"
        /\ pc[p] \in {"look", "judge"} => Looking(p)
        /\ pc[p] = "shown" => Faithful(p)
=============================================================================
