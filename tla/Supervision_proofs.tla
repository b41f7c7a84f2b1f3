-------------------------- MODULE Supervision_proofs --------------------------
(***************************************************************************)
(* Proofs about Supervision, for any processes, envelopes, completions and *)
(* bounds: a Run is bound to one request, and what is stored for it is     *)
(* reachable from it.                                                      *)
(***************************************************************************)
EXTENDS Supervision, TLAPS

-----------------------------------------------------------------------------
(* The inductive invariant.                                                *)

Requested == Envelopes \cup {NoJob.envelope}

Jobs == [ envelope : Requested, completion : Completions \cup {NoJob.completion},
          attempt : Nat, run : Nat, seen : Heads, position : Nat,
          mine : SUBSET (Nat \X Nat) ]

Replies == {NoReply, Error} \cup
           [ kind : {"ok"}, run : Nat, status : Completions \cup {NoJob.completion, "blocked"} ]

Labels == {"idle", "resolve", "insert", "observe", "find", "publish", "link", "record",
           "link_evidence"}

Typed ==
    /\ job \in [Processes -> Jobs]
    /\ pc \in [Processes -> Labels]
    /\ reply \in [Processes -> Replies]
    /\ runs \subseteq [ run : Nat, envelope : Requested ]
    /\ calls \in Nat
    /\ repository \in Heads

\* The row of the Run a process has resolved its request to.
Row(j) == [ run |-> j.run, envelope |-> j.envelope ]

OneRunPerWork == \A r, s \in runs : r.envelope.work = s.envelope.work => r = s

\* From its resolution to its reply, a process works on the Run of its own request.
Resolved ==
    \A p \in Processes :
        pc[p] \notin {"idle", "resolve", "insert"} => Row(job[p]) \in runs

RepliesBound ==
    \A p \in Processes : reply[p].kind = "ok" =>
        [ run |-> reply[p].run, envelope |-> job[p].envelope ] \in runs

DecisionsAsked ==
    \A a \in artifacts : a.position # 0 =>
        \E r \in runs : r.run = a.run /\ r.envelope.capabilities[a.position] = a.capability

OneObservation ==
    \A a, b \in artifacts : a.position = 0 /\ b.position = 0 /\ a.run = b.run => a = b

\* What a process will name in its evidence is linked already.
MineLinked ==
    \A p \in Processes : \A id \in job[p].mine : <<job[p].run, id>> \in links

Unstarted ==
    \A p \in Processes : pc[p] \in {"resolve", "insert"} => job[p].mine = {}

EvidenceLinked == \A e \in evidence : \A id \in e.names : <<e.run, id>> \in links

\* Only an attempt that was granted what it asked for gets to its evidence, and a
\* call answered as completed leaves linked evidence behind.
Unblocked == \A p \in Processes : pc[p] = "record" => ~Blocked(p)

Recorded ==
    \A p \in Processes : pc[p] = "link_evidence" =>
        \E e \in evidence : e.attempt = job[p].attempt

EvidenceGranted == \A e \in evidence : e.granted

CompletedLinked ==
    \A p \in Processes : reply[p].kind = "ok" /\ reply[p].status = "completed" =>
        EvidenceOf(reply[p].run) # {}

IInv ==
    /\ Typed
    /\ OneRunPerWork /\ Resolved /\ RepliesBound /\ DecisionsAsked
    /\ OneObservation /\ Unstarted /\ MineLinked /\ EvidenceLinked
    /\ Unblocked /\ Recorded /\ EvidenceGranted /\ CompletedLinked

-----------------------------------------------------------------------------
(* Types.                                                                  *)

LEMMA OkTyped ==
    ASSUME Typed, NEW p \in Processes
    PROVE  Ok(p) \in Replies
<1>1. job[p] \in Jobs
  BY DEF Typed
<1>2. Outcome(p) \in Completions \cup {NoJob.completion, "blocked"}
  BY <1>1 DEF Outcome, Jobs
<1> QED BY <1>1, <1>2 DEF Ok, Replies, Jobs

\* A step that returns, or goes on with a job, keeps the types.
LEMMA AdvanceTyped ==
    ASSUME Typed, NEW p \in Processes, NEW mine \in SUBSET (Nat \X Nat), Advance(p, mine)
    PROVE  /\ job' \in [Processes -> Jobs]
           /\ pc' \in [Processes -> Labels]
           /\ reply' \in [Processes -> Replies]
<1> DEFINE last == job[p].position >= Len(Capabilities(p))
           next == IF last THEN job[p].position ELSE job[p].position + 1
<1>1. Ok(p) \in Replies
  BY OkTyped
<1>2. job[p] \in Jobs
  BY DEF Typed
<1>3. next \in Nat
  BY <1>2 DEF Jobs
<1>4. job' = [job EXCEPT ![p].mine = mine, ![p].position = next]
  BY DEF Advance
<1> HIDE DEF next
<1>5. job' \in [Processes -> Jobs]
  BY <1>2, <1>3, <1>4 DEF Typed, Jobs
<1>6. pc' \in [Processes -> Labels] /\ reply' \in [Processes -> Replies]
  BY <1>1 DEF Advance, Return, Goto, Typed, Labels
<1> QED BY <1>5, <1>6

LEMMA NoJobTyped == NoJob \in Jobs
BY HeadsHaveBase DEF NoJob, Jobs, Requested, NoRun

LEMMA TypedStep ==
    ASSUME Typed, Next
    PROVE  Typed'
<1>1. ASSUME NEW p \in Processes, NEW envelope \in Envelopes, NEW completion \in Completions,
             Submit(p, envelope, completion)
      PROVE  Typed'
  <2>1. [NoJob EXCEPT !.envelope = envelope, !.completion = completion, !.attempt = calls + 1] \in Jobs
    <3>1. envelope \in Requested /\ completion \in Completions \cup {NoJob.completion}
      BY DEF Requested
    <3>2. calls + 1 \in Nat
      BY DEF Typed
    <3> QED BY NoJobTyped, <3>1, <3>2 DEF Jobs
  <2> QED BY <1>1, <2>1 DEF Submit, Typed, Labels, Replies, store
<1>2. ASSUME NEW p \in Processes, Resolve(p) PROVE Typed'
  <2>1. \A r \in runs : [job EXCEPT ![p].run = r.run] \in [Processes -> Jobs]
    BY DEF Typed, Jobs
  <2>2. job' \in [Processes -> Jobs]
    BY <1>2, <2>1 DEF Resolve, Typed
  <2>3. pc' \in [Processes -> Labels] /\ reply' \in [Processes -> Replies]
    BY <1>2 DEF Resolve, Goto, Return, Typed, Labels, Replies
  <2> QED BY <1>2, <2>2, <2>3 DEF Resolve, Typed, store
<1>3. ASSUME NEW p \in Processes, Insert(p) PROVE Typed'
  <2>1. [ run |-> job[p].attempt, envelope |-> job[p].envelope ] \in [ run : Nat, envelope : Requested ]
    BY DEF Typed, Jobs
  <2>2. job' \in [Processes -> Jobs]
    BY <1>3 DEF Insert, Typed, Jobs
  <2>3. pc' \in [Processes -> Labels] /\ reply' \in [Processes -> Replies]
    BY <1>3 DEF Insert, Goto, Return, Typed, Labels, Replies
  <2> QED BY <1>3, <2>1, <2>2, <2>3 DEF Insert, Typed
<1>4. ASSUME NEW p \in Processes, Observe(p) PROVE Typed'
  <2> DEFINE first == IF AsksForOther(p) THEN 1 ELSE 0
  <2>1. first \in Nat
    OBVIOUS
  <2>2. \/ job' = job
        \/ job' = [job EXCEPT ![p].seen = repository, ![p].position = first]
    BY <1>4 DEF Observe
  <2> HIDE DEF first
  <2>4. job' \in [Processes -> Jobs]
    BY <2>1, <2>2 DEF Typed, Jobs
  <2>3. pc' \in [Processes -> Labels] /\ reply' \in [Processes -> Replies]
    BY <1>4 DEF Observe, Goto, Return, Typed, Labels, Replies
  <2> QED BY <1>4, <2>3, <2>4 DEF Observe, Typed, store
<1>5. ASSUME NEW p \in Processes, Find(p) PROVE Typed'
  BY <1>5, OkTyped DEF Find, Goto, Return, Typed, Labels, store
<1>6. ASSUME NEW p \in Processes, Publish(p) PROVE Typed'
  <2>1. job[p].mine \in SUBSET (Nat \X Nat)
    BY DEF Typed, Jobs
  <2>2. CASE Advance(p, job[p].mine)
    BY <1>6, <2>1, <2>2, AdvanceTyped DEF Publish, Typed
  <2>3. CASE ~Advance(p, job[p].mine)
    BY <1>6, <2>3 DEF Publish, Goto, Typed, Labels
  <2> QED BY <2>2, <2>3
<1>7. ASSUME NEW p \in Processes, Link(p) PROVE Typed'
  <2>1. job[p].mine \cup {<<job[p].attempt, job[p].position>>} \in SUBSET (Nat \X Nat)
    BY DEF Typed, Jobs
  <2> QED BY <1>7, <2>1, AdvanceTyped DEF Link, Typed
<1>8. ASSUME NEW p \in Processes, Record(p) PROVE Typed'
  BY <1>8 DEF Record, Goto, Return, Typed, Labels, Replies
<1>9. ASSUME NEW p \in Processes, LinkEvidence(p) PROVE Typed'
  BY <1>9, OkTyped DEF LinkEvidence, Goto, Return, Typed, Labels
<1>10. ASSUME NEW p \in Processes, Crash(p) PROVE Typed'
  BY <1>10, NoJobTyped DEF Crash, Goto, Return, Typed, Labels, Replies, store
<1>11. CASE ChangeRepository
  BY <1>11 DEF ChangeRepository, Typed, store
<1> QED BY <1>1, <1>2, <1>3, <1>4, <1>5, <1>6, <1>7, <1>8, <1>9, <1>10, <1>11 DEF Next

-----------------------------------------------------------------------------
(* What the steps leave alone.                                             *)

ProcessStep(p) ==
    \/ \E envelope \in Envelopes, completion \in Completions : Submit(p, envelope, completion)
    \/ Resolve(p) \/ Insert(p) \/ Observe(p) \/ Find(p) \/ Publish(p) \/ Link(p)
    \/ Record(p) \/ LinkEvidence(p) \/ Crash(p)

\* A process moves only its own call.
LEMMA OthersStay ==
    ASSUME Typed, NEW p \in Processes, ProcessStep(p), NEW q \in Processes, q # p
    PROVE  pc'[q] = pc[q] /\ job'[q] = job[q] /\ reply'[q] = reply[q]
<1>1. CASE \E e \in Envelopes, c \in Completions : Submit(p, e, c)
  BY <1>1 DEF Submit, Typed
<1>2. CASE Resolve(p) \/ Insert(p) \/ Observe(p)
  BY <1>2 DEF Resolve, Insert, Observe, Goto, Return, Typed
<1>3. CASE Find(p) \/ Record(p) \/ LinkEvidence(p) \/ Crash(p)
  BY <1>3 DEF Find, Record, LinkEvidence, Crash, Goto, Return, Typed
<1>4. CASE Publish(p)
  BY <1>4 DEF Publish, Advance, Goto, Return, Typed
<1>5. CASE Link(p)
  BY <1>5 DEF Link, Advance, Goto, Return, Typed
<1> QED BY <1>1, <1>2, <1>3, <1>4, <1>5 DEF ProcessStep

\* Nothing stored is taken back.
LEMMA StoreGrows ==
    ASSUME NEW p \in Processes, ProcessStep(p)
    PROVE  /\ runs \subseteq runs' /\ artifacts \subseteq artifacts' /\ links \subseteq links'
           /\ evidence \subseteq evidence' /\ evidenceLinks \subseteq evidenceLinks'
BY DEF ProcessStep, Submit, Resolve, Insert, Observe, Find, Publish, Link, Record, LinkEvidence,
       Crash, store

\* Once it has resolved its Run, a call keeps to it until it ends.
Working(p) ==
    Observe(p) \/ Find(p) \/ Publish(p) \/ Link(p) \/ Record(p) \/ LinkEvidence(p)

LEMMA WorkKeepsRun ==
    ASSUME Typed, NEW p \in Processes, Working(p)
    PROVE  /\ pc[p] \notin {"idle", "resolve", "insert"}
           /\ job'[p].run = job[p].run /\ job'[p].envelope = job[p].envelope
           /\ runs' = runs
           /\ pc'[p] \notin {"resolve", "insert"}
           /\ reply'[p] \in {reply[p], Error, Ok(p)}
<1>1. CASE Observe(p)
  BY <1>1 DEF Observe, Goto, Return, Typed, Jobs, store
<1>2. CASE Find(p)
  BY <1>2 DEF Find, Goto, Return, Typed, store
<1>3. CASE Publish(p)
  BY <1>3 DEF Publish, Advance, Goto, Return, Typed, Jobs
<1>4. CASE Link(p)
  BY <1>4 DEF Link, Advance, Goto, Return, Typed, Jobs
<1>5. CASE Record(p) \/ LinkEvidence(p)
  BY <1>5 DEF Record, LinkEvidence, Goto, Return, Typed
<1> QED BY <1>1, <1>2, <1>3, <1>4, <1>5 DEF Working

-----------------------------------------------------------------------------
(* Runs.                                                                   *)

LEMMA OneRunStep ==
    ASSUME Typed, OneRunPerWork, NEW p \in Processes, ProcessStep(p)
    PROVE  OneRunPerWork'
<1>1. CASE Insert(p)
  BY <1>1 DEF Insert, RunAbsent, OneRunPerWork
<1>2. CASE ~Insert(p)
  <2>1. runs' = runs
    BY <1>2 DEF ProcessStep, Submit, Resolve, Observe, Find, Publish, Link, Record,
                LinkEvidence, Crash, store
  <2> QED BY <2>1 DEF OneRunPerWork
<1> QED BY <1>1, <1>2

LEMMA ResolvedStep ==
    ASSUME Typed, Resolved, NEW p \in Processes, ProcessStep(p)
    PROVE  Resolved'
<1> SUFFICES ASSUME NEW q \in Processes, pc'[q] \notin {"idle", "resolve", "insert"}
             PROVE  Row(job'[q]) \in runs'
  BY DEF Resolved
<1>1. CASE q # p
  BY <1>1, OthersStay, StoreGrows DEF Resolved
<1>2. CASE q = p /\ Working(p)
  BY <1>2, WorkKeepsRun DEF Resolved, Row
<1>3. CASE q = p /\ Resolve(p)
  <2>1. PICK r \in runs : r.envelope = job[p].envelope /\ job' = [job EXCEPT ![p].run = r.run]
    BY <1>3 DEF Resolve, Goto, Return, Typed
  <2>2. Row(job'[p]) = r
    BY <2>1 DEF Row, Typed, Jobs
  <2> QED BY <1>3, <2>2, StoreGrows
<1>4. CASE q = p /\ Insert(p)
  BY <1>4 DEF Insert, Goto, Return, Typed, Jobs, Row
<1>5. CASE q = p /\ Crash(p)
  BY <1>5 DEF Crash, Goto, Return, Typed
<1>6. CASE q = p /\ \E e \in Envelopes, c \in Completions : Submit(p, e, c)
  BY <1>6 DEF Submit, Typed
<1> QED BY <1>1, <1>2, <1>3, <1>4, <1>5, <1>6 DEF ProcessStep, Working

LEMMA RepliesStep ==
    ASSUME Typed, Resolved, RepliesBound, NEW p \in Processes, ProcessStep(p)
    PROVE  RepliesBound'
<1> SUFFICES ASSUME NEW q \in Processes, reply'[q].kind = "ok"
             PROVE  [ run |-> reply'[q].run, envelope |-> job'[q].envelope ] \in runs'
  BY DEF RepliesBound
<1>1. CASE q # p
  BY <1>1, OthersStay, StoreGrows DEF RepliesBound
<1>2. CASE q = p /\ Working(p)
  BY <1>2, WorkKeepsRun DEF Resolved, RepliesBound, Row, Ok, Error
<1>3. CASE q = p /\ Resolve(p)
  BY <1>3 DEF Resolve, Goto, Return, Typed, Jobs, RepliesBound, Error, store
<1>4. CASE q = p /\ Insert(p)
  BY <1>4 DEF Insert, Goto, Return, Typed, Jobs, RepliesBound, Error
<1>5. CASE q = p /\ Crash(p)
  BY <1>5 DEF Crash, Goto, Return, Typed, NoReply
<1>6. CASE q = p /\ \E e \in Envelopes, c \in Completions : Submit(p, e, c)
  BY <1>6 DEF Submit, Typed, NoReply
<1> QED BY <1>1, <1>2, <1>3, <1>4, <1>5, <1>6 DEF ProcessStep, Working

-----------------------------------------------------------------------------
(* What is stored for a Run.                                               *)

LEMMA DecisionsAskedStep ==
    ASSUME Typed, Resolved, DecisionsAsked, NEW p \in Processes, ProcessStep(p)
    PROVE  DecisionsAsked'
<1> DEFINE new == ArtifactAt(p, job[p].position)
<1>1. artifacts' = artifacts \/ (Publish(p) /\ artifacts' = artifacts \cup {new})
  BY DEF ProcessStep, Submit, Resolve, Insert, Observe, Find, Publish, Link, Record,
         LinkEvidence, Crash, store
<1>2. SUFFICES ASSUME NEW a \in artifacts', a.position # 0
               PROVE  \E r \in runs' :
                          r.run = a.run /\ r.envelope.capabilities[a.position] = a.capability
  BY DEF DecisionsAsked
<1>3. CASE a \in artifacts
  BY <1>2, <1>3, StoreGrows DEF DecisionsAsked
<1>4. CASE a \notin artifacts
  <2>1. Publish(p) /\ a = new
    BY <1>1, <1>2, <1>4
  <2>2. Row(job[p]) \in runs'
    BY <2>1, StoreGrows DEF Publish, Resolved
  <2>3. a.run = job[p].run /\ a.capability = job[p].envelope.capabilities[a.position]
    BY <1>2, <2>1 DEF ArtifactAt, Capabilities
  <2> QED BY <2>2, <2>3 DEF Row
<1> QED BY <1>3, <1>4

LEMMA OneObservationStep ==
    ASSUME OneObservation, NEW p \in Processes, ProcessStep(p)
    PROVE  OneObservation'
<1> DEFINE new == ArtifactAt(p, job[p].position)
<1>1. \/ artifacts' = artifacts
      \/ /\ artifacts' = artifacts \cup {new}
         /\ \A b \in artifacts : KeyOf(b) # KeyOf(new)
  BY DEF ProcessStep, Submit, Resolve, Insert, Observe, Find, Publish, Link, Record,
         LinkEvidence, Crash, store
<1>2. \A a, b : a.position = 0 /\ b.position = 0 /\ a.run = b.run => KeyOf(a) = KeyOf(b)
  BY DEF KeyOf
<1> QED BY <1>1, <1>2 DEF OneObservation

LEMMA UnstartedStep ==
    ASSUME Typed, Unstarted, NEW p \in Processes, ProcessStep(p)
    PROVE  Unstarted'
<1> SUFFICES ASSUME NEW q \in Processes, pc'[q] \in {"resolve", "insert"}
             PROVE  job'[q].mine = {}
  BY DEF Unstarted
<1>1. CASE q # p
  BY <1>1, OthersStay DEF Unstarted
<1>2. CASE q = p /\ Working(p)
  BY <1>2, WorkKeepsRun
<1>3. CASE q = p /\ Resolve(p)
  BY <1>3 DEF Resolve, Goto, Return, Typed, Unstarted
<1>4. CASE q = p /\ Insert(p)
  BY <1>4 DEF Insert, Goto, Return, Typed
<1>5. CASE q = p /\ Crash(p)
  BY <1>5 DEF Crash, Goto, Return, Typed
<1>6. CASE q = p /\ \E e \in Envelopes, c \in Completions : Submit(p, e, c)
  BY <1>6 DEF Submit, Typed, NoJob
<1> QED BY <1>1, <1>2, <1>3, <1>4, <1>5, <1>6 DEF ProcessStep, Working

LEMMA MineLinkedStep ==
    ASSUME Typed, Unstarted, MineLinked, NEW p \in Processes, ProcessStep(p)
    PROVE  MineLinked'
<1> SUFFICES ASSUME NEW q \in Processes, NEW id \in job'[q].mine
             PROVE  <<job'[q].run, id>> \in links'
  BY DEF MineLinked
<1>1. CASE q # p
  BY <1>1, OthersStay, StoreGrows DEF MineLinked
<1>2. CASE q = p /\ Working(p) /\ ~Link(p)
  <2>1. job'[p].mine = job[p].mine
    <3>1. CASE Observe(p)
      BY <3>1 DEF Observe, Typed, Jobs
    <3>2. CASE Find(p) \/ Record(p) \/ LinkEvidence(p)
      BY <3>2 DEF Find, Record, LinkEvidence
    <3>3. CASE Publish(p)
      BY <3>3 DEF Publish, Advance, Typed, Jobs
    <3> QED BY <1>2, <3>1, <3>2, <3>3 DEF Working
  <2> QED BY <1>2, <2>1, WorkKeepsRun, StoreGrows DEF MineLinked
<1>3. CASE q = p /\ Link(p)
  <2>1. job'[p].mine = job[p].mine \cup {<<job[p].attempt, job[p].position>>}
    BY <1>3 DEF Link, Advance, Typed, Jobs
  <2>2. job'[p].run = job[p].run
    BY <1>3, WorkKeepsRun DEF Working
  <2> QED BY <1>3, <2>1, <2>2 DEF Link, MineLinked
<1>4. CASE q = p /\ (Resolve(p) \/ Insert(p))
  <2>1. job'[p].mine = job[p].mine
    BY <1>4 DEF Resolve, Insert, Typed, Jobs
  <2>2. job[p].mine = {}
    BY <1>4 DEF Resolve, Insert, Unstarted
  <2> QED BY <1>4, <2>1, <2>2
<1>5. CASE q = p /\ Crash(p)
  BY <1>5 DEF Crash, Typed, NoJob
<1>6. CASE q = p /\ \E e \in Envelopes, c \in Completions : Submit(p, e, c)
  BY <1>6 DEF Submit, Typed, NoJob
<1> QED BY <1>1, <1>2, <1>3, <1>4, <1>5, <1>6 DEF ProcessStep, Working

LEMMA EvidenceLinkedStep ==
    ASSUME Typed, MineLinked, EvidenceLinked, NEW p \in Processes, ProcessStep(p)
    PROVE  EvidenceLinked'
<1> SUFFICES ASSUME NEW e \in evidence', NEW id \in e.names
             PROVE  <<e.run, id>> \in links'
  BY DEF EvidenceLinked
<1>1. CASE e \in evidence
  BY <1>1, StoreGrows DEF EvidenceLinked
<1>2. CASE e \notin evidence
  <2>1. Record(p)
    BY <1>2 DEF ProcessStep, Submit, Resolve, Insert, Observe, Find, Publish, Link,
                LinkEvidence, Crash, store
  <2>2. e.run = job[p].run /\ e.names = job[p].mine
    BY <1>2, <2>1 DEF Record
  <2> QED BY <2>2, StoreGrows DEF MineLinked
<1> QED BY <1>1, <1>2

-----------------------------------------------------------------------------
(* Completion.                                                             *)

LEMMA SameBlocked ==
    ASSUME NEW p \in Processes,
           job'[p].envelope = job[p].envelope, job'[p].seen = job[p].seen
    PROVE  (Blocked(p)' <=> Blocked(p)) /\ (Granted(p)' <=> Granted(p))
BY DEF Blocked, AsksForOther, Granted, Decision, Capabilities

LEMMA UnblockedStep ==
    ASSUME Typed, Unblocked, NEW p \in Processes, ProcessStep(p)
    PROVE  Unblocked'
<1> SUFFICES ASSUME NEW q \in Processes, pc'[q] = "record"
             PROVE  ~Blocked(q)'
  BY DEF Unblocked
<1>1. CASE q # p
  <2>1. pc[q] = "record" /\ job'[q] = job[q]
    BY <1>1, OthersStay
  <2> QED BY <2>1, SameBlocked DEF Unblocked
<1>2. CASE q = p
  <2>1. \E mine : Advance(p, mine)
    BY <1>2 DEF ProcessStep, Submit, Resolve, Insert, Observe, Find, Publish, Link, Record,
                LinkEvidence, Crash, Goto, Return, Typed
  <2>2. ~Blocked(p)
    BY <1>2, <2>1 DEF Advance, Goto, Return, Typed
  <2>3. job'[p].envelope = job[p].envelope /\ job'[p].seen = job[p].seen
    BY <2>1 DEF Advance, Typed, Jobs
  <2> QED BY <1>2, <2>2, <2>3, SameBlocked
<1> QED BY <1>1, <1>2

LEMMA EvidenceGrantedStep ==
    ASSUME Unblocked, EvidenceGranted, NEW p \in Processes, ProcessStep(p)
    PROVE  EvidenceGranted'
<1>1. CASE Record(p)
  BY <1>1 DEF Record, EvidenceGranted, Unblocked, Blocked
<1>2. CASE ~Record(p)
  <2>1. evidence' = evidence
    BY <1>2 DEF ProcessStep, Submit, Resolve, Insert, Observe, Find, Publish, Link,
                LinkEvidence, Crash, store
  <2> QED BY <2>1 DEF EvidenceGranted
<1> QED BY <1>1, <1>2

LEMMA RecordedStep ==
    ASSUME Typed, Recorded, NEW p \in Processes, ProcessStep(p)
    PROVE  Recorded'
<1> SUFFICES ASSUME NEW q \in Processes, pc'[q] = "link_evidence"
             PROVE  \E e \in evidence' : e.attempt = job'[q].attempt
  BY DEF Recorded
<1>1. CASE q # p
  BY <1>1, OthersStay, StoreGrows DEF Recorded
<1>2. CASE q = p
  <2>1. Record(p)
    BY <1>2 DEF ProcessStep, Submit, Resolve, Insert, Observe, Find, Publish, Link, Advance,
                LinkEvidence, Crash, Goto, Return, Typed
  <2> DEFINE new == [ run |-> job[p].run, attempt |-> job[p].attempt,
                      names |-> job[p].mine, granted |-> Granted(p) ]
  <2>2. new \in evidence' /\ job' = job
    BY <1>2, <2>1 DEF Record, Goto, Return, Typed
  <2>3. new.attempt = job[p].attempt
    OBVIOUS
  <2> QED BY <1>2, <2>2, <2>3
<1> QED BY <1>1, <1>2

\* The evidence of a Run is not taken back.
LEMMA EvidenceGrows ==
    ASSUME NEW p \in Processes, ProcessStep(p), NEW run
    PROVE  EvidenceOf(run) \subseteq EvidenceOf(run)'
BY StoreGrows DEF EvidenceOf

\* A call is answered ok when it found evidence, linked its own, or was blocked.
LEMMA AnswersOk ==
    ASSUME Typed, NEW p \in Processes, ProcessStep(p), reply'[p] # reply[p],
           reply'[p].kind = "ok"
    PROVE  /\ reply'[p] = Ok(p)
           /\ \/ Find(p) /\ EvidenceOf(job[p].run) # {}
              \/ LinkEvidence(p)
              \/ Blocked(p)
<1>1. reply \in [Processes -> Replies]
  BY DEF Typed
<1>2. CASE (\E e \in Envelopes, c \in Completions : Submit(p, e, c)) \/ Crash(p)
  <2>1. reply'[p] = NoReply
    BY <1>1, <1>2 DEF Submit, Crash, Return
  <2>2. NoReply.kind # "ok"
    BY DEF NoReply
  <2> QED BY <2>1, <2>2
<1>3. CASE Resolve(p) \/ Insert(p) \/ Observe(p) \/ Record(p)
  BY <1>1, <1>3 DEF Resolve, Insert, Observe, Record, Return, Error
<1>4. CASE Find(p) \/ LinkEvidence(p)
  BY <1>1, <1>4 DEF Find, LinkEvidence, Return
<1>5. CASE \E mine : Advance(p, mine)
  BY <1>1, <1>5 DEF Advance, Return
<1>6. Publish(p) \/ Link(p) => reply' = reply \/ \E mine : Advance(p, mine)
  BY DEF Publish, Link
<1> QED BY <1>2, <1>3, <1>4, <1>5, <1>6 DEF ProcessStep

LEMMA CompletedLinkedStep ==
    ASSUME Typed, Recorded, CompletedLinked, NEW p \in Processes, ProcessStep(p)
    PROVE  CompletedLinked'
<1> SUFFICES ASSUME NEW q \in Processes, NEW run, run = reply'[q].run,
                    reply'[q].kind = "ok", reply'[q].status = "completed"
             PROVE  EvidenceOf(run)' # {}
  BY DEF CompletedLinked, EvidenceOf
<1>1. CASE reply'[q] = reply[q]
  <2>1. EvidenceOf(run) # {}
    BY <1>1 DEF CompletedLinked
  <2> QED BY <2>1, EvidenceGrows
<1>2. CASE reply'[q] # reply[q]
  <2>1. q = p
    BY <1>2, OthersStay
  <2>2. /\ reply'[p] = Ok(p)
        /\ \/ Find(p) /\ EvidenceOf(job[p].run) # {}
           \/ LinkEvidence(p)
           \/ Blocked(p)
    BY <1>2, <2>1, AnswersOk
  <2>3. run = job[p].run /\ ~Blocked(p)
    BY <2>1, <2>2 DEF Ok, Outcome
  <2>4. CASE Find(p) /\ EvidenceOf(job[p].run) # {}
    BY <2>3, <2>4, EvidenceGrows
  <2>5. CASE LinkEvidence(p)
    <3>1. PICK e \in evidence : e.attempt = job[p].attempt
      BY <2>5 DEF LinkEvidence, Recorded
    <3>2. e \in evidence' /\ <<run, e.attempt>> \in evidenceLinks'
      BY <2>3, <2>5, <3>1 DEF LinkEvidence
    <3> QED BY <3>2 DEF EvidenceOf
  <2> QED BY <2>2, <2>3, <2>4, <2>5
<1> QED BY <1>1, <1>2

-----------------------------------------------------------------------------
(* The invariant, and what follows from it.                                *)

LEMMA InitIInv == Init => IInv
<1> SUFFICES ASSUME Init PROVE IInv
  OBVIOUS
<1>1. Typed
  BY NoJobTyped DEF Init, Typed, Labels, Replies
<1>2. OneRunPerWork /\ DecisionsAsked /\ OneObservation /\ EvidenceLinked
  BY DEF Init, OneRunPerWork, DecisionsAsked, OneObservation, EvidenceLinked
<1>3. Resolved /\ RepliesBound /\ Unstarted /\ MineLinked
  BY DEF Init, Resolved, RepliesBound, Unstarted, MineLinked, NoReply, NoJob
<1>4. Unblocked /\ Recorded /\ EvidenceGranted /\ CompletedLinked
  BY DEF Init, Unblocked, Recorded, EvidenceGranted, CompletedLinked, NoReply
<1> QED BY <1>1, <1>2, <1>3, <1>4 DEF IInv

LEMMA StillIInv ==
    ASSUME IInv, UNCHANGED <<store, pc, job, reply>>, Typed'
    PROVE  IInv'
<1>1. OneRunPerWork' /\ Resolved' /\ RepliesBound' /\ DecisionsAsked'
  BY DEF store, IInv, OneRunPerWork, Resolved, RepliesBound, DecisionsAsked
<1>2. OneObservation' /\ Unstarted' /\ MineLinked' /\ EvidenceLinked'
  BY DEF store, IInv, OneObservation, Unstarted, MineLinked, EvidenceLinked
<1>3. Unblocked'
  BY SameBlocked DEF IInv, Unblocked
<1>4. Recorded' /\ EvidenceGranted' /\ CompletedLinked'
  BY DEF store, IInv, Recorded, EvidenceGranted, CompletedLinked, EvidenceOf
<1> QED BY <1>1, <1>2, <1>3, <1>4 DEF IInv

LEMMA NextIInv == IInv /\ [Next]_vars => IInv'
<1>1. ASSUME IInv, NEW p \in Processes, ProcessStep(p) PROVE IInv'
  <2>1. Next
    BY <1>1 DEF ProcessStep, Next
  <2>2. Typed'
    BY <1>1, <2>1, TypedStep DEF IInv
  <2>3. OneRunPerWork' /\ Resolved' /\ RepliesBound'
    BY <1>1, OneRunStep, ResolvedStep, RepliesStep DEF IInv
  <2>4. DecisionsAsked' /\ OneObservation'
    BY <1>1, DecisionsAskedStep, OneObservationStep DEF IInv
  <2>5. Unstarted' /\ MineLinked' /\ EvidenceLinked'
    BY <1>1, UnstartedStep, MineLinkedStep, EvidenceLinkedStep DEF IInv
  <2>6. Unblocked' /\ Recorded' /\ EvidenceGranted' /\ CompletedLinked'
    BY <1>1, UnblockedStep, RecordedStep, EvidenceGrantedStep, CompletedLinkedStep DEF IInv
  <2> QED BY <2>2, <2>3, <2>4, <2>5, <2>6 DEF IInv
<1>2. ASSUME IInv, ChangeRepository PROVE IInv'
  <2>1. Typed'
    BY <1>2, TypedStep DEF Next, IInv
  <2>2. UNCHANGED <<store, pc, job, reply>>
    BY <1>2 DEF ChangeRepository
  <2> QED BY <1>2, <2>1, <2>2, StillIInv
<1>3. ASSUME IInv, UNCHANGED vars PROVE IInv'
  <2>1. Typed'
    BY <1>3 DEF vars, store, IInv, Typed
  <2> QED BY <1>3, <2>1, StillIInv DEF vars
<1>4. Next => ChangeRepository \/ \E p \in Processes : ProcessStep(p)
  BY DEF Next, ProcessStep
<1> QED BY <1>1, <1>2, <1>3, <1>4

\* Whatever the processes, their interleaving, their retries and their deaths: the
\* types, the binding of calls to Runs, and the links of what is stored hold.
THEOREM SupervisionInvariant == Spec => []IInv
<1> QED BY InitIInv, NextIInv, PTL DEF Spec

\* RunsBindRequests for every value of the constants: resolve_run never makes two
\* Runs for a work_id, a call is answered with the Run of its own request, and a
\* stored decision is about a capability that request asked for.
THEOREM SupervisionRuns == Spec => []RunsBindRequests
<1>1. IInv => RunsBindRequests
  BY DEF IInv, OneRunPerWork, RepliesBound, DecisionsAsked, RunsBindRequests
<1> QED BY <1>1, SupervisionInvariant, PTL

\* FactsAreReachable for every value of the constants: a Run keeps one observation
\* over all its attempts, and its evidence names linked artifacts only.
THEOREM SupervisionFacts == Spec => []FactsAreReachable
<1>1. IInv => FactsAreReachable
  BY DEF IInv, OneObservation, EvidenceLinked, FactsAreReachable
<1> QED BY <1>1, SupervisionInvariant, PTL

\* CompletedIsEvidenced for every value of the constants: neither the answer of
\* supervise nor inspect_run calls a Run completed without linked evidence of an
\* attempt that was granted what it asked for.
THEOREM SupervisionCompletion == Spec => []CompletedIsEvidenced
<1>1. ASSUME IInv, NEW r \in runs, EvidenceOf(r.run) # {}
      PROVE  \E e \in EvidenceOf(r.run) : e.granted
  BY <1>1 DEF IInv, EvidenceGranted, EvidenceOf
<1>2. \A run : Inspect(run) = "completed" => EvidenceOf(run) # {}
  BY DEF Inspect, DeriveStatus
<1>3. IInv => CompletedIsEvidenced
  BY <1>1, <1>2 DEF CompletedIsEvidenced, IInv, CompletedLinked
<1> QED BY <1>3, SupervisionInvariant, PTL

\* InspectionAdvances for every value of the constants: the store only grows, so
\* inspect_run never loses a fact, and a blocked Run is never found completed.
THEOREM SupervisionInspection == Spec => InspectionAdvances
<1>1. ASSUME [Next]_vars, NEW r \in runs PROVE Rank(Inspect(r.run)') >= Rank(Inspect(r.run))
  <2> DEFINE run == r.run
  <2>1. /\ Linked(run) \subseteq Linked(run)' /\ EvidenceOf(run) \subseteq EvidenceOf(run)'
    <3>1. /\ artifacts \subseteq artifacts' /\ links \subseteq links'
          /\ evidence \subseteq evidence' /\ evidenceLinks \subseteq evidenceLinks'
      BY <1>1, StoreGrows DEF Next, ProcessStep, ChangeRepository, vars, store
    <3> QED BY <3>1 DEF Linked, EvidenceOf, ArtifactId
  <2>2. /\ Decisions(run) = { a \in Linked(run) : a.result # "observation" }
        /\ Decisions(run)' = { a \in Linked(run)' : a.result # "observation" }
    BY DEF Decisions
  <2>3. Inspect(run) # "incomplete" => Inspect(run)' # "incomplete"
    BY <2>1, <2>2 DEF Inspect, DeriveStatus
  <2>4. Inspect(run) = "blocked" => Inspect(run)' = "blocked"
    BY <2>1, <2>2 DEF Inspect, DeriveStatus
  <2>5. Inspect(run) = "completed" => Inspect(run)' \in {"completed", "blocked"}
    BY <2>1, <2>2 DEF Inspect, DeriveStatus
  <2>6. /\ Inspect(run) \in {"incomplete", "unknown", "completed", "blocked"}
        /\ Inspect(run)' \in {"incomplete", "unknown", "completed", "blocked"}
    BY DEF Inspect, DeriveStatus
  <2> QED BY <2>3, <2>4, <2>5, <2>6 DEF Rank
<1>2. [Next]_vars => \A r \in runs : Rank(Inspect(r.run)') >= Rank(Inspect(r.run))
  BY <1>1
<1> QED BY <1>2, PTL DEF Spec, InspectionAdvances
=============================================================================
