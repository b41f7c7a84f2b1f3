----------------------------- MODULE Supervision -----------------------------
(***************************************************************************)
(* Supervision of Repository Recon runs (Kiln.Supervision): a Work         *)
(* Envelope is bound to a Run by its work_id, the repository is observed,  *)
(* authority is decided, and the observation, the decisions and the        *)
(* evidence are stored and linked to the Run, from which inspect_run       *)
(* reconstructs the outcome.                                               *)
(*                                                                         *)
(* Nothing holds these writes together: each is a transaction of its own.  *)
(* The processes that supervise interleave between any two of them, retry  *)
(* an envelope, and die.  Every attempt mints new artifact, decision and   *)
(* evidence identifiers, but stores the observation and the evidence under *)
(* keys derived from the Run, so that a second attempt conflicts there.    *)
(***************************************************************************)
EXTENDS Integers, Sequences

CONSTANTS
    Processes,
    Envelopes,      \* the requests: work, and the capabilities asked for
    Heads,          \* what HEAD may resolve to: "base" is the commit the envelopes are
                    \* based on, the others are further commits or that there is none
    Completions,    \* what the producer reports of its procedure
    MaxCalls,       \* how many times a behaviour supervises an envelope
    MaxChanges      \* how many times the repository changes its commit

ASSUME HeadsHaveBase == "base" \in Heads
ASSUME BoundsAreNaturals == MaxCalls \in Nat /\ MaxChanges \in Nat

VARIABLES
    runs,           \* supervision_runs
    artifacts,      \* the artifact store: what was published
    links,          \* supervision_run_artifacts
    evidence,       \* the evidence store
    evidenceLinks,  \* supervision_run_evidence
    repository,     \* what HEAD resolves to
    pc, job, reply, \* the call of each process, and what its last one returned
    calls, changes

store == <<runs, artifacts, links, evidence, evidenceLinks>>
vars == <<store, repository, pc, job, reply, calls, changes>>

NoRun == 0
NoReply == [ kind |-> "none" ]
\* Requests for git.read, of the repository that is observed and of another scope.
GitRead == "git.read"
GitReadElsewhere == "git.read elsewhere"

-----------------------------------------------------------------------------
(* What a process works with.                                              *)

Idle(p) == pc[p] = "idle"

Capabilities(p) == job[p].envelope.capabilities

\* git.read of the observed repository is granted on the commit the envelope is based
\* on; another capability, another scope, another commit and none are denied.
Decision(p, i) ==
    IF Capabilities(p)[i] = GitRead /\ job[p].seen = "base" THEN "granted" ELSE "denied"

Granted(p) == \E i \in DOMAIN Capabilities(p) : Decision(p, i) = "granted"

\* An envelope that asks for anything but git.read is refused without observing.
AsksForOther(p) ==
    \E i \in DOMAIN Capabilities(p) : Capabilities(p)[i] \notin {GitRead, GitReadElsewhere}

\* The artifact at a position of the attempt: the observation, or a decision.
ArtifactAt(p, i) ==
    [ attempt |-> job[p].attempt, position |-> i, run |-> job[p].run,
      capability |-> IF i = 0 THEN "none" ELSE Capabilities(p)[i],
      result |-> IF i = 0 THEN "observation" ELSE Decision(p, i) ]

ArtifactId(a) == <<a.attempt, a.position>>

\* Mutant: the observation is stored under the identifier of the attempt.
KeyOfAttempt(a) == <<"artifact", a.attempt, a.position>>

\* One observation per Run; the key of a decision is its fresh identifier.
KeyOf(a) ==
    IF a.position = 0 THEN <<"observation", a.run>> ELSE <<"authority", a.attempt, a.position>>

Blocked(p) == AsksForOther(p) \/ ~Granted(p)

Outcome(p) == IF Blocked(p) THEN "blocked" ELSE job[p].completion

-----------------------------------------------------------------------------
(* Inspection of a Run, from the rows alone.                               *)

Linked(run) == { a \in artifacts : <<run, ArtifactId(a)>> \in links }

EvidenceOf(run) == { e \in evidence : <<run, e.attempt>> \in evidenceLinks }

Decisions(run) == { a \in Linked(run) : a.result # "observation" }

\* Mutant: evidence is looked at before the denials.
StatusByEvidence(run) ==
    IF EvidenceOf(run) # {} THEN "completed"
    ELSE IF \E a \in Decisions(run) : a.result = "denied" THEN "blocked" ELSE "unknown"

DeriveStatus(run) ==
    IF \E a \in Decisions(run) : a.result = "denied" THEN "blocked"
    ELSE IF EvidenceOf(run) = {} THEN "unknown" ELSE "completed"

\* No observation or no decision is an error.
Inspect(run) ==
    IF Decisions(run) = {} \/ Decisions(run) = Linked(run)
    THEN "incomplete" ELSE DeriveStatus(run)

-----------------------------------------------------------------------------

NoJob == [ envelope |-> CHOOSE e \in Envelopes : TRUE,
           completion |-> CHOOSE c \in Completions : TRUE,
           attempt |-> 0, run |-> NoRun, seen |-> "base", position |-> 0, mine |-> {} ]

Init ==
    /\ runs = {} /\ artifacts = {} /\ links = {} /\ evidence = {} /\ evidenceLinks = {}
    /\ repository \in Heads
    /\ pc = [p \in Processes |-> "idle"]
    /\ job = [p \in Processes |-> NoJob]
    /\ reply = [p \in Processes |-> NoReply]
    /\ calls = 0 /\ changes = 0

Submit(p, envelope, completion) ==
    /\ Idle(p) /\ calls < MaxCalls
    /\ calls' = calls + 1
    /\ job' = [job EXCEPT ![p] =
          [NoJob EXCEPT !.envelope = envelope, !.completion = completion, !.attempt = calls + 1]]
    /\ pc' = [pc EXCEPT ![p] = "resolve"]
    /\ reply' = [reply EXCEPT ![p] = NoReply]
    /\ UNCHANGED <<store, repository, changes>>

Goto(p, label) == pc' = [pc EXCEPT ![p] = label]

Return(p, value) == Goto(p, "idle") /\ reply' = [reply EXCEPT ![p] = value]

Ok(p) == [ kind |-> "ok", run |-> job[p].run, status |-> Outcome(p) ]

Error == [ kind |-> "error" ]

\* The row of the work_id, read in a statement of its own.
Resolve(p) ==
    /\ pc[p] = "resolve"
    /\ \/ /\ \A r \in runs : r.envelope.work # job[p].envelope.work
          /\ Goto(p, "insert")
          /\ UNCHANGED <<job, reply>>
       \/ \E r \in runs :
             /\ r.envelope = job[p].envelope
             /\ job' = [job EXCEPT ![p].run = r.run]
             /\ Goto(p, "observe")
             /\ UNCHANGED reply
       \/ /\ \E r \in runs : /\ r.envelope.work = job[p].envelope.work
                             /\ r.envelope # job[p].envelope
          /\ Return(p, Error)
          /\ UNCHANGED job
    /\ UNCHANGED <<store, repository, calls, changes>>

\* Mutant: the index is on the work_id and the digest together.
RunAbsentForRequest(envelope) == \A r \in runs : r.envelope # envelope

\* The unique index on work_id.
RunAbsent(envelope) == \A r \in runs : r.envelope.work # envelope.work

\* The insertion of a new Run; the index makes it raise if another process was
\* first, and the call dies with it.
Insert(p) ==
    /\ pc[p] = "insert"
    /\ \/ /\ RunAbsent(job[p].envelope)
          /\ runs' = runs \cup {[ run |-> job[p].attempt, envelope |-> job[p].envelope ]}
          /\ job' = [job EXCEPT ![p].run = job[p].attempt]
          /\ Goto(p, "observe")
          /\ UNCHANGED reply
       \/ /\ ~RunAbsent(job[p].envelope)
          /\ Return(p, Error)
          /\ UNCHANGED <<runs, job>>
    /\ UNCHANGED <<artifacts, links, evidence, evidenceLinks, repository, calls, changes>>

\* The observation of the repository, and the decisions that rest on it; a
\* repository that cannot be observed ends the call.
Observe(p) ==
    /\ pc[p] = "observe"
    /\ \/ /\ job' = [job EXCEPT ![p].seen = repository,
                                ![p].position = IF AsksForOther(p) THEN 1 ELSE 0]
          /\ Goto(p, IF AsksForOther(p) THEN "publish" ELSE "find")
          /\ UNCHANGED reply
       \/ /\ Return(p, Error)
          /\ UNCHANGED job
    /\ UNCHANGED <<store, repository, calls, changes>>

\* A Run that has evidence is answered from this attempt's decisions; nothing is stored.
Find(p) ==
    /\ pc[p] = "find"
    /\ IF EvidenceOf(job[p].run) # {}
       THEN Return(p, Ok(p))
       ELSE Goto(p, "publish") /\ UNCHANGED reply
    /\ UNCHANGED <<store, job, repository, calls, changes>>

\* On to the next artifact; after the last one a blocked envelope is answered, any
\* other goes on to its evidence.
Advance(p, mine) ==
    LET last == job[p].position >= Len(Capabilities(p)) IN
    /\ job' = [job EXCEPT ![p].mine = mine, ![p].position = IF last THEN @ ELSE @ + 1]
    /\ IF last /\ Blocked(p)
       THEN Return(p, Ok(p))
       ELSE Goto(p, IF last THEN "record" ELSE "publish") /\ UNCHANGED reply

\* One put.  A conflict on the key, and any other refusal of the store, is
\* swallowed: the artifact is left out.
Publish(p) ==
    LET a == ArtifactAt(p, job[p].position) IN
    /\ pc[p] = "publish"
    /\ \/ /\ \A b \in artifacts : KeyOf(b) # KeyOf(a)
          /\ artifacts' = artifacts \cup {a}
          /\ Goto(p, "link")
          /\ UNCHANGED <<job, reply>>
       \/ /\ Advance(p, job[p].mine)
          /\ UNCHANGED artifacts
    /\ UNCHANGED <<runs, links, evidence, evidenceLinks, repository, calls, changes>>

\* The link of what was just published.
Link(p) ==
    LET id == <<job[p].attempt, job[p].position>> IN
    /\ pc[p] = "link"
    /\ links' = links \cup {<<job[p].run, id>>}
    /\ Advance(p, job[p].mine \cup {id})
    /\ UNCHANGED <<runs, artifacts, evidence, evidenceLinks, repository, calls, changes>>

\* The evidence, under a key of the Run: that of another attempt is a conflict,
\* which here, as any refusal of the store, ends the call.
Record(p) ==
    /\ pc[p] = "record"
    /\ \/ /\ \A e \in evidence : e.run # job[p].run
          /\ evidence' = evidence \cup
                {[ run |-> job[p].run, attempt |-> job[p].attempt, names |-> job[p].mine,
                   granted |-> Granted(p) ]}
          /\ Goto(p, "link_evidence")
          /\ UNCHANGED reply
       \/ /\ Return(p, Error)
          /\ UNCHANGED evidence
    /\ UNCHANGED <<runs, artifacts, links, evidenceLinks, repository, job, calls, changes>>

\* Mutant: the call is answered before its evidence is linked.
AnswerUnlinked(p) ==
    /\ pc[p] = "link_evidence"
    /\ Return(p, Ok(p))
    /\ UNCHANGED <<store, repository, job, calls, changes>>

LinkEvidence(p) ==
    /\ pc[p] = "link_evidence"
    /\ evidenceLinks' = evidenceLinks \cup {<<job[p].run, job[p].attempt>>}
    /\ Return(p, Ok(p))
    /\ UNCHANGED <<runs, artifacts, links, evidence, repository, job, calls, changes>>

\* The process dies, or a statement outside the stores raises.
Crash(p) ==
    /\ ~Idle(p)
    /\ Return(p, NoReply)
    /\ job' = [job EXCEPT ![p] = NoJob]
    /\ UNCHANGED <<store, repository, calls, changes>>

\* The user moves HEAD.
ChangeRepository ==
    /\ changes < MaxChanges
    /\ changes' = changes + 1
    /\ repository' \in Heads \ {repository}
    /\ UNCHANGED <<store, pc, job, reply, calls>>

Next ==
    \/ \E p \in Processes :
          \/ \E envelope \in Envelopes, completion \in Completions : Submit(p, envelope, completion)
          \/ Resolve(p) \/ Insert(p) \/ Observe(p) \/ Find(p) \/ Publish(p) \/ Link(p)
          \/ Record(p) \/ LinkEvidence(p) \/ Crash(p)
    \/ ChangeRepository

Spec == Init /\ [][Next]_vars

-----------------------------------------------------------------------------

TypeOK ==
    /\ \A r \in runs : r.run \in 1 .. MaxCalls /\ r.envelope \in Envelopes
    /\ \A a \in artifacts : a.attempt \in 1 .. calls /\ a.run \in 1 .. calls
    /\ \A p \in Processes :
          /\ pc[p] \in {"idle", "resolve", "insert", "observe", "find", "publish", "link",
                        "record", "link_evidence"}
          /\ job[p].position \in 0 .. Len(Capabilities(p))
          /\ reply[p].kind \in {"none", "ok", "error"}

\* A work_id has one Run, whichever process resolved it first; a call is answered
\* with the Run bound to its own request; and the decisions stored for a Run are
\* about what its request asked for.
RunsBindRequests ==
    /\ \A r, s \in runs : r.envelope.work = s.envelope.work => r = s
    /\ \A p \in Processes : reply[p].kind = "ok" =>
          [ run |-> reply[p].run, envelope |-> job[p].envelope ] \in runs
    /\ \A a \in artifacts : a.position # 0 =>
          \E r \in runs : r.run = a.run /\ r.envelope.capabilities[a.position] = a.capability

\* There is at most one observation for a Run, over all its attempts, so that an
\* inspection does not have to choose; and evidence names only artifacts that
\* inspection reaches.
FactsAreReachable ==
    /\ \A a, b \in artifacts : a.position = 0 /\ b.position = 0 /\ a.run = b.run => a = b
    /\ \A e \in evidence : \A id \in e.names : <<e.run, id>> \in links

\* A Run is taken for completed, by the caller of supervise or of inspect_run, only
\* with linked evidence of an attempt that was granted what it asked for.
CompletedIsEvidenced ==
    \A r \in runs :
        \/ Inspect(r.run) = "completed"
        \/ \E p \in Processes :
              reply[p].kind = "ok" /\ reply[p].run = r.run /\ reply[p].status = "completed"
        => \E e \in EvidenceOf(r.run) : e.granted

\* What inspection says of a Run only moves on: it never loses facts it had, and a
\* blocked Run is never found completed.
Rank(status) ==
    CASE status = "incomplete" -> 0
      [] status = "unknown"    -> 1
      [] status = "completed"  -> 2
      [] status = "blocked"    -> 3

InspectionAdvances ==
    [][\A r \in runs : Rank(Inspect(r.run)') >= Rank(Inspect(r.run))]_vars

=============================================================================
