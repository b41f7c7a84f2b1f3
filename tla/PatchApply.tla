----------------------------- MODULE PatchApply -----------------------------
(***************************************************************************)
(* The patch.apply handler (Kiln.RPC.Handlers.Patch around                 *)
(* Kiln.PatchService): it records the intent of a patch in the journal,    *)
(* checks the preimage of every file, writes the files one after another,  *)
(* checks them again, and records what it observed.                        *)
(*                                                                         *)
(* Every request runs in a process of its own, so handlers interleave at   *)
(* every read and write of a file and at every journal transaction; Kiln   *)
(* may die between any two of them, and inside the write of a file, which  *)
(* truncates before it fills.  The user may edit a file at any time, and   *)
(* Kiln.Workflow moves the Session.                                        *)
(*                                                                         *)
(* The digest of a request is what its caller says it is: nothing computes *)
(* it again.  A caller may send other operations under the key and digest  *)
(* of an earlier request, and is answered with that request's intent.      *)
(***************************************************************************)
EXTENDS SessionLedger, Sequences

CONSTANTS
    Handlers,
    Patches,        \* the requests: key, digest, op, session, expected, approved, operations
    Digests,        \* the digests callers give their requests
    FreshKeys,      \* keys generated for observations
    WorkflowKeys,   \* keys of the workflow's appends
    Files,
    Bytes,          \* file contents
    InitialDisk,    \* the repository before the first patch
    MaxCalls,       \* how many requests a behaviour has
    MaxEdits        \* how many edits of the user a behaviour has

ASSUME BoundsAreNaturals == MaxCalls \in Nat /\ MaxEdits \in Nat

NoFile == "absent"
Torn == "torn"

Operations == [ path : Files, before : Bytes \cup {NoFile}, after : Bytes \cup {NoFile} ]

PatchRequests ==
    [ key : Keys, digest : Digests, op : OpIds, session : Sessions, expected : Revisions,
      approved : BOOLEAN, operations : Seq(Operations) \ {<<>>} ] \cap Requests

\* A patch without operations is refused where it is proposed.
ASSUME PatchesAreRequests == Patches # {} /\ Patches \subseteq PatchRequests

\* A key generated for an observation is new: it is random.
ASSUME FreshKeysAreNew ==
    FreshKeys \subseteq Keys /\ \A p \in Patches : p.key \notin FreshKeys

WorkflowRequest(type) == [ op |-> type, digest |-> type ]

WorkflowAppends == {"session_started", "run_transitioned"}

ASSUME WorkflowAppendsAreRequests ==
    /\ WorkflowKeys \subseteq Keys
    /\ \A type \in WorkflowAppends : WorkflowRequest(type) \in Requests

ASSUME DiskIsFiles == InitialDisk \in [Files -> Bytes \cup {NoFile}]

VARIABLES
    pc,         \* where each handler is
    job,        \* the patch it handles
    step,       \* the operation of the patch it is at
    replayed,   \* whether its intent was found committed already
    verdict,    \* what it concluded
    reply,      \* what it returned last
    disk,       \* the repository
    calls, edits,
    repeated,   \* history: an operation was executed again, or another under its intent
    lost        \* history: the store refused to record an observation

handlerVars == <<pc, job, step, replayed, verdict, reply>>
historyVars == <<calls, edits, repeated, lost>>
vars == <<ledgerVars, handlerVars, disk, historyVars>>

-----------------------------------------------------------------------------

AnyPatch == CHOOSE p \in Patches : TRUE    \* the job of a handler that has none

Active(h) == pc[h] # "idle"

Current(h) == job[h].operations[step[h]]

\* The preimage of an added file is its absence; a deleted file has no postimage
\* and is not looked at again.
PreimageMatches(h) == disk[Current(h).path] = Current(h).before

PostimageMatches(h) == Current(h).after \in {NoFile, disk[Current(h).path]}

\* The operations of a patch are taken in order; after the last the handler moves on.
Advance(h, next) ==
    IF step[h] < Len(job[h].operations)
    THEN step' = [step EXCEPT ![h] = @ + 1] /\ UNCHANGED pc
    ELSE step' = [step EXCEPT ![h] = 1] /\ pc' = [pc EXCEPT ![h] = next]

Conclude(h, value) ==
    /\ verdict' = [verdict EXCEPT ![h] = value]
    /\ pc' = [pc EXCEPT ![h] = "observe"]
    /\ step' = [step EXCEPT ![h] = 1]

IntentEntry(p) == [ type |-> "operation_intent_recorded", op |-> p.op ]

\* Mutant: a patch that succeeded completes the Run.
RunCompleted(value) ==
    CASE value = "succeeded" -> "completed"
      [] value = "unknown"   -> "orphaned"
      [] value = "failed"    -> "failed"

\* The Run state the observation of each verdict asks for.
RunAfter(value) ==
    CASE value = "succeeded" -> "ready"
      [] value = "unknown"   -> "orphaned"
      [] value = "failed"    -> "failed"

ObservationEntry(h) ==
    [ type |-> "operation_observed", op |-> job[h].op,
      state |-> verdict[h], to |-> RunAfter(verdict[h]) ]

\* The store finds an earlier commit by its key, and takes it for the commit of this
\* request when the digests agree.
TakenFor(c, p) == c.key = p.key /\ c.request.digest = p.digest

\* The digest tells this request from every other one under its key.
Truthful(p) ==
    /\ p.digest \notin WorkflowAppends
    /\ \A q \in Patches : q.key = p.key /\ q.digest = p.digest => q = p

\* The operation of this patch is in flight, as far as the journal knows: its
\* intent is there and no entry about an operation follows it.
IsIntent(c, p) == c.key = p.key /\ c.request = p /\ c.entry = IntentEntry(p)

OperationEntries == {"operation_intent_recorded", "operation_observed"}

Latest(c) ==
    \A d \in commits : d.session = c.session /\ d.revision > c.revision =>
                          d.entry.type \notin OperationEntries

InFlight(p) == \E c \in commits : IsIntent(c, p) /\ Latest(c)

-----------------------------------------------------------------------------

Init ==
    /\ LedgerInit
    /\ pc = [h \in Handlers |-> "idle"]
    /\ job = [h \in Handlers |-> AnyPatch]
    /\ step = [h \in Handlers |-> 1]
    /\ replayed = [h \in Handlers |-> FALSE]
    /\ verdict = [h \in Handlers |-> "none"]
    /\ reply = [h \in Handlers |-> "none"]
    /\ disk = InitialDisk
    /\ calls = 0 /\ edits = 0 /\ repeated = FALSE /\ lost = FALSE

Submit(h, p) ==
    /\ ~Active(h) /\ calls < MaxCalls
    /\ calls' = calls + 1
    /\ pc' = [pc EXCEPT ![h] = "intent"]
    /\ job' = [job EXCEPT ![h] = p]
    /\ step' = [step EXCEPT ![h] = 1]
    /\ replayed' = [replayed EXCEPT ![h] = FALSE]
    /\ verdict' = [verdict EXCEPT ![h] = "none"]
    /\ reply' = [reply EXCEPT ![h] = "none"]
    /\ UNCHANGED <<ledgerVars, disk, edits, repeated, lost>>

\* Mutant: the result of the intent commit is ignored, as the observation's is.
IgnoreError(h) == pc' = [pc EXCEPT ![h] = "check"] /\ UNCHANGED reply

\* A request ends with an error before anything was done.
Refuse(h) ==
    /\ reply' = [reply EXCEPT ![h] = "error"]
    /\ pc' = [pc EXCEPT ![h] = "idle"]

\* The intent commit.  A new intent and a replayed one both let the patch apply,
\* and the replayed one is that of whoever used the key and the digest first;
\* an error (a conflict, a stale revision, an entry that does not reduce) ends
\* the request.
Intent(h) ==
    LET p == job[h] IN
    /\ pc[h] = "intent"
    /\ \/ /\ CommitEntry(p.key, p, p.session, p.expected, IntentEntry(p))
          /\ pc' = [pc EXCEPT ![h] = "check"]
          /\ UNCHANGED <<replayed, reply>>
       \/ /\ \E c \in commits : TakenFor(c, p)
          /\ replayed' = [replayed EXCEPT ![h] = TRUE]
          /\ pc' = [pc EXCEPT ![h] = "check"]
          /\ UNCHANGED <<ledgerVars, reply>>
       \/ /\ \/ \E c \in commits : c.key = p.key /\ ~TakenFor(c, p)
             \/ /\ KeyUnused(p.key)
                /\ p.expected # Expectable(p.session)
                      \/ ~Reducible(head[p.session], IntentEntry(p))
          /\ Refuse(h)
          /\ UNCHANGED <<ledgerVars, replayed>>
    /\ UNCHANGED <<job, step, verdict, disk, historyVars>>

\* The decision's binding and the repository, then the preimage of every file,
\* before the first write.
Check(h) ==
    /\ pc[h] = "check"
    /\ IF job[h].approved /\ PreimageMatches(h)
       THEN Advance(h, "write") /\ UNCHANGED verdict
       ELSE Conclude(h, "failed")
    /\ UNCHANGED <<ledgerVars, job, replayed, reply, disk, historyVars>>

\* The first effect of a replayed intent is a repetition when its operation is
\* settled, in the hands of another handler, or not the one this request describes.
Repeats(h) ==
    replayed[h] /\ (~InFlight(job[h]) \/ \E g \in Handlers \ {h} : Active(g))

\* One operation: a deletion is one step, a write truncates and then fills.
Truncate(h) ==
    /\ pc[h] = "write" /\ Current(h).after # NoFile
    /\ disk' = [disk EXCEPT ![Current(h).path] = Torn]
    /\ pc' = [pc EXCEPT ![h] = "fill"]
    /\ repeated' = (repeated \/ Repeats(h))
    /\ UNCHANGED <<ledgerVars, job, step, replayed, verdict, reply, calls, edits, lost>>

Fill(h) ==
    /\ pc[h] = "fill"
    /\ disk' = [disk EXCEPT ![Current(h).path] = Current(h).after]
    /\ IF step[h] < Len(job[h].operations)
       THEN step' = [step EXCEPT ![h] = @ + 1] /\ pc' = [pc EXCEPT ![h] = "write"]
       ELSE step' = [step EXCEPT ![h] = 1] /\ pc' = [pc EXCEPT ![h] = "verify"]
    /\ UNCHANGED <<ledgerVars, job, replayed, verdict, reply, historyVars>>

Delete(h) ==
    /\ pc[h] = "write" /\ Current(h).after = NoFile /\ disk[Current(h).path] # NoFile
    /\ disk' = [disk EXCEPT ![Current(h).path] = NoFile]
    /\ Advance(h, "verify")
    /\ repeated' = (repeated \/ Repeats(h))
    /\ UNCHANGED <<ledgerVars, job, replayed, verdict, reply, calls, edits, lost>>

\* Mutant: an operation the file system refuses is skipped.
RaiseSwallowed(h) ==
    /\ pc[h] = "write"
    /\ Advance(h, "verify")
    /\ UNCHANGED <<ledgerVars, job, replayed, verdict, reply, disk, historyVars>>

\* The file system refuses, before or after the truncation, or a file to delete
\* is gone: the effect is unknown.
Raise(h) ==
    /\ pc[h] \in {"write", "fill"}
    /\ Conclude(h, "unknown")
    /\ UNCHANGED <<ledgerVars, job, replayed, reply, disk, historyVars>>

\* The postimage of every file, after the last write.
Verify(h) ==
    /\ pc[h] = "verify"
    /\ IF PostimageMatches(h)
       THEN IF step[h] < Len(job[h].operations)
            THEN Advance(h, "observe") /\ UNCHANGED verdict
            ELSE Conclude(h, "succeeded")
       ELSE Conclude(h, "failed")
    /\ UNCHANGED <<ledgerVars, job, replayed, reply, disk, historyVars>>

Reply(h) ==
    /\ reply' = [reply EXCEPT ![h] = IF verdict[h] = "succeeded" THEN "ok" ELSE "error"]
    /\ pc' = [pc EXCEPT ![h] = "idle"]

\* The observation commit, under a key of its own, and the reply, which does not
\* depend on whether the observation was accepted.
Observe(h) ==
    LET p == job[h] IN
    /\ pc[h] = "observe"
    /\ \/ \E k \in FreshKeys :
             CommitEntry(k, p, p.session, p.expected + 1, ObservationEntry(h))
       \/ /\ p.expected + 1 # Expectable(p.session)
                \/ ~Reducible(head[p.session], ObservationEntry(h))
          /\ UNCHANGED ledgerVars
    /\ Reply(h)
    /\ UNCHANGED <<job, step, replayed, verdict, disk, historyVars>>

\* A transaction the store refuses (a writer that stays busy, an unreadable file)
\* is an error: of the request at its intent, of nobody at its observation.
StoreRefuses(h) ==
    /\ \/ /\ pc[h] = "intent"
          /\ Refuse(h)
          /\ UNCHANGED lost
       \/ /\ pc[h] = "observe"
          /\ Reply(h)
          /\ lost' = TRUE
    /\ UNCHANGED <<ledgerVars, job, step, replayed, verdict, disk, calls, edits, repeated>>

\* Kiln dies with every handler in it; the journal and the repository stay.
Crash ==
    /\ \E h \in Handlers : Active(h)
    /\ pc' = [h \in Handlers |-> "idle"]
    /\ job' = [h \in Handlers |-> AnyPatch]
    /\ step' = [h \in Handlers |-> 1]
    /\ replayed' = [h \in Handlers |-> FALSE]
    /\ verdict' = [h \in Handlers |-> "none"]
    /\ reply' = [h \in Handlers |-> "none"]
    /\ UNCHANGED <<ledgerVars, disk, historyVars>>

\* The user changes a file.
Edit(f) ==
    /\ edits < MaxEdits
    /\ edits' = edits + 1
    /\ \E bytes \in (Bytes \cup {NoFile}) \ {disk[f]} : disk' = [disk EXCEPT ![f] = bytes]
    /\ UNCHANGED <<ledgerVars, handlerVars, calls, repeated, lost>>

\* Kiln.Workflow starts the Session, and resumes or cancels it (module Workflow).
WorkflowAppend(k, s) ==
    /\ \E e \in {[ type |-> "session_started" ]} \cup
                {[ type |-> "run_transitioned", from |-> head[s].run, to |-> to ] :
                     to \in {"running", "canceled"}} :
          CommitEntry(k, WorkflowRequest(e.type), s, Expectable(s), e)
    /\ UNCHANGED <<handlerVars, disk, historyVars>>

Next ==
    \/ \E h \in Handlers :
          \/ \E p \in Patches : Submit(h, p)
          \/ Intent(h) \/ Check(h) \/ Truncate(h) \/ Fill(h) \/ Delete(h) \/ Raise(h)
          \/ Verify(h) \/ Observe(h) \/ StoreRefuses(h)
    \/ Crash
    \/ \E f \in Files : Edit(f)
    \/ \E k \in WorkflowKeys, s \in Sessions : WorkflowAppend(k, s)

Spec == Init /\ [][Next]_vars

-----------------------------------------------------------------------------

TypeOK ==
    /\ pc \in [Handlers -> {"idle", "intent", "check", "write", "fill", "verify", "observe"}]
    /\ job \in [Handlers -> Patches]
    /\ step \in [Handlers -> Nat \ {0}]
    /\ \A h \in Handlers : step[h] <= Len(job[h].operations)
    /\ replayed \in [Handlers -> BOOLEAN]
    /\ verdict \in [Handlers -> {"none", "succeeded", "failed", "unknown"}]
    /\ reply \in [Handlers -> {"none", "ok", "error"}]
    /\ disk \in [Files -> Bytes \cup {NoFile, Torn}]
    /\ calls \in 0 .. MaxCalls /\ edits \in 0 .. MaxEdits
    /\ repeated \in BOOLEAN /\ lost \in BOOLEAN

\* A handler touches a file only under an intent the journal already holds: its own
\* when its digest tells it from other requests, else the one it is taken for.
IntentPrecedesEffect ==
    [][disk' # disk /\ edits' = edits =>
          \E h \in Handlers :
              /\ pc[h] \in {"write", "fill"}
              /\ \E c \in commits : /\ TakenFor(c, job[h])
                                    /\ Truthful(job[h]) => IsIntent(c, job[h])]_vars

\* Whatever becomes of its observation - accepted, or too late because a retry of
\* the same request was observed first - a request answered ok leaves no
\* operation of its own in flight, unless the store refused to record it.
OkReplyIsSettled ==
    \A h \in Handlers : reply[h] = "ok" /\ ~lost => ~InFlight(job[h])

\* The bytes the journal accounts for: of the patches recorded as succeeded, the
\* last one that has an operation on the file, and of these operations the last.
OperationsOn(p, f) == { i \in DOMAIN p.operations : p.operations[i].path = f }

SucceededOn(f) ==
    { c \in commits : /\ c.entry.type = "operation_observed" /\ c.entry.state = "succeeded"
                      /\ OperationsOn(c.request, f) # {} }

Accounted(f) ==
    IF SucceededOn(f) = {} THEN InitialDisk[f]
    ELSE LET last == CHOOSE c \in SucceededOn(f) :
                        \A d \in SucceededOn(f) : d.revision <= c.revision
             i == CHOOSE i \in OperationsOn(last.request, f) :
                        \A j \in OperationsOn(last.request, f) : j <= i
         IN  last.request.operations[i].after

\* Kiln is idle, the user has edited nothing and no effect is unsettled.
Quiet == edits = 0 /\ (\A h \in Handlers : ~Active(h)) /\ \A s \in Sessions : ~Unresolved(head[s])

\* A patch is applied whole or not at all, and the journal says which, across
\* crashes, retries and racing handlers - as long as no operation was executed
\* a second time, nor another one under its intent.  A repository left partly written keeps its operation unsettled.
DiskFollowsJournal == Quiet /\ ~repeated => \A f \in Files : disk[f] = Accounted(f)

=============================================================================
