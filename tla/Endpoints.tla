------------------------------ MODULE Endpoints ------------------------------
(***************************************************************************)
(* Requests to the http api about one document, next to its deletion and   *)
(* restoration: createApiHandler of src/src/api.js, the handlers of        *)
(* src/src/builtin-api.js and an endpoint that runs an agent               *)
(* (src/src/agents.js), the response cache of src/src/stream.js, and       *)
(* YHub.deleteDoc and YHub.restoreDoc with their statements.               *)
(*                                                                         *)
(* Each synchronous stretch of a handler between two awaits is one action. *)
(* Whatever is awaited may fail.                                           *)
(*                                                                         *)
(* Abstractions.  A request changes the document at most once, and its     *)
(* change is the request itself; rollback and prune are patches, activity  *)
(* is a changeset.  What has no body is uploaded on arrival, and every     *)
(* error but 404 is 500.  A cached response is either current or late:     *)
(* stored after a deletion has looked for it.  Quotas, parsing and the     *)
(* content of responses are left out.  The origin gate is in Cors,         *)
(* websockets and the messages that announce a deletion in Subscriptions,  *)
(* runs of _runTask in Compaction: here one compacts the room in one step. *)
(***************************************************************************)
CONSTANTS
  Requests,
  Kinds,           \* the endpoints that each request may call
  Operators        \* callers of deleteDoc(room, { hard: true })

AllKinds == {"get", "changeset", "patch", "awareness", "delete", "agent"}

ASSUME KindsAssumption == Kinds \in [Requests -> SUBSET AllKinds]

VARIABLES
  tombstone,   \* the row of the document in yhub_ydoc_tombstones_v1
  purged,      \* its purged_at
  rows,        \* the changes in yhub_ydoc_v1
  stream,      \* the changes on the stream
  erased,      \* was the document ever deleted for good?
  cache,       \* the cached response
  owed,        \* has a deletion failed that should have dropped it?
  request,     \* each request
  deletion,    \* each call of deleteDoc, by a request or an operator
  restore      \* the call of restoreDoc

docVars == <<tombstone, purged, rows, stream, erased>>
cacheVars == <<cache, owed>>
vars == <<docVars, cacheVars, request, deletion, restore>>

Callers == Requests \union Operators

(* upload is the body of the request; seen says in which states the document *)
(* was since it arrived.  Of changeset: stored is its SET, stale says that a *)
(* deletion has looked for it since the document was read.  Of agent: forward is *)
(* the change it forwards, error its pendingError, keep that it leaves its   *)
(* awareness in place.                                                       *)
NewRequest ==
  [pc |-> "new", kind |-> "get", upload |-> "open", aborted |-> FALSE, status |-> 0,
   seen |-> {}, wrote |-> FALSE, hit |-> FALSE, stored |-> "no", stale |-> FALSE,
   forward |-> "no", error |-> FALSE, keep |-> FALSE]
NoDeletion == [pc |-> "idle", hard |-> FALSE, todo |-> {}, listed |-> FALSE]
(* undone: has a restoration dropped the tombstone of a hard deletion?       *)
NoRestore == [pc |-> "idle", raced |-> FALSE, undone |-> FALSE]

Init ==
  /\ tombstone = "none" /\ purged = FALSE
  /\ rows = {} /\ stream = {} /\ erased = FALSE
  /\ cache = "none" /\ owed = FALSE
  /\ request = [r \in Requests |-> NewRequest]
  /\ deletion = [c \in Callers |-> NoDeletion]
  /\ restore = NoRestore

State(t) == IF t = "none" THEN "alive" ELSE "deleted"

(* Everybody who is waiting has now seen the document in the state of t. *)
Seen(q, t) ==
  [r \in Requests |-> IF q[r].pc \in {"new", "done"} THEN q[r]
                      ELSE [q[r] EXCEPT !.seen = @ \union {State(t)}]]

Goto(r, pc) == request' = [request EXCEPT ![r].pc = pc]

HasBody == {"patch", "awareness"}

(* The handler of r is at pc. *)
Handles(r, kind, pc) == request[r].kind = kind /\ request[r].pc = pc

-----------------------------------------------------------------------------
(* createApiHandler *)

(* The request arrives; a denied origin is answered at once (see Cors). *)
Arrive(r) ==
  /\ request[r].pc = "new"
  /\ \E kind \in Kinds[r], allowed \in BOOLEAN :
       request' = [request EXCEPT ![r] =
         IF allowed
         THEN [NewRequest EXCEPT !.pc = "auth", !.kind = kind, !.seen = {State(tombstone)},
                   !.upload = IF kind \in HasBody THEN "open" ELSE "complete"]
         ELSE [NewRequest EXCEPT !.pc = "done", !.status = 500]]
  /\ UNCHANGED <<docVars, cacheVars, deletion, restore>>

IsOpen(r) == request[r].pc \notin {"new", "done"}

Upload(r) ==
  /\ IsOpen(r) /\ ~request[r].aborted /\ request[r].upload = "open"
  /\ request' = [request EXCEPT ![r].upload = "complete"]
  /\ UNCHANGED <<docVars, cacheVars, deletion, restore>>

(* onAborted also rejects the body. *)
RejectsBody(upload) == IF upload = "open" THEN "rejected" ELSE upload
Abort(r) ==
  /\ IsOpen(r) /\ ~request[r].aborted
  /\ request' = [request EXCEPT ![r].aborted = TRUE, ![r].upload = RejectsBody(@)]
  /\ UNCHANGED <<docVars, cacheVars, deletion, restore>>

(* The response, unless the request was aborted; the rest is forgotten. *)
Answered(q, status) ==
  [q EXCEPT !.pc = "done", !.status = (IF q.aborted THEN 0 ELSE status),
            !.aborted = FALSE, !.upload = "complete", !.error = FALSE]

(* An error leaves the handler; the catch waits for the body. *)
Failing(q, status) == [q EXCEPT !.pc = "failing", !.status = status]

AnswerError(r) ==
  /\ request[r].pc = "failing" /\ request[r].upload # "open"
  /\ request' = [request EXCEPT ![r] = Answered(@, @.status)]
  /\ UNCHANGED <<docVars, cacheVars, deletion, restore>>

(* authenticate: no user, no access, or an apiError of the plugin. *)
Authenticated(r) ==
  /\ request[r].pc = "auth"
  /\ \E granted \in BOOLEAN :
       request' = [request EXCEPT ![r] =
         IF @.aborted THEN Answered(@, 0)
         ELSE IF ~granted THEN Failing(@, 500)
         ELSE [@ EXCEPT !.pc = IF request[r].kind \in HasBody THEN "body" ELSE "handler"]]
  /\ UNCHANGED <<docVars, cacheVars, deletion, restore>>

(* The body is decoded and checked, or the wait for it is rejected. *)
ReadBody(r) ==
  /\ request[r].pc = "body" /\ request[r].upload # "open"
  /\ \/ request[r].upload = "complete" /\ Goto(r, "handler")
     \/ request' = [request EXCEPT ![r] = Failing(@, 500)]
  /\ UNCHANGED <<docVars, cacheVars, deletion, restore>>

(* Anything that a handler awaits is rejected. *)
HandlerFails(r) ==
  /\ request[r].pc \in {"handler", "compute", "write", "cached"}
  /\ request' = [request EXCEPT ![r] = Failing(@, 500)]
  /\ UNCHANGED <<docVars, cacheVars, deletion, restore>>

-----------------------------------------------------------------------------
(* The handlers.  getDoc and retrieveTombstone report the tombstone. *)

(* A slip: an update of awareness needs no document. *)
ReadsTombstoneForContent(r) == request[r].kind # "awareness"
ReadsTombstone(r) == TRUE

AfterRead(r, pc) ==
  [request EXCEPT ![r] =
     IF tombstone # "none" /\ ReadsTombstone(r) THEN Failing(@, 404) ELSE [@ EXCEPT !.pc = pc]]

(* ydoc.get: the document is the response. *)
GetYdoc(r) ==
  /\ Handles(r, "get", "handler")
  /\ request' = LET q == AfterRead(r, "read")[r] IN
                [request EXCEPT ![r] = IF q.pc = "read" THEN Answered(q, 200) ELSE q]
  /\ UNCHANGED <<docVars, cacheVars, deletion, restore>>

(* patch, and as it rollback and prune, read the document and compute ... *)
ReadForWrite(r) ==
  /\ Handles(r, "patch", "handler")
  /\ request' = AfterRead(r, "compute")
  /\ UNCHANGED <<docVars, cacheVars, deletion, restore>>

(* ... and find that there is nothing to write, or something. *)
Computed(r) ==
  /\ Handles(r, "patch", "compute")
  /\ \/ request' = [request EXCEPT ![r] = Answered(@, 200)]
     \/ Goto(r, "write")
  /\ UNCHANGED <<docVars, cacheVars, deletion, restore>>

ReadForAwareness(r) ==
  /\ Handles(r, "awareness", "handler")
  /\ request' = AfterRead(r, "write")
  /\ UNCHANGED <<docVars, cacheVars, deletion, restore>>

(* addMessage; of what is on the stream awareness does not count. *)
Write(r) ==
  /\ request[r].pc = "write"
  /\ stream' = IF request[r].kind = "awareness" THEN stream ELSE stream \union {r}
  /\ request' = [request EXCEPT ![r] = Answered([@ EXCEPT !.wrote = TRUE], 200)]
  /\ UNCHANGED <<tombstone, purged, rows, erased, cacheVars, deletion, restore>>

(* changeset and activity: cachedGet. *)
LookUp(r) ==
  /\ Handles(r, "changeset", "handler")
  /\ request' = [request EXCEPT ![r] =
       IF cache # "none" THEN Answered([@ EXCEPT !.hit = TRUE], 200)
       ELSE [@ EXCEPT !.pc = "cached"]]
  /\ UNCHANGED <<docVars, cacheVars, deletion, restore>>

ReadForCache(r) ==
  /\ Handles(r, "changeset", "cached")
  /\ request' = [AfterRead(r, "compute") EXCEPT ![r].stale = FALSE]
  /\ UNCHANGED <<docVars, cacheVars, deletion, restore>>

(* The SET is sent, and not awaited, if the result is small enough. *)
ComputedForCache(r) ==
  /\ Handles(r, "changeset", "compute")
  /\ \E stored \in {"no", "sent"} :
       request' = [request EXCEPT ![r] = Answered([@ EXCEPT !.stored = stored], 200)]
  /\ UNCHANGED <<docVars, cacheVars, deletion, restore>>

StoreResponse(r) ==
  /\ request[r].stored = "sent"
  /\ request' = [request EXCEPT ![r].stored = "no"]
  /\ cache' \in {cache, IF request[r].stale THEN "late" ELSE "current"}
  /\ UNCHANGED <<docVars, owed, deletion, restore>>

Expire ==
  /\ cache # "none"
  /\ cache' = "none"
  /\ UNCHANGED <<docVars, owed, request, deletion, restore>>

-----------------------------------------------------------------------------
(* agentTask, as the handler of an endpoint. *)

ReadForAgent(r) ==
  /\ Handles(r, "agent", "handler")
  /\ \E keep \in BOOLEAN :
       request' = LET q == AfterRead(r, "agent") IN [q EXCEPT ![r].keep = keep]
  /\ UNCHANGED <<docVars, cacheVars, deletion, restore>>

(* The agent changes the document; the message is sent and not awaited. *)
AgentChanges(r) ==
  /\ Handles(r, "agent", "agent") /\ request[r].forward = "no"
  /\ request' = [request EXCEPT ![r].forward = "sent"]
  /\ UNCHANGED <<docVars, cacheVars, deletion, restore>>

(* Redis answers it, also when the agent has ended. *)
ForwardLands(r) ==
  /\ request[r].forward = "sent"
  /\ \/ /\ stream' = stream \union {r}
        /\ request' = [request EXCEPT ![r].forward = "added"]
     \/ /\ request' = [request EXCEPT ![r].forward = "lost", ![r].error = TRUE]
        /\ UNCHANGED stream
  /\ UNCHANGED <<tombstone, purged, rows, erased, cacheVars, deletion, restore>>

AgentResult(q) == IF q.error THEN Failing(q, 500) ELSE Answered(q, 200)

(* The handler returns or throws; the awareness is kept only without error. *)
AgentReturns(r) ==
  /\ Handles(r, "agent", "agent")
  /\ \E threw \in BOOLEAN :
       LET q == [request[r] EXCEPT !.error = request[r].error \/ threw] IN
       request' = [request EXCEPT ![r] =
                    IF q.keep /\ ~q.error THEN AgentResult(q) ELSE [q EXCEPT !.pc = "leaving"]]
  /\ UNCHANGED <<docVars, cacheVars, deletion, restore>>

(* A slip: the message that clears the awareness is not awaited either. *)
AgentLeavesAtOnce(r) ==
  /\ Handles(r, "agent", "leaving")
  /\ request' = [request EXCEPT ![r] = AgentResult(@)]
  /\ UNCHANGED <<docVars, cacheVars, deletion, restore>>

(* The awareness is cleared, or not; redis answers in the order it was asked. *)
AgentLeaves(r) ==
  /\ Handles(r, "agent", "leaving") /\ request[r].forward # "sent"
  /\ \E failed \in BOOLEAN :
       request' = [request EXCEPT ![r] = AgentResult([@ EXCEPT !.error = request[r].error \/ failed])]
  /\ UNCHANGED <<docVars, cacheVars, deletion, restore>>

-----------------------------------------------------------------------------
(* deleteDoc, called by a request (soft) or an operator (hard). *)

MayDelete(c) ==
  IF c \in Requests THEN Handles(c, "delete", "handler") ELSE TRUE

(* hard = hard OR ... *)
StoredTombstone(hard) == IF hard \/ tombstone = "hard" THEN "hard" ELSE "soft"

StoreTombstone(c) ==
  /\ deletion[c].pc = "idle" /\ MayDelete(c)
  /\ LET t == StoredTombstone(c \in Operators) IN
     /\ tombstone' = t
     /\ erased' = (erased \/ t = "hard")
     /\ deletion' = [deletion EXCEPT ![c] =
          [NoDeletion EXCEPT !.pc = "clearing", !.hard = (t = "hard"),
             !.todo = (IF t = "hard" THEN {"clear"} ELSE {"announce"}) \union {"scan"}]]
     /\ restore' = [restore EXCEPT !.raced = restore.pc = "checked" /\ t = "hard"]
     /\ request' = LET q == Seen(request, t) IN
                   IF c \in Requests THEN [q EXCEPT ![c].pc = "deleting"] ELSE q
  /\ UNCHANGED <<purged, rows, stream, cacheVars>>

(* What is left of d when its step is done, and next is to follow.  Promise.all *)
(* waits for the last of them, or rejects with the first that fails: the     *)
(* others go on behind the caller, who has its error.                        *)
After(d, step, next) == [d EXCEPT !.todo = (@ \ {step}) \union next]
Behind(d) == IF d.todo = {} THEN NoDeletion ELSE [d EXCEPT !.pc = "failed"]

Step(c, step, next) ==
  /\ step \in deletion[c].todo
  /\ deletion' = LET d == After(deletion[c], step, next) IN
       [deletion EXCEPT ![c] = IF d.pc = "failed" THEN Behind(d) ELSE d]

ClearMessages(c) ==
  /\ Step(c, "clear", {"announce"})
  /\ stream' = {}
  /\ UNCHANGED <<tombstone, purged, rows, erased, cacheVars, request, restore>>

(* The tombstone message: see Subscriptions. *)
Announce(c) ==
  /\ Step(c, "announce", {})
  /\ UNCHANGED <<docVars, cacheVars, request, restore>>

(* A slip: the prefix does not match what is cached. *)
FoundNone == FALSE
Found == cache # "none"

(* deleteCachedResponses: SCAN, then DEL of what it found. *)
ScanCache(c) ==
  /\ "scan" \in deletion[c].todo
  /\ deletion' = [deletion EXCEPT ![c].todo = (@ \ {"scan"}) \union {"drop"}, ![c].listed = Found]
  /\ request' = [r \in Requests |->
       IF request[r].kind = "changeset" THEN [request[r] EXCEPT !.stale = TRUE] ELSE request[r]]
  /\ owed' = FALSE
  /\ UNCHANGED <<docVars, cache, restore>>
DropResponses(c) ==
  /\ Step(c, "drop", {})
  /\ cache' = IF deletion[c].listed THEN "none" ELSE cache
  /\ UNCHANGED <<docVars, owed, request, restore>>

(* The end of deleteDoc for its caller. *)
Settled(c, status) ==
  IF c \notin Requests THEN UNCHANGED request
  ELSE request' = [request EXCEPT ![c] =
         IF status = 200 THEN Answered([@ EXCEPT !.wrote = TRUE], 200) ELSE Failing(@, status)]

SoftDeleted(c) ==
  /\ deletion[c].pc = "clearing" /\ deletion[c].todo = {} /\ ~deletion[c].hard
  /\ deletion' = [deletion EXCEPT ![c] = NoDeletion]
  /\ Settled(c, 200)
  /\ UNCHANGED <<docVars, cacheVars, restore>>

(* purgeDoc: the rows, then purged_at; there may be no tombstone any more. *)
Purge(c) ==
  /\ deletion[c].pc = "clearing" /\ deletion[c].todo = {} /\ deletion[c].hard
  /\ rows' = {}
  /\ deletion' = [deletion EXCEPT ![c].pc = "purged"]
  /\ UNCHANGED <<tombstone, purged, stream, erased, cacheVars, request, restore>>
StorePurged(c) ==
  /\ deletion[c].pc = "purged"
  /\ purged' = (tombstone # "none")
  /\ deletion' = [deletion EXCEPT ![c] = NoDeletion]
  /\ Settled(c, IF tombstone = "none" THEN 500 ELSE 200)
  /\ UNCHANGED <<tombstone, rows, stream, erased, cacheVars, restore>>

(* The message is also sent when the stream could not be cleared (finally). *)
Following(step) == IF step = "clear" THEN {"announce"} ELSE {}

(* A command fails ... *)
BranchFails(c) ==
  /\ \E step \in deletion[c].todo :
       /\ deletion' = [deletion EXCEPT ![c] = Behind(After(@, step, Following(step)))]
       /\ owed' = (owed \/ step \in {"scan", "drop"})
  /\ IF deletion[c].pc = "failed" THEN UNCHANGED request ELSE Settled(c, 500)
  /\ UNCHANGED <<docVars, cache, restore>>

(* ... or a statement of purgeDoc, or the process ends. *)
DeletionFails(c) ==
  /\ deletion[c].pc # "idle"
  /\ deletion' = [deletion EXCEPT ![c] = NoDeletion]
  /\ owed' = (owed \/ deletion[c].todo \intersect {"scan", "drop"} # {})
  /\ IF deletion[c].pc = "failed" THEN UNCHANGED request ELSE Settled(c, 500)
  /\ UNCHANGED <<docVars, cache, restore>>

-----------------------------------------------------------------------------
(* restoreDoc *)

(* A slip: only purged documents are refused. *)
MayRestoreUnpurged == tombstone # "none" /\ ~purged
MayRestore == tombstone = "soft" /\ ~purged

ReadTombstone ==
  /\ restore.pc = "idle" /\ MayRestore
  /\ restore' = [restore EXCEPT !.pc = "checked"]
  /\ UNCHANGED <<docVars, cacheVars, request, deletion>>
DropTombstone ==
  /\ restore.pc = "checked"
  /\ tombstone' = "none" /\ purged' = FALSE
  /\ request' = Seen(request, "none")
  /\ restore' = [NoRestore EXCEPT !.undone = restore.undone \/ tombstone = "hard"]
  /\ UNCHANGED <<rows, stream, erased, cacheVars, deletion>>

(* A slip: a deleted document is not persisted any more. *)
PersistsAlive == tombstone = "none"
(* A slip: the INSERT does not look for the tombstone. *)
PersistsAnyway == TRUE

(* A worker stores the stream, unless the deletion is hard, and trims it. *)
Persists == tombstone # "hard"
Compact ==
  /\ stream # {}
  /\ rows' = IF Persists THEN rows \union stream ELSE rows
  /\ stream' = {}
  /\ UNCHANGED <<tombstone, purged, erased, cacheVars, request, deletion, restore>>

-----------------------------------------------------------------------------
Progress(r) ==
  \/ Authenticated(r) \/ ReadBody(r) \/ AnswerError(r) \/ HandlerFails(r)
  \/ GetYdoc(r) \/ ReadForWrite(r) \/ Computed(r) \/ ReadForAwareness(r) \/ Write(r)
  \/ LookUp(r) \/ ReadForCache(r) \/ ComputedForCache(r)
  \/ ReadForAgent(r) \/ AgentReturns(r) \/ AgentLeaves(r)
Client(r) == Arrive(r) \/ Upload(r) \/ Abort(r)
Redis(r) == StoreResponse(r) \/ ForwardLands(r)
DeleteDoc(c) ==
  \/ StoreTombstone(c) \/ ClearMessages(c) \/ Announce(c) \/ ScanCache(c) \/ DropResponses(c)
  \/ SoftDeleted(c) \/ Purge(c) \/ StorePurged(c) \/ BranchFails(c) \/ DeletionFails(c)
RestoreDoc == ReadTombstone \/ DropTombstone

Next ==
  \/ \E r \in Requests : Client(r) \/ Progress(r) \/ AgentChanges(r) \/ Redis(r)
  \/ \E c \in Callers : DeleteDoc(c)
  \/ RestoreDoc \/ Expire \/ Compact

Spec == Init /\ [][Next]_vars

-----------------------------------------------------------------------------
(* Type invariant: the state of every request, deletion and restoration; a   *)
(* request waits for its deletion as long as that runs.                      *)
TypeOK ==
  /\ tombstone \in {"none", "soft", "hard"} /\ purged \in BOOLEAN
  /\ rows \subseteq Requests /\ stream \subseteq Requests /\ erased \in BOOLEAN
  /\ cache \in {"none", "current", "late"} /\ owed \in BOOLEAN
  /\ request \in [Requests ->
       [pc : {"new", "auth", "body", "handler", "compute", "write", "cached", "agent",
              "leaving", "deleting", "failing", "done"},
        kind : AllKinds, upload : {"open", "complete", "rejected"},
        aborted : BOOLEAN, status : {0, 200, 404, 500},
        seen : SUBSET {"alive", "deleted"}, wrote : BOOLEAN, hit : BOOLEAN,
        stored : {"no", "sent"}, stale : BOOLEAN,
        forward : {"no", "sent", "added", "lost"}, error : BOOLEAN, keep : BOOLEAN]]
  /\ deletion \in [Callers ->
       [pc : {"idle", "clearing", "purged", "failed"}, hard : BOOLEAN,
        todo : SUBSET {"clear", "announce", "scan", "drop"}, listed : BOOLEAN]]
  /\ restore \in [pc : {"idle", "checked"}, raced : BOOLEAN, undone : BOOLEAN]
  /\ \A r \in Requests :
       request[r].pc = "deleting" <=> deletion[r].pc \in {"clearing", "purged"}

(* A request that wrote, or got an answer that was not cached, met the       *)
(* document alive at some time while it waited; one that is told that the    *)
(* document is deleted met it deleted.  All handlers check the tombstone of  *)
(* what they read, several awaits before they write.  The variables have     *)
(* their types.                                                              *)
ActsOnLiveDocument ==
  TypeOK /\ \A r \in Requests :
    LET q == request[r] IN
    /\ q.kind # "delete" /\ ~q.hit /\ (q.wrote \/ q.status = 200) => "alive" \in q.seen
    /\ q.status = 404 => "deleted" \in q.seen

(* A change that was acknowledged is on the stream or in a row until the     *)
(* document is deleted for good: a soft deletion, a restoration or a failed  *)
(* deletion loses none of the changes before, during or after it.            *)
AckedIsKept ==
  \A r \in Requests :
    request[r].forward = "added" \/ (request[r].kind = "patch" /\ request[r].wrote)
      => erased \/ r \in stream \union rows

(* When a deletion is through, no response from before it is cached: a hit   *)
(* never reaches getDoc.  A deletion that failed owes this to its retry, and *)
(* a response that is stored after the SCAN is late.                         *)
CacheDropped ==
  tombstone # "none" /\ ~owed
    /\ (\A c \in Callers : deletion[c].todo \intersect {"scan", "drop"} = {})
    => cache # "current"

(* A hard deletion stays hard, whatever is called later, but for a           *)
(* restoration that read the tombstone before.                               *)
HardIsFinal == [][tombstone = "hard" => tombstone' = "hard" \/ restore.raced]_vars

(* The caller of an agent that leaves is told of a change that redis did not *)
(* take: the message that clears its awareness is answered after it.         *)
AgentErrorsSurface ==
  \A r \in Requests :
    request[r].kind = "agent" /\ request[r].status = 200 /\ request[r].pc = "done" /\ ~request[r].keep
      => request[r].forward \in {"no", "added"}

(* What is marked as purged is deleted for good and has no rows: a retention *)
(* task sweeps what is not marked, and would never find it again.  Rows that *)
(* a compaction stores late, deletions that overlap, are repeated or fail,   *)
(* and soft deletions after a hard one leave it so; a restoration that races *)
(* a hard deletion and drops its tombstone does not.                         *)
PurgedIsErased == purged => (tombstone = "hard" /\ rows = {}) \/ restore.undone
=============================================================================
