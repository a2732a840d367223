--------------------------- MODULE EndpointsProofs ---------------------------
(***************************************************************************)
(* Proofs about Endpoints, for any number of requests and deletions.       *)
(*                                                                         *)
(* What a handler may do is decided by a tombstone that it read some       *)
(* awaits ago, so the properties are about what it has met meanwhile.  The *)
(* invariant (IInv) says of each request what its position in the handler  *)
(* tells about that (RequestOK), of each deletion that what it still has   *)
(* to do can lose nothing that may come back (Erasure), and of the cache   *)
(* that a deletion which has looked into it either found nothing and left  *)
(* no computation that may fill it, or is about to drop what it found      *)
(* (CacheOK).                                                              *)
(***************************************************************************)
EXTENDS Endpoints, TLAPS

Positions ==
  {"new", "auth", "body", "handler", "compute", "write", "cached", "agent",
   "leaving", "deleting", "failing", "done"}

Uploads == {"open", "complete", "rejected"}
Statuses == {0, 200, 404, 500}
Forwards == {"no", "sent", "added", "lost"}

Reqs ==
  [pc : Positions, kind : AllKinds, upload : Uploads, aborted : BOOLEAN,
   status : Statuses, seen : SUBSET {"alive", "deleted"}, wrote : BOOLEAN, hit : BOOLEAN,
   stored : {"no", "sent"}, stale : BOOLEAN, forward : Forwards, error : BOOLEAN,
   keep : BOOLEAN]

Deletions ==
  [pc : {"idle", "clearing", "purged", "failed"}, hard : BOOLEAN,
   todo : SUBSET {"clear", "announce", "scan", "drop"}, listed : BOOLEAN]

Restores == [pc : {"idle", "checked"}, raced : BOOLEAN, undone : BOOLEAN]

(* A request waits. *)
Waits(q) == q.pc \notin {"new", "done"}

(* What was seen, for a document that has the tombstone t now. *)
SeenOK(q, t) ==
  /\ Waits(q) => State(t) \in q.seen
  /\ q.pc \in {"compute", "write", "agent", "leaving"} => "alive" \in q.seen
  /\ q.kind # "delete" /\ ~q.hit /\ (q.wrote \/ q.status = 200) => "alive" \in q.seen
  /\ q.status = 404 => "deleted" \in q.seen

(* Which handler is where. *)
PlaceOK(q) ==
  /\ q.pc = "write" => q.kind \in {"patch", "awareness"}
  /\ q.pc = "deleting" => q.kind = "delete"
  /\ q.pc = "failing" => q.status \in {404, 500}
  /\ q.stored = "sent" => q.kind = "changeset" /\ q.pc = "done"

(* An agent knows of its lost change, unless it kept its awareness. *)
AgentOK(q) ==
  q.kind = "agent" =>
    /\ Waits(q) /\ q.forward = "lost" => q.error
    /\ q.status = 200 /\ q.pc = "done" /\ ~q.keep => q.forward \in {"no", "added"}

RequestOK(q, t) == q \in Reqs /\ SeenOK(q, t) /\ PlaceOK(q) /\ AgentOK(q)

(* The client of a request was told that its change is written. *)
Acked(q) == q.forward = "added" \/ (q.kind = "patch" /\ q.wrote)

(* The request may still fill the cache with what no deletion has looked for. *)
Fills(q) == q.kind = "changeset" /\ (q.pc = "compute" \/ q.stored = "sent") /\ ~q.stale

Types ==
  /\ tombstone \in {"none", "soft", "hard"} /\ purged \in BOOLEAN
  /\ rows \subseteq Requests /\ stream \subseteq Requests /\ erased \in BOOLEAN
  /\ cache \in {"none", "current", "late"} /\ owed \in BOOLEAN
  /\ request \in [Requests -> Reqs]
  /\ deletion \in [Callers -> Deletions]
  /\ restore \in Restores

RequestsOK == \A r \in Requests : RequestOK(request[r], tombstone)

(* Somebody waits for the deletion d. *)
Called(d) == d.pc \in {"clearing", "purged"}

Waiting == \A r \in Requests : request[r].pc = "deleting" <=> Called(deletion[r])

(* Only the hard deletions of an erased document clear its stream and rows. *)
Erasure ==
  /\ tombstone = "hard" => erased
  /\ \A c \in Callers :
       /\ "clear" \in deletion[c].todo \/ deletion[c].hard => erased
       /\ deletion[c].pc \notin {"clearing", "failed"} => deletion[c].todo = {}
  /\ restore.pc = "checked" /\ tombstone = "hard" => restore.raced

(* No deletion has to look into the cache. *)
Scanned == tombstone # "none" /\ ~owed /\ \A c \in Callers : "scan" \notin deletion[c].todo

CacheOK ==
  Scanned =>
    /\ \A r \in Requests : ~Fills(request[r])
    /\ cache = "current" => \E c \in Callers : "drop" \in deletion[c].todo /\ deletion[c].listed

IInv == Types /\ RequestsOK /\ Waiting /\ Erasure /\ AckedIsKept /\ CacheOK

-----------------------------------------------------------------------------
(* Steps of a request that change nothing but its own state. *)

(* What such a step may do to the state of a request, from p to q. *)
Becomes(p, q, t) ==
  /\ RequestOK(q, t)
  /\ Acked(q) => Acked(p)
  /\ Fills(q) => Fills(p) \/ t = "none"

StepsTo(p, q, t) == Becomes(p, q, t) /\ (q.pc = "deleting" <=> p.pc = "deleting")

RequestStep(r) ==
  /\ request' = [request EXCEPT ![r] = request'[r]]
  /\ StepsTo(request[r], request'[r], tombstone)

Tombstones == {"none", "soft", "hard"}

(* The fields that only few steps change. *)
Same(p, q) ==
  /\ q.kind = p.kind /\ q.seen = p.seen /\ q.wrote = p.wrote /\ q.hit = p.hit
  /\ q.stored = p.stored /\ q.stale = p.stale /\ q.forward = p.forward /\ q.keep = p.keep

(* An answer changes the position, the status and what is forgotten. *)
LEMMA AnsweredFields ==
  ASSUME NEW p \in Reqs, NEW s \in Statuses
  PROVE  LET q == Answered(p, s) IN
         /\ q \in Reqs /\ Same(p, q)
         /\ q.pc = "done" /\ q.status \in {0, s} /\ ~q.aborted
<1> DEFINE status == IF p.aborted THEN 0 ELSE s
<1>1. "done" \in Positions /\ status \in Statuses /\ "complete" \in Uploads
  BY DEF Positions, Statuses, Uploads, Reqs
<1> HIDE DEF status
<1>2. [p EXCEPT !.pc = "done", !.status = status, !.aborted = FALSE,
                !.upload = "complete", !.error = FALSE] \in Reqs
  BY <1>1 DEF Reqs
<1>3. p = [pc |-> p.pc, kind |-> p.kind, upload |-> p.upload, aborted |-> p.aborted,
           status |-> p.status, seen |-> p.seen, wrote |-> p.wrote, hit |-> p.hit,
           stored |-> p.stored, stale |-> p.stale, forward |-> p.forward,
           error |-> p.error, keep |-> p.keep]
  BY DEF Reqs
<1>4. Same(p, Answered(p, s))
  BY <1>3 DEF Answered, Same
<1>5. LET q == Answered(p, s) IN q.pc = "done" /\ q.status \in {0, s} /\ ~q.aborted
  BY <1>3 DEF Answered
<1> QED BY <1>2, <1>4, <1>5 DEF Answered, status

(* A request that is denied, or fails, keeps its type. *)
Denied(p, l, s) == [p EXCEPT !.pc = l, !.status = s]
LEMMA DeniedType ==
  ASSUME NEW p \in Reqs, NEW l \in Positions, NEW s \in Statuses
  PROVE  Denied(p, l, s) \in Reqs
BY DEF Denied, Reqs

(* An error changes the position and the status. *)
LEMMA FailingFields ==
  ASSUME NEW p \in Reqs, NEW s \in {404, 500}
  PROVE  LET q == Failing(p, s) IN
         /\ q \in Reqs /\ Same(p, q)
         /\ q.pc = "failing" /\ q.status = s
         /\ q.aborted = p.aborted /\ q.upload = p.upload /\ q.error = p.error
<1>1. "failing" \in Positions /\ s \in Statuses
  BY DEF Positions, Statuses
<1>2. Failing(p, s) \in Reqs
  <2>1. Denied(p, "failing", s) = Failing(p, s)
    BY Zenon DEF Failing, Denied
  <2> QED BY <1>1, <2>1, DeniedType
<1>3. p = [pc |-> p.pc, kind |-> p.kind, upload |-> p.upload, aborted |-> p.aborted,
           status |-> p.status, seen |-> p.seen, wrote |-> p.wrote, hit |-> p.hit,
           stored |-> p.stored, stale |-> p.stale, forward |-> p.forward,
           error |-> p.error, keep |-> p.keep]
  BY DEF Reqs
<1>4. LET q == Failing(p, s) IN
      /\ Same(p, q) /\ q.pc = "failing" /\ q.status = s
      /\ q.aborted = p.aborted /\ q.upload = p.upload /\ q.error = p.error
  BY <1>3 DEF Failing, Same
<1> QED BY <1>2, <1>4

(* A handler goes on. *)
LEMMA MovedFields ==
  ASSUME NEW p \in Reqs, NEW l \in Positions
  PROVE  LET q == [p EXCEPT !.pc = l] IN
         /\ q \in Reqs /\ Same(p, q)
         /\ q.pc = l /\ q.status = p.status
         /\ q.aborted = p.aborted /\ q.upload = p.upload /\ q.error = p.error
BY DEF Reqs, Positions, Same

(* A computed response is to be stored, or not. *)
LEMMA StoredFields ==
  ASSUME NEW p \in Reqs, NEW s \in {"no", "sent"}
  PROVE  LET q == [p EXCEPT !.stored = s] IN
         /\ q \in Reqs /\ q.pc = p.pc /\ q.kind = p.kind /\ q.seen = p.seen /\ q.wrote = p.wrote
         /\ q.stale = p.stale /\ q.forward = p.forward
BY DEF Reqs

(* A request that may be answered is answered. *)
LEMMA AnswerBecomes ==
  ASSUME NEW t \in Tombstones, NEW p, NEW s \in Statuses,
         RequestOK(p, t), Waits(p),
         s = 200 => p.kind = "delete" \/ p.hit \/ "alive" \in p.seen,
         s = 404 => "deleted" \in p.seen,
         s = 200 /\ p.kind = "agent" => ~p.error /\ (p.keep \/ p.forward # "sent")
  PROVE  Becomes(p, Answered(p, s), t) /\ Answered(p, s).pc = "done"
<1> DEFINE q == Answered(p, s)
<1>1. p \in Reqs /\ SeenOK(p, t) /\ PlaceOK(p) /\ AgentOK(p)
  BY DEF RequestOK
<1>2. q \in Reqs /\ Same(p, q) /\ q.pc = "done" /\ q.status \in {0, s} /\ ~q.aborted
  BY <1>1, AnsweredFields
<1> HIDE DEF q
<1>3. SeenOK(q, t)
  BY <1>1, <1>2 DEF SeenOK, Same, Waits
<1>4. PlaceOK(q)
  BY <1>1, <1>2 DEF PlaceOK, Same, Waits
<1>5. p.forward \in {"no", "sent", "added", "lost"}
  BY <1>1 DEF Reqs, Forwards
<1>6. AgentOK(q)
  BY <1>1, <1>2, <1>5 DEF AgentOK, Same, Waits
<1>7. Becomes(p, q, t)
  BY <1>1, <1>2, <1>3, <1>4, <1>6 DEF Becomes, RequestOK, PlaceOK, Acked, Fills, Same, Waits
<1> QED BY <1>2, <1>7 DEF q

(* A request fails. *)
LEMMA FailBecomes ==
  ASSUME NEW t \in Tombstones, NEW p, NEW s \in {404, 500},
         RequestOK(p, t), Waits(p),
         s = 404 => "deleted" \in p.seen
  PROVE  Becomes(p, Failing(p, s), t) /\ Failing(p, s).pc = "failing"
<1> DEFINE q == Failing(p, s)
<1>1. p \in Reqs /\ SeenOK(p, t) /\ PlaceOK(p) /\ AgentOK(p)
  BY DEF RequestOK
<1>2. q \in Reqs /\ Same(p, q) /\ q.pc = "failing" /\ q.status = s
      /\ q.aborted = p.aborted /\ q.upload = p.upload /\ q.error = p.error
  BY <1>1, FailingFields
<1> HIDE DEF q
<1>3. SeenOK(q, t)
  BY <1>1, <1>2 DEF SeenOK, Same, Waits
<1>4. PlaceOK(q) /\ AgentOK(q)
  BY <1>1, <1>2 DEF PlaceOK, AgentOK, Same, Waits
<1>7. Becomes(p, q, t)
  BY <1>1, <1>2, <1>3, <1>4 DEF Becomes, RequestOK, PlaceOK, Acked, Fills, Same, Waits
<1> QED BY <1>2, <1>7 DEF q

(* A request that is not about to delete is answered or fails. *)
LEMMA FailSteps ==
  ASSUME NEW t \in Tombstones, NEW p, NEW s \in {404, 500},
         RequestOK(p, t), Waits(p), p.pc # "deleting",
         s = 404 => "deleted" \in p.seen
  PROVE  StepsTo(p, Failing(p, s), t)
BY FailBecomes DEF StepsTo, Becomes

(* So is one that is answered. *)
LEMMA AnswerSteps ==
  ASSUME NEW t \in Tombstones, NEW p, NEW s \in Statuses,
         RequestOK(p, t), Waits(p), p.pc # "deleting",
         s = 200 => p.kind = "delete" \/ p.hit \/ "alive" \in p.seen,
         s = 404 => "deleted" \in p.seen,
         s = 200 /\ p.kind = "agent" => ~p.error /\ (p.keep \/ p.forward # "sent")
  PROVE  StepsTo(p, Answered(p, s), t)
BY AnswerBecomes DEF StepsTo, Becomes

(* A request goes on to a position where it may be. *)
LEMMA MoveSteps ==
  ASSUME NEW t \in Tombstones, NEW p, NEW l \in Positions \ {"new", "done", "deleting", "failing"},
         RequestOK(p, t), Waits(p), p.pc # "deleting",
         l \in {"compute", "write", "agent", "leaving"} => "alive" \in p.seen,
         l = "write" => p.kind \in {"patch", "awareness"},
         l = "compute" => p.kind # "changeset" \/ t = "none"
  PROVE  StepsTo(p, [p EXCEPT !.pc = l], t)
<1> DEFINE q == [p EXCEPT !.pc = l]
<1>1. p \in Reqs /\ SeenOK(p, t) /\ PlaceOK(p) /\ AgentOK(p)
  BY DEF RequestOK
<1>2. q \in Reqs /\ Same(p, q) /\ q.pc = l /\ q.status = p.status
      /\ q.aborted = p.aborted /\ q.upload = p.upload /\ q.error = p.error
  BY <1>1, MovedFields
<1> HIDE DEF q
<1>3. SeenOK(q, t)
  BY <1>1, <1>2 DEF SeenOK, Same, Waits
<1>4. PlaceOK(q) /\ AgentOK(q)
  BY <1>1, <1>2 DEF PlaceOK, AgentOK, Same, Waits
<1>7. StepsTo(p, q, t)
  BY <1>1, <1>2, <1>3, <1>4 DEF StepsTo, Becomes, RequestOK, PlaceOK, Acked, Fills, Same, Waits
<1> QED BY <1>7 DEF q

(* What is known of a request. *)
LEMMA RequestFacts ==
  ASSUME NEW r \in Requests, Types, RequestsOK
  PROVE  /\ request \in [Requests -> Reqs] /\ request[r] \in Reqs
         /\ RequestOK(request[r], tombstone) /\ SeenOK(request[r], tombstone)
         /\ PlaceOK(request[r]) /\ AgentOK(request[r])
         /\ tombstone \in Tombstones
BY DEF Types, RequestsOK, RequestOK, Tombstones

(* The numbers and positions of answers. *)
LEMMA Literals ==
  /\ {0, 200, 404, 500} \subseteq Statuses
  /\ {"auth", "body", "handler", "compute", "write", "cached", "agent", "leaving"}
       \subseteq Positions \ {"new", "done", "deleting", "failing"}
BY DEF Statuses, Positions

(* A step that sets the state of a request to where it may go. *)
LEMMA Update ==
  ASSUME NEW r \in Requests, NEW q, request \in [Requests -> Reqs],
         request' = [request EXCEPT ![r] = q], StepsTo(request[r], q, tombstone)
  PROVE  RequestStep(r)
BY DEF RequestStep

(* An admitted one too. *)
LEMMA AdmittedType ==
  ASSUME NEW p \in Reqs, NEW l \in Positions, NEW k \in AllKinds, NEW u \in Uploads,
         NEW S \in SUBSET {"alive", "deleted"}
  PROVE  [p EXCEPT !.pc = l, !.kind = k, !.seen = S, !.upload = u] \in Reqs
BY DEF Reqs

(* A new request has its type. *)
LEMMA NewIsRequest == NewRequest \in Reqs
<1>1. /\ "new" \in Positions /\ "get" \in AllKinds /\ "open" \in Uploads /\ 0 \in Statuses
      /\ "no" \in Forwards
  BY DEF Positions, AllKinds, Uploads, Statuses, Forwards
<1> QED BY <1>1 DEF NewRequest, Reqs

(* A new request that is denied. *)
LEMMA NewDenied ==
  LET q == [NewRequest EXCEPT !.pc = "done", !.status = 500] IN
  /\ q \in Reqs /\ q.pc = "done" /\ ~q.wrote /\ q.kind = "get" /\ q.status = 500
  /\ q.stored = "no" /\ q.forward = "no"
<1>1. "done" \in Positions /\ 500 \in Statuses
  BY DEF Positions, Statuses
<1>2. [NewRequest EXCEPT !.pc = "done", !.status = 500] \in Reqs
  <2>1. Denied(NewRequest, "done", 500) = [NewRequest EXCEPT !.pc = "done", !.status = 500]
    BY Zenon DEF Denied
  <2> QED BY <1>1, <2>1, NewIsRequest, DeniedType
<1>3. LET q == [NewRequest EXCEPT !.pc = "done", !.status = 500] IN
      /\ q.pc = "done" /\ ~q.wrote /\ q.kind = "get" /\ q.status = 500
      /\ q.stored = "no" /\ q.forward = "no"
  BY DEF NewRequest
<1> QED BY <1>2, <1>3

(* A request arrives, and sees the document as it is. *)
LEMMA ArriveStep ==
  ASSUME NEW r \in Requests, Types, RequestsOK, Arrive(r)
  PROVE  RequestStep(r)
<1>1. PICK kind \in Kinds[r], allowed \in BOOLEAN :
        /\ request[r].pc = "new"
        /\ request' = [request EXCEPT ![r] =
             IF allowed
             THEN [NewRequest EXCEPT !.pc = "auth", !.kind = kind, !.seen = {State(tombstone)},
                       !.upload = IF kind \in HasBody THEN "open" ELSE "complete"]
             ELSE [NewRequest EXCEPT !.pc = "done", !.status = 500]]
  BY ZenonT(60) DEF Arrive
<1> DEFINE upload == IF kind \in HasBody THEN "open" ELSE "complete"
<1> DEFINE admitted == [NewRequest EXCEPT !.pc = "auth", !.kind = kind,
                          !.seen = {State(tombstone)}, !.upload = upload]
<1> DEFINE denied == [NewRequest EXCEPT !.pc = "done", !.status = 500]
<1>2. upload \in Uploads /\ State(tombstone) \in {"alive", "deleted"} /\ kind \in AllKinds
  BY KindsAssumption DEF Uploads, State
<1>3. RequestOK(admitted, tombstone) /\ admitted.pc = "auth" /\ ~Acked(admitted) /\ ~Fills(admitted)
  <2> HIDE DEF upload
  <2>1. admitted \in Reqs
    <3>1. "auth" \in Positions /\ {State(tombstone)} \in SUBSET {"alive", "deleted"}
      BY <1>2 DEF Positions
    <3> QED BY <1>2, <3>1, NewIsRequest, AdmittedType
  <2>2. /\ admitted.pc = "auth" /\ admitted.seen = {State(tombstone)} /\ ~admitted.wrote
        /\ admitted.status = 0 /\ admitted.stored = "no" /\ admitted.forward = "no"
        /\ ~admitted.aborted
    BY DEF NewRequest
  <2> HIDE DEF admitted
  <2> QED BY <2>1, <2>2 DEF RequestOK, SeenOK, PlaceOK, AgentOK, Waits, Acked, Fills
<1>4. RequestOK(denied, tombstone) /\ denied.pc = "done" /\ ~Acked(denied) /\ ~Fills(denied)
  <2>1. /\ denied \in Reqs /\ denied.pc = "done" /\ ~denied.wrote /\ denied.kind = "get"
        /\ denied.status = 500 /\ denied.stored = "no" /\ denied.forward = "no"
    BY NewDenied
  <2> HIDE DEF denied
  <2> QED BY <2>1 DEF RequestOK, SeenOK, PlaceOK, AgentOK, Waits, Acked, Fills
<1>5. StepsTo(request[r], admitted, tombstone) /\ StepsTo(request[r], denied, tombstone)
  <2> HIDE DEF admitted, denied
  <2> QED BY <1>1, <1>3, <1>4 DEF StepsTo, Becomes
<1>6. request' = [request EXCEPT ![r] = IF allowed THEN admitted ELSE denied]
  BY <1>1
<1> HIDE DEF admitted, denied
<1> QED BY <1>5, <1>6, Update, RequestFacts

(* Its body arrives, or its client goes. *)
LEMMA UploadStep ==
  ASSUME NEW r \in Requests, Types, RequestsOK, Upload(r) \/ Abort(r)
  PROVE  RequestStep(r)
<1> DEFINE p == request[r]
<1> DEFINE done == [p EXCEPT !.upload = "complete"]
<1> DEFINE gone == [p EXCEPT !.aborted = TRUE, !.upload = RejectsBody(p.upload)]
<1>1. RequestOK(p, tombstone) /\ p \in Reqs
  BY RequestFacts
<1>2. RejectsBody(p.upload) \in Uploads /\ RejectsBody(p.upload) # "open"
  BY <1>1 DEF RejectsBody, Reqs, Uploads
<1>3. StepsTo(p, done, tombstone)
  <2>1. done \in Reqs
    BY <1>1 DEF Reqs, Uploads
  <2>2. /\ Same(p, done) /\ done.pc = p.pc /\ done.status = p.status
        /\ done.upload = "complete" /\ done.aborted = p.aborted /\ done.error = p.error
    BY <1>1 DEF Same, Reqs
  <2> HIDE DEF done, p
  <2> QED BY <1>1, <2>1, <2>2 DEF StepsTo, Becomes, RequestOK, SeenOK, PlaceOK, AgentOK,
        Waits, Same, Acked, Fills
<1>4. StepsTo(p, gone, tombstone)
  <2>1. gone \in Reqs
    BY <1>1, <1>2 DEF Reqs
  <2>2. /\ Same(p, gone) /\ gone.pc = p.pc /\ gone.status = p.status
        /\ gone.upload # "open" /\ gone.error = p.error
    BY <1>1, <1>2 DEF Same, Reqs
  <2> HIDE DEF gone, p
  <2> QED BY <1>1, <2>1, <2>2 DEF StepsTo, Becomes, RequestOK, SeenOK, PlaceOK, AgentOK,
        Waits, Same, Acked, Fills
<1>5. request' = [request EXCEPT ![r] = done] \/ request' = [request EXCEPT ![r] = gone]
  BY DEF Upload, Abort
<1> HIDE DEF done, gone
<1> QED BY <1>3, <1>4, <1>5, Update, RequestFacts

(* Its user is authenticated, its body is read, an error is answered.       *)
LEMMA GateStep ==
  ASSUME NEW r \in Requests, Types, RequestsOK,
         Authenticated(r) \/ ReadBody(r) \/ AnswerError(r) \/ HandlerFails(r)
  PROVE  RequestStep(r)
<1> DEFINE p == request[r]
<1>1. RequestOK(p, tombstone) /\ p \in Reqs /\ SeenOK(p, tombstone) /\ tombstone \in Tombstones
      /\ AgentOK(p) /\ PlaceOK(p)
  BY RequestFacts
<1>2. \/ request' = [request EXCEPT ![r] = Answered(p, 0)] /\ p.pc = "auth"
      \/ request' = [request EXCEPT ![r] = Failing(p, 500)]
           /\ p.pc \in {"auth", "body", "handler", "compute", "write", "cached", "agent"}
      \/ \E l \in {"body", "handler"} :
           request' = [request EXCEPT ![r] = [p EXCEPT !.pc = l]] /\ p.pc \in {"auth", "body"}
      \/ request' = [request EXCEPT ![r] = Answered(p, p.status)] /\ p.pc = "failing"
  <2>1. CASE Authenticated(r)
    <3>1. PICK granted \in BOOLEAN : request' = [request EXCEPT ![r] =
            IF p.aborted THEN Answered(p, 0)
            ELSE IF ~granted THEN Failing(p, 500)
            ELSE [p EXCEPT !.pc = IF p.kind \in HasBody THEN "body" ELSE "handler"]]
      BY <2>1 DEF Authenticated
    <3>2. p.pc = "auth"
      BY <2>1 DEF Authenticated
    <3> DEFINE l == IF p.kind \in HasBody THEN "body" ELSE "handler"
    <3>3. l \in {"body", "handler"}
      OBVIOUS
    <3> HIDE DEF p, l
    <3>4. CASE p.aborted
      BY <3>1, <3>2, <3>4
    <3>5. CASE ~p.aborted /\ ~granted
      BY <3>1, <3>2, <3>5
    <3>6. CASE ~p.aborted /\ granted
      <4>1. request' = [request EXCEPT ![r] = [p EXCEPT !.pc = l]]
        BY <3>1, <3>6 DEF l
      <4> QED BY <3>2, <3>3, <4>1
    <3> QED BY <3>4, <3>5, <3>6
  <2>2. CASE ReadBody(r)
    BY <2>2 DEF ReadBody, Goto
  <2>3. CASE AnswerError(r)
    BY <2>3 DEF AnswerError
  <2>4. CASE HandlerFails(r)
    BY <2>4 DEF HandlerFails
  <2> QED BY <2>1, <2>2, <2>3, <2>4
<1>3. p.status \in Statuses /\ (p.status = 404 => "deleted" \in p.seen)
  BY <1>1 DEF Reqs, SeenOK
<1> HIDE DEF p
<1>4. CASE p.pc = "auth" /\ request' = [request EXCEPT ![r] = Answered(p, 0)]
  <2>1. StepsTo(p, Answered(p, 0), tombstone)
    BY <1>1, <1>4, AnswerSteps, Literals DEF Waits
  <2> QED BY <1>4, <2>1, Update, RequestFacts, Zenon DEF p
<1>5. CASE /\ request' = [request EXCEPT ![r] = Failing(p, 500)]
           /\ p.pc \in {"auth", "body", "handler", "compute", "write", "cached", "agent"}
  <2>1. StepsTo(p, Failing(p, 500), tombstone)
    BY <1>1, <1>5, FailSteps DEF Waits
  <2> QED BY <1>5, <2>1, Update, RequestFacts, Zenon DEF p
<1>6. ASSUME NEW l \in {"body", "handler"}, p.pc \in {"auth", "body"},
             request' = [request EXCEPT ![r] = [p EXCEPT !.pc = l]]
      PROVE  RequestStep(r)
  <2>1. StepsTo(p, [p EXCEPT !.pc = l], tombstone)
    BY <1>1, <1>6, MoveSteps, Literals DEF Waits
  <2> QED BY <1>6, <2>1, Update, RequestFacts DEF p
<1>7. CASE p.pc = "failing" /\ request' = [request EXCEPT ![r] = Answered(p, p.status)]
  <2>1. p.status # 200
    BY <1>1, <1>7 DEF PlaceOK
  <2>2. StepsTo(p, Answered(p, p.status), tombstone)
    BY <1>1, <1>3, <1>7, <2>1, AnswerSteps DEF Waits
  <2> QED BY <1>7, <2>2, Update, RequestFacts DEF p
<1> QED BY <1>2, <1>4, <1>5, <1>6, <1>7

(* Two such steps are one. *)
LEMMA StepsCompose ==
  ASSUME NEW t, NEW o, NEW p, NEW q, StepsTo(o, p, t), StepsTo(p, q, t)
  PROVE  StepsTo(o, q, t)
BY DEF StepsTo, Becomes

(* What a handler notes down besides. *)
LEMMA NoteSteps ==
  ASSUME NEW t \in Tombstones, NEW p, RequestOK(p, t)
  PROVE  /\ p.pc # "done" => StepsTo(p, [p EXCEPT !.hit = TRUE], t)
         /\ \A b \in BOOLEAN :
              /\ p.pc # "done" => StepsTo(p, [p EXCEPT !.keep = b], t)
              /\ StepsTo(p, [p EXCEPT !.error = p.error \/ b], t)
         /\ p.pc = "agent" => StepsTo(p, [p EXCEPT !.forward = "sent"], t)
<1>1. p \in Reqs /\ SeenOK(p, t) /\ PlaceOK(p) /\ AgentOK(p)
  BY DEF RequestOK
<1>2. ASSUME p.pc # "done" PROVE StepsTo(p, [p EXCEPT !.hit = TRUE], t)
  <2> DEFINE q == [p EXCEPT !.hit = TRUE]
  <2>1. q \in Reqs
    BY <1>1 DEF Reqs
  <2>2. /\ q.pc = p.pc /\ q.kind = p.kind /\ q.upload = p.upload /\ q.aborted = p.aborted
        /\ q.status = p.status /\ q.seen = p.seen /\ q.wrote = p.wrote /\ q.hit
        /\ q.stored = p.stored /\ q.stale = p.stale /\ q.forward = p.forward
        /\ q.error = p.error /\ q.keep = p.keep
    BY <1>1 DEF Reqs
  <2> HIDE DEF q
  <2>3. StepsTo(p, q, t)
    BY <1>1, <2>1, <2>2 DEF StepsTo, Becomes, RequestOK, SeenOK, PlaceOK, AgentOK, Waits, Acked, Fills
  <2> QED BY <2>3 DEF q
<1>3. ASSUME NEW b \in BOOLEAN, p.pc # "done" PROVE StepsTo(p, [p EXCEPT !.keep = b], t)
  <2> DEFINE q == [p EXCEPT !.keep = b]
  <2>1. q \in Reqs
    BY <1>1 DEF Reqs
  <2>2. /\ q.pc = p.pc /\ q.kind = p.kind /\ q.upload = p.upload /\ q.aborted = p.aborted
        /\ q.status = p.status /\ q.seen = p.seen /\ q.wrote = p.wrote /\ q.hit = p.hit
        /\ q.stored = p.stored /\ q.stale = p.stale /\ q.forward = p.forward
        /\ q.error = p.error
    BY <1>1 DEF Reqs
  <2> HIDE DEF q
  <2>3. StepsTo(p, q, t)
    BY <1>1, <1>3, <2>1, <2>2
       DEF StepsTo, Becomes, RequestOK, SeenOK, PlaceOK, AgentOK, Waits, Acked, Fills
  <2> QED BY <2>3 DEF q
<1>4. ASSUME NEW b \in BOOLEAN PROVE StepsTo(p, [p EXCEPT !.error = p.error \/ b], t)
  <2> DEFINE q == [p EXCEPT !.error = p.error \/ b]
  <2>1. p.error \/ b \in BOOLEAN
    BY <1>1 DEF Reqs
  <2>2. q \in Reqs
    BY <1>1, <2>1 DEF Reqs
  <2>3. /\ q.pc = p.pc /\ q.kind = p.kind /\ q.upload = p.upload /\ q.aborted = p.aborted
        /\ q.status = p.status /\ q.seen = p.seen /\ q.wrote = p.wrote /\ q.hit = p.hit
        /\ q.stored = p.stored /\ q.stale = p.stale /\ q.forward = p.forward
        /\ q.keep = p.keep
    BY <1>1 DEF Reqs
  <2>4. p.error => q.error
    BY <1>1 DEF Reqs
  <2> HIDE DEF q
  <2>5. StepsTo(p, q, t)
    BY <1>1, <2>2, <2>3, <2>4
       DEF StepsTo, Becomes, RequestOK, SeenOK, PlaceOK, AgentOK, Waits, Acked, Fills
  <2> QED BY <2>5 DEF q
<1>6. ASSUME p.pc = "agent" PROVE StepsTo(p, [p EXCEPT !.forward = "sent"], t)
  <2> DEFINE q == [p EXCEPT !.forward = "sent"]
  <2>1. q \in Reqs
    BY <1>1 DEF Reqs, Forwards
  <2>2. /\ q.pc = p.pc /\ q.kind = p.kind /\ q.upload = p.upload /\ q.aborted = p.aborted
        /\ q.status = p.status /\ q.seen = p.seen /\ q.wrote = p.wrote /\ q.hit = p.hit
        /\ q.stored = p.stored /\ q.stale = p.stale /\ q.forward = "sent"
        /\ q.error = p.error /\ q.keep = p.keep
    BY <1>1 DEF Reqs
  <2> HIDE DEF q
  <2>3. StepsTo(p, q, t)
    BY <1>1, <1>6, <2>1, <2>2
       DEF StepsTo, Becomes, RequestOK, SeenOK, PlaceOK, AgentOK, Waits, Acked, Fills
  <2> QED BY <2>3 DEF q
<1> QED BY <1>2, <1>3, <1>4, <1>6

(* A computation for the cache begins, or does not.                         *)
LEMMA StaleSteps ==
  ASSUME NEW t \in Tombstones, NEW p, RequestOK(p, t),
         t = "none" \/ (p.pc # "compute" /\ p.stored = "no")
  PROVE  StepsTo(p, [p EXCEPT !.stale = FALSE], t)
<1> DEFINE q == [p EXCEPT !.stale = FALSE]
<1>1. p \in Reqs /\ SeenOK(p, t) /\ PlaceOK(p) /\ AgentOK(p)
  BY DEF RequestOK
<1>2. q \in Reqs
  BY <1>1 DEF Reqs
<1>3. /\ q.pc = p.pc /\ q.kind = p.kind /\ q.upload = p.upload /\ q.aborted = p.aborted
      /\ q.status = p.status /\ q.seen = p.seen /\ q.wrote = p.wrote /\ q.hit = p.hit
      /\ q.stored = p.stored /\ q.forward = p.forward
      /\ q.error = p.error /\ q.keep = p.keep
  BY <1>1 DEF Reqs
<1> HIDE DEF q
<1>4. StepsTo(p, q, t)
  BY <1>1, <1>2, <1>3
     DEF StepsTo, Becomes, RequestOK, SeenOK, PlaceOK, AgentOK, Waits, Acked, Fills
<1> QED BY <1>4 DEF q

(* The state of a request that has read the tombstone. *)
HasRead(p, l) == IF tombstone = "none" THEN [p EXCEPT !.pc = l] ELSE Failing(p, 404)

(* The document is deleted, or it is alive and the handler goes on. *)
LEMMA ReadSteps ==
  ASSUME NEW r \in Requests, Types, RequestsOK, NEW l \in {"compute", "write", "agent"},
         request[r].pc \in {"handler", "cached"},
         l = "write" => request[r].kind = "awareness"
  PROVE  /\ AfterRead(r, l) = [request EXCEPT ![r] = HasRead(request[r], l)]
         /\ StepsTo(request[r], HasRead(request[r], l), tombstone)
         /\ RequestOK(HasRead(request[r], l), tombstone)
<1> DEFINE p == request[r]
<1>1. RequestOK(p, tombstone) /\ p \in Reqs /\ SeenOK(p, tombstone) /\ tombstone \in Tombstones
  BY RequestFacts
<1>2. State(tombstone) \in p.seen
  BY <1>1 DEF SeenOK, Waits
<1>3. CASE tombstone = "none"
  <2>1. AfterRead(r, l) = [request EXCEPT ![r] = [p EXCEPT !.pc = l]]
    BY <1>3 DEF AfterRead
  <2>2. "alive" \in p.seen
    BY <1>2, <1>3 DEF State
  <2> HIDE DEF p
  <2>3. p.pc \in {"handler", "cached"} /\ (l = "write" => p.kind = "awareness")
    BY DEF p
  <2>4. StepsTo(p, [p EXCEPT !.pc = l], tombstone)
    BY <1>1, <1>3, <2>2, <2>3, MoveSteps, Literals DEF Waits
  <2> QED BY <1>3, <2>1, <2>4 DEF p, StepsTo, Becomes, HasRead
<1>4. CASE tombstone # "none"
  <2>1. AfterRead(r, l) = [request EXCEPT ![r] = Failing(p, 404)]
    BY <1>4 DEF AfterRead, ReadsTombstone
  <2>2. "deleted" \in p.seen
    BY <1>2, <1>4 DEF State
  <2>3. StepsTo(p, Failing(p, 404), tombstone)
    BY <1>1, <2>2, FailSteps DEF Waits
  <2> QED BY <1>4, <2>1, <2>3 DEF StepsTo, Becomes, HasRead
<1> QED BY <1>3, <1>4

(* An answer does not tell where the handler was. *)
LEMMA AnswerForgets ==
  ASSUME NEW p \in Reqs, NEW l, NEW s
  PROVE  Answered([p EXCEPT !.pc = l], s) = Answered(p, s)
<1>1. p = [pc |-> p.pc, kind |-> p.kind, upload |-> p.upload, aborted |-> p.aborted,
           status |-> p.status, seen |-> p.seen, wrote |-> p.wrote, hit |-> p.hit,
           stored |-> p.stored, stale |-> p.stale, forward |-> p.forward,
           error |-> p.error, keep |-> p.keep]
  BY DEF Reqs
<1> QED BY <1>1 DEF Answered

(* The handlers read the document or find the response in the cache. *)
LEMMA ReadStep ==
  ASSUME NEW r \in Requests, Types, RequestsOK,
         GetYdoc(r) \/ ReadForWrite(r) \/ ReadForAwareness(r) \/ LookUp(r)
           \/ ReadForCache(r) \/ ReadForAgent(r)
  PROVE  RequestStep(r)
<1> DEFINE p == request[r]
<1>1. RequestOK(p, tombstone) /\ p \in Reqs /\ SeenOK(p, tombstone) /\ tombstone \in Tombstones
      /\ AgentOK(p) /\ PlaceOK(p) /\ request \in [Requests -> Reqs]
  BY RequestFacts
<1>2. ASSUME NEW l \in {"compute", "write", "agent"}, p.pc \in {"handler", "cached"},
             l = "write" => p.kind = "awareness"
      PROVE  /\ AfterRead(r, l) = [request EXCEPT ![r] = HasRead(p, l)]
             /\ StepsTo(p, HasRead(p, l), tombstone) /\ RequestOK(HasRead(p, l), tombstone)
  BY <1>2, ReadSteps
<1>3. CASE GetYdoc(r)
  <2>1. p.kind = "get" /\ p.pc = "handler"
    BY <1>3 DEF GetYdoc, Handles
  <2>2. State(tombstone) \in p.seen
    BY <1>1, <2>1 DEF SeenOK, Waits
  <2> DEFINE q == AfterRead(r, "read")[r]
  <2>3. CASE tombstone = "none"
    <3>1. q = [p EXCEPT !.pc = "read"] /\ q.pc = "read"
      BY <1>1, <2>3 DEF AfterRead, Reqs
    <3>2. request' = [request EXCEPT ![r] = Answered(q, 200)]
      BY <1>3, <3>1 DEF GetYdoc
    <3>3. Answered(q, 200) = Answered(p, 200)
      BY <1>1, <3>1, AnswerForgets
    <3>4. "alive" \in p.seen
      BY <2>2, <2>3 DEF State
    <3> HIDE DEF p
    <3>5. StepsTo(p, Answered(p, 200), tombstone)
      BY <1>1, <2>1, <3>4, AnswerSteps, Literals DEF Waits
    <3> QED BY <1>1, <3>2, <3>3, <3>5, Update DEF p
  <2>4. CASE tombstone # "none"
    <3>1. q = Failing(p, 404)
      BY <1>1, <2>4 DEF AfterRead, ReadsTombstone
    <3>2. q.pc # "read"
      BY <1>1, <3>1, FailingFields
    <3>3. request' = [request EXCEPT ![r] = Failing(p, 404)]
      BY <1>3, <3>1, <3>2 DEF GetYdoc
    <3>4. "deleted" \in p.seen
      BY <2>2, <2>4 DEF State
    <3> HIDE DEF p
    <3>5. StepsTo(p, Failing(p, 404), tombstone)
      BY <1>1, <2>1, <3>4, FailSteps DEF Waits
    <3> QED BY <1>1, <3>3, <3>5, Update DEF p
  <2> QED BY <2>3, <2>4
<1>4. CASE ReadForWrite(r)
  BY <1>1, <1>2, <1>4, Update DEF ReadForWrite, Handles
<1>5. CASE ReadForAwareness(r)
  BY <1>1, <1>2, <1>5, Update DEF ReadForAwareness, Handles
<1>6. CASE LookUp(r)
  <2>1. p.kind = "changeset" /\ p.pc = "handler"
    BY <1>6 DEF LookUp, Handles
  <2>2. \/ request' = [request EXCEPT ![r] = Answered([p EXCEPT !.hit = TRUE], 200)]
        \/ request' = [request EXCEPT ![r] = [p EXCEPT !.pc = "cached"]]
    BY <1>6 DEF LookUp
  <2> DEFINE hit == [p EXCEPT !.hit = TRUE]
  <2>3. hit.hit /\ hit.kind = "changeset" /\ hit.pc = "handler"
    BY <1>1, <2>1 DEF Reqs
  <2> HIDE DEF p
  <2>4. StepsTo(p, hit, tombstone)
    BY <1>1, <2>1, NoteSteps
  <2> HIDE DEF hit
  <2>5. StepsTo(hit, Answered(hit, 200), tombstone)
    BY <1>1, <2>3, <2>4, AnswerSteps, Literals DEF Waits, StepsTo, Becomes
  <2>6. StepsTo(p, Answered(hit, 200), tombstone)
    BY <2>4, <2>5, StepsCompose
  <2>7. StepsTo(p, [p EXCEPT !.pc = "cached"], tombstone)
    BY <1>1, <2>1, MoveSteps, Literals DEF Waits
  <2> QED BY <1>1, <2>2, <2>6, <2>7, Update DEF p, hit
<1>7. CASE ReadForCache(r)
  <2>1. p.kind = "changeset" /\ p.pc = "cached"
    BY <1>7 DEF ReadForCache, Handles
  <2>2. AfterRead(r, "compute") = [request EXCEPT ![r] = HasRead(p, "compute")]
        /\ StepsTo(p, HasRead(p, "compute"), tombstone) /\ RequestOK(HasRead(p, "compute"), tombstone)
    BY <1>2, <2>1
  <2>3. p.stored = "no"
    BY <1>1, <2>1 DEF PlaceOK, Reqs
  <2>4. \/ tombstone = "none"
        \/ HasRead(p, "compute").pc # "compute" /\ HasRead(p, "compute").stored = "no"
    BY <1>1, <2>3, FailingFields DEF Same, HasRead
  <2>5. request' = [request EXCEPT ![r] = [HasRead(p, "compute") EXCEPT !.stale = FALSE]]
    BY <1>1, <1>7, <2>2 DEF ReadForCache
  <2> HIDE DEF p
  <2>6. StepsTo(HasRead(p, "compute"), [HasRead(p, "compute") EXCEPT !.stale = FALSE], tombstone)
    BY <1>1, <2>2, <2>4, StaleSteps
  <2>7. StepsTo(p, [HasRead(p, "compute") EXCEPT !.stale = FALSE], tombstone)
    BY <2>2, <2>6, StepsCompose
  <2> QED BY <1>1, <2>5, <2>7, Update DEF p
<1>8. CASE ReadForAgent(r)
  <2>1. p.kind = "agent" /\ p.pc = "handler"
    BY <1>8 DEF ReadForAgent, Handles
  <2>2. AfterRead(r, "agent") = [request EXCEPT ![r] = HasRead(p, "agent")]
        /\ StepsTo(p, HasRead(p, "agent"), tombstone) /\ RequestOK(HasRead(p, "agent"), tombstone)
    BY <1>2, <2>1
  <2>3. HasRead(p, "agent").pc # "done"
    <3>1. Failing(p, 404).pc = "failing"
      BY <1>1, FailingFields
    <3>2. [p EXCEPT !.pc = "agent"].pc = "agent"
      BY <1>1 DEF Reqs
    <3> QED BY <3>1, <3>2 DEF HasRead
  <2>4. PICK keep \in BOOLEAN : request' = [request EXCEPT ![r] = [HasRead(p, "agent") EXCEPT !.keep = keep]]
    BY <1>1, <1>8, <2>2 DEF ReadForAgent
  <2> HIDE DEF p
  <2>5. StepsTo(HasRead(p, "agent"), [HasRead(p, "agent") EXCEPT !.keep = keep], tombstone)
    BY <1>1, <2>2, <2>3, NoteSteps
  <2>6. StepsTo(p, [HasRead(p, "agent") EXCEPT !.keep = keep], tombstone)
    BY <2>2, <2>5, StepsCompose
  <2> QED BY <1>1, <2>4, <2>6, Update DEF p
<1> QED BY <1>3, <1>4, <1>5, <1>6, <1>7, <1>8

(* A computation ends. *)
LEMMA ComputedStep ==
  ASSUME NEW r \in Requests, Types, RequestsOK, Computed(r) \/ ComputedForCache(r)
  PROVE  RequestStep(r)
<1> DEFINE p == request[r]
<1>1. RequestOK(p, tombstone) /\ p \in Reqs /\ SeenOK(p, tombstone) /\ tombstone \in Tombstones
      /\ PlaceOK(p) /\ request \in [Requests -> Reqs]
  BY RequestFacts
<1>2. p.pc = "compute" /\ p.kind \in {"patch", "changeset"}
  BY DEF Computed, ComputedForCache, Handles
<1>3. "alive" \in p.seen
  BY <1>1, <1>2 DEF SeenOK
<1>4. StepsTo(p, Answered(p, 200), tombstone)
  <2> HIDE DEF p
  <2> QED BY <1>1, <1>2, <1>3, AnswerSteps, Literals DEF Waits
<1>5. CASE Computed(r)
  <2>1. p.kind = "patch"
    BY <1>5 DEF Computed, Handles
  <2>2. \/ request' = [request EXCEPT ![r] = Answered(p, 200)]
        \/ request' = [request EXCEPT ![r] = [p EXCEPT !.pc = "write"]]
    BY <1>5 DEF Computed, Goto
  <2> HIDE DEF p
  <2>3. StepsTo(p, [p EXCEPT !.pc = "write"], tombstone)
    BY <1>1, <1>2, <1>3, <2>1, MoveSteps, Literals DEF Waits
  <2> QED BY <1>1, <1>4, <2>2, <2>3, Update DEF p
<1>6. CASE ComputedForCache(r)
  <2>1. p.kind = "changeset"
    BY <1>6 DEF ComputedForCache, Handles
  <2>2. PICK stored \in {"no", "sent"} :
          request' = [request EXCEPT ![r] = Answered([p EXCEPT !.stored = stored], 200)]
    BY <1>6 DEF ComputedForCache
  <2> DEFINE x == [p EXCEPT !.stored = stored]
             q == Answered(x, 200)
  <2> HIDE DEF p
  <2>3. /\ x \in Reqs /\ x.pc = p.pc /\ x.kind = p.kind /\ x.seen = p.seen /\ x.wrote = p.wrote
        /\ x.stale = p.stale /\ x.forward = p.forward
    BY <1>1, StoredFields
  <2> HIDE DEF x
  <2>4. q \in Reqs /\ Same(x, q) /\ q.pc = "done" /\ q.status \in {0, 200} /\ ~q.aborted
    BY <2>3, AnsweredFields, Literals
  <2> HIDE DEF q
  <2>5. RequestOK(q, tombstone)
    BY <1>3, <2>1, <2>3, <2>4 DEF RequestOK, SeenOK, PlaceOK, AgentOK, Waits, Same
  <2>6. StepsTo(p, q, tombstone)
    BY <1>2, <2>1, <2>3, <2>4, <2>5 DEF StepsTo, Becomes, Acked, Fills, Same
  <2>7. request' = [request EXCEPT ![r] = q]
    BY <2>2 DEF q, x
  <2> QED BY <1>1, <2>6, <2>7, Update DEF p
<1> QED BY <1>5, <1>6

(* An agent changes the document, returns or leaves. *)
LEMMA AgentStep ==
  ASSUME NEW r \in Requests, Types, RequestsOK, AgentChanges(r) \/ AgentReturns(r) \/ AgentLeaves(r)
  PROVE  RequestStep(r)
<1> DEFINE p == request[r]
<1>1. RequestOK(p, tombstone) /\ p \in Reqs /\ SeenOK(p, tombstone) /\ tombstone \in Tombstones
      /\ PlaceOK(p) /\ request \in [Requests -> Reqs]
  BY RequestFacts
<1>2. p.pc \in {"agent", "leaving"} /\ p.kind = "agent"
  BY DEF AgentChanges, AgentReturns, AgentLeaves, Handles
<1>3. "alive" \in p.seen
  BY <1>1, <1>2 DEF SeenOK
<1>4. ASSUME NEW b \in BOOLEAN
      PROVE  LET q == [p EXCEPT !.error = p.error \/ b] IN
             /\ StepsTo(p, q, tombstone)
             /\ StepsTo(p, [q EXCEPT !.pc = "leaving"], tombstone)
             /\ (q.keep /\ ~q.error) \/ q.forward # "sent" => StepsTo(p, AgentResult(q), tombstone)
             /\ q.forward = p.forward /\ q.keep = p.keep
  <2> DEFINE q == [p EXCEPT !.error = p.error \/ b]
  <2>1. q.pc = p.pc /\ q.kind = p.kind /\ q.seen = p.seen /\ q.forward = p.forward /\ q.keep = p.keep
    BY <1>1 DEF Reqs
  <2> HIDE DEF p
  <2>2. StepsTo(p, q, tombstone)
    BY <1>1, NoteSteps
  <2> HIDE DEF q
  <2>3. RequestOK(q, tombstone) /\ Waits(q) /\ q.pc # "deleting" /\ "alive" \in q.seen
    BY <1>2, <1>3, <2>1, <2>2 DEF StepsTo, Becomes, Waits
  <2>4. StepsTo(q, [q EXCEPT !.pc = "leaving"], tombstone)
    BY <1>1, <2>3, MoveSteps, Literals
  <2>5. ASSUME (q.keep /\ ~q.error) \/ q.forward # "sent"
        PROVE  StepsTo(q, AgentResult(q), tombstone)
    <3>1. CASE q.error
      BY <1>1, <2>3, <3>1, FailSteps DEF AgentResult
    <3>2. CASE ~q.error
      BY <1>1, <2>3, <2>5, <3>2, AnswerSteps, Literals DEF AgentResult
    <3> QED BY <3>1, <3>2
  <2> QED BY <2>1, <2>2, <2>4, <2>5, StepsCompose DEF q
<1>5. CASE AgentChanges(r)
  <2>1. p.pc = "agent" /\ request' = [request EXCEPT ![r] = [p EXCEPT !.forward = "sent"]]
    BY <1>5 DEF AgentChanges, Handles
  <2> HIDE DEF p
  <2>2. StepsTo(p, [p EXCEPT !.forward = "sent"], tombstone)
    BY <1>1, <2>1, NoteSteps
  <2> QED BY <1>1, <2>1, <2>2, Update DEF p
<1>6. CASE AgentReturns(r)
  <2>1. PICK threw \in BOOLEAN :
          LET q == [p EXCEPT !.error = p.error \/ threw] IN
          request' = [request EXCEPT ![r] =
            IF q.keep /\ ~q.error THEN AgentResult(q) ELSE [q EXCEPT !.pc = "leaving"]]
    BY <1>6 DEF AgentReturns
  <2> QED BY <1>1, <1>4, <2>1, Update
<1>7. CASE AgentLeaves(r)
  <2>1. PICK failed \in BOOLEAN :
          request' = [request EXCEPT ![r] = AgentResult([p EXCEPT !.error = p.error \/ failed])]
    BY <1>7 DEF AgentLeaves
  <2>2. p.forward # "sent"
    BY <1>7 DEF AgentLeaves
  <2> QED BY <1>1, <1>4, <2>1, <2>2, Update
<1> QED BY <1>5, <1>6, <1>7

-----------------------------------------------------------------------------
(* What steps do to the parts of the invariant. *)

(* All that concerns a single request besides what it may do. *)
Kept(r) == Acked(request[r]) => erased \/ r \in stream \union rows

(* AckedIsKept, in these words. *)
LEMMA AckedIs == AckedIsKept <=> \A r \in Requests : Kept(r)
BY DEF AckedIsKept, Kept, Acked

(* The parts of the invariant, and the types of the parts.                  *)
LEMMA Parts ==
  ASSUME IInv
  PROVE  /\ Types /\ RequestsOK /\ Waiting /\ Erasure /\ CacheOK
         /\ \A r \in Requests : Kept(r)
         /\ request \in [Requests -> Reqs] /\ deletion \in [Callers -> Deletions]
         /\ tombstone \in Tombstones /\ Requests \subseteq Callers
BY AckedIs DEF IInv, Types, Tombstones, Callers

(* The steps of one request keep the invariant. *)
LEMMA RequestStepKeeps ==
  ASSUME IInv, NEW r \in Requests, RequestStep(r), UNCHANGED <<docVars, cacheVars, deletion, restore>>
  PROVE  IInv'
<1>1. /\ Types /\ RequestsOK /\ Waiting /\ Erasure /\ CacheOK
      /\ \A x \in Requests : Kept(x)
      /\ request \in [Requests -> Reqs]
  BY Parts
<1>2. /\ UNCHANGED <<tombstone, purged, rows, stream, erased, cache, owed, deletion, restore>>
  BY DEF docVars, cacheVars
<1>3. /\ RequestOK(request'[r], tombstone) /\ request'[r] \in Reqs
      /\ request'[r].pc = "deleting" <=> request[r].pc = "deleting"
      /\ Acked(request'[r]) => Acked(request[r])
      /\ Fills(request'[r]) => Fills(request[r]) \/ tombstone = "none"
      /\ \A x \in Requests : x # r => request'[x] = request[x]
      /\ request' \in [Requests -> Reqs]
  BY <1>1 DEF RequestStep, StepsTo, Becomes, RequestOK
<1>4. Types'
  BY <1>1, <1>2, <1>3 DEF Types
<1>5. RequestsOK'
  BY <1>1, <1>2, <1>3 DEF RequestsOK
<1>6. Waiting'
  BY <1>1, <1>2, <1>3 DEF Waiting, Called
<1>7. Erasure'
  BY <1>1, <1>2 DEF Erasure
<1>8. \A x \in Requests : Kept(x)'
  BY <1>1, <1>2, <1>3 DEF Kept
<1>9. AckedIsKept'
  BY <1>8 DEF AckedIsKept, Kept, Acked
<1>10. CacheOK'
  BY <1>1, <1>2, <1>3 DEF CacheOK, Scanned
<1> QED BY <1>4, <1>5, <1>6, <1>7, <1>9, <1>10 DEF IInv

(* A step that writes to the stream or the cache for one request.           *)
LEMMA WriteKeeps ==
  ASSUME IInv, NEW r \in Requests, NEW q,
         request' = [request EXCEPT ![r] = q], RequestOK(q, tombstone),
         q.pc = "deleting" <=> request[r].pc = "deleting",
         Acked(q) => Acked(request[r]) \/ r \in stream',
         Fills(q) => Fills(request[r]),
         stream' \in {stream, stream \union {r}},
         cache' \in {"none", "current", "late"},
         Scanned /\ cache' = "current" => cache = "current",
         UNCHANGED <<tombstone, purged, rows, erased, owed, deletion, restore>>
  PROVE  IInv'
<1>1. /\ Types /\ RequestsOK /\ Waiting /\ Erasure /\ CacheOK
      /\ \A x \in Requests : Kept(x)
      /\ request \in [Requests -> Reqs]
  BY Parts
<1>2. /\ request'[r] = q /\ \A x \in Requests : x # r => request'[x] = request[x]
      /\ request' \in [Requests -> Reqs]
  BY <1>1 DEF RequestOK
<1>3. Types'
  BY <1>1, <1>2 DEF Types
<1>4. RequestsOK'
  BY <1>1, <1>2 DEF RequestsOK
<1>5. Waiting'
  BY <1>1, <1>2 DEF Waiting, Called
<1>6. Erasure'
  BY <1>1 DEF Erasure
<1>7. \A x \in Requests : Kept(x)'
  BY <1>1, <1>2 DEF Kept
<1>8. AckedIsKept'
  BY <1>7 DEF AckedIsKept, Kept, Acked
<1>9. CacheOK'
  BY <1>1, <1>2 DEF CacheOK, Scanned
<1> QED BY <1>3, <1>4, <1>5, <1>6, <1>8, <1>9 DEF IInv

(* A handler writes. *)
LEMMA WriteStep ==
  ASSUME IInv, NEW r \in Requests, Write(r)
  PROVE  IInv'
<1> DEFINE p == request[r]
<1> DEFINE w == [p EXCEPT !.wrote = TRUE]
<1> DEFINE q == Answered(w, 200)
<1>1. RequestOK(p, tombstone) /\ p \in Reqs /\ SeenOK(p, tombstone) /\ tombstone \in Tombstones
      /\ PlaceOK(p) /\ cache \in {"none", "current", "late"}
  BY Parts, RequestFacts DEF Types
<1>2. p.pc = "write" /\ request' = [request EXCEPT ![r] = q]
  BY DEF Write
<1>3. p.kind \in {"patch", "awareness"} /\ "alive" \in p.seen
  BY <1>1, <1>2 DEF PlaceOK, SeenOK
<1>4. /\ w.pc = p.pc /\ w.kind = p.kind /\ w.upload = p.upload /\ w.aborted = p.aborted
      /\ w.status = p.status /\ w.seen = p.seen /\ w.hit = p.hit
      /\ w.stored = p.stored /\ w.stale = p.stale /\ w.forward = p.forward
      /\ w.error = p.error /\ w.keep = p.keep
  BY <1>1 DEF Reqs
<1>5. w \in Reqs
  BY <1>1 DEF Reqs
<1>6. stream' = IF p.kind = "awareness" THEN stream ELSE stream \union {r}
  BY DEF Write
<1> HIDE DEF p, w
<1>7. RequestOK(w, tombstone)
  BY <1>1, <1>3, <1>4, <1>5 DEF RequestOK, SeenOK, PlaceOK, AgentOK, Waits
<1>8. Becomes(w, q, tombstone) /\ q.pc = "done"
  BY <1>1, <1>2, <1>3, <1>4, <1>7, AnswerBecomes, Literals DEF Waits
<1>9. Same(w, q)
  BY <1>5, AnsweredFields, Literals
<1> HIDE DEF q
<1>10. Acked(q) => Acked(p) \/ p.kind = "patch"
  BY <1>3, <1>4, <1>9 DEF Acked, Same
<1>11. RequestOK(q, tombstone) /\ (Fills(q) => Fills(p))
  BY <1>3, <1>4, <1>8, <1>9 DEF Becomes, Fills, Same
<1>12. Acked(q) => Acked(p) \/ r \in stream'
  BY <1>6, <1>10
<1>13. UNCHANGED <<tombstone, purged, rows, erased, cache, owed, deletion, restore>>
  BY DEF Write, cacheVars
<1>14. q.pc = "deleting" <=> p.pc = "deleting"
  BY <1>2, <1>8
<1>15. stream' \in {stream, stream \union {r}}
  BY <1>6
<1> QED BY <1>1, <1>2, <1>11, <1>12, <1>13, <1>14, <1>15, WriteKeeps DEF p

(* Redis answers what an agent has sent. *)
LEMMA ForwardStep ==
  ASSUME IInv, NEW r \in Requests, ForwardLands(r)
  PROVE  IInv'
<1> DEFINE p == request[r]
<1> DEFINE added == [p EXCEPT !.forward = "added"]
<1> DEFINE lost == [p EXCEPT !.forward = "lost", !.error = TRUE]
<1>1. RequestOK(p, tombstone) /\ p \in Reqs /\ cache \in {"none", "current", "late"}
  BY Parts, RequestFacts DEF Types
<1>2. /\ p.forward = "sent"
      /\ \/ stream' = stream \union {r} /\ request' = [request EXCEPT ![r] = added]
         \/ stream' = stream /\ request' = [request EXCEPT ![r] = lost]
      /\ UNCHANGED <<tombstone, purged, rows, erased, cache, owed, deletion, restore>>
  BY DEF ForwardLands, cacheVars
<1>3. /\ added.pc = p.pc /\ added.kind = p.kind /\ added.upload = p.upload
      /\ added.aborted = p.aborted /\ added.status = p.status /\ added.seen = p.seen
      /\ added.wrote = p.wrote /\ added.hit = p.hit /\ added.stored = p.stored
      /\ added.stale = p.stale /\ added.forward = "added" /\ added.error = p.error
      /\ added.keep = p.keep
  BY <1>1 DEF Reqs
<1>4. /\ lost.pc = p.pc /\ lost.kind = p.kind /\ lost.upload = p.upload
      /\ lost.aborted = p.aborted /\ lost.status = p.status /\ lost.seen = p.seen
      /\ lost.wrote = p.wrote /\ lost.hit = p.hit /\ lost.stored = p.stored
      /\ lost.stale = p.stale /\ lost.forward = "lost" /\ lost.error /\ lost.keep = p.keep
  BY <1>1 DEF Reqs
<1>5. added \in Reqs /\ lost \in Reqs
  BY <1>1 DEF Reqs, Forwards
<1> HIDE DEF p, added, lost
<1>6. RequestOK(added, tombstone) /\ (Fills(added) => Fills(p))
  BY <1>1, <1>2, <1>3, <1>5 DEF RequestOK, SeenOK, PlaceOK, AgentOK, Waits, Fills
<1>7. RequestOK(lost, tombstone) /\ (Fills(lost) => Fills(p)) /\ (Acked(lost) => Acked(p))
  BY <1>1, <1>2, <1>4, <1>5
     DEF RequestOK, SeenOK, PlaceOK, AgentOK, Waits, Fills, Acked
<1>8. CASE stream' = stream \union {r} /\ request' = [request EXCEPT ![r] = added]
  BY <1>1, <1>2, <1>3, <1>6, <1>8, WriteKeeps DEF p
<1>9. CASE stream' = stream /\ request' = [request EXCEPT ![r] = lost]
  BY <1>1, <1>2, <1>4, <1>7, <1>9, WriteKeeps DEF p
<1> QED BY <1>2, <1>8, <1>9

(* The SET of a response arrives, or is dropped, or an old response expires. *)
LEMMA StoreResponseStep ==
  ASSUME IInv, NEW r \in Requests, StoreResponse(r)
  PROVE  IInv'
<1> DEFINE p == request[r]
<1> DEFINE q == [p EXCEPT !.stored = "no"]
<1>1. RequestOK(p, tombstone) /\ p \in Reqs /\ cache \in {"none", "current", "late"}
      /\ PlaceOK(p) /\ CacheOK
  BY Parts, RequestFacts DEF Types
<1>2. /\ p.stored = "sent" /\ request' = [request EXCEPT ![r] = q]
      /\ cache' \in {cache, IF p.stale THEN "late" ELSE "current"}
      /\ UNCHANGED <<tombstone, purged, rows, stream, erased, owed, deletion, restore>>
  BY DEF StoreResponse, docVars
<1>3. /\ q.pc = p.pc /\ q.kind = p.kind /\ q.upload = p.upload
      /\ q.aborted = p.aborted /\ q.status = p.status /\ q.seen = p.seen
      /\ q.wrote = p.wrote /\ q.hit = p.hit /\ q.stored = "no"
      /\ q.stale = p.stale /\ q.forward = p.forward /\ q.error = p.error /\ q.keep = p.keep
  BY <1>1 DEF Reqs
<1>4. q \in Reqs
  BY <1>1 DEF Reqs
<1>5. Scanned => ~Fills(p)
  BY <1>1 DEF CacheOK
<1> HIDE DEF p, q
<1>6. RequestOK(q, tombstone) /\ (Fills(q) => Fills(p)) /\ (Acked(q) => Acked(p))
  BY <1>1, <1>3, <1>4 DEF RequestOK, SeenOK, PlaceOK, AgentOK, Waits, Fills, Acked
<1>7. Scanned => p.stale
  BY <1>1, <1>2, <1>5 DEF PlaceOK, Fills
<1>8. Scanned /\ cache' = "current" => cache = "current"
  BY <1>2, <1>7
<1>9. cache' \in {"none", "current", "late"} /\ stream' \in {stream, stream \union {r}}
  BY <1>1, <1>2
<1>10. q.pc = "deleting" <=> p.pc = "deleting"
  BY <1>3
<1> QED BY <1>2, <1>6, <1>8, <1>9, <1>10, WriteKeeps DEF p

-----------------------------------------------------------------------------
(* Deletions and restorations. *)

(* Everybody who waits has seen the new state of the document. *)
LEMMA SeenBecomes ==
  ASSUME NEW t \in Tombstones, NEW u \in Tombstones, NEW p, RequestOK(p, u)
  PROVE  LET q == IF p.pc \in {"new", "done"} THEN p
                  ELSE [p EXCEPT !.seen = p.seen \union {State(t)}] IN
         /\ RequestOK(q, t) /\ q.pc = p.pc /\ q.kind = p.kind
         /\ (Acked(q) <=> Acked(p)) /\ (Fills(q) <=> Fills(p))
<1>1. p \in Reqs /\ SeenOK(p, u) /\ PlaceOK(p) /\ AgentOK(p)
  BY DEF RequestOK
<1>2. CASE p.pc \in {"new", "done"}
  BY <1>1, <1>2 DEF RequestOK, SeenOK, Waits
<1>3. CASE p.pc \notin {"new", "done"}
  <2> DEFINE q == [p EXCEPT !.seen = p.seen \union {State(t)}]
  <2>1. p.seen \union {State(t)} \in SUBSET {"alive", "deleted"}
    BY <1>1 DEF Reqs, State
  <2>2. q \in Reqs
    BY <1>1, <2>1 DEF Reqs
  <2>3. /\ q.pc = p.pc /\ q.kind = p.kind /\ q.upload = p.upload
        /\ q.aborted = p.aborted /\ q.status = p.status /\ q.seen = p.seen \union {State(t)}
        /\ q.wrote = p.wrote /\ q.hit = p.hit /\ q.stored = p.stored
        /\ q.stale = p.stale /\ q.forward = p.forward /\ q.error = p.error /\ q.keep = p.keep
    BY <1>1 DEF Reqs
  <2> HIDE DEF q
  <2>4. RequestOK(q, t) /\ (Acked(q) <=> Acked(p)) /\ (Fills(q) <=> Fills(p))
    BY <1>1, <2>2, <2>3 DEF RequestOK, SeenOK, PlaceOK, AgentOK, Waits, Acked, Fills
  <2> QED BY <1>3, <2>3, <2>4 DEF q
<1> QED BY <1>2, <1>3

(* The same of all requests. *)
LEMMA SeenAll ==
  ASSUME IInv, NEW t \in Tombstones
  PROVE  /\ Seen(request, t) \in [Requests -> Reqs]
         /\ \A r \in Requests : LET p == request[r]  q == Seen(request, t)[r] IN
              /\ RequestOK(q, t) /\ q.pc = p.pc /\ q.kind = p.kind
              /\ (Acked(q) <=> Acked(p)) /\ (Fills(q) <=> Fills(p))
<1>1. ASSUME NEW r \in Requests
      PROVE  LET p == request[r]  q == Seen(request, t)[r] IN
             /\ RequestOK(q, t) /\ q.pc = p.pc /\ q.kind = p.kind
             /\ (Acked(q) <=> Acked(p)) /\ (Fills(q) <=> Fills(p))
  <2>1. RequestOK(request[r], tombstone) /\ tombstone \in Tombstones
    BY Parts, RequestFacts
  <2> QED BY <2>1, SeenBecomes DEF Seen
<1>2. \A r \in Requests : Seen(request, t)[r] \in Reqs
  BY <1>1 DEF RequestOK
<1> QED BY <1>1, <1>2 DEF Seen

(* A request that is about to delete waits for that. *)
LEMMA DeletingBecomes ==
  ASSUME NEW t \in Tombstones, NEW p, RequestOK(p, t), p.kind = "delete", p.pc = "handler"
  PROVE  LET q == [p EXCEPT !.pc = "deleting"] IN
         /\ RequestOK(q, t) /\ q.pc = "deleting" /\ (Acked(q) => Acked(p))
<1> DEFINE q == [p EXCEPT !.pc = "deleting"]
<1>1. p \in Reqs /\ SeenOK(p, t) /\ PlaceOK(p) /\ AgentOK(p)
  BY DEF RequestOK
<1>2. "deleting" \in Positions
  BY DEF Positions
<1>3. /\ q \in Reqs /\ Same(p, q) /\ q.pc = "deleting" /\ q.status = p.status
      /\ q.aborted = p.aborted /\ q.upload = p.upload /\ q.error = p.error
  BY <1>1, <1>2, MovedFields
<1> HIDE DEF q
<1>4. RequestOK(q, t) /\ (Acked(q) => Acked(p))
  BY <1>1, <1>3 DEF RequestOK, SeenOK, PlaceOK, AgentOK, Waits, Acked, Same
<1> QED BY <1>3, <1>4 DEF q

(* deleteDoc stores the tombstone. *)
LEMMA StoreTombstoneStep ==
  ASSUME IInv, NEW c \in Callers, StoreTombstone(c)
  PROVE  IInv'
<1> DEFINE t == StoredTombstone(c \in Operators)
<1> DEFINE d == [NoDeletion EXCEPT !.pc = "clearing", !.hard = (t = "hard"),
                   !.todo = (IF t = "hard" THEN {"clear"} ELSE {"announce"}) \union {"scan"}]
<1> DEFINE q == Seen(request, t)
<1>1. /\ Types /\ RequestsOK /\ Waiting /\ Erasure /\ CacheOK
      /\ \A x \in Requests : Kept(x)
      /\ request \in [Requests -> Reqs] /\ deletion \in [Callers -> Deletions]
      /\ Requests \subseteq Callers /\ tombstone \in Tombstones
  BY Parts
<1>2. /\ t \in {"soft", "hard"} /\ (tombstone = "hard" => t = "hard")
      /\ t \in Tombstones
  BY DEF StoredTombstone, Tombstones
<1>3. /\ deletion[c].pc = "idle"
      /\ tombstone' = t /\ erased' = (erased \/ t = "hard")
      /\ deletion' = [deletion EXCEPT ![c] = d]
      /\ restore' = [restore EXCEPT !.raced = (restore.pc = "checked" /\ t = "hard")]
      /\ request' = IF c \in Requests THEN [q EXCEPT ![c].pc = "deleting"] ELSE q
      /\ UNCHANGED <<purged, rows, stream, cache, owed>>
      /\ c \in Requests => request[c].kind = "delete" /\ request[c].pc = "handler"
  BY DEF StoreTombstone, cacheVars, MayDelete, Handles
<1>4. /\ d \in Deletions /\ d.pc = "clearing" /\ d.hard = (t = "hard")
      /\ "scan" \in d.todo /\ ("clear" \in d.todo => t = "hard")
  BY DEF NoDeletion, Deletions
<1>5. /\ q \in [Requests -> Reqs]
      /\ \A r \in Requests :
           /\ RequestOK(q[r], t) /\ q[r].pc = request[r].pc /\ q[r].kind = request[r].kind
           /\ Acked(q[r]) <=> Acked(request[r])
  BY <1>2, SeenAll
<1> HIDE DEF t, d, q
<1>6. /\ request' \in [Requests -> Reqs]
      /\ \A r \in Requests :
           /\ RequestOK(request'[r], t) /\ (Acked(request'[r]) => Acked(request[r]))
           /\ request'[r].pc = "deleting" <=> (request[r].pc = "deleting" \/ r = c)
  <2>1. CASE c \in Requests
    <3>1. RequestOK(q[c], t) /\ q[c].kind = "delete" /\ q[c].pc = "handler"
      BY <1>3, <1>5, <2>1
    <3> DEFINE x == [q[c] EXCEPT !.pc = "deleting"]
    <3>2. RequestOK(x, t) /\ x.pc = "deleting" /\ (Acked(x) => Acked(q[c]))
      BY <1>2, <3>1, DeletingBecomes
    <3>3. request' = [q EXCEPT ![c] = x]
      BY <1>3, <1>5, <2>1
    <3>4. x \in Reqs
      BY <3>2 DEF RequestOK
    <3> HIDE DEF x
    <3> QED BY <1>3, <1>5, <2>1, <3>2, <3>3, <3>4
  <2>2. CASE c \notin Requests
    BY <1>3, <1>5, <2>2
  <2> QED BY <2>1, <2>2
<1>7. deletion' \in [Callers -> Deletions] /\ deletion'[c] = d
      /\ \A x \in Callers : x # c => deletion'[x] = deletion[x]
  BY <1>1, <1>3, <1>4
<1>8. restore' \in Restores /\ restore'.pc = restore.pc
      /\ (restore.pc = "checked" /\ t = "hard" => restore'.raced)
  BY <1>1, <1>3 DEF Types, Restores
<1>9. Types'
  BY <1>1, <1>2, <1>3, <1>6, <1>7, <1>8 DEF Types
<1>10. RequestsOK'
  BY <1>3, <1>6 DEF RequestsOK
<1>11. Waiting'
  BY <1>1, <1>3, <1>4, <1>6, <1>7 DEF Waiting, Called
<1>12. Erasure'
  BY <1>1, <1>2, <1>3, <1>4, <1>7, <1>8 DEF Erasure
<1>13. \A r \in Requests : Kept(r)'
  BY <1>1, <1>3, <1>6 DEF Kept
<1>14. AckedIsKept'
  BY <1>13 DEF AckedIsKept, Kept, Acked
<1>15. CacheOK'
  BY <1>4, <1>7 DEF CacheOK, Scanned
<1> QED BY <1>9, <1>10, <1>11, <1>12, <1>14, <1>15 DEF IInv

(* The statements of a deletion that is under way, and the SCAN that finds  *)
(* what is cached.                                                          *)
LEMMA ScanCacheStep ==
  ASSUME IInv, NEW c \in Callers, ScanCache(c)
  PROVE  IInv'
<1> DEFINE d == [deletion[c] EXCEPT !.todo = (@ \ {"scan"}) \union {"drop"}, !.listed = Found]
<1> DEFINE stale(p) == IF p.kind = "changeset" THEN [p EXCEPT !.stale = TRUE] ELSE p
<1>1. /\ Types /\ RequestsOK /\ Waiting /\ Erasure /\ CacheOK
      /\ \A x \in Requests : Kept(x)
      /\ request \in [Requests -> Reqs] /\ deletion \in [Callers -> Deletions]
      /\ Requests \subseteq Callers /\ tombstone \in Tombstones
  BY Parts
<1>2. /\ deletion[c].pc \in {"clearing", "failed"} /\ deletion' = [deletion EXCEPT ![c] = d]
      /\ request' = [r \in Requests |-> stale(request[r])]
      /\ owed' = FALSE
      /\ UNCHANGED <<tombstone, purged, rows, stream, erased, cache, restore>>
  BY <1>1 DEF ScanCache, Erasure, Deletions, docVars
<1>3. /\ d \in Deletions /\ d.pc = deletion[c].pc /\ d.hard = deletion[c].hard
      /\ d.todo = (deletion[c].todo \ {"scan"}) \union {"drop"} /\ d.listed = Found
  BY <1>1, <1>2 DEF Deletions, Found
<1>4. ASSUME NEW p, RequestOK(p, tombstone)
      PROVE  /\ RequestOK(stale(p), tombstone) /\ stale(p).pc = p.pc
             /\ (Acked(stale(p)) <=> Acked(p)) /\ ~Fills(stale(p))
  <2>1. CASE p.kind # "changeset"
    BY <1>4, <2>1 DEF Fills
  <2>2. CASE p.kind = "changeset"
    <3> DEFINE q == [p EXCEPT !.stale = TRUE]
    <3>1. p \in Reqs
      BY <1>4 DEF RequestOK
    <3>2. q \in Reqs
      BY <3>1 DEF Reqs
    <3>3. /\ q.pc = p.pc /\ q.kind = p.kind /\ q.upload = p.upload
          /\ q.aborted = p.aborted /\ q.status = p.status /\ q.seen = p.seen
          /\ q.wrote = p.wrote /\ q.hit = p.hit /\ q.stored = p.stored
          /\ q.stale /\ q.forward = p.forward /\ q.error = p.error /\ q.keep = p.keep
      BY <3>1 DEF Reqs
    <3> HIDE DEF q
    <3>4. RequestOK(q, tombstone) /\ (Acked(q) <=> Acked(p)) /\ ~Fills(q)
      BY <1>4, <3>2, <3>3 DEF RequestOK, SeenOK, PlaceOK, AgentOK, Waits, Acked, Fills
    <3> QED BY <2>2, <3>3, <3>4 DEF q
  <2> QED BY <2>1, <2>2
<1> HIDE DEF d, stale
<1>5. /\ request' \in [Requests -> Reqs]
      /\ \A r \in Requests :
           /\ RequestOK(request'[r], tombstone) /\ (Acked(request'[r]) => Acked(request[r]))
           /\ request'[r].pc = request[r].pc /\ ~Fills(request'[r])
  BY <1>1, <1>2, <1>4 DEF RequestsOK, RequestOK
<1>6. deletion' \in [Callers -> Deletions] /\ deletion'[c] = d
      /\ \A x \in Callers : x # c => deletion'[x] = deletion[x]
  BY <1>1, <1>2, <1>3
<1>7. Types'
  BY <1>1, <1>2, <1>5, <1>6 DEF Types
<1>8. RequestsOK'
  BY <1>2, <1>5 DEF RequestsOK
<1>9. Waiting'
  BY <1>1, <1>2, <1>3, <1>5, <1>6 DEF Waiting, Called
<1>10. Erasure'
  BY <1>1, <1>2, <1>3, <1>6 DEF Erasure
<1>11. \A r \in Requests : Kept(r)'
  BY <1>1, <1>2, <1>5 DEF Kept
<1>12. AckedIsKept'
  BY <1>11 DEF AckedIsKept, Kept, Acked
<1>13. cache = "current" => "drop" \in deletion'[c].todo /\ deletion'[c].listed
  BY <1>3, <1>6 DEF Found
<1>14. CacheOK'
  BY <1>2, <1>5, <1>13 DEF CacheOK, Scanned
<1> QED BY <1>7, <1>8, <1>9, <1>10, <1>12, <1>14 DEF IInv

(* What a step leaves of a deletion. *)
LEMMA AfterFields ==
  ASSUME NEW p \in Deletions, NEW step, NEW next \in SUBSET {"announce"}
  PROVE  LET a == After(p, step, next) IN
         /\ a \in Deletions /\ a.todo = (p.todo \ {step}) \union next
         /\ a.pc = p.pc /\ a.hard = p.hard /\ a.listed = p.listed
BY DEF After, Deletions

(* What is left of it goes on without the caller. *)
LEMMA BehindFields ==
  ASSUME NEW a \in Deletions
  PROVE  LET d == Behind(a) IN
         /\ d \in Deletions /\ d.todo = a.todo /\ ~Called(d)
         /\ d.pc # "failed" => d.pc = "idle" /\ d.todo = {}
         /\ d.hard => a.hard
         /\ d.todo # {} => d.listed = a.listed
<1>1. CASE a.todo = {}
  BY <1>1 DEF Behind, Called, NoDeletion, Deletions
<1>2. CASE a.todo # {}
  BY <1>2 DEF Behind, Called, Deletions
<1> QED BY <1>1, <1>2

(* A branch of the Promise.all goes on. *)
LEMMA StepFields ==
  ASSUME IInv, NEW c \in Callers, NEW step, NEW next \in SUBSET {"announce"}, Step(c, step, next)
  PROVE  LET p == deletion[c]
             d == deletion'[c] IN
         /\ deletion' \in [Callers -> Deletions]
         /\ \A x \in Callers : x # c => deletion'[x] = deletion[x]
         /\ d.todo = (p.todo \ {step}) \union next
         /\ Called(d) <=> Called(p)
         /\ d.pc \notin {"clearing", "failed"} => d.todo = {}
         /\ d.pc # "purged"
         /\ d.hard => p.hard
         /\ d.todo # {} => d.listed = p.listed
<1> DEFINE p == deletion[c]
<1> DEFINE a == After(p, step, next)
<1> DEFINE d == IF a.pc = "failed" THEN Behind(a) ELSE a
<1>1. deletion \in [Callers -> Deletions] /\ Erasure
  BY Parts
<1>2. p \in Deletions /\ step \in p.todo /\ deletion' = [deletion EXCEPT ![c] = d]
  BY <1>1 DEF Step
<1>3. p.pc \in {"clearing", "failed"}
  BY <1>1, <1>2 DEF Erasure
<1>4. /\ a \in Deletions /\ a.todo = (p.todo \ {step}) \union next
      /\ a.pc = p.pc /\ a.hard = p.hard /\ a.listed = p.listed
  BY <1>2, AfterFields
<1> HIDE DEF p, a
<1>5. /\ d \in Deletions /\ d.todo = a.todo /\ (Called(d) <=> Called(p))
      /\ d.pc \notin {"clearing", "failed"} => d.todo = {}
      /\ d.pc # "purged" /\ (d.hard => p.hard)
      /\ d.todo # {} => d.listed = p.listed
  <2>1. CASE a.pc = "failed"
    BY <1>4, <2>1, BehindFields DEF Called
  <2>2. CASE a.pc # "failed"
    BY <1>3, <1>4, <2>2 DEF Called
  <2> QED BY <2>1, <2>2
<1> HIDE DEF d
<1>6. deletion' \in [Callers -> Deletions] /\ deletion'[c] = d
      /\ \A x \in Callers : x # c => deletion'[x] = deletion[x]
  BY <1>1, <1>2, <1>5
<1> QED BY <1>4, <1>5, <1>6 DEF p

(* The other steps on the way. *)
LEMMA ClearingStep ==
  ASSUME IInv, NEW c \in Callers,
         ClearMessages(c) \/ Announce(c) \/ DropResponses(c) \/ Purge(c)
  PROVE  IInv'
<1> DEFINE d == deletion'[c]
<1>1. /\ Types /\ RequestsOK /\ Waiting /\ Erasure /\ CacheOK
      /\ \A x \in Requests : Kept(x)
      /\ request \in [Requests -> Reqs] /\ deletion \in [Callers -> Deletions]
      /\ Requests \subseteq Callers /\ tombstone \in Tombstones
  BY Parts
<1>2. UNCHANGED <<tombstone, purged, erased, owed, request, restore>>
  BY DEF ClearMessages, Announce, DropResponses, Purge, docVars, cacheVars
<1>3. /\ deletion' \in [Callers -> Deletions]
      /\ \A x \in Callers : x # c => deletion'[x] = deletion[x]
      /\ d.hard => deletion[c].hard
      /\ Called(d) <=> Called(deletion[c])
      /\ d.pc \notin {"clearing", "failed"} => d.todo = {}
      /\ "scan" \in d.todo <=> "scan" \in deletion[c].todo
      /\ "clear" \in d.todo => "clear" \in deletion[c].todo
      /\ "drop" \in deletion[c].todo => DropResponses(c) \/ "drop" \in d.todo
      /\ d.todo # {} => d.listed = deletion[c].listed
  <2>1. CASE ClearMessages(c)
    <3>1. Step(c, "clear", {"announce"})
      BY <2>1 DEF ClearMessages
    <3> QED BY <3>1, StepFields
  <2>2. CASE Announce(c)
    <3>1. Step(c, "announce", {})
      BY <2>2 DEF Announce
    <3> QED BY <3>1, StepFields
  <2>3. CASE DropResponses(c)
    <3>1. Step(c, "drop", {})
      BY <2>3 DEF DropResponses
    <3> QED BY <2>3, <3>1, StepFields
  <2>4. CASE Purge(c)
    BY <1>1, <2>4 DEF Purge, Called, Deletions
  <2> QED BY <2>1, <2>2, <2>3, <2>4
<1>4. stream' \in {stream, {}} /\ rows' \in {rows, {}}
      /\ (stream' # stream \/ rows' # rows => erased)
  <2>1. CASE ClearMessages(c)
    BY <1>1, <2>1 DEF ClearMessages, Step, Erasure
  <2>2. CASE Announce(c) \/ DropResponses(c)
    BY <2>2 DEF Announce, DropResponses, docVars
  <2>3. CASE Purge(c)
    BY <1>1, <2>3 DEF Purge, Erasure
  <2> QED BY <2>1, <2>2, <2>3
<1>5. /\ cache' \in {cache, "none"}
      /\ cache' = "current" /\ "drop" \in deletion[c].todo /\ deletion[c].listed
           => "drop" \in d.todo /\ d.listed
  <2>1. CASE DropResponses(c)
    BY <2>1 DEF DropResponses
  <2>2. CASE ~DropResponses(c)
    <3>1. cache' = cache
      BY <2>2 DEF ClearMessages, Announce, Purge, cacheVars
    <3> QED BY <1>3, <2>2, <3>1
  <2> QED BY <2>1, <2>2
<1> HIDE DEF d
<1>6. Types'
  BY <1>1, <1>2, <1>3, <1>4, <1>5 DEF Types
<1>7. RequestsOK'
  BY <1>1, <1>2 DEF RequestsOK
<1>8. Waiting'
  BY <1>1, <1>2, <1>3 DEF Waiting, Called, d
<1>9. Erasure'
  BY <1>1, <1>2, <1>3 DEF Erasure, d
<1>10. \A r \in Requests : Kept(r)'
  BY <1>1, <1>2, <1>4 DEF Kept
<1>11. AckedIsKept'
  BY <1>10 DEF AckedIsKept, Kept, Acked
<1>12. Scanned' => Scanned
  BY <1>2, <1>3 DEF Scanned, d
<1>13. CacheOK'
  <2> SUFFICES ASSUME Scanned'
               PROVE  /\ \A r \in Requests : ~Fills(request[r])
                      /\ cache' = "current" => \E x \in Callers : "drop" \in deletion'[x].todo /\ deletion'[x].listed
    BY <1>2 DEF CacheOK
  <2>1. /\ \A r \in Requests : ~Fills(request[r])
        /\ cache = "current" => \E x \in Callers : "drop" \in deletion[x].todo /\ deletion[x].listed
    BY <1>1, <1>12 DEF CacheOK
  <2>2. ASSUME cache' = "current"
        PROVE  \E x \in Callers : "drop" \in deletion'[x].todo /\ deletion'[x].listed
    <3>1. PICK x \in Callers : "drop" \in deletion[x].todo /\ deletion[x].listed
      BY <1>5, <2>1, <2>2
    <3> QED BY <1>3, <1>5, <2>2, <3>1 DEF d
  <2> QED BY <2>1, <2>2
<1> QED BY <1>6, <1>7, <1>8, <1>9, <1>11, <1>13 DEF IInv

(* The request that called deleteDoc is answered or fails. *)
LEMMA SettledBecomes ==
  ASSUME IInv, NEW c \in Callers, Called(deletion[c]),
         NEW status \in {200, 500}, Settled(c, status)
  PROVE  /\ request' \in [Requests -> Reqs]
         /\ \A r \in Requests :
              /\ Becomes(request[r], request'[r], tombstone)
              /\ request'[r].pc = "deleting" <=> (request[r].pc = "deleting" /\ r # c)
<1>1. /\ Types /\ RequestsOK /\ Waiting /\ request \in [Requests -> Reqs]
      /\ tombstone \in Tombstones
  BY Parts
<1>2. ASSUME NEW r \in Requests PROVE Becomes(request[r], request[r], tombstone)
  <2>1. RequestOK(request[r], tombstone)
    BY <1>1 DEF RequestsOK
  <2> QED BY <2>1 DEF Becomes, Acked, Fills
<1>3. CASE c \notin Requests
  BY <1>1, <1>2, <1>3 DEF Settled
<1>4. CASE c \in Requests
  <2> DEFINE p == request[c]
  <2> DEFINE w == [p EXCEPT !.wrote = TRUE]
  <2> DEFINE q == IF status = 200 THEN Answered(w, 200) ELSE Failing(p, 500)
  <2>1. RequestOK(p, tombstone) /\ p \in Reqs /\ PlaceOK(p) /\ p.pc = "deleting"
    BY <1>1, <1>4, RequestFacts DEF Waiting, Called
  <2>2. p.kind = "delete" /\ Waits(p)
    BY <2>1 DEF PlaceOK, Waits
  <2>3. request' = [request EXCEPT ![c] = q]
    BY <1>4 DEF Settled
  <2>4. /\ w.pc = p.pc /\ w.kind = p.kind /\ w.upload = p.upload /\ w.aborted = p.aborted
        /\ w.status = p.status /\ w.seen = p.seen /\ w.hit = p.hit
        /\ w.stored = p.stored /\ w.stale = p.stale /\ w.forward = p.forward
        /\ w.error = p.error /\ w.keep = p.keep
    BY <2>1 DEF Reqs
  <2>5. w \in Reqs
    BY <2>1 DEF Reqs
  <2> HIDE DEF p, w
  <2>6. RequestOK(w, tombstone) /\ (Acked(w) => Acked(p)) /\ (Fills(w) => Fills(p)) /\ Waits(w)
    BY <2>1, <2>2, <2>4, <2>5
       DEF RequestOK, SeenOK, PlaceOK, AgentOK, Waits, Acked, Fills
  <2>7. Becomes(w, Answered(w, 200), tombstone) /\ Answered(w, 200).pc = "done"
    BY <1>1, <2>2, <2>4, <2>6, AnswerBecomes, Literals
  <2>8. Becomes(p, Failing(p, 500), tombstone) /\ Failing(p, 500).pc = "failing"
    BY <1>1, <2>1, <2>2, FailBecomes
  <2>9. Becomes(p, q, tombstone) /\ q.pc # "deleting"
    BY <2>6, <2>7, <2>8 DEF Becomes
  <2>10. q \in Reqs
    BY <2>9 DEF Becomes, RequestOK
  <2> HIDE DEF q
  <2> QED BY <1>1, <1>2, <1>4, <2>3, <2>9, <2>10 DEF p
<1> QED BY <1>3, <1>4

(* A deletion fails: what it leaves, and what it owes. *)
LEMMA FailedStep ==
  ASSUME IInv, NEW c \in Callers, BranchFails(c) \/ DeletionFails(c)
  PROVE  /\ deletion'[c] \in Deletions /\ deletion' = [deletion EXCEPT ![c] = deletion'[c]]
         /\ ~Called(deletion'[c]) /\ (deletion'[c].hard => deletion[c].hard)
         /\ deletion'[c].pc # "failed" => deletion'[c].todo = {}
         /\ "clear" \in deletion'[c].todo => "clear" \in deletion[c].todo
         /\ owed' \in BOOLEAN
         /\ ~owed' => /\ ~owed
                      /\ \A s \in {"scan", "drop"} \intersect deletion[c].todo :
                           s \in deletion'[c].todo /\ deletion'[c].listed = deletion[c].listed
<1>1. Types /\ deletion \in [Callers -> Deletions]
  BY Parts
<1>2. CASE BranchFails(c)
  <2>1. PICK step \in deletion[c].todo :
          /\ deletion' = [deletion EXCEPT ![c] = Behind(After(deletion[c], step, Following(step)))]
          /\ owed' = (owed \/ step \in {"scan", "drop"})
    BY <1>1, <1>2 DEF BranchFails
  <2> DEFINE a == After(deletion[c], step, Following(step))
  <2>2. Following(step) \in SUBSET {"announce"}
    BY DEF Following
  <2>3. /\ a \in Deletions /\ a.todo = (deletion[c].todo \ {step}) \union Following(step)
        /\ a.hard = deletion[c].hard /\ a.listed = deletion[c].listed
    BY <1>1, <2>2, AfterFields
  <2>4. deletion' = [deletion EXCEPT ![c] = Behind(a)] /\ deletion'[c] = Behind(a)
    BY <1>1, <2>1
  <2> HIDE DEF a
  <2>5. /\ Behind(a) \in Deletions /\ Behind(a).todo = a.todo /\ ~Called(Behind(a))
        /\ (Behind(a).pc # "failed" => Behind(a).todo = {})
        /\ (Behind(a).hard => a.hard) /\ (Behind(a).todo # {} => Behind(a).listed = a.listed)
    BY <2>3, BehindFields
  <2>6. owed' \in BOOLEAN /\ (~owed' => ~owed /\ step \notin {"scan", "drop"})
    BY <1>1, <2>1 DEF Types
  <2>7. "clear" \in a.todo => "clear" \in deletion[c].todo
    BY <2>2, <2>3
  <2> QED BY <2>3, <2>4, <2>5, <2>6, <2>7
<1>3. CASE DeletionFails(c)
  <2>1. /\ NoDeletion \in Deletions /\ ~Called(NoDeletion) /\ NoDeletion.todo = {}
        /\ ~NoDeletion.hard
    BY DEF NoDeletion, Deletions, Called
  <2>2. /\ deletion' = [deletion EXCEPT ![c] = NoDeletion] /\ deletion'[c] = NoDeletion
        /\ owed' = (owed \/ deletion[c].todo \intersect {"scan", "drop"} # {})
    BY <1>1, <1>3 DEF DeletionFails
  <2>3. owed' \in BOOLEAN /\ (~owed' => ~owed /\ {"scan", "drop"} \intersect deletion[c].todo = {})
    BY <1>1, <2>2 DEF Types
  <2> QED BY <2>1, <2>2, <2>3
<1> QED BY <1>2, <1>3

(* A deletion ends for its caller, in one way or the other. *)
LEMMA EndedStep ==
  ASSUME IInv, NEW c \in Callers,
         SoftDeleted(c) \/ StorePurged(c) \/ BranchFails(c) \/ DeletionFails(c)
  PROVE  IInv'
<1> DEFINE d == deletion'[c]
<1>1. /\ Types /\ RequestsOK /\ Waiting /\ Erasure /\ CacheOK
      /\ \A x \in Requests : Kept(x)
      /\ request \in [Requests -> Reqs] /\ deletion \in [Callers -> Deletions]
      /\ Requests \subseteq Callers /\ tombstone \in Tombstones
  BY Parts
<1>2. /\ UNCHANGED <<tombstone, rows, stream, erased, cache, restore>>
      /\ purged' \in BOOLEAN
  BY <1>1 DEF SoftDeleted, StorePurged, BranchFails, DeletionFails, docVars, cacheVars, Types
<1>3. /\ d \in Deletions /\ deletion' = [deletion EXCEPT ![c] = d]
      /\ ~Called(d) /\ (d.hard => deletion[c].hard)
      /\ d.pc # "failed" => d.todo = {}
      /\ "clear" \in d.todo => "clear" \in deletion[c].todo
      /\ owed' \in BOOLEAN
      /\ ~owed' => /\ ~owed
                   /\ \A s \in {"scan", "drop"} \intersect deletion[c].todo :
                        s \in d.todo /\ d.listed = deletion[c].listed
  <2>1. CASE SoftDeleted(c) \/ StorePurged(c)
    <3>1. /\ NoDeletion \in Deletions /\ ~Called(NoDeletion) /\ NoDeletion.todo = {}
          /\ ~NoDeletion.hard
      BY DEF NoDeletion, Deletions, Called
    <3>2. /\ deletion' = [deletion EXCEPT ![c] = NoDeletion] /\ owed' = owed
          /\ deletion[c].todo = {}
      BY <1>1, <2>1 DEF SoftDeleted, StorePurged, cacheVars, Erasure
    <3>3. d = NoDeletion
      BY <1>1, <3>2
    <3> QED BY <1>1, <3>1, <3>2, <3>3 DEF Types
  <2>2. CASE BranchFails(c) \/ DeletionFails(c)
    BY <2>2, FailedStep
  <2> QED BY <2>1, <2>2
<1> HIDE DEF d
<1>5. deletion' \in [Callers -> Deletions] /\ deletion'[c] = d
      /\ \A x \in Callers : x # c => deletion'[x] = deletion[x]
  BY <1>1, <1>3
<1>6. /\ request' \in [Requests -> Reqs]
      /\ \A r \in Requests :
           /\ Becomes(request[r], request'[r], tombstone)
           /\ request'[r].pc = "deleting" <=> (request[r].pc = "deleting" /\ r # c)
  <2>1. CASE Called(deletion[c])
    <3>1. \E status \in {200, 500} : Settled(c, status)
      BY <2>1 DEF SoftDeleted, StorePurged, BranchFails, DeletionFails, Called
    <3> QED BY <2>1, <3>1, SettledBecomes
  <2>2. CASE ~Called(deletion[c])
    <3>1. UNCHANGED request
      <4>1. deletion[c].pc # "idle"
        BY <1>1 DEF SoftDeleted, StorePurged, BranchFails, DeletionFails, Erasure
      <4>2. deletion[c].pc = "failed"
        BY <1>1, <2>2, <4>1 DEF Called, Deletions
      <4> QED BY <4>2 DEF SoftDeleted, StorePurged, BranchFails, DeletionFails
    <3>2. c \in Requests => request[c].pc # "deleting"
      BY <1>1, <2>2 DEF Waiting
    <3>3. ASSUME NEW r \in Requests PROVE Becomes(request[r], request[r], tombstone)
      BY <1>1 DEF RequestsOK, Becomes
    <3> QED BY <1>1, <3>1, <3>2, <3>3
  <2> QED BY <2>1, <2>2
<1>7. Types'
  BY <1>1, <1>2, <1>3, <1>5, <1>6 DEF Types
<1>8. RequestsOK'
  BY <1>2, <1>6 DEF RequestsOK, Becomes
<1>9. Waiting'
  BY <1>1, <1>3, <1>5, <1>6 DEF Waiting
<1>10. Erasure'
  BY <1>1, <1>2, <1>3, <1>5 DEF Erasure
<1>11. \A r \in Requests : Kept(r)'
  BY <1>1, <1>2, <1>6 DEF Kept, Becomes
<1>12. AckedIsKept'
  BY <1>11 DEF AckedIsKept, Kept, Acked
<1>13. CacheOK'
  <2> SUFFICES ASSUME Scanned'
               PROVE  /\ \A r \in Requests : ~Fills(request'[r])
                      /\ cache = "current" => \E x \in Callers : "drop" \in deletion'[x].todo /\ deletion'[x].listed
    BY <1>2 DEF CacheOK
  <2>1. Scanned
    BY <1>1, <1>2, <1>3, <1>5 DEF Scanned
  <2>2. /\ \A r \in Requests : ~Fills(request[r])
        /\ cache = "current" => \E x \in Callers : "drop" \in deletion[x].todo /\ deletion[x].listed
    BY <1>1, <2>1 DEF CacheOK
  <2>3. \A r \in Requests : ~Fills(request'[r])
    BY <1>6, <2>1, <2>2 DEF Becomes, Scanned
  <2>4. ASSUME cache = "current"
        PROVE  \E x \in Callers : "drop" \in deletion'[x].todo /\ deletion'[x].listed
    <3>1. PICK x \in Callers : "drop" \in deletion[x].todo /\ deletion[x].listed
      BY <2>2, <2>4
    <3>2. ~owed'
      BY DEF Scanned
    <3> QED BY <1>3, <1>5, <3>1, <3>2
  <2> QED BY <2>3, <2>4
<1> QED BY <1>7, <1>8, <1>9, <1>10, <1>12, <1>13 DEF IInv

(* restoreDoc *)
LEMMA RestoreStep ==
  ASSUME IInv, RestoreDoc
  PROVE  IInv'
<1>1. /\ Types /\ RequestsOK /\ Waiting /\ Erasure /\ CacheOK
      /\ \A x \in Requests : Kept(x)
      /\ request \in [Requests -> Reqs] /\ deletion \in [Callers -> Deletions]
      /\ Requests \subseteq Callers /\ tombstone \in Tombstones
  BY Parts
<1>2. CASE ReadTombstone
  <2>1. /\ tombstone = "soft" /\ restore' = [restore EXCEPT !.pc = "checked"]
        /\ UNCHANGED <<tombstone, purged, rows, stream, erased, cache, owed, request, deletion>>
    BY <1>2 DEF ReadTombstone, MayRestore, docVars, cacheVars
  <2>2. restore' \in Restores
    BY <1>1, <2>1 DEF Types, Restores
  <2>3. Types'
    BY <1>1, <2>1, <2>2 DEF Types
  <2>4. RequestsOK' /\ Waiting'
    BY <1>1, <2>1 DEF RequestsOK, Waiting
  <2>5. Erasure'
    BY <1>1, <2>1 DEF Erasure
  <2>6. \A r \in Requests : Kept(r)'
    BY <1>1, <2>1 DEF Kept
  <2>7. AckedIsKept'
    BY <2>6 DEF AckedIsKept, Kept, Acked
  <2>8. CacheOK'
    BY <1>1, <2>1 DEF CacheOK, Scanned
  <2> QED BY <2>3, <2>4, <2>5, <2>7, <2>8 DEF IInv
<1>3. CASE DropTombstone
  <2> DEFINE q == Seen(request, "none")
  <2>1. /\ tombstone' = "none" /\ purged' = FALSE /\ request' = q
        /\ restore' = [NoRestore EXCEPT !.undone = restore.undone \/ tombstone = "hard"]
        /\ UNCHANGED <<rows, stream, erased, cache, owed, deletion>>
    BY <1>3 DEF DropTombstone, cacheVars
  <2>2. /\ q \in [Requests -> Reqs]
        /\ \A r \in Requests :
             /\ RequestOK(q[r], "none") /\ q[r].pc = request[r].pc
             /\ Acked(q[r]) <=> Acked(request[r])
    BY SeenAll DEF Tombstones
  <2> HIDE DEF q
  <2>3. restore' \in Restores /\ restore'.pc = "idle"
    BY <1>1, <2>1 DEF Types, NoRestore, Restores
  <2>4. Types'
    BY <1>1, <2>1, <2>2, <2>3 DEF Types
  <2>5. RequestsOK' /\ Waiting'
    BY <1>1, <2>1, <2>2 DEF RequestsOK, Waiting
  <2>6. Erasure'
    BY <1>1, <2>1, <2>3 DEF Erasure
  <2>7. \A r \in Requests : Kept(r)'
    BY <1>1, <2>1, <2>2 DEF Kept
  <2>8. AckedIsKept'
    BY <2>7 DEF AckedIsKept, Kept, Acked
  <2>9. CacheOK'
    BY <2>1 DEF CacheOK, Scanned
  <2> QED BY <2>4, <2>5, <2>6, <2>8, <2>9 DEF IInv
<1> QED BY <1>2, <1>3 DEF RestoreDoc

(* A worker compacts the room, or a cached response expires. *)
LEMMA BackgroundStep ==
  ASSUME IInv, Compact \/ Expire
  PROVE  IInv'
<1>1. /\ Types /\ RequestsOK /\ Waiting /\ Erasure /\ CacheOK
      /\ \A x \in Requests : Kept(x)
  BY Parts
<1>2. /\ UNCHANGED <<tombstone, purged, erased, owed, request, deletion, restore>>
      /\ cache' \in {cache, "none"}
  BY DEF Compact, Expire, docVars, cacheVars
<1>3. /\ stream' \subseteq stream \union rows /\ rows' \subseteq stream \union rows
      /\ tombstone = "hard" \/ stream' \union rows' = stream \union rows
  BY DEF Compact, Expire, Persists, docVars
<1>4. Types'
  BY <1>1, <1>2, <1>3 DEF Types
<1>5. RequestsOK' /\ Waiting'
  BY <1>1, <1>2 DEF RequestsOK, Waiting
<1>6. Erasure'
  BY <1>1, <1>2 DEF Erasure
<1>7. \A r \in Requests : Kept(r)'
  BY <1>1, <1>2, <1>3 DEF Kept, Erasure
<1>8. AckedIsKept'
  BY <1>7 DEF AckedIsKept, Kept, Acked
<1>9. CacheOK'
  BY <1>1, <1>2 DEF CacheOK, Scanned
<1> QED BY <1>4, <1>5, <1>6, <1>8, <1>9 DEF IInv

-----------------------------------------------------------------------------
(* The invariant and what follows from it. *)

(* It holds before the first request. *)
LEMMA InitInvariant == Init => IInv
<1> SUFFICES ASSUME Init PROVE IInv
  OBVIOUS
<1>1. /\ NewRequest \in Reqs /\ NewRequest.pc = "new" /\ ~NewRequest.wrote
      /\ NewRequest.status = 0 /\ NewRequest.stored = "no" /\ NewRequest.forward = "no"
      /\ NewRequest.kind = "get"
  BY DEF NewRequest, Reqs, AllKinds, Positions, Uploads, Statuses, Forwards
<1>2. /\ NoDeletion \in Deletions /\ NoDeletion.pc = "idle" /\ NoDeletion.todo = {}
      /\ ~NoDeletion.hard
  BY DEF NoDeletion, Deletions
<1>3. NoRestore \in Restores /\ NoRestore.pc = "idle"
  BY DEF NoRestore, Restores
<1>4. /\ tombstone = "none" /\ purged = FALSE /\ rows = {} /\ stream = {} /\ erased = FALSE
      /\ cache = "none" /\ owed = FALSE /\ request = [r \in Requests |-> NewRequest]
      /\ deletion = [c \in Callers |-> NoDeletion] /\ restore = NoRestore
  BY DEF Init
<1>5. Types
  BY <1>1, <1>2, <1>3, <1>4 DEF Types
<1>6. RequestsOK
  <2>1. RequestOK(NewRequest, "none")
    BY <1>1 DEF RequestOK, SeenOK, PlaceOK, AgentOK, Waits
  <2> QED BY <1>4, <2>1 DEF RequestsOK
<1>7. Waiting
  BY <1>1, <1>2, <1>4 DEF Waiting, Called, Callers
<1>8. Erasure
  BY <1>2, <1>3, <1>4 DEF Erasure
<1>9. AckedIsKept
  BY <1>1, <1>4 DEF AckedIsKept
<1>10. CacheOK
  BY <1>4 DEF CacheOK, Scanned
<1> QED BY <1>5, <1>6, <1>7, <1>8, <1>9, <1>10 DEF IInv

(* Every step keeps it. *)
LEMMA NextInvariant == IInv /\ [Next]_vars => IInv'
<1> SUFFICES ASSUME IInv, [Next]_vars PROVE IInv'
  OBVIOUS
<1>0. Types /\ RequestsOK
  BY DEF IInv
<1>1. ASSUME NEW r \in Requests, Client(r) PROVE IInv'
  <2>1. RequestStep(r)
    BY <1>0, <1>1, ArriveStep, UploadStep DEF Client
  <2>2. UNCHANGED <<docVars, cacheVars, deletion, restore>>
    BY <1>1 DEF Client, Arrive, Upload, Abort
  <2> QED BY <2>1, <2>2, RequestStepKeeps
<1>2. ASSUME NEW r \in Requests, Progress(r) PROVE IInv'
  <2>1. CASE Write(r)
    BY <2>1, WriteStep
  <2>2. CASE Authenticated(r) \/ ReadBody(r) \/ AnswerError(r) \/ HandlerFails(r)
    <3>1. UNCHANGED <<docVars, cacheVars, deletion, restore>>
      BY <2>2 DEF Authenticated, ReadBody, AnswerError, HandlerFails
    <3> QED BY <1>0, <2>2, <3>1, GateStep, RequestStepKeeps
  <2>3. CASE GetYdoc(r) \/ ReadForWrite(r) \/ ReadForAwareness(r) \/ LookUp(r)
             \/ ReadForCache(r) \/ ReadForAgent(r)
    <3>1. UNCHANGED <<docVars, cacheVars, deletion, restore>>
      BY <2>3 DEF GetYdoc, ReadForWrite, ReadForAwareness, LookUp, ReadForCache, ReadForAgent
    <3> QED BY <1>0, <2>3, <3>1, ReadStep, RequestStepKeeps
  <2>4. CASE Computed(r) \/ ComputedForCache(r)
    <3>1. UNCHANGED <<docVars, cacheVars, deletion, restore>>
      BY <2>4 DEF Computed, ComputedForCache
    <3> QED BY <1>0, <2>4, <3>1, ComputedStep, RequestStepKeeps
  <2>5. CASE AgentReturns(r) \/ AgentLeaves(r)
    <3>1. UNCHANGED <<docVars, cacheVars, deletion, restore>>
      BY <2>5 DEF AgentReturns, AgentLeaves
    <3> QED BY <1>0, <2>5, <3>1, AgentStep, RequestStepKeeps
  <2> QED BY <1>2, <2>1, <2>2, <2>3, <2>4, <2>5 DEF Progress
<1>3. ASSUME NEW r \in Requests, AgentChanges(r) PROVE IInv'
  <2>1. UNCHANGED <<docVars, cacheVars, deletion, restore>>
    BY <1>3 DEF AgentChanges
  <2> QED BY <1>0, <1>3, <2>1, AgentStep, RequestStepKeeps
<1>4. ASSUME NEW r \in Requests, Redis(r) PROVE IInv'
  BY <1>4, StoreResponseStep, ForwardStep DEF Redis
<1>5. ASSUME NEW c \in Callers, DeleteDoc(c) PROVE IInv'
  BY <1>5, StoreTombstoneStep, ScanCacheStep, ClearingStep, EndedStep DEF DeleteDoc
<1>6. CASE RestoreDoc
  BY <1>6, RestoreStep
<1>7. CASE Compact \/ Expire
  BY <1>7, BackgroundStep
<1>8. CASE UNCHANGED vars
  <2>1. UNCHANGED <<tombstone, purged, rows, stream, erased, cache, owed, request, deletion, restore>>
    BY <1>8 DEF vars, docVars, cacheVars
  <2> QED BY <2>1 DEF IInv, Types, RequestsOK, Waiting, Erasure, AckedIsKept, CacheOK, Scanned
<1> QED BY <1>1, <1>2, <1>3, <1>4, <1>5, <1>6, <1>7, <1>8 DEF Next

(* IInv holds in every reachable state. *)
THEOREM Invariant == Spec => []IInv
BY InitInvariant, NextInvariant, PTL DEF Spec

(* A request that wrote or got a fresh answer met the document alive while  *)
(* it waited, one that is told of a deletion met it deleted.                *)
THEOREM HandlersActOnLiveDocument == Spec => []ActsOnLiveDocument
<1>1. IInv => TypeOK
  BY DEF IInv, Types, Waiting, Called, TypeOK, Reqs, Positions, Uploads, Statuses, Forwards,
         Deletions, Restores
<1>2. IInv => ActsOnLiveDocument
  BY <1>1 DEF IInv, RequestsOK, RequestOK, SeenOK, ActsOnLiveDocument
<1> QED BY <1>2, Invariant, PTL

(* An acknowledged change stays until the document is deleted for good.     *)
THEOREM AckedChangesAreKept == Spec => []AckedIsKept
<1>1. IInv => AckedIsKept
  BY DEF IInv
<1> QED BY <1>1, Invariant, PTL

(* When a deletion is through, no response from before it is cached.        *)
THEOREM DeletionDropsCache == Spec => []CacheDropped
<1>1. IInv => CacheDropped
  BY DEF IInv, CacheOK, Scanned, CacheDropped
<1> QED BY <1>1, Invariant, PTL

(* The caller of an agent that leaves is told of a lost change.             *)
THEOREM AgentErrorsReachCaller == Spec => []AgentErrorsSurface
<1>1. IInv => AgentErrorsSurface
  BY DEF IInv, RequestsOK, RequestOK, AgentOK, Waits, AgentErrorsSurface
<1> QED BY <1>1, Invariant, PTL

(* A hard deletion that is under way, or through, is on record, and once it  *)
(* has deleted the rows they stay away, unless a restoration undid it.       *)
PurgeOK ==
  restore.undone \/
    /\ purged => tombstone = "hard" /\ rows = {}
    /\ \A c \in Callers :
         /\ deletion[c].hard => tombstone = "hard"
         /\ deletion[c].pc = "purged" => deletion[c].hard /\ rows = {}

(* The steps of deletions keep it. *)
LEMMA DeletionKeepsPurge ==
  ASSUME IInv, PurgeOK, NEW c \in Callers, DeleteDoc(c)
  PROVE  PurgeOK'
<1>1. deletion \in [Callers -> Deletions] /\ Types
  BY Parts
<1>2. CASE StoreTombstone(c)
  <2> DEFINE t == StoredTombstone(c \in Operators)
  <2> DEFINE d == [NoDeletion EXCEPT !.pc = "clearing", !.hard = (t = "hard"),
                     !.todo = (IF t = "hard" THEN {"clear"} ELSE {"announce"}) \union {"scan"}]
  <2>1. /\ tombstone' = t /\ deletion' = [deletion EXCEPT ![c] = d]
        /\ restore' = [restore EXCEPT !.raced = (restore.pc = "checked" /\ t = "hard")]
        /\ UNCHANGED <<purged, rows>> /\ (tombstone = "hard" => t = "hard")
    BY <1>2 DEF StoreTombstone, StoredTombstone
  <2>2. d.pc = "clearing" /\ d.hard = (t = "hard")
    BY DEF NoDeletion
  <2> HIDE DEF t, d
  <2>3. restore'.undone = restore.undone
    BY <1>1, <2>1 DEF Types, Restores
  <2>4. deletion'[c] = d /\ \A x \in Callers : x # c => deletion'[x] = deletion[x]
    BY <1>1, <2>1
  <2> QED BY <2>1, <2>2, <2>3, <2>4 DEF PurgeOK
<1>3. CASE ~StoreTombstone(c)
  <2>1. UNCHANGED <<tombstone, restore>> /\ rows' \in {rows, {}}
    BY <1>3 DEF DeleteDoc, ClearMessages, Announce, ScanCache, DropResponses, SoftDeleted, Purge,
       StorePurged, BranchFails, DeletionFails, docVars
  <2>2. purged' = purged \/ (deletion[c].pc = "purged" /\ purged' = (tombstone # "none"))
    BY <1>3 DEF DeleteDoc, ClearMessages, Announce, ScanCache, DropResponses, SoftDeleted, Purge,
       StorePurged, BranchFails, DeletionFails, docVars
  <2>3. /\ \A x \in Callers : x # c => deletion'[x] = deletion[x]
        /\ deletion'[c].hard => deletion[c].hard
        /\ deletion'[c].pc = "purged" => deletion'[c].hard /\ rows' = {}
    <3>1. CASE ClearMessages(c) \/ Announce(c) \/ DropResponses(c)
      <4>1. \E step, next : next \in SUBSET {"announce"} /\ Step(c, step, next)
        BY <3>1 DEF ClearMessages, Announce, DropResponses
      <4> QED BY <4>1, StepFields
    <3>2. CASE ScanCache(c)
      <4>1. deletion[c].pc # "purged"
        BY <3>2 DEF ScanCache, IInv, Erasure
      <4> QED BY <1>1, <3>2, <4>1 DEF ScanCache, Deletions
    <3>3. CASE Purge(c)
      BY <1>1, <3>3 DEF Purge, Deletions
    <3>4. CASE SoftDeleted(c) \/ StorePurged(c)
      BY <1>1, <3>4 DEF SoftDeleted, StorePurged, NoDeletion
    <3>5. CASE BranchFails(c) \/ DeletionFails(c)
      BY <1>1, <3>5, FailedStep DEF Called
    <3> QED BY <1>3, <3>1, <3>2, <3>3, <3>4, <3>5 DEF DeleteDoc
  <2> QED BY <2>1, <2>2, <2>3 DEF PurgeOK
<1> QED BY <1>2, <1>3

(* Only compaction adds rows, and a tombstone that is hard keeps it from    *)
(* that; only a restoration drops a tombstone.                              *)
LEMMA PurgeStep == IInv /\ PurgeOK /\ [Next]_vars => PurgeOK'
<1> SUFFICES ASSUME IInv, PurgeOK, [Next]_vars PROVE PurgeOK'
  OBVIOUS
<1>1. CASE UNCHANGED <<tombstone, purged, rows, deletion, restore>>
  BY <1>1 DEF PurgeOK
<1>2. ASSUME NEW r \in Requests, Client(r) \/ AgentChanges(r) \/ Redis(r) PROVE PurgeOK'
  BY <1>1, <1>2 DEF Client, Arrive, Upload, Abort, AgentChanges, Redis, StoreResponse, ForwardLands,
     docVars
<1>3. ASSUME NEW r \in Requests, Progress(r) PROVE PurgeOK'
  BY <1>1, <1>3 DEF Progress, Authenticated, ReadBody, AnswerError, HandlerFails, GetYdoc, ReadForWrite,
     Computed, ReadForAwareness, Write, LookUp, ReadForCache, ComputedForCache, ReadForAgent,
     AgentReturns, AgentLeaves, docVars
<1>4. ASSUME NEW c \in Callers, DeleteDoc(c) PROVE PurgeOK'
  BY <1>4, DeletionKeepsPurge
<1>5. CASE ReadTombstone
  <2>1. restore'.undone = restore.undone
    BY <1>5 DEF ReadTombstone, IInv, Types, Restores
  <2> QED BY <1>5, <2>1 DEF ReadTombstone, docVars, PurgeOK
<1>6. CASE DropTombstone
  <2>1. /\ restore'.undone = (restore.undone \/ tombstone = "hard")
        /\ purged' = FALSE /\ UNCHANGED <<rows, deletion>>
    BY <1>6 DEF DropTombstone, NoRestore
  <2> QED BY <2>1 DEF PurgeOK
<1>7. CASE Compact
  <2>1. /\ tombstone = "hard" => UNCHANGED rows
        /\ UNCHANGED <<tombstone, purged, deletion, restore>>
    BY <1>7 DEF Compact, Persists
  <2> QED BY <2>1 DEF PurgeOK
<1>8. CASE Expire \/ UNCHANGED vars
  BY <1>1, <1>8 DEF Expire, vars, docVars
<1> QED BY <1>2, <1>3, <1>4, <1>5, <1>6, <1>7, <1>8 DEF Next, RestoreDoc

(* What is marked as purged was deleted for good and has no rows.           *)
THEOREM PurgedDocumentsAreErased == Spec => []PurgedIsErased
<1>1. Init => PurgeOK
  BY DEF Init, PurgeOK, NoDeletion, NoRestore
<1>2. PurgeOK => PurgedIsErased
  BY DEF PurgeOK, PurgedIsErased
<1> QED BY <1>1, <1>2, Invariant, PurgeStep, PTL DEF Spec

(* A hard deletion stays hard: a second call keeps the flag, a restoration  *)
(* is refused, and one that has read the tombstone before is marked.        *)
THEOREM HardDeletionIsFinal == Spec => HardIsFinal
<1>1. IInv /\ [Next]_vars => [tombstone = "hard" => tombstone' = "hard" \/ restore.raced]_vars
  <2> SUFFICES ASSUME IInv, Next, tombstone = "hard"
               PROVE  tombstone' = "hard" \/ restore.raced
    OBVIOUS
  <2>1. CASE DropTombstone
    BY <2>1 DEF DropTombstone, IInv, Erasure
  <2>2. ASSUME NEW c \in Callers, StoreTombstone(c) PROVE tombstone' = "hard"
    BY <2>2 DEF StoreTombstone, StoredTombstone
  <2>3. ASSUME NEW r \in Requests, Client(r) \/ AgentChanges(r) \/ Redis(r)
        PROVE  UNCHANGED tombstone
    BY <2>3 DEF Client, Arrive, Upload, Abort, AgentChanges, Redis, StoreResponse, ForwardLands, docVars
  <2>4. ASSUME NEW r \in Requests, Progress(r) PROVE UNCHANGED tombstone
    BY <2>4 DEF Progress, Authenticated, ReadBody, AnswerError, HandlerFails, GetYdoc, ReadForWrite,
       Computed, ReadForAwareness, Write, LookUp, ReadForCache, ComputedForCache, ReadForAgent,
       AgentReturns, AgentLeaves, docVars
  <2>5. ASSUME NEW c \in Callers, DeleteDoc(c), ~StoreTombstone(c) PROVE UNCHANGED tombstone
    BY <2>5 DEF DeleteDoc, ClearMessages, Announce, ScanCache, DropResponses, SoftDeleted, Purge,
       StorePurged, BranchFails, DeletionFails, docVars
  <2>6. ReadTombstone \/ Expire \/ Compact => UNCHANGED tombstone
    BY DEF ReadTombstone, Expire, Compact, docVars
  <2> QED BY <2>1, <2>2, <2>3, <2>4, <2>5, <2>6 DEF Next, RestoreDoc
<1> QED BY <1>1, Invariant, PTL DEF Spec, HardIsFinal

=============================================================================
