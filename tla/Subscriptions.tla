--------------------------- MODULE Subscriptions ---------------------------
(***************************************************************************)
(* One yhub server: its websocket connections (the upgrade, open, message  *)
(* and close handlers of src/src/server.js), the subscription loop that    *)
(* reads the streams of all its rooms (src/src/stream.js), and the         *)
(* directives that disconnect clients: YHub.deleteDoc and YHub.recheckAuth *)
(* of src/src/index.js.  The other servers, the api and the workers appear *)
(* as writes to a stream, rows that are stored and entries that are        *)
(* trimmed.                                                                *)
(*                                                                         *)
(* Each synchronous stretch of the server between two awaits is one        *)
(* action; each redis command and each query is one too.                   *)
(*                                                                         *)
(* A redis clock is <<milliseconds, sequence>>, compared as the code does. *)
(* The sequence starts again with every millisecond, and also when the key *)
(* is deleted or renamed.                                                  *)
(*                                                                         *)
(* Abstractions.  An update is the number of its write; it keeps it when   *)
(* unquarantine writes it again.  All quarantine keys of a room are one    *)
(* set (RoomStream has them apart).  Awareness is left out: an awareness   *)
(* message, also the one a closed connection leaves behind, is one of the  *)
(* writes of ApiWrite.  A user that connects again is a new connection.    *)
(* The bounds are MaxTime, MaxWrites and ReadCount.                        *)
(***************************************************************************)
EXTENDS Integers, FiniteSets

CONSTANTS
  Rooms,
  Users,             \* one connection each, at a time
  RoomOf,            \* the room each user connects to
  Operations,        \* which of delete, recheck, quarantine, trim may happen
  ReadCount,         \* the COUNT of the blocking XREAD, 5000 in the code
  MaxTime,           \* bounds the milliseconds that pass
  MaxWrites          \* bounds the messages ever written

ASSUME RoomOfAssumption == RoomOf \in [Users -> Rooms]
ASSUME BoundsAssumption == MaxTime \in Nat \ {0} /\ MaxWrites \in Nat /\ ReadCount \in Nat \ {0}

VARIABLES
  now,          \* the clock of redis, in milliseconds
  live,         \* the entries under the stream key of each room
  lastId,       \* the last id of that key, Zero when there is no key
  quarantined,  \* the entries in quarantine keys of each room
  written,      \* messages written so far
  rows,         \* the updates persisted for each room
  rowClock,     \* the clock of the newest row of each room
  deleted,      \* the tombstone of each room: none, a soft or a hard one
  deleting,     \* what deleteDoc does next, for each room
  kick,         \* the write that announced the deletion of each room, 0 before
  access,       \* what the auth plugin answers for each user
  unannounced,  \* users whose access changed without a recheckAuth since
  conn,         \* the WSUser of each user
  got,          \* the updates that were sent to that connection
  subs,         \* Stream.subs
  subUpdates,   \* Stream.subUpdates
  loop          \* where _runSub is, and what the last read returned

redisVars == <<now, live, lastId, quarantined, written>>
roomVars == <<rows, rowClock, deleted, deleting, kick>>
authVars == <<access, unannounced>>
serverVars == <<conn, got, subs, subUpdates, loop>>
vars == <<redisVars, roomVars, authVars, serverVars>>

-----------------------------------------------------------------------------
(* Clocks. *)

Zero == <<0, 0>>
IsSmaller(a, b) ==
  \/ a[1] < b[1]
  \/ a[1] = b[1] /\ a[2] < b[2]
MaxClock(a, b) == IF IsSmaller(a, b) THEN b ELSE a
MinClock(a, b) == IF IsSmaller(a, b) THEN a ELSE b
LastClock(es) == IF es = {} THEN Zero
                 ELSE (CHOOSE e \in es : \A f \in es : ~IsSmaller(e.id, f.id)).id
NextId(r) == IF lastId[r][1] = now THEN <<now, lastId[r][2] + 1>> ELSE <<now, 0>>

(* Messages: an update, a permission re-check, a forced disconnect or the    *)
(* announcement of a deletion; nop is the marker that quarantine leaves.     *)
(* again marks what unquarantine has written a second time.                  *)
Kinds == {"update", "check", "kick", "tombstone", "nop"}
Message(kind, us) == [n |-> written + 1, kind |-> kind, users |-> us, again |-> FALSE]
At(m, id) == [n |-> m.n, kind |-> m.kind, users |-> m.users, again |-> m.again, id |-> id]
Updates(es) == {e.n : e \in {f \in es : f.kind = "update"}}
ChecksFor(u, es) == {e \in es : e.kind \in {"check", "kick"} /\ u \in e.users}

Add(r, kind, us) ==
  /\ written < MaxWrites
  /\ live' = [live EXCEPT ![r] = @ \union {At(Message(kind, us), NextId(r))}]
  /\ lastId' = [lastId EXCEPT ![r] = NextId(r)]
  /\ written' = written + 1
  /\ UNCHANGED <<now, quarantined>>

-----------------------------------------------------------------------------
(* Connections and subscriptions. *)

(* A WSUser: write is hasWriteAccess, tombstone and stream are what getDoc   *)
(* has read so far, clock is lastReceivedClock, asking are the re-checks     *)
(* that wait for the auth plugin, revoked says that one was answered and     *)
(* ends the connection.                                                      *)
NewConnection ==
  [pc |-> "new", write |-> FALSE, tombstone |-> "unread", stream |-> "unread",
   clock |-> Zero, asking |-> {}, revoked |-> FALSE]
Closed == [NewConnection EXCEPT !.pc = "closed"]
NoSub == [clock |-> Zero, users |-> {}]
NoResult == [r \in Rooms |-> {}]

Init ==
  /\ now = 1 /\ written = 0
  /\ live = NoResult /\ quarantined = NoResult
  /\ lastId = [r \in Rooms |-> Zero]
  /\ rows = NoResult /\ rowClock = [r \in Rooms |-> Zero]
  /\ deleted = [r \in Rooms |-> "no"]
  /\ deleting = [r \in Rooms |-> "idle"]
  /\ kick = [r \in Rooms |-> 0]
  /\ access = [u \in Users |-> "rw"] /\ unannounced = {}
  /\ conn = [u \in Users |-> NewConnection]
  /\ got = [u \in Users |-> {}]
  /\ subs = [r \in Rooms |-> NoSub] /\ subUpdates = [r \in Rooms |-> NoSub]
  /\ loop = [pc |-> "unconnected", result |-> NoResult]

(* unsubscribe: a room without subscribers is removed from the map. *)
Without(s, us) ==
  [r \in Rooms |-> IF s[r].users \subseteq us THEN NoSub
                   ELSE [s[r] EXCEPT !.users = @ \ us]]

(* A slip: unsubscribe forgets who is not merged yet. *)
UnsubscribeMerged(us) ==
  /\ subs' = Without(subs, us)
  /\ UNCHANGED subUpdates

Unsubscribe(us) ==
  /\ subs' = Without(subs, us)
  /\ subUpdates' = Without(subUpdates, us)

(* close and destroy of one WSUser. *)
Close(u) ==
  /\ conn' = [conn EXCEPT ![u] = Closed]
  /\ got' = [got EXCEPT ![u] = {}]
  /\ Unsubscribe({u})
  /\ UNCHANGED loop

IsOpen(u) == conn[u].pc \notin {"new", "closed"}
Mismatch(u) == access[u] = "none" \/ (access[u] = "rw") # conn[u].write

(* A slip: a room that is being read keeps its clock. *)
MergedKeepingClock(s, su) ==
  [r \in Rooms |->
     IF s[r].users = {} THEN su[r]
     ELSE [clock |-> s[r].clock, users |-> s[r].users \union su[r].users]]

(* The top of the loop of _runSub: merge subUpdates into subs and read on,   *)
(* or end without subscribers.                                               *)
Merged(s, su) ==
  [r \in Rooms |->
     IF su[r].users = {} THEN s[r]
     ELSE IF s[r].users = {} THEN su[r]
     ELSE [clock |-> MinClock(su[r].clock, s[r].clock), users |-> s[r].users \union su[r].users]]
ReadOn(s, su) ==
  LET all == Merged(s, su)
      read == {r \in Rooms : all[r].users # {}}
  IN /\ subs' = all
     /\ subUpdates' = [r \in Rooms |-> NoSub]
     /\ loop' = [result |-> NoResult,
                 pc |-> IF read = {} THEN "off" ELSE "reading"]

(* subscribe: the room keeps the older of the two clocks. *)
WithSubscriber(u, clock) ==
  [subUpdates EXCEPT ![RoomOf[u]] =
     [clock |-> IF @.users = {} THEN clock ELSE MinClock(@.clock, clock),
      users |-> @.users \union {u}]]
(* A slip: only the first subscriber starts the loop. *)
SubscribeOnce(u, clock) ==
  /\ subUpdates' = WithSubscriber(u, clock)
  /\ loop' = [loop EXCEPT !.pc = IF @ = "unconnected" THEN "connecting" ELSE @]
  /\ UNCHANGED subs

(* subscribe starts the loop unless it runs. *)
Subscribe(u, clock) ==
  IF loop.pc = "off" THEN ReadOn(subs, WithSubscriber(u, clock))
  ELSE /\ subUpdates' = WithSubscriber(u, clock)
       /\ loop' = [loop EXCEPT !.pc = IF @ = "unconnected" THEN "connecting" ELSE @]
       /\ UNCHANGED subs

-----------------------------------------------------------------------------
(* The handlers of a websocket. *)

(* upgrade: refused without read access. *)
Upgrade(u) ==
  /\ conn[u].pc = "new" /\ access[u] # "none"
  /\ conn' = [conn EXCEPT ![u].pc = "opening", ![u].write = (access[u] = "rw")]
  /\ UNCHANGED <<redisVars, roomVars, authVars, got, subs, subUpdates, loop>>

(* open: getDoc reads postgres and redis in either order.  (Updates of the   *)
(* stream that are not after the row are in the row, see Compaction.)        *)
ReadRows(u) ==
  LET r == RoomOf[u]
  IN /\ conn[u].pc = "opening" /\ conn[u].tombstone = "unread"
     /\ conn' = [conn EXCEPT ![u].tombstone = IF deleted[r] = "no" THEN "none" ELSE "found",
                             ![u].clock = MaxClock(rowClock[r], @)]
     /\ got' = [got EXCEPT ![u] = @ \union rows[r]]
     /\ UNCHANGED <<redisVars, roomVars, authVars, subs, subUpdates, loop>>

ReadStream(u) ==
  LET es == live[RoomOf[u]]
  IN /\ conn[u].pc = "opening" /\ conn[u].stream = "unread"
     /\ conn' = [conn EXCEPT ![u].stream = IF ChecksFor(u, es) = {} THEN "plain" ELSE "checks",
                             ![u].clock = MaxClock(@, LastClock(es))]
     /\ got' = [got EXCEPT ![u] = @ \union Updates(es)]
     /\ UNCHANGED <<redisVars, roomVars, authVars, subs, subUpdates, loop>>

(* The rest of open: send the initial state and subscribe.  It is taken to   *)
(* fit the backpressure limit of the socket, which is new and empty.         *)
Sync(u) ==
  /\ conn' = [conn EXCEPT ![u].pc = "synced"]
  /\ UNCHANGED got
  /\ Subscribe(u, conn[u].clock)

(* open, after getDoc and computeStateVector. *)
Opened(u) ==
  /\ conn[u].pc = "opening" /\ conn[u].tombstone # "unread" /\ conn[u].stream # "unread"
  /\ \/ conn[u].tombstone = "found" /\ Close(u)
     \/ /\ conn[u].tombstone = "none" /\ conn[u].stream = "checks"
        /\ conn' = [conn EXCEPT ![u].pc = "checking"]
        /\ UNCHANGED <<got, subs, subUpdates, loop>>
     \/ conn[u].tombstone = "none" /\ conn[u].stream = "plain" /\ Sync(u)
  /\ UNCHANGED <<redisVars, roomVars, authVars>>

(* The auth plugin answers the re-check of open, or fails. *)
OpenChecked(u) ==
  /\ conn[u].pc = "checking"
  /\ \E verdict \in {"keep", "close"} :
       /\ verdict = "keep" => ~Mismatch(u)
       /\ conn' = [conn EXCEPT ![u].pc = "checked", ![u].revoked = (verdict = "close")]
  /\ UNCHANGED <<redisVars, roomVars, authVars, got, subs, subUpdates, loop>>
OpenAfterCheck(u) ==
  /\ conn[u].pc = "checked"
  /\ IF conn[u].revoked THEN Close(u) ELSE Sync(u)
  /\ UNCHANGED <<redisVars, roomVars, authVars>>

(* message: an update of a client with write access goes to the stream. *)
ClientMessage(u) ==
  /\ IsOpen(u) /\ conn[u].write
  /\ Add(RoomOf[u], "update", {})
  /\ UNCHANGED <<roomVars, authVars, serverVars>>

(* close: the client goes away; so does every connection that fails. *)
ClientCloses(u) ==
  /\ IsOpen(u)
  /\ Close(u)
  /\ UNCHANGED <<redisVars, roomVars, authVars>>
Reconnect(u) ==
  /\ conn[u].pc = "closed"
  /\ conn' = [conn EXCEPT ![u] = NewConnection]
  /\ UNCHANGED <<redisVars, roomVars, authVars, got, subs, subUpdates, loop>>

(* A slip: losing write access is no reason to disconnect. *)
AuthAnswersRead(u) ==
  /\ \E n \in conn[u].asking, verdict \in {"keep", "close"} :
       /\ verdict = "keep" => access[u] # "none"
       /\ conn' = [conn EXCEPT ![u].asking = @ \ {n},
                               ![u].revoked = @ \/ verdict = "close"]
  /\ UNCHANGED <<redisVars, roomVars, authVars, got, subs, subUpdates, loop>>

(* recheckAuth: the plugin answers one of the re-checks, or fails; the       *)
(* connection is closed when the answer arrives.                             *)
AuthAnswers(u) ==
  /\ \E n \in conn[u].asking, verdict \in {"keep", "close"} :
       /\ verdict = "keep" => ~Mismatch(u)
       /\ conn' = [conn EXCEPT ![u].asking = @ \ {n},
                               ![u].revoked = @ \/ verdict = "close"]
  /\ UNCHANGED <<redisVars, roomVars, authVars, got, subs, subUpdates, loop>>
Revoke(u) ==
  /\ conn[u].pc = "synced" /\ conn[u].revoked
  /\ Close(u)
  /\ UNCHANGED <<redisVars, roomVars, authVars>>

-----------------------------------------------------------------------------
(* The subscription loop. *)

(* The connection for subscriptions is made, or the wait after an error ends. *)
LoopStarts ==
  /\ loop.pc \in {"connecting", "waiting"}
  /\ ReadOn(subs, subUpdates)
  /\ UNCHANGED <<redisVars, roomVars, authVars, conn, got>>

(* XREAD: of each room at most ReadCount entries after its clock, or nothing *)
(* after 200 ms.                                                             *)
After(r, clock) == {e \in live[r] : IsSmaller(clock, e.id)}
Oldest(k, es) == {e \in es : Cardinality({f \in es : IsSmaller(f.id, e.id)}) < k}
RedisAnswers ==
  /\ loop.pc = "reading"
  /\ loop' = [pc |-> "answered",
              result |-> [r \in Rooms |-> IF subs[r].users = {} THEN {}
                                          ELSE Oldest(ReadCount, After(r, subs[r].clock))]]
  /\ UNCHANGED <<redisVars, roomVars, authVars, conn, got, subs, subUpdates>>
ReadFails ==
  /\ loop.pc = "reading"
  /\ loop' = [loop EXCEPT !.pc = "waiting"]
  /\ UNCHANGED <<redisVars, roomVars, authVars, conn, got, subs, subUpdates>>

(* A slip: everybody gets what was read for the one with the oldest clock. *)
FilteredByRoom(u) ==
  IF u \notin subs[RoomOf[u]].users THEN {}
  ELSE {e \in loop.result[RoomOf[u]] : e.kind # "nop"}

(* What a subscriber is given of a read, and which messages disconnect it. *)
Filtered(u) ==
  IF u \notin subs[RoomOf[u]].users THEN {}
  ELSE {e \in loop.result[RoomOf[u]] : e.kind # "nop" /\ IsSmaller(conn[u].clock, e.id)}
Disconnects(u, e) == e.kind = "tombstone" \/ (e.kind = "kick" /\ u \in e.users)

(* A slip: what a delivery asks for takes the place of what is asked.        *)
ReceivedInstead(u) ==
  [conn[u] EXCEPT !.clock = LastClock(loop.result[RoomOf[u]]),
                  !.asking = {e.n : e \in {f \in Filtered(u) : f.kind = "check" /\ u \in f.users}}]

(* onStreamMessage of every subscriber, and the next turn of the loop.  The  *)
(* sends to the users in dropped exceed the backpressure limit.              *)
Received(u) ==
  [conn[u] EXCEPT !.clock = LastClock(loop.result[RoomOf[u]]),
                  !.asking = @ \union {e.n : e \in {f \in Filtered(u) : f.kind = "check" /\ u \in f.users}}]
Leaving(dropped) ==
  {u \in Users : \/ \E e \in Filtered(u) : Disconnects(u, e)
                 \/ u \in dropped /\ Updates(Filtered(u)) # {}}
Advanced ==
  [r \in Rooms |-> IF loop.result[r] = {} \/ subs[r].users = {} THEN subs[r]
                   ELSE [subs[r] EXCEPT !.clock = LastClock(loop.result[r])]]
Deliver ==
  /\ loop.pc = "answered"
  /\ \E dropped \in SUBSET {u \in Users : Updates(Filtered(u)) # {}} :
       LET leaving == Leaving(dropped)
       IN /\ conn' = [u \in Users |-> IF u \in leaving THEN Closed
                                      ELSE IF Filtered(u) = {} THEN conn[u]
                                      ELSE Received(u)]
          /\ got' = [u \in Users |-> IF u \in leaving THEN {}
                                     ELSE got[u] \union Updates(Filtered(u))]
          /\ ReadOn(Without(Advanced, leaving), Without(subUpdates, leaving))
  /\ UNCHANGED <<redisVars, roomVars, authVars>>

-----------------------------------------------------------------------------
(* The rest of the system. *)

Tick ==
  /\ now < MaxTime
  /\ now' = now + 1
  /\ UNCHANGED <<live, lastId, quarantined, written, roomVars, authVars, serverVars>>

(* Another server, the api or an agent writes; also an awareness message. *)
ApiWrite(r) ==
  /\ Add(r, "update", {})
  /\ UNCHANGED <<roomVars, authVars, serverVars>>

(* An assumption: a key goes away in a later millisecond than that of its    *)
(* last entry.  Within one millisecond the ids would start again below what  *)
(* subscribers have seen, and they would miss the next entries.              *)
MayReset(r) == lastId[r][1] < now

(* A worker stores everything on the stream, unless the room has been        *)
(* hard-deleted ...                                                          *)
Compact(r) ==
  /\ "trim" \in Operations /\ live[r] # {} /\ deleted[r] # "hard"
  /\ rows' = [rows EXCEPT ![r] = @ \union Updates(live[r])]
  /\ rowClock' = [rowClock EXCEPT ![r] = MaxClock(LastClock(live[r]), @)]
  /\ UNCHANGED <<redisVars, deleted, deleting, kick, authVars, serverVars>>

(* ... and trims what is persisted and older than minMessageLifetime, which  *)
(* is taken to be longer than it takes to open a connection and to read what *)
(* was written: an assumption about every room that is not hard-deleted.     *)
Outlived(r, e) ==
  /\ e.id[1] < now
  /\ \A u \in Users : RoomOf[u] = r =>
       /\ IsOpen(u) /\ conn[u].stream # "unread" => ~IsSmaller(conn[u].clock, e.id)
       /\ u \in subs[r].users => ~IsSmaller(subs[r].clock, e.id)
(* The script deletes a key without entries. *)
IdAfterTrim(r, trimmed) == IF trimmed = live[r] THEN Zero ELSE lastId[r]
Trim(r) ==
  LET trimmed == {e \in live[r] : Outlived(r, e) /\ ~IsSmaller(rowClock[r], e.id)}
  IN /\ "trim" \in Operations /\ lastId[r] # Zero
     /\ trimmed # {} \/ live[r] = {}
     /\ trimmed = live[r] => MayReset(r)
     /\ live' = [live EXCEPT ![r] = @ \ trimmed]
     /\ lastId' = [lastId EXCEPT ![r] = IdAfterTrim(r, trimmed)]
     /\ UNCHANGED <<now, quarantined, written, roomVars, authVars, serverVars>>

(* A worker that found the room hard-deleted trims whatever it has read from *)
(* the stream, with no minimum lifetime: no subscriber need have got it.     *)
Drain(r) ==
  \E upTo \in {e.id : e \in live[r]} \union {Zero} :
    LET trimmed == {e \in live[r] : e.id[1] < now /\ ~IsSmaller(upTo, e.id)}
    IN /\ "delete" \in Operations /\ deleted[r] = "hard" /\ lastId[r] # Zero
       /\ trimmed # {} \/ live[r] = {}
       /\ trimmed = live[r] => MayReset(r)
       /\ live' = [live EXCEPT ![r] = @ \ trimmed]
       /\ lastId' = [lastId EXCEPT ![r] = IdAfterTrim(r, trimmed)]
       /\ UNCHANGED <<now, quarantined, written, roomVars, authVars, serverVars>>

(* quarantine, and unquarantine, which drops the permission re-checks. *)
Quarantine(r) ==
  /\ "quarantine" \in Operations /\ lastId[r] # Zero /\ MayReset(r)
  /\ quarantined' = [quarantined EXCEPT ![r] = @ \union {e \in live[r] : e.kind # "nop"}]
  /\ live' = [live EXCEPT ![r] = {At([Message("nop", {}) EXCEPT !.n = 0], <<now, 0>>)}]
  /\ lastId' = [lastId EXCEPT ![r] = <<now, 0>>]
  /\ UNCHANGED <<now, written, roomVars, authVars, serverVars>>
Unquarantine(r) ==
  LET es == {e \in quarantined[r] : e.kind \notin {"check", "kick"}}
      first == NextId(r)
      Rank(e) == Cardinality({f \in es : f.n < e.n})
      Id(e) == <<first[1], first[2] + Rank(e)>>
  IN /\ quarantined[r] # {}
     /\ live' = [live EXCEPT ![r] = @ \union {At([e EXCEPT !.again = TRUE], Id(e)) : e \in es}]
     /\ lastId' = [lastId EXCEPT ![r] = IF es = {} THEN @ ELSE <<first[1], first[2] + Cardinality(es) - 1>>]
     /\ quarantined' = [quarantined EXCEPT ![r] = {}]
     /\ UNCHANGED <<now, written, roomVars, authVars, serverVars>>

(* deleteDoc: storeTombstone, and a hard tombstone stays hard; then a hard   *)
(* deletion clears the stream, or fails to; then the kick, which may fail    *)
(* too; then a hard one drops the quarantine keys that it finds.  (The rows  *)
(* it erases as well are read by nobody who is not refused.)  A repeated     *)
(* call is another one.                                                      *)
StoreTombstone(r) ==
  /\ "delete" \in Operations /\ deleting[r] = "idle"
  /\ \E kind \in {"soft", "hard"} :
       /\ deleted[r] = "hard" => kind = "hard"
       /\ deleted' = [deleted EXCEPT ![r] = kind]
       /\ deleting' = [deleting EXCEPT ![r] = IF kind = "hard" THEN "clear" ELSE "announce"]
  /\ UNCHANGED <<redisVars, rows, rowClock, kick, authVars, serverVars>>

(* A slip: DEL, where the code has XTRIM. *)
DeleteMessages(r) ==
  /\ deleting[r] = "clear"
  /\ live' = [live EXCEPT ![r] = {}]
  /\ lastId' = [lastId EXCEPT ![r] = Zero]
  /\ deleting' = [deleting EXCEPT ![r] = "announce, purge"]
  /\ kick' = [kick EXCEPT ![r] = 0]
  /\ UNCHANGED <<now, quarantined, written, rows, rowClock, deleted, authVars, serverVars>>

ClearMessages(r) ==
  /\ deleting[r] = "clear"
  /\ live' = [live EXCEPT ![r] = {}]
  /\ deleting' = [deleting EXCEPT ![r] = "announce, purge"]
  /\ kick' = [kick EXCEPT ![r] = 0]
  /\ UNCHANGED <<now, lastId, quarantined, written, rows, rowClock, deleted, authVars, serverVars>>
ClearFails(r) ==
  /\ deleting[r] = "clear"
  /\ deleting' = [deleting EXCEPT ![r] = "announce"]
  /\ UNCHANGED <<redisVars, rows, rowClock, deleted, kick, authVars, serverVars>>
AddTombstone(r) ==
  /\ deleting[r] \in {"announce", "announce, purge"}
  /\ Add(r, "tombstone", Users)
  /\ kick' = [kick EXCEPT ![r] = written + 1]
  /\ deleting' = [deleting EXCEPT ![r] = IF @ = "announce" THEN "idle" ELSE "purge"]
  /\ UNCHANGED <<rows, rowClock, deleted, authVars, serverVars>>
DropQuarantined(r) ==
  /\ deleting[r] = "purge"
  /\ \E found \in SUBSET quarantined[r] : quarantined' = [quarantined EXCEPT ![r] = @ \ found]
  /\ deleting' = [deleting EXCEPT ![r] = "idle"]
  /\ UNCHANGED <<now, live, lastId, written, rows, rowClock, deleted, kick, authVars, serverVars>>
DeleteFails(r) ==
  /\ deleting[r] # "idle"
  /\ deleting' = [deleting EXCEPT ![r] = "idle"]
  /\ UNCHANGED <<redisVars, rows, rowClock, deleted, kick, authVars, serverVars>>

(* Access changes in the auth plugin's authority; recheckAuth follows. *)
ChangeAccess(u) ==
  /\ "recheck" \in Operations
  /\ \E a \in {"none", "r", "rw"} \ {access[u]} : access' = [access EXCEPT ![u] = a]
  /\ unannounced' = unannounced \union {u}
  /\ UNCHANGED <<redisVars, roomVars, serverVars>>
RecheckAuth(r) ==
  /\ "recheck" \in Operations
  /\ \E kind \in {"check", "kick"}, us \in {{u} : u \in Users} \union {Users} :
       /\ Add(r, kind, us)
       /\ unannounced' = unannounced \ {u \in us : RoomOf[u] = r}
  /\ UNCHANGED <<roomVars, access, serverVars>>

-----------------------------------------------------------------------------
Handle(u) ==
  \/ Upgrade(u) \/ ReadRows(u) \/ ReadStream(u) \/ Opened(u)
  \/ OpenChecked(u) \/ OpenAfterCheck(u)
  \/ ClientMessage(u) \/ ClientCloses(u) \/ Reconnect(u)
  \/ AuthAnswers(u) \/ Revoke(u)
RunSub == LoopStarts \/ RedisAnswers \/ ReadFails \/ Deliver
Others(r) ==
  \/ ApiWrite(r) \/ Compact(r) \/ Trim(r) \/ Drain(r)
  \/ Quarantine(r) \/ Unquarantine(r)
  \/ StoreTombstone(r) \/ ClearMessages(r) \/ ClearFails(r) \/ AddTombstone(r)
  \/ DropQuarantined(r) \/ DeleteFails(r)
  \/ RecheckAuth(r)

Next ==
  \/ \E u \in Users : Handle(u) \/ ChangeAccess(u)
  \/ RunSub
  \/ \E r \in Rooms : Others(r)
  \/ Tick

Spec == Init /\ [][Next]_vars

(* The loop and the auth plugin go on, and redis does not refuse for ever a  *)
(* command that it could answer.                                             *)
Fairness ==
  /\ WF_vars(RunSub) /\ SF_vars(RedisAnswers)
  /\ \A u \in Users : WF_vars(AuthAnswers(u)) /\ WF_vars(Revoke(u))
FairSpec == Spec /\ Fairness

-----------------------------------------------------------------------------
(* Types. *)

Ids == Nat \X Nat
Entries == [n : 0..MaxWrites, kind : Kinds, users : SUBSET Users, again : BOOLEAN, id : Ids]
Tombstones == {"no", "soft", "hard"}
DeletionSteps == {"idle", "clear", "announce", "announce, purge", "purge"}
IsSubMap(s) == s \in [Rooms -> [clock : Ids, users : SUBSET Users]]
TypeOK ==
  /\ now \in 1..MaxTime /\ written \in 0..MaxWrites
  /\ \A r \in Rooms : live[r] \union quarantined[r] \union loop.result[r] \subseteq Entries
  /\ \A r \in Rooms : lastId[r] \in Nat \X Nat /\ (lastId[r] = Zero => live[r] = {})
  /\ rowClock \in [Rooms -> Ids]
  /\ rows \in [Rooms -> SUBSET (1..MaxWrites)] /\ kick \in [Rooms -> 0..MaxWrites]
  /\ deleted \in [Rooms -> Tombstones] /\ deleting \in [Rooms -> DeletionSteps]
  /\ access \in [Users -> {"none", "r", "rw"}] /\ unannounced \subseteq Users
  /\ conn \in [Users -> [pc : {"new", "opening", "checking", "checked", "synced", "closed"},
                         write : BOOLEAN, tombstone : {"unread", "none", "found"},
                         stream : {"unread", "plain", "checks"}, clock : Ids,
                         asking : SUBSET (1..MaxWrites), revoked : BOOLEAN]]
  /\ got \in [Users -> SUBSET (1..MaxWrites)]
  /\ IsSubMap(subs) /\ IsSubMap(subUpdates)
  /\ loop.pc \in {"unconnected", "connecting", "reading", "answered", "waiting", "off"}

-----------------------------------------------------------------------------
(* Properties.  A subscriber still gets an entry if it is after its clock    *)
(* and after the clock it is read from, or part of a read on its way.        *)

IsSynced(u) == conn[u].pc = "synced"
WillGet(u, e) ==
  LET r == RoomOf[u]
  IN /\ IsSmaller(conn[u].clock, e.id)
     /\ \/ /\ e \in live[r]
           /\ \A s \in {subs[r], subUpdates[r]} : u \in s.users => IsSmaller(s.clock, e.id)
        \/ e \in loop.result[r] /\ u \in subs[r].users
WillGetKick(u) ==
  \E e \in live[RoomOf[u]] \union loop.result[RoomOf[u]] :
    e.n = kick[RoomOf[u]] /\ WillGet(u, e)

(* A connection that has been synced was sent, or will be, every update that *)
(* is on the stream of its room: however subscribers with older and newer    *)
(* clocks come and go while a read of the shared loop is under way, and      *)
(* while the open handler was computing.                                     *)
NothingMissed ==
  \A u \in Users : IsSynced(u) =>
    \A e \in live[RoomOf[u]] : e.kind = "update" => e.n \in got[u] \/ WillGet(u, e)

(* What a read is about to deliver is new to the subscriber and younger than *)
(* all it has, although the loop reads again from the oldest clock whenever  *)
(* somebody subscribes.  Only what unquarantine repeats may be repeated.     *)
DeliversOnceInOrder ==
  \A u \in Users : \A e \in Filtered(u) :
    e.kind = "update" /\ ~e.again => \A n \in got[u] : n < e.n

(* The loop has exactly the connections that are open and synced, each in    *)
(* its own room: destroy and the closes within a delivery leave nobody       *)
(* behind, and the open handler subscribes nobody who left while it waited.  *)
(* The variables have their types.                                           *)
SubscribedIffSynced ==
  TypeOK /\ \A u \in Users, r \in Rooms :
    (u \in subs[r].users \union subUpdates[r].users) <=> (IsSynced(u) /\ r = RoomOf[u])

(* "connected clients are disconnected": a connection that was subscribed    *)
(* when the deletion was announced will be told, unless deleteDoc is at it   *)
(* again, or the message is in quarantine.  Two steps that follow a hard     *)
(* deletion may take it away from somebody who was not told: a worker that   *)
(* drains the room, and the purge of its quarantine keys.                    *)
KickIsPending(u) ==
  \/ WillGetKick(u)
  \/ \E e \in quarantined[RoomOf[u]] : e.n = kick[RoomOf[u]]
IsAnnounced(r) == kick'[r] \notin {0, kick[r]}
KickReaches ==
  [][\A u \in Users :
       /\ IsSynced(u) /\ IsSynced(u)'
       /\ IsAnnounced(RoomOf[u]) \/ (KickIsPending(u) /\ kick'[RoomOf[u]] # 0)
       /\ ~Drain(RoomOf[u]) /\ ~DropQuarantined(RoomOf[u])
       => KickIsPending(u)']_vars

(* The open handler refuses "one whose document was deleted between the      *)
(* upgrade and this initial sync" (server.js:407-409): once deleteDoc has    *)
(* announced its deletion, a connection that is synced is about to be told.  *)
DeletedAreRefused ==
  \A u \in Users :
    IsSynced(u) /\ deleting[RoomOf[u]] = "idle" /\ kick[RoomOf[u]] # 0 => KickIsPending(u)

(* A re-check that will close the connection if its access has changed. *)
IsBeingChecked(u) ==
  \/ conn[u].asking # {} \/ conn[u].revoked
  \/ \E e \in ChecksFor(u, live[RoomOf[u]] \union loop.result[RoomOf[u]]) : WillGet(u, e)

(* A connection whose access is not what it was at the upgrade is on its way *)
(* out once recheckAuth has been called, also when the call falls between    *)
(* the upgrade and the subscription: the window that the comment in the open *)
(* handler says the re-check there covers (server.js:417-420).  (A deletion   *)
(* clears the check away and announces itself instead: KickReaches.)         *)
StaleAccessIsChecked ==
  \A u \in Users : IsSynced(u) /\ Mismatch(u) =>
    u \in unannounced \/ deleted[RoomOf[u]] # "no" \/ IsBeingChecked(u)

(* Nothing falls into the window between the upgrade and the subscription:   *)
(* what the open handler neither refuses nor checks again (server.js:407-420)*)
(* still waits for the connection on the stream.                             *)
OpeningIsCovered == DeletedAreRefused /\ StaleAccessIsChecked

(* A re-check that finds a connection synced is not lost, whoever            *)
(* subscribes, whatever else is delivered, asked or answered: a connection   *)
(* whose access differs from that of its upgrade stays on its way out until  *)
(* it is closed.  Only a hard deletion, a worker that drains the room after  *)
(* it, and a quarantine take a re-check off the stream.                      *)
RecheckReaches ==
  [][\A u \in Users :
       /\ IsSynced(u) /\ IsSynced(u)' /\ Mismatch(u)'
       /\ \/ IsBeingChecked(u)
          \/ ChecksFor(u, live'[RoomOf[u]] \ live[RoomOf[u]]) # {}
       /\ ~ClearMessages(RoomOf[u]) /\ ~Drain(RoomOf[u]) /\ ~Quarantine(RoomOf[u])
       => IsBeingChecked(u)']_vars

(* What is waiting for a connection is delivered, or goes away with the      *)
(* stream, or the connection closes: the loop always runs when it must.      *)
Waiting(u, n) ==
  IsSynced(u) /\ \E e \in live[RoomOf[u]] : e.n = n /\ WillGet(u, e)
CatchesUp == \A u \in Users : \A n \in 1..MaxWrites : []<>~Waiting(u, n)

(* A revoked connection ends: recheckAuth was called after the change, and   *)
(* its message stays on the stream.                                          *)
StaleAccess(u) ==
  IsSynced(u) /\ Mismatch(u) /\ u \notin unannounced /\ deleted[RoomOf[u]] = "no"
RevokedIsDisconnected == \A u \in Users : []<>~StaleAccess(u)
=============================================================================
