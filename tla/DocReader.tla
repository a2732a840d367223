------------------------------ MODULE DocReader ------------------------------
(***************************************************************************)
(* Readers of a room next to the workers of Compaction: YHub.getDoc as a   *)
(* websocket that opens, an endpoint or an agent calls it, without         *)
(* messages fetched before.  The rows are read from postgres and the       *)
(* messages from redis, both requests of one Promise.all, in any order.    *)
(***************************************************************************)
EXTENDS Compaction, Sequences

CONSTANT Readers

VARIABLE reader   \* the read each reader is in the middle of

readerVars == <<vars, reader>>

NoRead == [pc |-> "idle", todo |-> {}, base |-> {}, stored |-> {}, clock |-> 0,
           messages |-> {}, last |-> 0, order |-> <<>>]

ReaderInit == Init /\ reader = [r \in Readers |-> NoRead]

(* base is what was written, and acknowledged to its writer, before the read began. *)
StartRead(r) ==
  /\ reader[r].pc = "idle"
  /\ reader' = [reader EXCEPT ![r] = [NoRead EXCEPT !.pc = "reading", !.base = written,
                                                    !.todo = {"rows", "stream"}]]
  /\ UNCHANGED vars

Answered(r, request) ==
  [reader[r] EXCEPT !.todo = @ \ {request}, !.order = Append(@, request),
                    !.pc = IF reader[r].todo = {request} THEN "done" ELSE "reading"]

ReadRows(r) ==
  /\ reader[r].pc = "reading" /\ "rows" \in reader[r].todo
  /\ \E n \in Times(rows) \union {0} :
       /\ IsLastClock(rows, n)
       /\ reader' = [reader EXCEPT ![r] =
                      [Answered(r, "rows") EXCEPT !.stored = Content(rows), !.clock = n]]
  /\ UNCHANGED vars

ReadMessages(r) ==
  /\ reader[r].pc = "reading" /\ "stream" \in reader[r].todo
  /\ \E n \in log \union {0} :
       /\ IsLastEntry(log, n)
       /\ reader' = [reader EXCEPT ![r] =
                      [Answered(r, "stream") EXCEPT !.messages = log \intersect written, !.last = n]]
  /\ UNCHANGED vars

(* A slip: messages are compared with the clock the read returns. *)
ResultPastLastClock(x) ==
  x.stored \union {m \in x.messages : m > MaxOf(x.clock, x.last)}

(* The document that getDoc returns. *)
Result(x) == x.stored \union {m \in x.messages : m > x.clock}

(* The document is sent, or the read failed. *)
EndRead(r) ==
  /\ reader[r].pc # "idle"
  /\ reader' = [reader EXCEPT ![r] = NoRead]
  /\ UNCHANGED vars

Read(r) == StartRead(r) \/ ReadRows(r) \/ ReadMessages(r) \/ EndRead(r)

ReaderNext == (Next /\ UNCHANGED reader) \/ \E r \in Readers : Read(r)

ReaderSpec == ReaderInit /\ [][ReaderNext]_readerVars

(* See FairSpec of Compaction. *)
ReaderFairSpec ==
  ReaderSpec /\ \A w \in Workers : WF_readerVars(Run(w) /\ UNCHANGED reader)

-----------------------------------------------------------------------------
ReaderTypeOK ==
  reader \in [Readers -> [pc : {"idle", "reading", "done"}, todo : SUBSET {"rows", "stream"},
                          base : SUBSET Clocks, stored : SUBSET Clocks, clock : Clocks,
                          messages : SUBSET Clocks, last : Clocks,
                          order : {<<>>, <<"rows">>, <<"stream">>, <<"rows", "stream">>,
                                   <<"stream", "rows">>}]]

Done(r) == reader[r].pc = "done" /\ ~Hard

(* A read whose stream request is served before its row request misses      *)
(* nothing, whatever the workers store, delete and trim around it.  With    *)
(* the rows first an update can be stored and trimmed between the two, and  *)
(* "we send the full initial state at the beginning" (server.js:467) does   *)
(* not hold.  The reader has its type.                                      *)
StreamFirstComplete ==
  ReaderTypeOK /\ \A r \in Readers : Done(r) /\ reader[r].order[1] = "stream" =>
    reader[r].base \subseteq Result(reader[r])

(* Whatever a read misses has been stored and trimmed in between, so that a *)
(* client which reads again gets it.                                        *)
MissedIsPersisted ==
  \A r \in Readers : Done(r) =>
    reader[r].base \ Result(reader[r]) \subseteq Content(rows) \ log
=============================================================================
