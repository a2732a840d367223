------------------------- MODULE SubscriptionsProofs -------------------------
(***************************************************************************)
(* Proofs about Subscriptions, for any number of rooms, connections and    *)
(* messages, and any COUNT of a read.                                      *)
(*                                                                         *)
(* None of the invariants that the runs check is inductive.  Two clocks    *)
(* stand between an entry and a connection: that of the connection, and    *)
(* the one its room is read from in the shared loop.  The invariant (IInv) *)
(* says of the first what the connection has been sent (HasAll), and that  *)
(* nothing is later than what it will be given (HasNoneLater); of the      *)
(* second, that it is not after the first (IsServed).  A read that is      *)
(* under way moves the second to its last entry, so it must have returned  *)
(* all that was before that entry (ResultOK).  Ids only grow, also when a  *)
(* key goes away and comes again (Past), and what was written later has a  *)
(* later id, but for what unquarantine repeats (Sorted).                   *)
(***************************************************************************)
EXTENDS Subscriptions, FiniteSetTheorems, WellFoundedInduction, TLAPS

(* Types; every message has a number; sets of entries are finite.           *)
EntryOK(e) == e \in Entries /\ e.n <= written /\ (e.kind # "nop" => 0 < e.n)
RedisTypes ==
  /\ now \in 1..MaxTime /\ written \in 0..MaxWrites
  /\ live \in [Rooms -> SUBSET Entries] /\ quarantined \in [Rooms -> SUBSET Entries]
  /\ lastId \in [Rooms -> Ids]
  /\ \A r \in Rooms :
       /\ IsFiniteSet(live[r]) /\ IsFiniteSet(quarantined[r])
       /\ \A e \in live[r] \union quarantined[r] : EntryOK(e)
       /\ lastId[r] = Zero => live[r] = {}
RoomTypes ==
  /\ rows \in [Rooms -> SUBSET (1..written)] /\ kick \in [Rooms -> 0..written]
  /\ rowClock \in [Rooms -> Ids]
  /\ deleted \in [Rooms -> Tombstones] /\ deleting \in [Rooms -> DeletionSteps]
Connections ==
  [pc : {"new", "opening", "checking", "checked", "synced", "closed"},
   write : BOOLEAN, tombstone : {"unread", "none", "found"},
   stream : {"unread", "plain", "checks"}, clock : Ids,
   asking : SUBSET (1..written), revoked : BOOLEAN]
UserTypes ==
  /\ access \in [Users -> {"none", "r", "rw"}] /\ unannounced \subseteq Users
  /\ conn \in [Users -> Connections] /\ got \in [Users -> SUBSET (1..written)]
LoopType ==
  [pc : {"unconnected", "connecting", "reading", "answered", "waiting", "off"},
   result : [Rooms -> SUBSET Entries]]
LoopTypes ==
  /\ IsSubMap(subs) /\ IsSubMap(subUpdates) /\ loop \in LoopType
  /\ \A r \in Rooms : IsFiniteSet(loop.result[r]) /\ \A e \in loop.result[r] : EntryOK(e)
Types == RedisTypes /\ RoomTypes /\ UserTypes /\ LoopTypes

(* The next entry is after all clocks that anybody has seen of the room.    *)
IsPast(r, id) == IsSmaller(id, NextId(r))
Past(r) ==
  /\ lastId[r][1] <= now
  /\ \A e \in live[r] \union loop.result[r] : IsPast(r, e.id) /\ 0 < e.id[1]
  /\ IsPast(r, rowClock[r]) /\ IsPast(r, subs[r].clock) /\ IsPast(r, subUpdates[r].clock)
  /\ \A u \in Users : RoomOf[u] = r => IsPast(r, conn[u].clock)

IsFresh(e) == e.kind = "update" /\ ~e.again

(* What was written later has the greater number, but for repetitions.      *)
Sorted(r) ==
  \A e, f \in live[r] \union loop.result[r] :
    IsFresh(e) /\ IsSmaller(f.id, e.id) => f.n < e.n

(* The rows have the updates up to their clock, and no later ones.          *)
RowsOK(r) ==
  \A e \in live[r] :
    IF IsSmaller(rowClock[r], e.id)
    THEN IsFresh(e) => \A n \in rows[r] : n < e.n
    ELSE e.kind = "update" => e.n \in rows[r]

(* What a read leaves on the stream is after all it returns.                *)
ResultOK(r) ==
  /\ loop.pc # "answered" => loop.result[r] = {}
  /\ subs[r].users # {} /\ loop.result[r] # {} =>
       \A e \in live[r] \ loop.result[r] :
         IsSmaller(subs[r].clock, e.id) => \A f \in loop.result[r] : IsSmaller(f.id, e.id)

(* A connection has the updates up to its clock, and none that are later    *)
(* than what it will be given.                                              *)
InOrder(u, e) == IsFresh(e) /\ IsSmaller(conn[u].clock, e.id) => \A n \in got[u] : n < e.n
HasAll(u) ==
  \A e \in live[RoomOf[u]] :
    e.kind = "update" /\ ~IsSmaller(conn[u].clock, e.id) => e.n \in got[u]
HasNoneLater(u) ==
  /\ \A e \in live[RoomOf[u]] : InOrder(u, e)
  /\ u \in subs[RoomOf[u]].users => \A e \in loop.result[RoomOf[u]] : InOrder(u, e)

(* The loop reads from where the connection needs it.                       *)
IsServed(u) ==
  \A e \in live[RoomOf[u]] :
    e.kind # "nop" /\ IsSmaller(conn[u].clock, e.id) =>
      \A s \in {subs[RoomOf[u]], subUpdates[RoomOf[u]]} : u \in s.users => IsSmaller(s.clock, e.id)

Started(u) ==
  /\ ~IsOpen(u) => conn[u].clock = Zero /\ got[u] = {}
  /\ conn[u].pc \in {"checking", "checked", "synced"} => conn[u].stream # "unread"
IsMember(u) ==
  \A r \in Rooms :
    (u \in subs[r].users \union subUpdates[r].users) <=> (IsSynced(u) /\ r = RoomOf[u])

KickOK(r) ==
  /\ \A e \in live[r] \union quarantined[r] \union loop.result[r] :
       e.n = kick[r] /\ kick[r] # 0 => e.kind = "tombstone"
  /\ \A e \in quarantined[r] : e.kind # "nop"

RoomOK(r) == Past(r) /\ Sorted(r) /\ RowsOK(r) /\ ResultOK(r) /\ KickOK(r)
UserOK(u) == HasAll(u) /\ HasNoneLater(u) /\ IsServed(u) /\ Started(u) /\ IsMember(u)

IInv ==
  /\ Types
  /\ \A r \in Rooms : RoomOK(r)
  /\ \A u \in Users : UserOK(u)

-----------------------------------------------------------------------------
(* Clocks *)

(* Clocks are ordered. *)
LEMMA Order ==
  \A a, b, c \in Ids :
    /\ ~IsSmaller(a, a)
    /\ IsSmaller(a, b) /\ IsSmaller(b, c) => IsSmaller(a, c)
    /\ IsSmaller(a, c) => IsSmaller(a, b) \/ IsSmaller(b, c)
BY DEF Ids, IsSmaller

(* The later and the earlier of two clocks. *)
LEMMA MaxMin ==
  \A a, b \in Ids :
    /\ MaxClock(a, b) \in Ids /\ MinClock(a, b) \in Ids
    /\ \A c \in Ids :
         /\ IsSmaller(MaxClock(a, b), c) <=> IsSmaller(a, c) /\ IsSmaller(b, c)
         /\ IsSmaller(MinClock(a, b), c) <=> IsSmaller(a, c) \/ IsSmaller(b, c)
BY Order DEF MaxClock, MinClock

(* The first clock. *)
LEMMA ZeroId ==
  Zero \in Ids /\ \A c \in Ids : 0 < c[1] => IsSmaller(Zero, c)
BY DEF Ids, Zero, IsSmaller

(* A finite set of entries has a last one. *)
LEMMA LastExists ==
  ASSUME NEW S \in SUBSET Entries, IsFiniteSet(S), S # {}
  PROVE  \E e \in S : \A f \in S : ~IsSmaller(e.id, f.id)
<1> DEFINE HasLast(T) == \E e \in T : \A f \in T : ~IsSmaller(e.id, f.id)
           Bad(T) == T \in SUBSET Entries /\ IsFiniteSet(T) /\ T # {} /\ ~HasLast(T)
           R == {p \in Nat \X Nat : p[1] < p[2]}
           Sizes == {i \in Nat : \E T \in SUBSET Entries : Bad(T) /\ Cardinality(T) = i}
<1>1. IsWellFoundedOn(R, Nat)
  BY NatLessThanWellFounded DEF OpToRel
<1>2. SUFFICES ASSUME Bad(S) PROVE FALSE
  OBVIOUS
<1>3. Cardinality(S) \in Nat
  BY FS_CardinalityType
<1>4. Sizes \subseteq Nat /\ Sizes # {}
  BY <1>2, <1>3
<1>5. PICK i \in Sizes : \A j \in Sizes : <<j, i>> \notin R
  <2> HIDE DEF R, Sizes
  <2> QED BY <1>1, <1>4, WFMin
<1>6. PICK T \in SUBSET Entries : Bad(T) /\ Cardinality(T) = i
  BY <1>5
<1>7. PICK x \in T : TRUE
  BY <1>6
<1> DEFINE U == T \ {x}
<1>8. IsFiniteSet(U) /\ Cardinality(U) = i - 1 /\ i \in Nat
  <2>1. IsFiniteSet(T) /\ i \in Nat
    BY <1>5, <1>6
  <2> QED BY <1>6, <1>7, <2>1, FS_RemoveElement
<1>9. i - 1 \in Nat
  BY <1>8, FS_CardinalityType
<1>10. i - 1 \notin Sizes
  <2>1. <<i - 1, i>> \in R
    BY <1>8, <1>9
  <2> HIDE DEF R, Sizes
  <2> QED BY <1>5, <2>1
<1>11. ~Bad(U)
  <2> SUFFICES ASSUME Bad(U) PROVE FALSE
    OBVIOUS
  <2>1. U \in SUBSET Entries
    OBVIOUS
  <2> HIDE DEF Bad, U
  <2>2. i - 1 \in Sizes
    BY <1>8, <1>9, <2>1
  <2> QED BY <1>10, <2>2
<1>12. \A e \in T : e.id \in Ids
  BY DEF Entries
<1>13. CASE U = {}
  <2>1. \A f \in T : f = x
    BY <1>13
  <2> QED BY <1>6, <1>7, <1>12, <2>1, Order
<1>14. CASE U # {}
  <2>1. PICK e \in U : \A f \in U : ~IsSmaller(e.id, f.id)
    BY <1>8, <1>11, <1>14
  <2>2. CASE IsSmaller(e.id, x.id)
    <3>1. \A f \in T : ~IsSmaller(x.id, f.id)
      BY <1>7, <1>12, <2>1, <2>2, Order
    <3> QED BY <1>6, <1>7, <3>1
  <2>3. CASE ~IsSmaller(e.id, x.id)
    BY <1>6, <2>1, <2>3
  <2> QED BY <2>2, <2>3
<1> QED BY <1>13, <1>14

(* LastClock is that of a last one. *)
LEMMA LastClockIs ==
  ASSUME NEW S \in SUBSET Entries, IsFiniteSet(S)
  PROVE  /\ LastClock(S) \in Ids
         /\ S # {} => \E e \in S : LastClock(S) = e.id
         /\ S # {} => \A f \in S : ~IsSmaller(LastClock(S), f.id)
         /\ S # {} => \A c \in Ids : IsSmaller(LastClock(S), c) <=> \A f \in S : IsSmaller(f.id, c)
<1>1. \A e \in S : e.id \in Ids
  BY DEF Entries
<1>2. CASE S = {}
  BY <1>2, ZeroId DEF LastClock
<1>3. CASE S # {}
  <2> DEFINE last == CHOOSE e \in S : \A f \in S : ~IsSmaller(e.id, f.id)
  <2>1. last \in S /\ \A f \in S : ~IsSmaller(last.id, f.id)
    BY <1>3, LastExists
  <2>2. LastClock(S) = last.id
    BY <1>3 DEF LastClock
  <2> HIDE DEF last
  <2> QED BY <1>1, <2>1, <2>2, Order
<1> QED BY <1>2, <1>3

(* What Oldest leaves out is after all it takes. *)
LEMMA OldestIs ==
  ASSUME NEW S \in SUBSET Entries, IsFiniteSet(S), NEW k \in Nat
  PROVE  /\ Oldest(k, S) \in SUBSET S
         /\ \A e \in S \ Oldest(k, S), f \in Oldest(k, S) : IsSmaller(f.id, e.id)
<1>1. Oldest(k, S) \in SUBSET S
  BY DEF Oldest
<1>2. ASSUME NEW e \in S \ Oldest(k, S), NEW f \in Oldest(k, S), ~IsSmaller(f.id, e.id)
      PROVE  FALSE
  <2> DEFINE E == {g \in S : IsSmaller(g.id, e.id)}
             F == {g \in S : IsSmaller(g.id, f.id)}
  <2>1. \A g \in S : g.id \in Ids
    BY DEF Entries
  <2>2. E \subseteq F
    BY <1>1, <1>2, <2>1, Order
  <2>3. IsFiniteSet(F)
    BY FS_Subset
  <2>4. Cardinality(E) <= Cardinality(F) /\ Cardinality(E) \in Nat /\ Cardinality(F) \in Nat
    BY <2>2, <2>3, FS_Subset, FS_CardinalityType
  <2>5. ~(Cardinality(E) < k) /\ Cardinality(F) < k
    BY <1>1, <1>2 DEF Oldest
  <2> QED BY <2>4, <2>5
<1> QED BY <1>1, <1>2

-----------------------------------------------------------------------------
(* Subscriptions *)

(* The map without some users. *)
LEMMA WithoutIs ==
  ASSUME NEW s, IsSubMap(s), NEW us
  PROVE  /\ IsSubMap(Without(s, us))
         /\ \A r \in Rooms :
              /\ Without(s, us)[r].users = s[r].users \ us
              /\ Without(s, us)[r].users # {} => Without(s, us)[r].clock = s[r].clock
              /\ Without(s, us)[r].clock \in {s[r].clock, Zero}
<1> DEFINE w(r) == IF s[r].users \subseteq us THEN NoSub ELSE [s[r] EXCEPT !.users = s[r].users \ us]
<1>1. Without(s, us) = [r \in Rooms |-> w(r)]
  BY DEF Without
<1>2. ASSUME NEW r \in Rooms
      PROVE  /\ w(r) \in [clock : Ids, users : SUBSET Users]
             /\ w(r).users = s[r].users \ us
             /\ w(r).users # {} => w(r).clock = s[r].clock
             /\ w(r).clock \in {s[r].clock, Zero}
  <2>1. s[r] \in [clock : Ids, users : SUBSET Users]
    BY DEF IsSubMap
  <2>2. CASE s[r].users \subseteq us
    BY <2>1, <2>2, ZeroId DEF NoSub
  <2>3. CASE ~(s[r].users \subseteq us)
    BY <2>1, <2>3
  <2> QED BY <2>2, <2>3
<1> HIDE DEF w
<1> QED BY <1>1, <1>2 DEF IsSubMap

(* Both maps in one. *)
LEMMA MergedIs ==
  ASSUME NEW s, IsSubMap(s), NEW su, IsSubMap(su)
  PROVE  /\ IsSubMap(Merged(s, su))
         /\ \A r \in Rooms :
              /\ Merged(s, su)[r].users = s[r].users \union su[r].users
              /\ Merged(s, su)[r].clock \in {s[r].clock, su[r].clock}
              /\ \A c \in Ids :
                   \/ s[r].users # {} /\ IsSmaller(s[r].clock, c)
                   \/ su[r].users # {} /\ IsSmaller(su[r].clock, c)
                   => IsSmaller(Merged(s, su)[r].clock, c)
<1> DEFINE m(r) ==
       IF su[r].users = {} THEN s[r]
       ELSE IF s[r].users = {} THEN su[r]
       ELSE [clock |-> MinClock(su[r].clock, s[r].clock), users |-> s[r].users \union su[r].users]
<1>1. Merged(s, su) = [r \in Rooms |-> m(r)]
  BY DEF Merged
<1>2. ASSUME NEW r \in Rooms
      PROVE  /\ m(r) \in [clock : Ids, users : SUBSET Users]
             /\ m(r).users = s[r].users \union su[r].users
             /\ m(r).clock \in {s[r].clock, su[r].clock}
             /\ \A c \in Ids :
                  \/ s[r].users # {} /\ IsSmaller(s[r].clock, c)
                  \/ su[r].users # {} /\ IsSmaller(su[r].clock, c)
                  => IsSmaller(m(r).clock, c)
  <2>1. s[r] \in [clock : Ids, users : SUBSET Users] /\ su[r] \in [clock : Ids, users : SUBSET Users]
    BY DEF IsSubMap
  <2>2. s[r].clock \in Ids /\ su[r].clock \in Ids
    BY <2>1
  <2>3. MinClock(su[r].clock, s[r].clock) \in {s[r].clock, su[r].clock}
    BY DEF MinClock
  <2> QED BY <2>1, <2>2, <2>3, MaxMin
<1> HIDE DEF m
<1> QED BY <1>1, <1>2 DEF IsSubMap

(* The map with one more subscriber. *)
LEMMA WithSubscriberIs ==
  ASSUME IsSubMap(subUpdates), NEW u \in Users, NEW clock \in Ids
  PROVE  /\ IsSubMap(WithSubscriber(u, clock))
         /\ WithSubscriber(u, clock)[RoomOf[u]].users = subUpdates[RoomOf[u]].users \union {u}
         /\ WithSubscriber(u, clock)[RoomOf[u]].clock \in {clock, subUpdates[RoomOf[u]].clock}
         /\ \A c \in Ids :
              \/ IsSmaller(clock, c)
              \/ subUpdates[RoomOf[u]].users # {} /\ IsSmaller(subUpdates[RoomOf[u]].clock, c)
              => IsSmaller(WithSubscriber(u, clock)[RoomOf[u]].clock, c)
         /\ \A r \in Rooms : r # RoomOf[u] => WithSubscriber(u, clock)[r] = subUpdates[r]
<1> DEFINE q == RoomOf[u]
           old == subUpdates[q]
           new == [clock |-> IF old.users = {} THEN clock ELSE MinClock(old.clock, clock),
                   users |-> old.users \union {u}]
<1>1. q \in Rooms
  BY RoomOfAssumption
<1>2. WithSubscriber(u, clock) = [subUpdates EXCEPT ![q] = new]
  BY DEF WithSubscriber
<1>3. old \in [clock : Ids, users : SUBSET Users]
  BY <1>1 DEF IsSubMap
<1>4. /\ new \in [clock : Ids, users : SUBSET Users] /\ new.users = old.users \union {u}
      /\ new.clock \in {clock, old.clock}
      /\ \A c \in Ids :
           IsSmaller(clock, c) \/ (old.users # {} /\ IsSmaller(old.clock, c)) => IsSmaller(new.clock, c)
  <2>1. MinClock(old.clock, clock) \in {old.clock, clock}
    BY DEF MinClock
  <2> QED BY <1>3, <2>1, MaxMin
<1> HIDE DEF new
<1>5. IsSubMap(WithSubscriber(u, clock))
  BY <1>1, <1>2, <1>4 DEF IsSubMap
<1>6. /\ WithSubscriber(u, clock)[q] = new
      /\ \A r \in Rooms : r # q => WithSubscriber(u, clock)[r] = subUpdates[r]
  BY <1>1, <1>2 DEF IsSubMap
<1> QED BY <1>4, <1>5, <1>6

NoSubs == [r \in Rooms |-> NoSub]

(* A turn of the loop. *)
LEMMA ReadOnIs ==
  ASSUME NEW s, IsSubMap(s), NEW su, IsSubMap(su), ReadOn(s, su)
  PROVE  /\ subs' = Merged(s, su) /\ subUpdates' = NoSubs
         /\ loop' \in LoopType /\ loop'.result = NoResult /\ loop'.pc # "answered"
BY DEF ReadOn, NoSubs, LoopType, NoResult

(* Nobody subscribes. *)
LEMMA NoSubsIs ==
  IsSubMap(NoSubs) /\ \A r \in Rooms : NoSubs[r].users = {} /\ NoSubs[r].clock = Zero
BY ZeroId DEF IsSubMap, NoSubs, NoSub

-----------------------------------------------------------------------------
(* Types *)

(* They are at least those that the runs check. *)
LEMMA TypesAreTypeOK == Types => TypeOK
<1> SUFFICES ASSUME Types PROVE TypeOK
  OBVIOUS
<1>1. written \in 0..MaxWrites /\ 1..written \subseteq 1..MaxWrites /\ 0..written \subseteq 0..MaxWrites
  BY BoundsAssumption DEF Types, RedisTypes
<1>2. /\ now \in 1..MaxTime
      /\ \A r \in Rooms : live[r] \union quarantined[r] \union loop.result[r] \subseteq Entries
      /\ \A r \in Rooms : lastId[r] \in Nat \X Nat /\ (lastId[r] = Zero => live[r] = {})
  BY DEF Types, RedisTypes, LoopTypes, LoopType, Ids
<1>3. /\ rowClock \in [Rooms -> Ids]
      /\ rows \in [Rooms -> SUBSET (1..MaxWrites)] /\ kick \in [Rooms -> 0..MaxWrites]
      /\ deleted \in [Rooms -> Tombstones] /\ deleting \in [Rooms -> DeletionSteps]
  BY <1>1 DEF Types, RoomTypes
<1>4. conn \in [Users -> [pc : {"new", "opening", "checking", "checked", "synced", "closed"},
                         write : BOOLEAN, tombstone : {"unread", "none", "found"},
                         stream : {"unread", "plain", "checks"}, clock : Ids,
                         asking : SUBSET (1..MaxWrites), revoked : BOOLEAN]]
  <2>1. conn \in [Users -> Connections]
    BY DEF Types, UserTypes
  <2>2. Connections \subseteq
          [pc : {"new", "opening", "checking", "checked", "synced", "closed"},
           write : BOOLEAN, tombstone : {"unread", "none", "found"},
           stream : {"unread", "plain", "checks"}, clock : Ids,
           asking : SUBSET (1..MaxWrites), revoked : BOOLEAN]
    BY <1>1 DEF Connections
  <2> QED BY <2>1, <2>2
<1>5. /\ access \in [Users -> {"none", "r", "rw"}] /\ unannounced \subseteq Users
      /\ got \in [Users -> SUBSET (1..MaxWrites)]
  BY <1>1 DEF Types, UserTypes
<1>6. /\ IsSubMap(subs) /\ IsSubMap(subUpdates)
      /\ loop.pc \in {"unconnected", "connecting", "reading", "answered", "waiting", "off"}
  BY DEF Types, LoopTypes, LoopType
<1> QED BY <1>1, <1>2, <1>3, <1>4, <1>5, <1>6 DEF TypeOK

(* The next id is a clock that comes after the last. *)
LEMMA NextIdIs ==
  ASSUME RedisTypes, NEW r \in Rooms
  PROVE  /\ NextId(r) \in Ids /\ NextId(r)[1] = now /\ 0 < NextId(r)[1]
         /\ now \in Nat
BY DEF RedisTypes, NextId, Ids

(* What a new message is. *)
LEMMA NewEntry ==
  ASSUME RedisTypes, NEW kind \in Kinds \ {"nop"}, NEW us \in SUBSET Users, NEW id \in Ids,
         written < MaxWrites
  PROVE  LET e == At(Message(kind, us), id) IN
         /\ e \in Entries /\ e.n = written + 1 /\ e.kind = kind /\ e.users = us
         /\ ~e.again /\ e.id = id
BY BoundsAssumption DEF RedisTypes, Entries, At, Message

(* A write. *)
LEMMA AddIs ==
  ASSUME RedisTypes, NEW r \in Rooms, NEW kind \in Kinds \ {"nop"}, NEW us \in SUBSET Users,
         Add(r, kind, us)
  PROVE  /\ RedisTypes' /\ written' = written + 1 /\ now' = now /\ quarantined' = quarantined
         /\ LET e == At(Message(kind, us), NextId(r)) IN
              /\ live' = [live EXCEPT ![r] = live[r] \union {e}]
              /\ e \in Entries /\ e.n = written + 1 /\ e.kind = kind /\ ~e.again /\ e.id = NextId(r)
         /\ lastId' = [lastId EXCEPT ![r] = NextId(r)]
<1>1. PICK e : e = At(Message(kind, us), NextId(r))
  OBVIOUS
<1>2. NextId(r) \in Ids /\ 0 < NextId(r)[1]
  BY NextIdIs
<1>3. /\ written < MaxWrites /\ written' = written + 1 /\ now' = now /\ quarantined' = quarantined
      /\ live' = [live EXCEPT ![r] = live[r] \union {e}]
      /\ lastId' = [lastId EXCEPT ![r] = NextId(r)]
  BY <1>1 DEF Add
<1>4. e \in Entries /\ e.n = written + 1 /\ e.kind = kind /\ ~e.again /\ e.id = NextId(r)
  BY <1>1, <1>2, <1>3, NewEntry
<1>5. written \in Nat /\ MaxWrites \in Nat
  BY BoundsAssumption DEF RedisTypes
<1>6. \A q \in Rooms : IsFiniteSet(live'[q])
  BY <1>3, FS_AddElement DEF RedisTypes
<1>7. ASSUME NEW q \in Rooms, NEW x \in live'[q] \union quarantined'[q] PROVE EntryOK(x)'
  <2>1. CASE x = e
    BY <1>3, <1>4, <1>5, <2>1 DEF EntryOK
  <2>2. CASE x # e
    <3>1. x \in live[q] \union quarantined[q]
      BY <1>3, <2>2 DEF RedisTypes
    <3>2. x \in Entries /\ x.n <= written /\ (x.kind # "nop" => 0 < x.n) /\ x.n \in Nat
      BY <3>1 DEF RedisTypes, EntryOK, Entries
    <3> QED BY <1>3, <1>5, <3>2 DEF EntryOK
  <2> QED BY <2>1, <2>2
<1>8. \A q \in Rooms : lastId'[q] = Zero => live'[q] = {}
  BY <1>2, <1>3 DEF RedisTypes, Zero
<1>9. RedisTypes'
  BY <1>2, <1>3, <1>4, <1>5, <1>6, <1>7, <1>8 DEF RedisTypes
<1> QED BY <1>1, <1>3, <1>4, <1>9

-----------------------------------------------------------------------------
(* The stream *)

(* What the rest relies on: G is new, the rest of the stream was there, and *)
(* what was past still is.                                                  *)
IsAppended(r, g) ==
  /\ g \in Entries /\ 0 < g.id[1] /\ ~IsPast(r, g.id) /\ IsPast(r, g.id)'
  /\ IsFresh(g) => written < g.n
Appends(G) ==
  \A r \in Rooms :
    /\ live'[r] \subseteq live[r] \union G[r]
    /\ lastId'[r][1] <= now'
    /\ \A id \in Ids : IsPast(r, id) => IsPast(r, id)'
    /\ \A g \in G[r] : IsAppended(r, g) /\ (IsFresh(g) => G[r] = {g})
Streams == RedisTypes /\ \A r \in Rooms : lastId[r][1] <= now /\ KickOK(r) /\ kick[r] <= written

(* The room is as it was, or its next id is later. *)
LEMMA PastStays ==
  ASSUME Streams, NEW r \in Rooms,
         lastId'[r] = lastId[r] /\ (now' = now \/ now' = now + 1)
  PROVE  lastId'[r][1] <= now' /\ \A id \in Ids : IsPast(r, id) => IsPast(r, id)'
BY DEF Streams, RedisTypes, IsPast, NextId, IsSmaller, Ids

(* The key has been removed in a later millisecond than that of its last entry. *)
LEMMA PastReset ==
  ASSUME Streams, NEW r \in Rooms, MayReset(r), now' = now, lastId'[r] = Zero
  PROVE  lastId'[r][1] <= now' /\ \A id \in Ids : IsPast(r, id) => IsPast(r, id)'
BY DEF Streams, RedisTypes, IsPast, NextId, IsSmaller, Ids, MayReset, Zero

(* n + 1 entries have been added. *)
LEMMA PastGrows ==
  ASSUME Streams, NEW r \in Rooms, now' = now, NEW n \in Nat, NEW first, first = NextId(r),
         lastId'[r] = <<first[1], first[2] + n>>
  PROVE  /\ lastId'[r][1] <= now' /\ \A id \in Ids : IsPast(r, id) => IsPast(r, id)'
         /\ \A i \in 0..n :
              /\ <<first[1], first[2] + i>> \in Ids /\ 0 < first[1]
              /\ ~IsPast(r, <<first[1], first[2] + i>>)
              /\ IsPast(r, <<first[1], first[2] + i>>)'
<1>1. now \in Nat /\ 0 < now /\ lastId[r] \in Nat \X Nat /\ lastId[r][1] <= now
  BY DEF Streams, RedisTypes, Ids
<1>2. PICK a \in Nat : first = <<now, a>>
  BY <1>1 DEF NextId
<1>3. NextId(r)' = <<now, a + n + 1>>
  BY <1>1, <1>2 DEF NextId
<1>4. first[1] = now /\ first[2] = a
  BY <1>2
<1>5. \A id \in Ids : IsPast(r, id) => IsPast(r, id)'
  BY <1>1, <1>2, <1>3 DEF IsPast, IsSmaller, Ids
<1>6. ASSUME NEW i \in 0..n
      PROVE  /\ <<now, a + i>> \in Ids /\ ~IsPast(r, <<now, a + i>>) /\ IsPast(r, <<now, a + i>>)'
  BY <1>1, <1>2, <1>3 DEF IsPast, IsSmaller, Ids
<1>7. lastId'[r][1] <= now'
  BY <1>1, <1>4
<1> QED BY <1>1, <1>4, <1>5, <1>6, <1>7

NoEntries == [r \in Rooms |-> {}]

(* Time. *)
LEMMA TickAppends ==
  ASSUME Streams, Tick
  PROVE  RedisTypes' /\ Appends(NoEntries) /\ kick' = kick
<1>0. RedisTypes
  BY DEF Streams
<1>1. /\ now' = now + 1 /\ now < MaxTime /\ live' = live /\ lastId' = lastId
      /\ quarantined' = quarantined /\ written' = written /\ kick' = kick
  BY DEF Tick, roomVars
<1>2. RedisTypes'
  BY <1>0, <1>1, BoundsAssumption DEF RedisTypes, EntryOK
<1>3. Appends(NoEntries)
  BY <1>1, PastStays DEF Appends, NoEntries
<1> QED BY <1>1, <1>2, <1>3

(* A write of any kind. *)
LEMMA AddAppends ==
  ASSUME Streams, NEW r \in Rooms, NEW kind \in Kinds \ {"nop"}, NEW us \in SUBSET Users,
         Add(r, kind, us)
  PROVE  /\ RedisTypes' /\ \E G \in [Rooms -> SUBSET Entries] : Appends(G)
         /\ quarantined' = quarantined /\ written' = written + 1
         /\ \E e \in Entries :
              /\ e.n = written + 1 /\ e.kind = kind /\ e.id = NextId(r) /\ ~IsPast(r, e.id)
              /\ live' = [live EXCEPT ![r] = live[r] \union {e}]
<1>0. RedisTypes
  BY DEF Streams
<1>1. PICK e \in Entries :
        /\ live' = [live EXCEPT ![r] = live[r] \union {e}]
        /\ e.n = written + 1 /\ e.kind = kind /\ e.id = NextId(r)
  BY <1>0, AddIs
<1>2. RedisTypes' /\ written' = written + 1 /\ now' = now /\ quarantined' = quarantined
      /\ lastId' = [lastId EXCEPT ![r] = NextId(r)]
  BY <1>0, AddIs
<1>3. PICK first : first = NextId(r)
  OBVIOUS
<1>4. first \in Ids /\ first = <<first[1], first[2] + 0>> /\ written \in Nat
  BY <1>0, <1>3, NextIdIs DEF Ids, RedisTypes
<1>5. lastId'[r] = <<first[1], first[2] + 0>>
  BY <1>0, <1>2, <1>3, <1>4 DEF RedisTypes
<1> DEFINE G == [q \in Rooms |-> IF q = r THEN {e} ELSE {}]
<1>6. 0 < e.id[1] /\ ~IsPast(r, e.id) /\ IsPast(r, e.id)'
  <2>1. /\ ~IsPast(r, <<first[1], first[2] + 0>>) /\ IsPast(r, <<first[1], first[2] + 0>>)'
        /\ 0 < first[1]
    BY <1>2, <1>3, <1>5, PastGrows
  <2>2. <<first[1], first[2] + 0>> = e.id
    BY <1>1, <1>3, <1>4
  <2>3. PICK id : id = e.id
    OBVIOUS
  <2>4. ~IsPast(r, id) /\ IsPast(r, id)'
    BY <2>1, <2>2, <2>3
  <2> QED BY <1>1, <1>3, <2>1, <2>3, <2>4
<1>7. G \in [Rooms -> SUBSET Entries]
  OBVIOUS
<1>8. Appends(G)
  <2>1. \A q \in Rooms : lastId'[q][1] <= now' /\ \A x \in Ids : IsPast(q, x) => IsPast(q, x)'
    <3>1. lastId'[r][1] <= now' /\ \A x \in Ids : IsPast(r, x) => IsPast(r, x)'
      BY <1>2, <1>3, <1>5, PastGrows
    <3>2. ASSUME NEW q \in Rooms, q # r
          PROVE  lastId'[q][1] <= now' /\ \A x \in Ids : IsPast(q, x) => IsPast(q, x)'
      <4>1. lastId'[q] = lastId[q]
        BY <1>0, <1>2, <3>2 DEF RedisTypes
      <4> QED BY <1>2, <4>1, PastStays
    <3> QED BY <3>1, <3>2
  <2>2. \A q \in Rooms : live'[q] \subseteq live[q] \union G[q]
    BY <1>0, <1>1 DEF RedisTypes
  <2>3. \A q \in Rooms : \A g \in G[q] : q = r /\ g = e /\ G[q] = {g}
    OBVIOUS
  <2>4. IsAppended(r, e)
    BY <1>1, <1>4, <1>6 DEF IsAppended
  <2> HIDE DEF G
  <2> QED BY <2>1, <2>2, <2>3, <2>4 DEF Appends
<1>9. ~IsPast(r, e.id)
  BY <1>6
<1> QED BY <1>1, <1>2, <1>7, <1>8, <1>9

(* A room that has nothing new, and whose next id is not earlier. *)
LEMMA NothingAppended ==
  ASSUME \A r \in Rooms :
           /\ live'[r] \subseteq live[r] /\ lastId'[r][1] <= now'
           /\ \A id \in Ids : IsPast(r, id) => IsPast(r, id)'
  PROVE  Appends(NoEntries)
BY DEF Appends, NoEntries

(* Messages are removed, and the key with the last of them. *)
LEMMA RemovalAppends ==
  ASSUME Streams, NEW r \in Rooms, NEW T \in SUBSET live[r], T = live[r] => MayReset(r),
         live' = [live EXCEPT ![r] = live[r] \ T], lastId' = [lastId EXCEPT ![r] = IdAfterTrim(r, T)],
         now' = now, quarantined' = quarantined, written' = written
  PROVE  RedisTypes' /\ Appends(NoEntries)
<1>0. RedisTypes
  BY DEF Streams
<1>3. lastId'[r] = (IF T = live[r] THEN Zero ELSE lastId[r]) /\ live'[r] = live[r] \ T
  BY <1>0 DEF IdAfterTrim, RedisTypes
<1>4. \A q \in Rooms \ {r} : lastId'[q] = lastId[q] /\ live'[q] = live[q]
  BY <1>0 DEF RedisTypes
<1>5. RedisTypes'
  <2>1. live' \in [Rooms -> SUBSET Entries] /\ lastId' \in [Rooms -> Ids]
    BY <1>0, ZeroId DEF RedisTypes, IdAfterTrim
  <2>2. ASSUME NEW q \in Rooms
        PROVE  /\ live'[q] \subseteq live[q] /\ IsFiniteSet(live'[q])
               /\ lastId'[q] = Zero => live'[q] = {}
    <3>1. live'[q] \subseteq live[q]
      BY <1>3, <1>4
    <3>2. IsFiniteSet(live'[q])
      BY <1>0, <3>1, FS_Subset DEF RedisTypes
    <3> QED BY <1>0, <1>3, <1>4, <3>1, <3>2 DEF RedisTypes
  <2> QED BY <1>0, <2>1, <2>2 DEF RedisTypes, EntryOK
<1>6. \A q \in Rooms : lastId'[q][1] <= now' /\ \A id \in Ids : IsPast(q, id) => IsPast(q, id)'
  BY <1>3, <1>4, PastStays, PastReset
<1> QED BY <1>3, <1>4, <1>5, <1>6, NothingAppended

(* A worker trims, and so it does when it drains the room. *)
LEMMA TrimAppends ==
  ASSUME Streams, NEW r \in Rooms, Trim(r)
  PROVE  RedisTypes' /\ Appends(NoEntries)
<1>1. PICK T : T = {e \in live[r] : Outlived(r, e) /\ ~IsSmaller(rowClock[r], e.id)}
  OBVIOUS
<1>2. /\ T \in SUBSET live[r] /\ (T = live[r] => MayReset(r))
      /\ live' = [live EXCEPT ![r] = live[r] \ T]
      /\ lastId' = [lastId EXCEPT ![r] = IdAfterTrim(r, T)]
      /\ now' = now /\ quarantined' = quarantined /\ written' = written
  BY <1>1 DEF Trim
<1> QED BY <1>2, RemovalAppends
LEMMA DrainAppends ==
  ASSUME Streams, NEW r \in Rooms, Drain(r)
  PROVE  RedisTypes' /\ Appends(NoEntries)
<1>1. PICK T : /\ T \in SUBSET live[r] /\ (T = live[r] => MayReset(r))
               /\ live' = [live EXCEPT ![r] = live[r] \ T]
               /\ lastId' = [lastId EXCEPT ![r] = IdAfterTrim(r, T)]
               /\ now' = now /\ quarantined' = quarantined /\ written' = written
  <2>1. PICK upTo \in {e.id : e \in live[r]} \union {Zero} :
          LET trimmed == {e \in live[r] : e.id[1] < now /\ ~IsSmaller(upTo, e.id)}
          IN /\ trimmed = live[r] => MayReset(r)
             /\ live' = [live EXCEPT ![r] = @ \ trimmed]
             /\ lastId' = [lastId EXCEPT ![r] = IdAfterTrim(r, trimmed)]
             /\ UNCHANGED <<now, quarantined, written>>
    BY DEF Drain
  <2>2. PICK T : T = {e \in live[r] : e.id[1] < now /\ ~IsSmaller(upTo, e.id)}
    OBVIOUS
  <2> QED BY <2>1, <2>2
<1> QED BY <1>1, RemovalAppends

(* The stream is cleared. *)
LEMMA ClearAppends ==
  ASSUME Streams, NEW r \in Rooms, ClearMessages(r)
  PROVE  RedisTypes' /\ Appends(NoEntries)
<1>0. RedisTypes
  BY DEF Streams
<1>1. /\ live' = [live EXCEPT ![r] = {}] /\ now' = now /\ lastId' = lastId
      /\ quarantined' = quarantined /\ written' = written
  BY DEF ClearMessages
<1>2. \A q \in Rooms : live'[q] \in {live[q], {}}
  BY <1>0, <1>1 DEF RedisTypes
<1>3. RedisTypes'
  BY <1>0, <1>1, <1>2, FS_EmptySet DEF RedisTypes, EntryOK
<1>4. \A q \in Rooms : lastId'[q][1] <= now' /\ \A id \in Ids : IsPast(q, id) => IsPast(q, id)'
  BY <1>1, PastStays
<1> QED BY <1>2, <1>3, <1>4, NothingAppended

(* A purge drops messages from quarantine. *)
LEMMA DropAppends ==
  ASSUME Streams, NEW r \in Rooms, DropQuarantined(r)
  PROVE  /\ RedisTypes' /\ Appends(NoEntries)
         /\ \A q \in Rooms : quarantined'[q] \subseteq quarantined[q]
<1>0. RedisTypes
  BY DEF Streams
<1>1. PICK found \in SUBSET quarantined[r] : quarantined' = [quarantined EXCEPT ![r] = @ \ found]
  BY DEF DropQuarantined
<1>2. live' = live /\ now' = now /\ lastId' = lastId /\ written' = written
  BY DEF DropQuarantined
<1>3. \A q \in Rooms : quarantined'[q] \subseteq quarantined[q]
  BY <1>0, <1>1 DEF RedisTypes
<1>4. quarantined' \in [Rooms -> SUBSET Entries]
  BY <1>0, <1>1 DEF RedisTypes
<1>5. \A q \in Rooms : IsFiniteSet(quarantined'[q])
  BY <1>0, <1>3, FS_Subset DEF RedisTypes
<1>6. RedisTypes'
  BY <1>0, <1>2, <1>3, <1>4, <1>5 DEF RedisTypes, EntryOK
<1>7. \A q \in Rooms : lastId'[q][1] <= now' /\ \A id \in Ids : IsPast(q, id) => IsPast(q, id)'
  BY <1>2, PastStays
<1> QED BY <1>2, <1>3, <1>6, <1>7, NothingAppended

(* Nothing happens to the stream. *)
LEMMA QuietAppends ==
  ASSUME Streams, UNCHANGED redisVars
  PROVE  RedisTypes' /\ Appends(NoEntries)
<1>0. RedisTypes
  BY DEF Streams
<1>1. /\ live' = live /\ now' = now /\ lastId' = lastId
      /\ quarantined' = quarantined /\ written' = written
  BY DEF redisVars
<1>2. RedisTypes'
  BY <1>0, <1>1 DEF RedisTypes, EntryOK
<1>3. \A q \in Rooms : lastId'[q][1] <= now' /\ \A id \in Ids : IsPast(q, id) => IsPast(q, id)'
  BY <1>1, PastStays
<1> QED BY <1>1, <1>2, <1>3, NothingAppended

(* The stream is quarantined: a marker takes its place. *)
LEMMA QuarantineAppends ==
  ASSUME Streams, NEW r \in Rooms, Quarantine(r)
  PROVE  /\ RedisTypes' /\ \E G \in [Rooms -> SUBSET Entries] : Appends(G)
         /\ \E e \in Entries : e.kind = "nop" /\ e.n = 0 /\ live' = [live EXCEPT ![r] = {e}]
<1>0. RedisTypes
  BY DEF Streams
<1>1. PICK e : e = At([Message("nop", {}) EXCEPT !.n = 0], <<now, 0>>)
  OBVIOUS
<1>2. /\ live' = [live EXCEPT ![r] = {e}] /\ lastId' = [lastId EXCEPT ![r] = <<now, 0>>]
      /\ quarantined' = [quarantined EXCEPT ![r] = quarantined[r] \union {x \in live[r] : x.kind # "nop"}]
      /\ now' = now /\ written' = written /\ MayReset(r)
  BY <1>1 DEF Quarantine
<1>3. now \in Nat /\ 0 < now /\ written \in Nat /\ MaxWrites \in Nat
  BY <1>0, BoundsAssumption DEF RedisTypes
<1>4. e \in Entries /\ e.n = 0 /\ e.kind = "nop" /\ e.id = <<now, 0>> /\ EntryOK(e)
  BY <1>1, <1>3 DEF At, Message, Entries, Kinds, Ids, EntryOK
<1>5. PICK first : first = NextId(r)
  OBVIOUS
<1>6. first = <<now, 0>>
  BY <1>0, <1>2, <1>3, <1>5 DEF NextId, MayReset, RedisTypes, Ids
<1>7. lastId'[r] = <<first[1], first[2] + 0>> /\ e.id = <<first[1], first[2] + 0>>
  BY <1>0, <1>2, <1>4, <1>6 DEF RedisTypes
<1>8. /\ lastId'[r][1] <= now' /\ \A x \in Ids : IsPast(r, x) => IsPast(r, x)'
      /\ \A i \in 0..0 :
           /\ <<first[1], first[2] + i>> \in Ids /\ 0 < first[1]
           /\ ~IsPast(r, <<first[1], first[2] + i>>)
           /\ IsPast(r, <<first[1], first[2] + i>>)'
  BY <1>2, <1>5, <1>7, PastGrows
<1>9. 0 < e.id[1] /\ ~IsPast(r, e.id) /\ IsPast(r, e.id)'
  <2>1. PICK id : id = e.id
    OBVIOUS
  <2>2. ~IsPast(r, id) /\ IsPast(r, id)' /\ 0 < first[1]
    BY <1>7, <1>8, <2>1
  <2> QED BY <1>4, <1>6, <2>1, <2>2
<1>10. ASSUME NEW q \in Rooms, q # r
       PROVE  /\ live'[q] = live[q] /\ quarantined'[q] = quarantined[q] /\ lastId'[q] = lastId[q]
              /\ lastId'[q][1] <= now' /\ \A x \in Ids : IsPast(q, x) => IsPast(q, x)'
  <2>1. live'[q] = live[q] /\ quarantined'[q] = quarantined[q] /\ lastId'[q] = lastId[q]
    BY <1>0, <1>2, <1>10 DEF RedisTypes
  <2> QED BY <1>2, <2>1, PastStays
<1>11. RedisTypes'
  <2>1. /\ live' \in [Rooms -> SUBSET Entries] /\ lastId' \in [Rooms -> Ids]
        /\ quarantined' \in [Rooms -> SUBSET Entries]
    <3>1. <<now, 0>> \in Ids
      BY <1>3 DEF Ids
    <3> QED BY <1>0, <1>2, <1>4, <3>1 DEF RedisTypes
  <2>2. ASSUME NEW q \in Rooms
        PROVE  /\ IsFiniteSet(live'[q]) /\ IsFiniteSet(quarantined'[q])
               /\ \A x \in live'[q] \union quarantined'[q] : EntryOK(x)
               /\ lastId'[q] = Zero => live'[q] = {}
    <3>1. CASE q = r
      <4> DEFINE moved == {x \in live[r] : x.kind # "nop"}
      <4>1. live'[r] = {e} /\ quarantined'[r] = quarantined[r] \union moved /\ lastId'[r] = <<now, 0>>
        BY <1>0, <1>2 DEF RedisTypes
      <4>2. IsFiniteSet(moved) /\ IsFiniteSet(quarantined[r])
        BY <1>0, FS_Subset DEF RedisTypes
      <4>3. IsFiniteSet(quarantined[r] \union moved) /\ IsFiniteSet({e})
        BY <4>2, FS_Union, FS_Singleton
      <4>4. \A x \in live[r] \union quarantined[r] : EntryOK(x)
        BY <1>0 DEF RedisTypes
      <4>5. <<now, 0>> # Zero
        BY <1>3 DEF Zero
      <4> QED BY <1>4, <3>1, <4>1, <4>3, <4>4, <4>5
    <3>2. CASE q # r
      BY <1>0, <1>10, <3>2 DEF RedisTypes
    <3> QED BY <3>1, <3>2
  <2> QED BY <1>0, <1>2, <2>1, <2>2 DEF RedisTypes, EntryOK
<1> DEFINE G == [q \in Rooms |-> IF q = r THEN {e} ELSE {}]
<1>12. G \in [Rooms -> SUBSET Entries]
  BY <1>4
<1>13. Appends(G)
  <2>1. \A q \in Rooms : live'[q] \subseteq live[q] \union G[q]
    BY <1>0, <1>2, <1>10 DEF RedisTypes
  <2>2. \A q \in Rooms : \A g \in G[q] : q = r /\ g = e /\ G[q] = {g}
    OBVIOUS
  <2>3. IsAppended(r, e)
    BY <1>4, <1>9 DEF IsAppended, IsFresh
  <2>4. \A q \in Rooms : lastId'[q][1] <= now' /\ \A x \in Ids : IsPast(q, x) => IsPast(q, x)'
    BY <1>8, <1>10
  <2> HIDE DEF G
  <2> QED BY <2>1, <2>2, <2>3, <2>4 DEF Appends
<1> QED BY <1>2, <1>4, <1>11, <1>12, <1>13

(* What was in quarantine is added again. *)
LEMMA UnquarantineAppends ==
  ASSUME Streams, NEW r \in Rooms, Unquarantine(r)
  PROVE  /\ RedisTypes'
         /\ \E G \in [Rooms -> SUBSET Entries] :
              /\ Appends(G)
              /\ \A g \in G[r] : \E e \in quarantined[r] : g.n = e.n /\ g.kind = e.kind
              /\ \A e \in quarantined[r] :
                   e.kind \notin {"check", "kick"} => \E g \in G[r] : g.n = e.n /\ g.kind = e.kind
              /\ live' = [live EXCEPT ![r] = live[r] \union G[r]]
              /\ \A q \in Rooms \ {r} : G[q] = {}
         /\ quarantined' = [quarantined EXCEPT ![r] = {}]
<1>0. RedisTypes
  BY DEF Streams
<1>1. PICK first : first = NextId(r)
  OBVIOUS
<1> DEFINE es == {e \in quarantined[r] : e.kind \notin {"check", "kick"}}
           Rank(e) == Cardinality({f \in es : f.n < e.n})
           Id(e) == <<first[1], first[2] + Rank(e)>>
           New(e) == At([e EXCEPT !.again = TRUE], Id(e))
           news == {New(e) : e \in es}
<1>2. /\ live' = [live EXCEPT ![r] = live[r] \union news]
      /\ lastId' = [lastId EXCEPT ![r] = IF es = {} THEN lastId[r]
                                         ELSE <<first[1], first[2] + Cardinality(es) - 1>>]
      /\ quarantined' = [quarantined EXCEPT ![r] = {}]
      /\ now' = now /\ written' = written
  BY <1>1 DEF Unquarantine
<1>3. first \in Nat \X Nat /\ 0 < first[1] /\ first = <<first[1], first[2]>>
  BY <1>0, <1>1, NextIdIs DEF Ids
<1>4. es \in SUBSET Entries /\ IsFiniteSet(es) /\ \A e \in es : EntryOK(e)
  BY <1>0, FS_Subset DEF RedisTypes
<1>5. Cardinality(es) \in Nat
  BY <1>4, FS_CardinalityType
<1>6. ASSUME NEW e \in es PROVE Rank(e) \in 0..(Cardinality(es) - 1)
  <2> DEFINE low == {f \in es : f.n < e.n}
  <2>1. low \subseteq es \ {e}
    BY <1>4 DEF Entries
  <2>2. IsFiniteSet(es \ {e}) /\ Cardinality(es \ {e}) = Cardinality(es) - 1
    BY <1>4, FS_RemoveElement
  <2>3. IsFiniteSet(low) /\ Cardinality(low) <= Cardinality(es) - 1
    BY <2>1, <2>2, FS_Subset
  <2>4. Cardinality(low) \in Nat
    BY <2>3, FS_CardinalityType
  <2> QED BY <1>5, <2>3, <2>4
<1>7. ASSUME NEW e \in es
      PROVE  /\ New(e) \in Entries /\ New(e).n = e.n /\ New(e).kind = e.kind
             /\ New(e).again = TRUE /\ New(e).id = Id(e) /\ EntryOK(New(e))
  <2>1. Id(e) \in Ids
    <3> HIDE DEF Rank, es
    <3>1. Rank(e) \in Nat
      BY <1>5, <1>6
    <3> QED BY <1>3, <3>1 DEF Ids
  <2>2. e \in Entries /\ EntryOK(e)
    BY <1>4
  <2> HIDE DEF Id, es
  <2> QED BY <2>1, <2>2 DEF At, Entries, EntryOK
<1>8. IsFiniteSet(news)
  <2> DEFINE f == [e \in es |-> New(e)]
  <2>1. f \in Surjection(es, news)
    <3> HIDE DEF New, es
    <3> QED BY DEF Surjection
  <2> HIDE DEF f, news, es
  <2> QED BY <1>4, <2>1, FS_Surjection
<1>9. ASSUME NEW q \in Rooms, q # r
      PROVE  live'[q] = live[q] /\ lastId'[q] = lastId[q] /\ quarantined'[q] = quarantined[q]
  <2> HIDE DEF news, es
  <2> QED BY <1>0, <1>2, <1>9 DEF RedisTypes
<1>10. /\ live'[r] = live[r] \union news /\ quarantined'[r] = {}
       /\ lastId'[r] = IF es = {} THEN lastId[r] ELSE <<first[1], first[2] + Cardinality(es) - 1>>
  <2> HIDE DEF news, es
  <2> QED BY <1>0, <1>2 DEF RedisTypes
<1>11. /\ lastId'[r] \in Ids /\ lastId'[r][1] <= now' /\ \A x \in Ids : IsPast(r, x) => IsPast(r, x)'
       /\ es # {} => lastId'[r] # Zero
       /\ \A g \in news : 0 < g.id[1] /\ ~IsPast(r, g.id) /\ IsPast(r, g.id)'
  <2>1. CASE es = {}
    <3>1. lastId'[r] = lastId[r] /\ news = {}
      BY <1>10, <2>1
    <3>2. lastId'[r][1] <= now' /\ \A x \in Ids : IsPast(r, x) => IsPast(r, x)'
      BY <1>2, <3>1, PastStays
    <3> QED BY <1>0, <2>1, <3>1, <3>2 DEF RedisTypes
  <2>2. CASE es # {}
    <3>1. PICK n : n = Cardinality(es) - 1
      OBVIOUS
    <3>2. n \in Nat
      <4>1. PICK e \in es : TRUE
        BY <2>2
      <4>2. Rank(e) \in 0..n
        BY <1>6, <3>1
      <4> HIDE DEF Rank, es
      <4> QED BY <1>5, <3>1, <4>2
    <3>3. lastId'[r] = <<first[1], first[2] + n>>
      <4> HIDE DEF es
      <4> QED BY <1>3, <1>5, <1>10, <2>2, <3>1
    <3>4. /\ lastId'[r][1] <= now' /\ \A x \in Ids : IsPast(r, x) => IsPast(r, x)'
          /\ \A i \in 0..n :
              /\ <<first[1], first[2] + i>> \in Ids /\ 0 < first[1]
              /\ ~IsPast(r, <<first[1], first[2] + i>>)
              /\ IsPast(r, <<first[1], first[2] + i>>)'
      BY <1>1, <1>2, <3>2, <3>3, PastGrows
    <3>5. lastId'[r] \in Ids /\ lastId'[r] # Zero
      BY <1>3, <3>2, <3>3 DEF Ids, Zero
    <3>6. ASSUME NEW g \in news
          PROVE  0 < g.id[1] /\ ~IsPast(r, g.id) /\ IsPast(r, g.id)'
      <4>1. PICK e \in es : g = New(e)
        OBVIOUS
      <4>2. PICK i : i = Rank(e)
        OBVIOUS
      <4>3. i \in 0..n /\ g.id = <<first[1], first[2] + i>>
        BY <1>6, <1>7, <3>1, <4>1, <4>2
      <4>4. PICK id : id = <<first[1], first[2] + i>>
        OBVIOUS
      <4>5. ~IsPast(r, id) /\ IsPast(r, id)' /\ 0 < id[1]
        BY <1>3, <3>4, <4>3, <4>4
      <4> QED BY <4>3, <4>4, <4>5
    <3> HIDE DEF news, es
    <3> QED BY <3>4, <3>5, <3>6
  <2> QED BY <2>1, <2>2
<1>12. news \in SUBSET Entries /\ \A g \in news : EntryOK(g) /\ ~IsFresh(g)
  <2> HIDE DEF New, es
  <2> QED BY <1>7 DEF IsFresh
<1>13. /\ \A g \in news : \E e \in quarantined[r] : g.n = e.n /\ g.kind = e.kind
       /\ \A e \in quarantined[r] :
            e.kind \notin {"check", "kick"} => \E g \in news : g.n = e.n /\ g.kind = e.kind
  <2>1. ASSUME NEW g \in news PROVE \E e \in quarantined[r] : g.n = e.n /\ g.kind = e.kind
    <3>1. PICK e \in es : g = New(e)
      OBVIOUS
    <3>2. e \in quarantined[r] /\ g.n = e.n /\ g.kind = e.kind
      BY <1>7, <3>1
    <3> HIDE DEF New, es, news
    <3> QED BY <3>2
  <2>2. ASSUME NEW e \in quarantined[r], e.kind \notin {"check", "kick"}
        PROVE  \E g \in news : g.n = e.n /\ g.kind = e.kind
    <3>1. e \in es
      BY <2>2
    <3>2. New(e) \in news
      BY <3>1
    <3>3. New(e).n = e.n /\ New(e).kind = e.kind
      BY <1>7, <3>1
    <3> HIDE DEF New, es, news
    <3> QED BY <3>2, <3>3
  <2> HIDE DEF New, es, news
  <2> QED BY <2>1, <2>2
<1>14. RedisTypes'
  <2>1. /\ live' \in [Rooms -> SUBSET Entries] /\ lastId' \in [Rooms -> Ids]
        /\ quarantined' \in [Rooms -> SUBSET Entries]
    <3> HIDE DEF news, es
    <3>1. lastId' \in [Rooms -> Ids]
      <4>1. PICK x : x = lastId'[r]
        OBVIOUS
      <4>2. lastId' = [lastId EXCEPT ![r] = x] /\ x \in Ids
        BY <1>2, <1>10, <1>11, <4>1
      <4> QED BY <1>0, <4>2 DEF RedisTypes
    <3> QED BY <1>0, <1>2, <1>12, <3>1 DEF RedisTypes
  <2>2. ASSUME NEW q \in Rooms
        PROVE  /\ IsFiniteSet(live'[q]) /\ IsFiniteSet(quarantined'[q])
               /\ \A x \in live'[q] \union quarantined'[q] : EntryOK(x)
               /\ lastId'[q] = Zero => live'[q] = {}
    <3>1. CASE q = r
      <4>1. IsFiniteSet(live[r] \union news) /\ IsFiniteSet({})
        <5> HIDE DEF news
        <5> QED BY <1>0, <1>8, FS_Union, FS_EmptySet DEF RedisTypes
      <4>2. es = {} => news = {}
        OBVIOUS
      <4>3. es = {} => lastId'[r] = lastId[r]
        BY <1>10
      <4> HIDE DEF news, es
      <4> QED BY <1>0, <1>10, <1>11, <1>12, <3>1, <4>1, <4>2, <4>3 DEF RedisTypes
    <3>2. CASE q # r
      BY <1>0, <1>9, <3>2 DEF RedisTypes
    <3> QED BY <3>1, <3>2
  <2> QED BY <1>0, <1>2, <2>1, <2>2 DEF RedisTypes, EntryOK
<1> DEFINE G == [q \in Rooms |-> IF q = r THEN news ELSE {}]
<1>15. /\ G \in [Rooms -> SUBSET Entries] /\ G[r] = news
       /\ \A q \in Rooms \ {r} : G[q] = {}
  <2> HIDE DEF news
  <2> QED BY <1>12
<1>16. Appends(G)
  <2> HIDE DEF G, news
  <2>1. \A q \in Rooms : live'[q] \subseteq live[q] \union G[q]
    BY <1>9, <1>10, <1>15
  <2>2. \A g \in news : IsAppended(r, g) /\ ~IsFresh(g)
    BY <1>11, <1>12 DEF IsAppended
  <2>3. ASSUME NEW q \in Rooms
        PROVE  lastId'[q][1] <= now' /\ \A x \in Ids : IsPast(q, x) => IsPast(q, x)'
    <3>1. CASE q = r
      BY <1>11, <3>1
    <3>2. CASE q # r
      BY <1>2, <1>9, <3>2, PastStays
    <3> QED BY <3>1, <3>2
  <2> QED BY <1>15, <2>1, <2>2, <2>3 DEF Appends
<1> HIDE DEF G, news, es
<1>17. live' = [live EXCEPT ![r] = live[r] \union G[r]]
  BY <1>2, <1>15
<1> QED BY <1>2, <1>13, <1>14, <1>15, <1>16, <1>17

-----------------------------------------------------------------------------
(* Steps of the rest of the system *)

(* The invariant gives what the lemmas about the stream ask for. *)
LEMMA HasStreams == IInv => Streams
BY DEF IInv, Types, RoomTypes, RedisTypes, Streams, RoomOK, Past

(* What is appended is after every clock that is past. *)
LEMMA AppendedLast ==
  ASSUME NEW r \in Rooms, NEW g \in Entries, IsAppended(r, g), RedisTypes
  PROVE  \A c \in Ids : IsPast(r, c) => IsSmaller(c, g.id) /\ ~IsSmaller(g.id, c)
<1>1. NextId(r) \in Ids /\ g.id \in Ids
  BY NextIdIs DEF Entries
<1> QED BY <1>1, Order DEF IsAppended, IsPast

(* Types when only the stream has changed. *)
LEMMA StreamTypes ==
  ASSUME Types, RedisTypes', written <= written', UNCHANGED <<rows, rowClock, serverVars>>,
         deleted' \in [Rooms -> Tombstones], deleting' \in [Rooms -> DeletionSteps],
         kick' \in [Rooms -> 0..written'],
         access' \in [Users -> {"none", "r", "rw"}], unannounced' \subseteq Users
  PROVE  Types'
<1>1. /\ rows' = rows /\ rowClock' = rowClock /\ conn' = conn /\ got' = got
      /\ subs' = subs /\ subUpdates' = subUpdates /\ loop' = loop
  BY DEF serverVars
<1>2. written \in Nat /\ written' \in Nat /\ 1..written \subseteq 1..written'
  BY BoundsAssumption DEF Types, RedisTypes
<1>3. RoomTypes'
  <2>1. rows' \in [Rooms -> SUBSET (1..written')]
    BY <1>1, <1>2 DEF Types, RoomTypes
  <2> QED BY <1>1, <2>1 DEF Types, RoomTypes
<1>4. UserTypes'
  <2>1. Connections \subseteq Connections'
    BY <1>2 DEF Connections
  <2>2. got' \in [Users -> SUBSET (1..written')] /\ conn' \in [Users -> Connections']
    BY <1>1, <1>2, <2>1 DEF Types, UserTypes
  <2> QED BY <2>2 DEF UserTypes
<1>5. LoopTypes'
  <2>1. ASSUME NEW e, EntryOK(e) PROVE EntryOK(e)'
    BY <1>2, <2>1 DEF EntryOK, Entries
  <2>2. \A r \in Rooms : \A e \in loop'.result[r] : EntryOK(e)'
    BY <1>1, <2>1 DEF Types, LoopTypes
  <2> QED BY <1>1, <2>2 DEF Types, LoopTypes, LoopType
<1> QED BY <1>3, <1>4, <1>5 DEF Types

(* A change of the streams, and of whatever is not about rows and the server, *)
(* keeps the invariant.                                                      *)
LEMMA StreamStep ==
  ASSUME IInv, NEW G \in [Rooms -> SUBSET Entries], Appends(G),
         Types', written <= written', UNCHANGED <<rows, rowClock, serverVars>>,
         \A r \in Rooms : KickOK(r)'
  PROVE  IInv'
<1>0. /\ rows' = rows /\ rowClock' = rowClock /\ conn' = conn /\ got' = got
      /\ subs' = subs /\ subUpdates' = subUpdates /\ loop' = loop
  BY DEF serverVars
<1>1. Types /\ RedisTypes /\ RoomTypes /\ UserTypes /\ LoopTypes
  BY DEF IInv, Types
<1>2. ASSUME NEW r \in Rooms
      PROVE  /\ live'[r] \subseteq live[r] \union G[r] /\ lastId'[r][1] <= now'
             /\ \A id \in Ids : IsPast(r, id) => IsSmaller(id, NextId(r)')
             /\ \A g \in G[r] :
                  /\ IsSmaller(g.id, NextId(r)') /\ 0 < g.id[1] /\ g \in Entries
                  /\ IsFresh(g) => G[r] = {g} /\ written < g.n
                  /\ \A c \in Ids : IsPast(r, c) => IsSmaller(c, g.id) /\ ~IsSmaller(g.id, c)
  <2>1. \A g \in G[r] : g \in Entries /\ IsAppended(r, g) /\ (IsFresh(g) => G[r] = {g})
    BY DEF Appends
  <2>2. \A g \in G[r] : \A c \in Ids : IsPast(r, c) => IsSmaller(c, g.id) /\ ~IsSmaller(g.id, c)
    BY <1>1, <2>1, AppendedLast
  <2>3. \A g \in G[r] : IsSmaller(g.id, NextId(r)') /\ 0 < g.id[1] /\ (IsFresh(g) => written < g.n)
    BY <2>1 DEF IsAppended, IsPast
  <2>4. \A id \in Ids : IsPast(r, id) => IsSmaller(id, NextId(r)')
    BY DEF Appends, IsPast
  <2> QED BY <2>1, <2>2, <2>3, <2>4 DEF Appends
<1>3. ASSUME NEW r \in Rooms
      PROVE  /\ rowClock[r] \in Ids /\ subs[r].clock \in Ids /\ subUpdates[r].clock \in Ids
             /\ IsPast(r, rowClock[r]) /\ IsPast(r, subs[r].clock) /\ IsPast(r, subUpdates[r].clock)
             /\ \A e \in live[r] \union loop.result[r] :
                  /\ IsPast(r, e.id) /\ 0 < e.id[1] /\ e.id \in Ids
                  /\ e.n <= written /\ e.n \in Nat
             /\ \A n \in rows[r] : n <= written /\ n \in Nat
             /\ \A u \in Users : RoomOf[u] = r => IsPast(r, conn[u].clock)
             /\ written \in Nat
  <2>1. Past(r)
    BY DEF IInv, RoomOK
  <2>2. rowClock[r] \in Ids /\ subs[r].clock \in Ids /\ subUpdates[r].clock \in Ids
    BY <1>1 DEF RoomTypes, LoopTypes, IsSubMap
  <2>3. \A e \in live[r] \union loop.result[r] : e.id \in Ids /\ e.n <= written /\ e.n \in Nat
    BY <1>1 DEF RedisTypes, LoopTypes, EntryOK, Entries
  <2>4. \A n \in rows[r] : n \in 1..written
    BY <1>1 DEF RoomTypes
  <2>5. written \in Nat
    BY <1>1 DEF RedisTypes
  <2> QED BY <2>1, <2>2, <2>3, <2>4, <2>5 DEF Past
<1>4. ASSUME NEW u \in Users
      PROVE  /\ RoomOf[u] \in Rooms /\ conn[u].clock \in Ids /\ IsPast(RoomOf[u], conn[u].clock)
             /\ \A n \in got[u] : n <= written /\ n \in Nat
             /\ UserOK(u)
  <2>1. RoomOf[u] \in Rooms
    BY RoomOfAssumption
  <2>2. conn[u].clock \in Ids /\ \A n \in got[u] : n \in 1..written
    BY <1>1 DEF UserTypes, Connections
  <2>3. written \in Nat
    BY <1>1 DEF RedisTypes
  <2> QED BY <1>3, <2>1, <2>2, <2>3 DEF IInv
<1>5. ASSUME NEW r \in Rooms PROVE RoomOK(r)'
  <2>0. Sorted(r) /\ RowsOK(r) /\ ResultOK(r)
    BY DEF IInv, RoomOK
  <2>1. Past(r)'
    <3>1. \A e \in live'[r] \union loop'.result[r] : IsSmaller(e.id, NextId(r)') /\ 0 < e.id[1]
      BY <1>0, <1>2, <1>3
    <3>2. /\ IsSmaller(rowClock'[r], NextId(r)') /\ IsSmaller(subs'[r].clock, NextId(r)')
          /\ IsSmaller(subUpdates'[r].clock, NextId(r)')
      BY <1>0, <1>2, <1>3
    <3>3. \A u \in Users : RoomOf[u] = r => IsSmaller(conn'[u].clock, NextId(r)')
      BY <1>0, <1>2, <1>3, <1>4
    <3> QED BY <1>2, <3>1, <3>2, <3>3 DEF Past, IsPast
  <2>2. Sorted(r)'
    <3>1. ASSUME NEW e \in live'[r] \union loop'.result[r], NEW f \in live'[r] \union loop'.result[r],
                 IsFresh(e), IsSmaller(f.id, e.id)
          PROVE  f.n < e.n
      <4>1. e \in live[r] \union loop.result[r] \union G[r] /\ f \in live[r] \union loop.result[r] \union G[r]
        BY <1>0, <1>2
      <4>2. CASE e \in live[r] \union loop.result[r] /\ f \in live[r] \union loop.result[r]
        BY <2>0, <3>1, <4>2 DEF Sorted
      <4>3. CASE e \in live[r] \union loop.result[r] /\ f \in G[r]
        BY <1>2, <1>3, <3>1, <4>3
      <4>4. CASE e \in G[r] /\ f \in live[r] \union loop.result[r]
        <5>1. written < e.n /\ f.n <= written /\ f.n \in Nat /\ e.n \in Nat /\ written \in Nat
          BY <1>2, <1>3, <3>1, <4>4 DEF Entries
        <5> QED BY <5>1
      <4>5. CASE e \in G[r] /\ f \in G[r]
        <5>1. e = f /\ e.id \in Ids
          BY <1>2, <3>1, <4>5 DEF Entries
        <5> QED BY <3>1, <5>1, Order
      <4> QED BY <4>1, <4>2, <4>3, <4>4, <4>5
    <3> QED BY <3>1 DEF Sorted, IsFresh
  <2>3. RowsOK(r)'
    <3>1. ASSUME NEW e \in live'[r]
          PROVE  IF IsSmaller(rowClock[r], e.id)
                 THEN IsFresh(e) => \A n \in rows[r] : n < e.n
                 ELSE e.kind = "update" => e.n \in rows[r]
      <4>1. CASE e \in live[r]
        BY <2>0, <4>1 DEF RowsOK
      <4>2. CASE e \in G[r]
        <5>1. IsSmaller(rowClock[r], e.id)
          BY <1>2, <1>3, <4>2
        <5>2. IsFresh(e) => \A n \in rows[r] : n < e.n
          BY <1>2, <1>3, <4>2 DEF Entries
        <5> QED BY <5>1, <5>2
      <4> QED BY <1>2, <4>1, <4>2
    <3> QED BY <1>0, <3>1 DEF RowsOK, IsFresh
  <2>4. ResultOK(r)'
    <3>1. ASSUME NEW e \in live'[r] \ loop.result[r], IsSmaller(subs[r].clock, e.id),
                 subs[r].users # {}, NEW f \in loop.result[r]
          PROVE  IsSmaller(f.id, e.id)
      <4>1. CASE e \in live[r]
        BY <2>0, <3>1, <4>1 DEF ResultOK
      <4>2. CASE e \in G[r]
        BY <1>2, <1>3, <4>2
      <4> QED BY <1>2, <4>1, <4>2
    <3> QED BY <1>0, <2>0, <3>1 DEF ResultOK
  <2> QED BY <2>1, <2>2, <2>3, <2>4 DEF RoomOK
<1>6. ASSUME NEW u \in Users PROVE UserOK(u)'
  <2>0. HasAll(u) /\ HasNoneLater(u) /\ IsServed(u) /\ Started(u) /\ IsMember(u)
    BY <1>4 DEF UserOK
  <2>1. \A e \in live'[RoomOf[u]] : e \in live[RoomOf[u]] \/ e \in G[RoomOf[u]]
    BY <1>2, <1>4
  <2>2. \A e \in G[RoomOf[u]] :
          /\ IsSmaller(conn[u].clock, e.id)
          /\ IsSmaller(subs[RoomOf[u]].clock, e.id) /\ IsSmaller(subUpdates[RoomOf[u]].clock, e.id)
          /\ IsFresh(e) => \A n \in got[u] : n < e.n
    <3> SUFFICES ASSUME NEW e \in G[RoomOf[u]]
                 PROVE  /\ IsSmaller(conn[u].clock, e.id)
                        /\ IsSmaller(subs[RoomOf[u]].clock, e.id) /\ IsSmaller(subUpdates[RoomOf[u]].clock, e.id)
                        /\ IsFresh(e) => \A n \in got[u] : n < e.n
      OBVIOUS
    <3>1. /\ IsSmaller(conn[u].clock, e.id)
          /\ IsSmaller(subs[RoomOf[u]].clock, e.id) /\ IsSmaller(subUpdates[RoomOf[u]].clock, e.id)
      BY <1>2, <1>3, <1>4
    <3>2. e.n \in Nat /\ written \in Nat /\ (IsFresh(e) => written < e.n)
      BY <1>2, <1>3, <1>4 DEF Entries
    <3> QED BY <1>4, <3>1, <3>2
  <2>3. HasAll(u)'
    BY <1>0, <2>0, <2>1, <2>2 DEF HasAll
  <2>4. HasNoneLater(u)'
    <3>1. \A e \in live'[RoomOf[u]] : InOrder(u, e)
      BY <2>0, <2>1, <2>2 DEF HasNoneLater, InOrder
    <3> QED BY <1>0, <2>0, <3>1 DEF HasNoneLater, InOrder, IsFresh
  <2>5. IsServed(u)'
    <3>1. ASSUME NEW e \in live'[RoomOf[u]], e.kind # "nop", IsSmaller(conn[u].clock, e.id),
                 NEW s \in {subs[RoomOf[u]], subUpdates[RoomOf[u]]}, u \in s.users
          PROVE  IsSmaller(s.clock, e.id)
      BY <2>0, <2>1, <2>2, <3>1 DEF IsServed
    <3> QED BY <1>0, <3>1 DEF IsServed
  <2>6. Started(u)' /\ IsMember(u)'
    BY <1>0, <2>0 DEF Started, IsMember, IsOpen, IsSynced
  <2> QED BY <2>3, <2>4, <2>5, <2>6 DEF UserOK
<1> QED BY <1>5, <1>6 DEF IInv

(* The write that announces a deletion stays a tombstone. *)
LEMMA KickStays ==
  ASSUME NEW r \in Rooms, KickOK(r), kick'[r] = kick[r], loop' = loop,
         \A e \in live'[r] \union quarantined'[r] :
           \/ e \in live[r] \union quarantined[r]
           \/ e.n = kick[r] /\ kick[r] # 0 => e.kind = "tombstone",
         \A e \in quarantined'[r] : e \in quarantined[r] \/ e.kind # "nop"
  PROVE  KickOK(r)'
BY DEF KickOK

(* A message that anybody writes. *)
LEMMA AddStep ==
  ASSUME IInv, NEW r \in Rooms, NEW kind \in Kinds \ {"nop"}, NEW us \in SUBSET Users,
         Add(r, kind, us), UNCHANGED <<rows, rowClock, serverVars>>,
         deleted' \in [Rooms -> Tombstones], deleting' \in [Rooms -> DeletionSteps],
         access' \in [Users -> {"none", "r", "rw"}], unannounced' \subseteq Users,
         kick' = kick \/ (kind = "tombstone" /\ kick' = [kick EXCEPT ![r] = written + 1])
  PROVE  IInv'
<1>1. Streams
  BY HasStreams
<1>2. /\ RedisTypes' /\ quarantined' = quarantined /\ written' = written + 1
  BY <1>1, AddAppends
<1>3. PICK G \in [Rooms -> SUBSET Entries] : Appends(G)
  BY <1>1, AddAppends
<1>4. PICK e \in Entries : /\ e.n = written + 1 /\ e.kind = kind
                           /\ live' = [live EXCEPT ![r] = live[r] \union {e}]
  BY <1>1, AddAppends
<1>5. Types /\ RedisTypes /\ written \in Nat
  BY DEF IInv, Types, RedisTypes
<1>6. kick \in [Rooms -> 0..written] /\ loop' = loop
  BY <1>5 DEF Types, RoomTypes, serverVars
<1>7. kick' \in [Rooms -> 0..written']
  BY <1>2, <1>5, <1>6
<1>8. Types'
  BY <1>2, <1>5, <1>7, StreamTypes
<1>9. ASSUME NEW q \in Rooms PROVE KickOK(q)'
  <2>1. KickOK(q) /\ kick[q] <= written /\ kick[q] \in Nat
    BY <1>5, <1>6 DEF IInv, RoomOK
  <2>2. \A f \in live'[q] : f \in live[q] \/ (q = r /\ f = e)
    BY <1>4, <1>5 DEF RedisTypes
  <2>3. CASE kick'[q] = kick[q]
    <3>1. \A f \in live'[q] \union quarantined'[q] :
            f \in live[q] \union quarantined[q] \/ (f.n = kick[q] /\ kick[q] # 0 => f.kind = "tombstone")
      <4>1. e.n # kick[q]
        BY <1>4, <1>5, <2>1
      <4> QED BY <1>2, <2>2, <4>1
    <3> QED BY <1>2, <1>6, <2>1, <2>3, <3>1, KickStays
  <2>4. CASE kick'[q] # kick[q]
    <3>1. q = r /\ kind = "tombstone" /\ kick'[r] = written + 1
      BY <1>6, <2>4
    <3>2. \A f \in live[r] \union quarantined[r] \union loop.result[r] : f.n <= written /\ f.n \in Nat
      BY <1>5 DEF Types, RedisTypes, LoopTypes, EntryOK, Entries
    <3>3. \A f \in live'[r] \union quarantined'[r] \union loop'.result[r] :
            f.n = kick'[r] => f.kind = "tombstone"
      <4> SUFFICES ASSUME NEW f \in live'[r] \union quarantined'[r] \union loop'.result[r],
                          f.n = kick'[r]
                   PROVE  f.kind = "tombstone"
        OBVIOUS
      <4>1. CASE f \in live[r] \union quarantined[r] \union loop.result[r]
        BY <1>5, <3>1, <3>2, <4>1
      <4>2. CASE f = e
        BY <1>4, <3>1, <4>2
      <4> QED BY <1>2, <1>6, <2>2, <3>1, <4>1, <4>2
    <3> QED BY <1>2, <2>1, <3>1, <3>3 DEF KickOK
  <2> QED BY <2>3, <2>4
<1> QED BY <1>2, <1>3, <1>5, <1>8, <1>9, StreamStep

(* Time, trims, quarantine and whatever is not about the stream. *)
LEMMA OtherStep ==
  ASSUME IInv, NEW G \in [Rooms -> SUBSET Entries], Appends(G), RedisTypes', written' = written,
         UNCHANGED <<rows, rowClock, serverVars>>,
         deleted' \in [Rooms -> Tombstones], deleting' \in [Rooms -> DeletionSteps],
         kick' \in [Rooms -> 0..written],
         access' \in [Users -> {"none", "r", "rw"}], unannounced' \subseteq Users,
         \A r \in Rooms : KickOK(r)'
  PROVE  IInv'
<1>1. Types /\ written \in Nat
  BY DEF IInv, Types, RedisTypes
<1>2. Types'
  BY <1>1, StreamTypes
<1> QED BY <1>1, <1>2, StreamStep

(* Those of them that add nothing to the stream. *)
LEMMA QuietStep ==
  ASSUME IInv, Appends(NoEntries), RedisTypes', written' = written, quarantined' = quarantined,
         UNCHANGED <<rows, rowClock, serverVars>>,
         deleted' \in [Rooms -> Tombstones], deleting' \in [Rooms -> DeletionSteps],
         access' \in [Users -> {"none", "r", "rw"}], unannounced' \subseteq Users,
         kick' = kick \/ \E r \in Rooms : kick' = [kick EXCEPT ![r] = 0]
  PROVE  IInv'
<1>1. kick \in [Rooms -> 0..written] /\ loop' = loop /\ written \in Nat
  BY DEF IInv, Types, RoomTypes, RedisTypes, serverVars
<1>2. kick' \in [Rooms -> 0..written]
  BY <1>1
<1>3. ASSUME NEW r \in Rooms PROVE KickOK(r)'
  <2>1. KickOK(r) /\ live'[r] \subseteq live[r]
    BY DEF IInv, RoomOK, Appends, NoEntries
  <2>2. kick'[r] = kick[r] \/ kick'[r] = 0
    BY <1>1
  <2> QED BY <1>1, <2>1, <2>2 DEF KickOK
<1>4. NoEntries \in [Rooms -> SUBSET Entries]
  BY DEF NoEntries
<1> QED BY <1>2, <1>3, <1>4, OtherStep

(* Types of what these steps leave alone. *)
LEMMA TypesOf ==
  ASSUME IInv
  PROVE  /\ deleted \in [Rooms -> Tombstones] /\ deleting \in [Rooms -> DeletionSteps]
         /\ access \in [Users -> {"none", "r", "rw"}] /\ unannounced \subseteq Users
         /\ kick \in [Rooms -> 0..written]
BY DEF IInv, Types, RoomTypes, UserTypes

(* A quarantine. *)
LEMMA QuarantineStep == ASSUME IInv, NEW r \in Rooms, Quarantine(r) PROVE IInv'
<1>1. Streams
  BY HasStreams
<1>2. /\ RedisTypes' /\ written' = written
      /\ quarantined' = [quarantined EXCEPT ![r] = quarantined[r] \union {x \in live[r] : x.kind # "nop"}]
      /\ UNCHANGED <<roomVars, authVars, serverVars>>
  BY <1>1, QuarantineAppends DEF Quarantine
<1>3. PICK G \in [Rooms -> SUBSET Entries] : Appends(G)
  BY <1>1, QuarantineAppends
<1>4. PICK e \in Entries : e.kind = "nop" /\ e.n = 0 /\ live' = [live EXCEPT ![r] = {e}]
  BY <1>1, QuarantineAppends
<1>5. ASSUME NEW q \in Rooms PROVE KickOK(q)'
  <2>1. KickOK(q) /\ kick' = kick /\ loop' = loop
    BY <1>2 DEF IInv, RoomOK, roomVars, serverVars
  <2>2. live \in [Rooms -> SUBSET Entries] /\ quarantined \in [Rooms -> SUBSET Entries]
    BY DEF IInv, Types, RedisTypes
  <2>3. \A f \in live'[q] \union quarantined'[q] : f \in live[q] \union quarantined[q] \/ f = e
    BY <1>2, <1>4, <2>2
  <2>4. \A f \in quarantined'[q] : f \in quarantined[q] \/ f.kind # "nop"
    BY <1>2, <2>2
  <2>5. \A f \in live'[q] \union quarantined'[q] :
          f \in live[q] \union quarantined[q] \/ (f.n = kick[q] /\ kick[q] # 0 => f.kind = "tombstone")
    BY <1>4, <2>3
  <2> QED BY <2>1, <2>4, <2>5, KickStays
<1>6. kick' = kick /\ deleted' = deleted /\ deleting' = deleting /\ access' = access
      /\ unannounced' = unannounced /\ UNCHANGED <<rows, rowClock, serverVars>>
  BY <1>2 DEF roomVars, authVars
<1> QED BY <1>2, <1>3, <1>5, <1>6, TypesOf, OtherStep

(* Its end. *)
LEMMA UnquarantineStep == ASSUME IInv, NEW r \in Rooms, Unquarantine(r) PROVE IInv'
<1>1. Streams
  BY HasStreams
<1>2. /\ RedisTypes' /\ written' = written /\ quarantined' = [quarantined EXCEPT ![r] = {}]
      /\ UNCHANGED <<roomVars, authVars, serverVars>>
  BY <1>1, UnquarantineAppends DEF Unquarantine
<1>3. PICK G \in [Rooms -> SUBSET Entries] :
        /\ Appends(G)
        /\ \A g \in G[r] : \E e \in quarantined[r] : g.n = e.n /\ g.kind = e.kind
        /\ live' = [live EXCEPT ![r] = live[r] \union G[r]]
  BY <1>1, UnquarantineAppends
<1>4. ASSUME NEW q \in Rooms PROVE KickOK(q)'
  <2>1. KickOK(q) /\ kick' = kick /\ loop' = loop
    BY <1>2 DEF IInv, RoomOK, roomVars, serverVars
  <2>2. live \in [Rooms -> SUBSET Entries] /\ quarantined \in [Rooms -> SUBSET Entries]
    BY DEF IInv, Types, RedisTypes
  <2>3. quarantined'[q] \subseteq quarantined[q]
    BY <1>2, <2>2
  <2>4. \A f \in live'[q] : f \in live[q] \/ (q = r /\ f \in G[r])
    BY <1>3, <2>2
  <2>5. \A f \in G[q] : q = r => (f.n = kick[q] /\ kick[q] # 0 => f.kind = "tombstone")
    BY <1>3, <2>1 DEF KickOK
  <2> QED BY <2>1, <2>3, <2>4, <2>5, KickStays
<1>5. kick' = kick /\ deleted' = deleted /\ deleting' = deleting /\ access' = access
      /\ unannounced' = unannounced /\ UNCHANGED <<rows, rowClock, serverVars>>
  BY <1>2 DEF roomVars, authVars
<1> QED BY <1>2, <1>3, <1>4, <1>5, TypesOf, OtherStep

(* A purge. *)
LEMMA DropStep == ASSUME IInv, NEW r \in Rooms, DropQuarantined(r) PROVE IInv'
<1>1. /\ RedisTypes' /\ Appends(NoEntries)
      /\ \A q \in Rooms : quarantined'[q] \subseteq quarantined[q]
  BY HasStreams, DropAppends
<1>2. /\ deleting' = [deleting EXCEPT ![r] = "idle"]
      /\ UNCHANGED <<now, live, lastId, written, rows, rowClock, deleted, kick, authVars, serverVars>>
  BY DEF DropQuarantined
<1>3. ASSUME NEW q \in Rooms PROVE KickOK(q)'
  <2>1. KickOK(q) /\ kick' = kick /\ loop' = loop /\ live' = live
    BY <1>2 DEF IInv, RoomOK, serverVars
  <2> QED BY <1>1, <2>1, KickStays
<1>4. NoEntries \in [Rooms -> SUBSET Entries]
  BY DEF NoEntries
<1>5. deleting' \in [Rooms -> DeletionSteps]
  BY <1>2, TypesOf DEF DeletionSteps
<1>6. deleted' = deleted /\ access' = access /\ unannounced' = unannounced /\ kick' = kick
      /\ written' = written /\ UNCHANGED <<rows, rowClock, serverVars>>
  BY <1>2 DEF authVars
<1> QED BY <1>1, <1>3, <1>4, <1>5, <1>6, TypesOf, OtherStep

(* The other steps, but for Compact. *)
LEMMA OthersStep ==
  ASSUME IInv, NEW r \in Rooms, Others(r), ~Compact(r)
  PROVE  IInv'
<1>1. Streams /\ TRUE
  BY HasStreams
<1> USE TypesOf
<1>2. CASE ApiWrite(r)
  BY <1>2, AddStep DEF ApiWrite, roomVars, authVars, Kinds
<1>3. CASE Trim(r)
  <2>1. RedisTypes' /\ Appends(NoEntries)
    BY <1>1, <1>3, TrimAppends
  <2> QED BY <1>3, <2>1, QuietStep DEF Trim, roomVars, authVars
<1>4. CASE Quarantine(r) \/ Unquarantine(r) \/ DropQuarantined(r)
  BY <1>4, QuarantineStep, UnquarantineStep, DropStep
<1>5. CASE StoreTombstone(r) \/ ClearFails(r) \/ DeleteFails(r)
  <2>1. RedisTypes' /\ Appends(NoEntries)
    BY <1>1, <1>5, QuietAppends DEF StoreTombstone, ClearFails, DeleteFails
  <2>2. UNCHANGED <<redisVars, rows, rowClock, kick, authVars, serverVars>>
    BY <1>5 DEF StoreTombstone, ClearFails, DeleteFails
  <2>3. deleted' \in [Rooms -> Tombstones] /\ deleting' \in [Rooms -> DeletionSteps]
    <3>1. CASE StoreTombstone(r)
      <4>1. PICK kind \in {"soft", "hard"} :
              /\ deleted' = [deleted EXCEPT ![r] = kind]
              /\ deleting' = [deleting EXCEPT ![r] = IF kind = "hard" THEN "clear" ELSE "announce"]
        BY <3>1 DEF StoreTombstone
      <4>2. (IF kind = "hard" THEN "clear" ELSE "announce") \in DeletionSteps /\ kind \in Tombstones
        BY DEF DeletionSteps, Tombstones
      <4> QED BY <4>1, <4>2
    <3>2. CASE ClearFails(r) \/ DeleteFails(r)
      <4>1. deleted' = deleted /\ \E d \in {"announce", "idle"} : deleting' = [deleting EXCEPT ![r] = d]
        BY <3>2 DEF ClearFails, DeleteFails
      <4> QED BY <4>1 DEF DeletionSteps
    <3> QED BY <1>5, <3>1, <3>2
  <2> QED BY <2>1, <2>2, <2>3, QuietStep DEF redisVars, authVars
<1>6. CASE ClearMessages(r)
  <2>1. RedisTypes' /\ Appends(NoEntries)
    BY <1>1, <1>6, ClearAppends
  <2>2. deleting' = [deleting EXCEPT ![r] = "announce, purge"]
    BY <1>6 DEF ClearMessages
  <2>3. deleting' \in [Rooms -> DeletionSteps]
    BY <2>2 DEF DeletionSteps
  <2> QED BY <1>6, <2>1, <2>3, QuietStep DEF ClearMessages, authVars
<1>7. CASE AddTombstone(r)
  <2>1. /\ Add(r, "tombstone", Users) /\ kick' = [kick EXCEPT ![r] = written + 1]
        /\ UNCHANGED <<rows, rowClock, deleted, authVars, serverVars>>
    BY <1>7 DEF AddTombstone
  <2>2. deleting' \in [Rooms -> DeletionSteps]
    <3>1. \E d \in {"idle", "purge"} : deleting' = [deleting EXCEPT ![r] = d]
      BY <1>7 DEF AddTombstone
    <3> QED BY <3>1 DEF DeletionSteps
  <2> QED BY <2>1, <2>2, AddStep DEF authVars, Kinds
<1>8. CASE RecheckAuth(r)
  <2>1. PICK kind \in {"check", "kick"} : \E us \in {{u} : u \in Users} \union {Users} :
          /\ Add(r, kind, us) /\ unannounced' = unannounced \ {u \in us : RoomOf[u] = r}
    BY <1>8 DEF RecheckAuth
  <2>2. PICK us \in {{u} : u \in Users} \union {Users} :
          /\ Add(r, kind, us) /\ unannounced' = unannounced \ {u \in us : RoomOf[u] = r}
    BY <2>1
  <2>3. us \in SUBSET Users /\ unannounced' \subseteq Users /\ UNCHANGED <<roomVars, access, serverVars>>
    BY <1>8, <2>2 DEF RecheckAuth
  <2> QED BY <2>2, <2>3, AddStep DEF roomVars, Kinds
<1>9. CASE Drain(r)
  <2>1. RedisTypes' /\ Appends(NoEntries)
    BY <1>1, <1>9, DrainAppends
  <2>2. UNCHANGED <<now, quarantined, written, roomVars, authVars, serverVars>>
    BY <1>9 DEF Drain
  <2> QED BY <2>1, <2>2, QuietStep DEF roomVars, authVars
<1> QED BY <1>2, <1>3, <1>4, <1>5, <1>6, <1>7, <1>8, <1>9 DEF Others

(* Time passes. *)
LEMMA TickStep == ASSUME IInv, Tick PROVE IInv'
<1>1. RedisTypes' /\ Appends(NoEntries)
  BY HasStreams, TickAppends
<1> QED BY <1>1, TypesOf, QuietStep DEF Tick, roomVars, authVars
(* A message of a client. *)
LEMMA MessageStep == ASSUME IInv, NEW u \in Users, ClientMessage(u) PROVE IInv'
BY TypesOf, AddStep, RoomOfAssumption DEF ClientMessage, roomVars, authVars, Kinds
(* The authority changes what a user may do. *)
LEMMA AccessStep == ASSUME IInv, NEW u \in Users, ChangeAccess(u) PROVE IInv'
<1>1. RedisTypes' /\ Appends(NoEntries)
  BY HasStreams, QuietAppends DEF ChangeAccess
<1>2. /\ UNCHANGED <<redisVars, roomVars, serverVars>>
      /\ access' \in [Users -> {"none", "r", "rw"}] /\ unannounced' \subseteq Users
  BY TypesOf DEF ChangeAccess
<1> QED BY <1>1, <1>2, TypesOf, QuietStep DEF redisVars, roomVars

-----------------------------------------------------------------------------
(* Steps of the server *)

(* Facts about one room. *)
LEMMA RoomFacts ==
  ASSUME IInv, NEW r \in Rooms
  PROVE  /\ rowClock[r] \in Ids /\ subs[r].clock \in Ids /\ subUpdates[r].clock \in Ids
         /\ IsPast(r, rowClock[r]) /\ IsPast(r, subs[r].clock) /\ IsPast(r, subUpdates[r].clock)
         /\ IsPast(r, Zero) /\ NextId(r) \in Ids
         /\ live[r] \in SUBSET Entries /\ IsFiniteSet(live[r])
         /\ loop.result[r] \in SUBSET Entries /\ IsFiniteSet(loop.result[r])
         /\ \A e \in live[r] \union loop.result[r] : IsPast(r, e.id) /\ e.id \in Ids /\ EntryOK(e)
         /\ \A e \in live[r] \union loop.result[r] : e.kind # "nop" => e.n \in 1..written
         /\ rows[r] \in SUBSET (1..written) /\ written \in Nat
<1>1. Types /\ RedisTypes /\ RoomTypes /\ LoopTypes /\ Past(r)
  BY DEF IInv, Types, RoomOK
<1>2. rowClock[r] \in Ids /\ subs[r].clock \in Ids /\ subUpdates[r].clock \in Ids
  BY <1>1 DEF RoomTypes, LoopTypes, IsSubMap
<1>3. NextId(r) \in Ids /\ IsPast(r, Zero)
  BY <1>1, NextIdIs, ZeroId DEF IsPast
<1>4. /\ live[r] \in SUBSET Entries /\ IsFiniteSet(live[r])
      /\ loop.result[r] \in SUBSET Entries /\ IsFiniteSet(loop.result[r])
      /\ \A e \in live[r] \union loop.result[r] : EntryOK(e)
  BY <1>1 DEF RedisTypes, LoopTypes, LoopType
<1>5. \A e \in live[r] \union loop.result[r] : e.id \in Ids
  BY <1>4 DEF Entries
<1>6. written \in Nat /\ rows[r] \in SUBSET (1..written)
  BY <1>1 DEF RedisTypes, RoomTypes
<1>7. \A e \in live[r] \union loop.result[r] : e.kind # "nop" => e.n \in 1..written
  BY <1>4, <1>6 DEF EntryOK, Entries
<1> QED BY <1>1, <1>2, <1>3, <1>4, <1>5, <1>6, <1>7 DEF Past
(* Facts about one connection and its room. *)
LEMMA UserFacts ==
  ASSUME IInv, NEW u \in Users
  PROVE  /\ RoomOf[u] \in Rooms /\ conn[u] \in Connections /\ conn[u].clock \in Ids
         /\ IsPast(RoomOf[u], conn[u].clock) /\ got[u] \in SUBSET (1..written)
         /\ HasAll(u) /\ HasNoneLater(u) /\ IsServed(u) /\ Started(u) /\ IsMember(u)
<1>1. RoomOf[u] \in Rooms
  BY RoomOfAssumption
<1>2. UserTypes /\ Past(RoomOf[u]) /\ UserOK(u)
  BY <1>1 DEF IInv, Types, RoomOK
<1> QED BY <1>1, <1>2 DEF UserTypes, Connections, Past, UserOK

(* All updates of a set of entries. *)
LEMMA UpdatesOf ==
  ASSUME NEW es
  PROVE  /\ \A e \in es : e.kind = "update" => e.n \in Updates(es)
         /\ \A n \in Updates(es) : \E e \in es : e.kind = "update" /\ e.n = n
BY DEF Updates

(* A worker stores what is on the stream. *)
LEMMA CompactStep == ASSUME IInv, NEW r \in Rooms, Compact(r) PROVE IInv'
<1> DEFINE stored == rows[r] \union Updates(live[r])
           clock == MaxClock(LastClock(live[r]), rowClock[r])
<1>1. PICK S : S = stored
  OBVIOUS
<1>2. PICK c : c = clock
  OBVIOUS
<1>3. /\ rows' = [rows EXCEPT ![r] = S] /\ rowClock' = [rowClock EXCEPT ![r] = c] /\ live[r] # {}
      /\ UNCHANGED <<redisVars, deleted, deleting, kick, authVars, serverVars>>
  BY <1>1, <1>2 DEF Compact
<1>4. /\ now' = now /\ live' = live /\ lastId' = lastId /\ quarantined' = quarantined
      /\ written' = written /\ deleted' = deleted /\ deleting' = deleting /\ kick' = kick
      /\ access' = access /\ unannounced' = unannounced /\ conn' = conn /\ got' = got
      /\ subs' = subs /\ subUpdates' = subUpdates /\ loop' = loop
  BY <1>3 DEF redisVars, authVars, serverVars
<1>5. S \in SUBSET (1..written) /\ \A e \in live[r] : e.kind = "update" => e.n \in S
  <2>1. Updates(live[r]) \in SUBSET (1..written)
    BY RoomFacts DEF Updates
  <2> QED BY <1>1, <2>1, RoomFacts, UpdatesOf
<1>6. c \in Ids /\ IsSmaller(c, NextId(r)) /\ \A e \in live[r] : ~IsSmaller(c, e.id)
  <2>1. PICK l : l = LastClock(live[r])
    OBVIOUS
  <2>2. l \in Ids /\ IsSmaller(l, NextId(r)) /\ \A e \in live[r] : ~IsSmaller(l, e.id)
    BY <1>3, <2>1, RoomFacts, LastClockIs DEF IsPast
  <2> QED BY <1>2, <2>1, <2>2, RoomFacts, MaxMin DEF IsPast
<1> HIDE DEF stored, clock
<1>7. Types'
  <2>1. Types
    BY DEF IInv
  <2>2. rows' \in [Rooms -> SUBSET (1..written)] /\ rowClock' \in [Rooms -> Ids]
    BY <1>3, <1>5, <1>6, <2>1 DEF Types, RoomTypes
  <2>3. RoomTypes'
    BY <1>4, <2>1, <2>2 DEF Types, RoomTypes
  <2>4. RedisTypes' /\ LoopTypes' /\ UserTypes'
    BY <1>4, <2>1 DEF Types, RedisTypes, LoopTypes, LoopType, UserTypes, Connections, EntryOK
  <2> QED BY <2>3, <2>4 DEF Types
<1>8. ASSUME NEW q \in Rooms PROVE RoomOK(q)'
  <2>0. Past(q) /\ Sorted(q) /\ RowsOK(q) /\ ResultOK(q) /\ KickOK(q)
    BY DEF IInv, RoomOK
  <2>1. NextId(q)' = NextId(q)
    BY <1>4 DEF NextId
  <2>2. rows \in [Rooms -> SUBSET (1..written)] /\ rowClock \in [Rooms -> Ids]
    BY DEF IInv, Types, RoomTypes
  <2>3. CASE q = r
    <3>1. rows'[q] = S /\ rowClock'[q] = c
      BY <1>3, <2>2, <2>3
    <3>2. Past(q)'
      BY <1>4, <1>6, <2>0, <2>1, <2>3, <3>1 DEF Past, IsPast
    <3>3. RowsOK(q)'
      BY <1>4, <1>5, <1>6, <2>3, <3>1 DEF RowsOK
    <3> QED BY <1>4, <2>0, <3>2, <3>3 DEF RoomOK, Sorted, ResultOK, KickOK, IsFresh
  <2>4. CASE q # r
    <3>1. rows'[q] = rows[q] /\ rowClock'[q] = rowClock[q]
      BY <1>3, <2>2, <2>4
    <3>2. Past(q)'
      BY <1>4, <2>0, <2>1, <3>1 DEF Past, IsPast
    <3> QED BY <1>4, <2>0, <3>1, <3>2 DEF RoomOK, Sorted, RowsOK, ResultOK, KickOK, IsFresh
  <2> QED BY <2>3, <2>4
<1>9. ASSUME NEW u \in Users PROVE UserOK(u)'
  BY <1>4, UserFacts DEF UserOK, HasAll, HasNoneLater, InOrder, IsServed, Started, IsMember,
     IsOpen, IsSynced, IsFresh
<1> QED BY <1>7, <1>8, <1>9 DEF IInv

(* The streams and the rows stay; clocks stay past; reads return what was there. *)
LEMMA ServerStep ==
  ASSUME IInv, UNCHANGED <<redisVars, roomVars, authVars>>, UserTypes', LoopTypes',
         \A r \in Rooms :
           /\ IsSmaller(subs'[r].clock, NextId(r)) /\ IsSmaller(subUpdates'[r].clock, NextId(r))
           /\ loop'.result[r] \subseteq live[r] \union loop.result[r]
           /\ ResultOK(r)',
         \A u \in Users : IsSmaller(conn'[u].clock, NextId(RoomOf[u])) /\ UserOK(u)'
  PROVE  IInv'
<1>1. /\ now' = now /\ live' = live /\ lastId' = lastId /\ quarantined' = quarantined
      /\ written' = written /\ rows' = rows /\ rowClock' = rowClock /\ deleted' = deleted
      /\ deleting' = deleting /\ kick' = kick /\ access' = access /\ unannounced' = unannounced
  BY DEF redisVars, roomVars, authVars
<1>2. Types'
  BY <1>1 DEF IInv, Types, RedisTypes, RoomTypes, EntryOK
<1>3. ASSUME NEW r \in Rooms PROVE RoomOK(r)'
  <2>0. Past(r) /\ Sorted(r) /\ RowsOK(r) /\ KickOK(r)
    BY DEF IInv, RoomOK
  <2>1. NextId(r)' = NextId(r)
    BY <1>1 DEF NextId
  <2>2. \A e \in live'[r] \union loop'.result[r] : e \in live[r] \union loop.result[r]
    BY <1>1
  <2>3. Past(r)'
    BY <1>1, <2>0, <2>1, <2>2 DEF Past, IsPast
  <2>4. Sorted(r)'
    BY <2>0, <2>2 DEF Sorted, IsFresh
  <2>5. RowsOK(r)' /\ KickOK(r)'
    BY <1>1, <2>0, <2>2 DEF RowsOK, KickOK, IsFresh
  <2> QED BY <2>3, <2>4, <2>5 DEF RoomOK
<1> QED BY <1>2, <1>3 DEF IInv

(* A user that the step is not about. *)
LEMMA UserStays ==
  ASSUME IInv, UNCHANGED <<redisVars, roomVars, authVars>>, NEW u \in Users,
         conn'[u] = conn[u], got'[u] = got[u],
         \A r \in Rooms :
           (u \in subs'[r].users \union subUpdates'[r].users)
             <=> (u \in subs[r].users \union subUpdates[r].users),
         u \in subs'[RoomOf[u]].users =>
           \/ loop'.result[RoomOf[u]] = {}
           \/ /\ u \in subs[RoomOf[u]].users
              /\ loop'.result[RoomOf[u]] \subseteq live[RoomOf[u]] \union loop.result[RoomOf[u]],
         \A e \in live[RoomOf[u]] :
           \A s \in {subs'[RoomOf[u]], subUpdates'[RoomOf[u]]} : u \in s.users =>
             \E t \in {subs[RoomOf[u]], subUpdates[RoomOf[u]]} :
               u \in t.users /\ (IsSmaller(t.clock, e.id) => IsSmaller(s.clock, e.id))
  PROVE  UserOK(u)'
<1>1. live' = live
  BY DEF redisVars
<1>2. /\ HasAll(u) /\ HasNoneLater(u) /\ IsServed(u) /\ Started(u) /\ IsMember(u)
  BY UserFacts
<1>3. HasAll(u)' /\ Started(u)' /\ IsMember(u)'
  BY <1>1, <1>2 DEF HasAll, Started, IsMember, IsOpen, IsSynced
<1>4. HasNoneLater(u)'
  BY <1>1, <1>2 DEF HasNoneLater, InOrder, IsFresh
<1>5. IsServed(u)'
  <2>1. ASSUME NEW e \in live[RoomOf[u]], e.kind # "nop", IsSmaller(conn[u].clock, e.id),
               NEW s \in {subs'[RoomOf[u]], subUpdates'[RoomOf[u]]}, u \in s.users
        PROVE  IsSmaller(s.clock, e.id)
    BY <1>2, <2>1 DEF IsServed
  <2> QED BY <1>1, <2>1 DEF IsServed
<1> QED BY <1>3, <1>4, <1>5 DEF UserOK

(* A connection changes, and nothing else. *)
LEMMA UserStep ==
  ASSUME IInv, NEW u \in Users, NEW c \in Connections, NEW g \in SUBSET (1..written),
         conn' = [conn EXCEPT ![u] = c], got' = [got EXCEPT ![u] = g],
         UNCHANGED <<redisVars, roomVars, authVars, subs, subUpdates, loop>>,
         IsPast(RoomOf[u], c.clock), UserOK(u)'
  PROVE  IInv'
<1>1. Types /\ written' = written /\ access' = access /\ unannounced' = unannounced
  BY DEF IInv, redisVars, authVars
<1>2. UserTypes' /\ LoopTypes'
  <2>1. conn' \in [Users -> Connections] /\ got' \in [Users -> SUBSET (1..written)]
    BY <1>1 DEF Types, UserTypes
  <2> QED BY <1>1, <2>1 DEF Types, UserTypes, LoopTypes, LoopType, Connections, EntryOK
<1>3. ASSUME NEW r \in Rooms
      PROVE  /\ IsSmaller(subs'[r].clock, NextId(r)) /\ IsSmaller(subUpdates'[r].clock, NextId(r))
             /\ loop'.result[r] \subseteq live[r] \union loop.result[r]
             /\ ResultOK(r)'
  <2>1. ResultOK(r)
    BY DEF IInv, RoomOK
  <2> QED BY <2>1, RoomFacts DEF IsPast, ResultOK, redisVars
<1>4. ASSUME NEW v \in Users PROVE IsSmaller(conn'[v].clock, NextId(RoomOf[v])) /\ UserOK(v)'
  <2>1. conn \in [Users -> Connections] /\ got \in [Users -> SUBSET (1..written)]
    BY <1>1 DEF Types, UserTypes
  <2>2. CASE v = u
    BY <2>1, <2>2 DEF IsPast
  <2>3. CASE v # u
    <3>1. conn'[v] = conn[v] /\ got'[v] = got[v]
      BY <2>1, <2>3
    <3>2. UserOK(v)'
      <4>1. \A e \in live[RoomOf[v]] :
              \A s \in {subs'[RoomOf[v]], subUpdates'[RoomOf[v]]} : v \in s.users =>
                \E t \in {subs[RoomOf[v]], subUpdates[RoomOf[v]]} :
                  v \in t.users /\ (IsSmaller(t.clock, e.id) => IsSmaller(s.clock, e.id))
        OBVIOUS
      <4> QED BY <3>1, <4>1, UserStays
    <3> QED BY <3>1, <3>2, UserFacts DEF IsPast
  <2> QED BY <2>2, <2>3
<1> QED BY <1>2, <1>3, <1>4, ServerStep

(* The part of the handlers that concerns neither the clock nor what was sent. *)
LEMMA SameClockStep ==
  ASSUME IInv, NEW u \in Users, NEW c \in Connections,
         conn' = [conn EXCEPT ![u] = c], got' = got,
         UNCHANGED <<redisVars, roomVars, authVars, subs, subUpdates, loop>>,
         c.clock = conn[u].clock, c.pc = "synced" <=> conn[u].pc = "synced",
         c.pc \in {"new", "closed"} => conn[u].pc \in {"new", "closed"},
         c.pc \in {"checking", "checked", "synced"} => c.stream # "unread"
  PROVE  IInv'
<1>1. conn \in [Users -> Connections] /\ got \in [Users -> SUBSET (1..written)]
  BY DEF IInv, Types, UserTypes
<1>2. conn'[u] = c /\ got' = [got EXCEPT ![u] = got[u]] /\ live' = live
  BY <1>1 DEF redisVars
<1>3. UserOK(u)'
  BY <1>2, UserFacts DEF UserOK, HasAll, HasNoneLater, InOrder, IsServed, Started, IsMember,
     IsOpen, IsSynced, IsFresh
<1> QED BY <1>1, <1>2, <1>3, UserFacts, UserStep

(* The connection has a type. *)
LEMMA ConnectionIs ==
  ASSUME IInv, NEW u \in Users
  PROVE  /\ conn \in [Users -> Connections] /\ got \in [Users -> SUBSET (1..written)]
         /\ conn[u].tombstone \in {"unread", "none", "found"} /\ conn[u].stream \in {"unread", "plain", "checks"}
         /\ conn[u].write \in BOOLEAN /\ conn[u].revoked \in BOOLEAN
         /\ conn[u].asking \in SUBSET (1..written) /\ conn[u].clock \in Ids
         /\ NewConnection \in Connections /\ Closed \in Connections
BY ZeroId DEF IInv, Types, UserTypes, Connections, NewConnection, Closed

(* The handlers that neither read nor subscribe.  The upgrade lets a connection in. *)
LEMMA UpgradeStep == ASSUME IInv, NEW u \in Users, Upgrade(u) PROVE IInv'
<1> DEFINE c == [conn[u] EXCEPT !.pc = "opening", !.write = (access[u] = "rw")]
<1>1. /\ conn[u].pc = "new" /\ conn' = [conn EXCEPT ![u] = c] /\ got' = got
      /\ UNCHANGED <<redisVars, roomVars, authVars, subs, subUpdates, loop>>
  BY DEF Upgrade
<1>2. c \in Connections /\ c.clock = conn[u].clock /\ c.pc = "opening"
  BY ConnectionIs DEF Connections
<1> HIDE DEF c
<1> QED BY <1>1, <1>2, SameClockStep
(* open found a re-check on the stream. *)
LEMMA CheckingStep ==
  ASSUME IInv, NEW u \in Users, conn[u].pc = "opening", conn[u].stream # "unread",
         conn' = [conn EXCEPT ![u].pc = "checking"],
         UNCHANGED <<redisVars, roomVars, authVars, got, subs, subUpdates, loop>>
  PROVE  IInv'
<1> DEFINE c == [conn[u] EXCEPT !.pc = "checking"]
<1>1. conn' = [conn EXCEPT ![u] = c]
  OBVIOUS
<1>2. c \in Connections /\ c.clock = conn[u].clock /\ c.pc = "checking" /\ c.stream = conn[u].stream
  BY ConnectionIs DEF Connections
<1> HIDE DEF c
<1> QED BY <1>1, <1>2, SameClockStep
(* That re-check is answered. *)
LEMMA OpenCheckedStep == ASSUME IInv, NEW u \in Users, OpenChecked(u) PROVE IInv'
<1>1. PICK verdict \in {"keep", "close"} :
        conn' = [conn EXCEPT ![u].pc = "checked", ![u].revoked = (verdict = "close")]
  BY DEF OpenChecked
<1> DEFINE c == [conn[u] EXCEPT !.pc = "checked", !.revoked = (verdict = "close")]
<1>2. /\ conn[u].pc = "checking" /\ conn' = [conn EXCEPT ![u] = c] /\ got' = got
      /\ UNCHANGED <<redisVars, roomVars, authVars, subs, subUpdates, loop>>
  BY <1>1 DEF OpenChecked
<1>3. c \in Connections /\ c.clock = conn[u].clock /\ c.pc = "checked" /\ c.stream = conn[u].stream
  BY ConnectionIs DEF Connections
<1>4. conn[u].stream # "unread"
  BY <1>2, UserFacts DEF Started
<1> HIDE DEF c
<1> QED BY <1>2, <1>3, <1>4, SameClockStep
(* A new connection takes the place of one that closed. *)
LEMMA ReconnectStep == ASSUME IInv, NEW u \in Users, Reconnect(u) PROVE IInv'
<1>1. /\ conn[u].pc = "closed" /\ conn' = [conn EXCEPT ![u] = NewConnection] /\ got' = got
      /\ UNCHANGED <<redisVars, roomVars, authVars, subs, subUpdates, loop>>
  BY DEF Reconnect
<1>2. conn[u].clock = Zero
  BY <1>1, UserFacts DEF Started, IsOpen
<1>3. NewConnection.clock = Zero /\ NewConnection.pc = "new"
  BY DEF NewConnection
<1> QED BY <1>1, <1>2, <1>3, ConnectionIs, SameClockStep
(* The auth plugin answers a re-check of a synced connection. *)
LEMMA AuthAnswersStep == ASSUME IInv, NEW u \in Users, AuthAnswers(u) PROVE IInv'
<1>1. PICK n \in conn[u].asking : \E verdict \in {"keep", "close"} :
        conn' = [conn EXCEPT ![u].asking = @ \ {n}, ![u].revoked = @ \/ verdict = "close"]
  BY DEF AuthAnswers
<1>2. PICK verdict \in {"keep", "close"} :
        conn' = [conn EXCEPT ![u].asking = @ \ {n}, ![u].revoked = @ \/ verdict = "close"]
  BY <1>1
<1> DEFINE c == [conn[u] EXCEPT !.asking = conn[u].asking \ {n},
                                !.revoked = conn[u].revoked \/ verdict = "close"]
<1>3. /\ conn' = [conn EXCEPT ![u] = c] /\ got' = got
      /\ UNCHANGED <<redisVars, roomVars, authVars, subs, subUpdates, loop>>
  BY <1>2, ConnectionIs DEF AuthAnswers, Connections
<1>4. c \in Connections /\ c.clock = conn[u].clock /\ c.pc = conn[u].pc /\ c.stream = conn[u].stream
  BY ConnectionIs DEF Connections
<1>5. Started(u)
  BY UserFacts
<1> HIDE DEF c
<1> QED BY <1>3, <1>4, <1>5, SameClockStep DEF Started

(* open reads the rows: they have what is on the stream up to their clock, *)
(* and nothing that comes later.                                            *)
LEMMA ReadRowsStep == ASSUME IInv, NEW u \in Users, ReadRows(u) PROVE IInv'
<1> DEFINE r == RoomOf[u]
           g == got[u] \union rows[r]
           clock == MaxClock(rowClock[r], conn[u].clock)
           c == [conn[u] EXCEPT !.tombstone = IF deleted[r] = "no" THEN "none" ELSE "found", !.clock = clock]
<1>1. /\ conn[u].pc = "opening" /\ conn' = [conn EXCEPT ![u] = c] /\ got' = [got EXCEPT ![u] = g]
      /\ UNCHANGED <<redisVars, roomVars, authVars, subs, subUpdates, loop>>
  BY ConnectionIs DEF ReadRows, Connections
<1>2. /\ r \in Rooms /\ conn[u].clock \in Ids /\ rowClock[r] \in Ids /\ NextId(r) \in Ids
      /\ IsPast(r, conn[u].clock) /\ IsPast(r, rowClock[r])
      /\ \A e \in live[r] \union loop.result[r] : e.id \in Ids
      /\ rows[r] \in SUBSET (1..written)
  BY RoomFacts, UserFacts
<1>3. /\ clock \in Ids /\ IsPast(r, clock)
      /\ \A e \in live[r] :
           IsSmaller(clock, e.id) <=> IsSmaller(rowClock[r], e.id) /\ IsSmaller(conn[u].clock, e.id)
  BY <1>2, MaxMin DEF IsPast
<1>4. g \in SUBSET (1..written)
  BY <1>2, UserFacts
<1>5. c \in Connections /\ c.clock = clock /\ c.pc = "opening"
  <2> HIDE DEF clock
  <2> QED BY <1>1, <1>3, ConnectionIs DEF Connections
<1> HIDE DEF c, clock
<1>6. conn'[u] = c /\ got'[u] = g /\ live' = live /\ loop' = loop /\ subs' = subs /\ subUpdates' = subUpdates
  BY <1>1, ConnectionIs DEF redisVars
<1>7. ~IsSynced(u) /\ \A q \in Rooms : u \notin subs[q].users /\ u \notin subUpdates[q].users
  BY <1>1, UserFacts DEF IsMember, IsSynced
<1>8. RowsOK(r) /\ HasAll(u) /\ HasNoneLater(u)
  BY <1>2, UserFacts DEF IInv, RoomOK
<1>9. HasAll(u)'
  <2>1. ASSUME NEW e \in live[r], e.kind = "update", ~IsSmaller(c.clock, e.id) PROVE e.n \in g
    BY <1>3, <1>5, <1>8, <2>1 DEF RowsOK, HasAll
  <2> HIDE DEF g
  <2> QED BY <1>6, <2>1 DEF HasAll
<1>10. HasNoneLater(u)'
  <2>1. ASSUME NEW e \in live[r], IsFresh(e), IsSmaller(c.clock, e.id), NEW n \in g PROVE n < e.n
    <3>1. CASE n \in got[u]
      BY <1>3, <1>5, <1>8, <2>1, <3>1 DEF HasNoneLater, InOrder
    <3>2. CASE n \in rows[r]
      BY <1>3, <1>5, <1>8, <2>1, <3>2 DEF RowsOK
    <3> QED BY <2>1, <3>1, <3>2
  <2> HIDE DEF g
  <2> QED BY <1>2, <1>6, <1>7, <2>1 DEF HasNoneLater, InOrder, IsFresh
<1>11. IsServed(u)' /\ IsMember(u)' /\ Started(u)'
  <2>1. IsServed(u)'
    BY <1>2, <1>6, <1>7 DEF IsServed
  <2>2. Started(u)'
    BY <1>5, <1>6 DEF Started, IsOpen
  <2>3. IsMember(u)'
    BY <1>5, <1>6, <1>7 DEF IsMember, IsSynced
  <2> QED BY <2>1, <2>2, <2>3
<1> HIDE DEF g
<1> QED BY <1>1, <1>3, <1>4, <1>5, <1>9, <1>10, <1>11, UserStep DEF UserOK

(* open reads the stream: nothing on it is later than the last clock. *)
LEMMA ReadStreamStep == ASSUME IInv, NEW u \in Users, ReadStream(u) PROVE IInv'
<1> DEFINE r == RoomOf[u]
           g == got[u] \union Updates(live[r])
           clock == MaxClock(conn[u].clock, LastClock(live[r]))
           stream == IF ChecksFor(u, live[r]) = {} THEN "plain" ELSE "checks"
           c == [conn[u] EXCEPT !.stream = stream, !.clock = clock]
<1>1. /\ conn[u].pc = "opening" /\ conn' = [conn EXCEPT ![u] = c] /\ got' = [got EXCEPT ![u] = g]
      /\ UNCHANGED <<redisVars, roomVars, authVars, subs, subUpdates, loop>>
  BY ConnectionIs DEF ReadStream, Connections
<1>2. /\ r \in Rooms /\ conn[u].clock \in Ids /\ NextId(r) \in Ids
      /\ IsPast(r, conn[u].clock)
      /\ \A e \in live[r] \union loop.result[r] : e.id \in Ids
  BY RoomFacts, UserFacts
<1>3. clock \in Ids /\ IsPast(r, clock) /\ \A e \in live[r] : ~IsSmaller(clock, e.id)
  <2>1. PICK l : l = LastClock(live[r])
    OBVIOUS
  <2>2. l \in Ids /\ IsPast(r, l) /\ \A e \in live[r] : ~IsSmaller(l, e.id)
    <3>1. CASE live[r] = {}
      <4>1. l = Zero
        BY <2>1, <3>1 DEF LastClock
      <4>2. IsPast(r, Zero)
        BY <1>2, RoomFacts
      <4> QED BY <3>1, <4>1, <4>2, ZeroId DEF IsPast
    <3>2. CASE live[r] # {}
      BY <1>2, <2>1, <3>2, RoomFacts, LastClockIs DEF IsPast
    <3> QED BY <3>1, <3>2
  <2>3. clock = MaxClock(conn[u].clock, l)
    BY <2>1
  <2> HIDE DEF clock
  <2> QED BY <1>2, <2>2, <2>3, MaxMin DEF IsPast
<1>4. g \in SUBSET (1..written) /\ \A e \in live[r] : e.kind = "update" => e.n \in g
  <2>1. Updates(live[r]) \in SUBSET (1..written)
    BY <1>2, RoomFacts DEF Updates
  <2>2. got[u] \in SUBSET (1..written) /\ \A e \in live[r] : e.kind = "update" => e.n \in Updates(live[r])
    BY UserFacts, UpdatesOf
  <2> QED BY <2>1, <2>2
<1>5. c \in Connections /\ c.clock = clock /\ c.pc = "opening"
  <2>1. stream \in {"plain", "checks"}
    OBVIOUS
  <2> HIDE DEF clock, stream
  <2> QED BY <1>1, <1>3, <2>1, ConnectionIs DEF Connections
<1> HIDE DEF c, clock, g
<1>6. conn'[u] = c /\ got'[u] = g /\ live' = live /\ loop' = loop /\ subs' = subs /\ subUpdates' = subUpdates
  BY <1>1, ConnectionIs DEF redisVars
<1>7. ~IsSynced(u) /\ \A q \in Rooms : u \notin subs[q].users /\ u \notin subUpdates[q].users
  BY <1>1, UserFacts DEF IsMember, IsSynced
<1>8. HasAll(u)'
  BY <1>4, <1>6 DEF HasAll
<1>9. HasNoneLater(u)'
  BY <1>2, <1>3, <1>5, <1>6, <1>7 DEF HasNoneLater, InOrder
<1>10. IsServed(u)' /\ IsMember(u)' /\ Started(u)'
  <2>1. IsServed(u)'
    BY <1>2, <1>6, <1>7 DEF IsServed
  <2>2. Started(u)'
    BY <1>5, <1>6 DEF Started, IsOpen
  <2>3. IsMember(u)'
    BY <1>5, <1>6, <1>7 DEF IsMember, IsSynced
  <2> QED BY <2>1, <2>2, <2>3
<1> QED BY <1>1, <1>3, <1>4, <1>5, <1>8, <1>9, <1>10, UserStep DEF UserOK

(* A connection that closes has nothing, and nobody reads for it. *)
LEMMA ClosedIs ==
  ASSUME IInv, NEW u \in Users, live' = live, conn'[u] = Closed, got'[u] = {},
         \A r \in Rooms : u \notin subs'[r].users \union subUpdates'[r].users
  PROVE  UserOK(u)' /\ IsSmaller(conn'[u].clock, NextId(RoomOf[u]))
<1>1. Closed.clock = Zero /\ Closed.pc = "closed"
  BY DEF Closed, NewConnection
<1>2. RoomOf[u] \in Rooms /\ Past(RoomOf[u])
  BY RoomOfAssumption DEF IInv, RoomOK
<1>3. \A e \in live[RoomOf[u]] : IsSmaller(Zero, e.id)
  BY <1>2, RoomFacts, ZeroId DEF Past
<1>4. HasAll(u)' /\ HasNoneLater(u)' /\ IsServed(u)'
  BY <1>1, <1>2, <1>3 DEF HasAll, HasNoneLater, InOrder, IsServed
<1>5. Started(u)' /\ IsMember(u)'
  BY <1>1 DEF Started, IsMember, IsOpen, IsSynced
<1>6. IsSmaller(Zero, NextId(RoomOf[u]))
  BY <1>2, RoomFacts DEF IsPast
<1> QED BY <1>1, <1>4, <1>5, <1>6 DEF UserOK

(* A connection closes. *)
LEMMA CloseStep ==
  ASSUME IInv, NEW u \in Users, Close(u), UNCHANGED <<redisVars, roomVars, authVars>>
  PROVE  IInv'
<1>1. /\ conn' = [conn EXCEPT ![u] = Closed] /\ got' = [got EXCEPT ![u] = {}]
      /\ subs' = Without(subs, {u}) /\ subUpdates' = Without(subUpdates, {u}) /\ loop' = loop
      /\ live' = live /\ written' = written /\ access' = access /\ unannounced' = unannounced
  BY DEF Close, Unsubscribe, redisVars, authVars
<1>2. Types /\ IsSubMap(subs) /\ IsSubMap(subUpdates)
  BY DEF IInv, Types, LoopTypes
<1>3. /\ IsSubMap(subs') /\ IsSubMap(subUpdates')
      /\ \A r \in Rooms :
           /\ subs'[r].users = subs[r].users \ {u} /\ subUpdates'[r].users = subUpdates[r].users \ {u}
           /\ subs'[r].users # {} => subs'[r].clock = subs[r].clock
           /\ subUpdates'[r].users # {} => subUpdates'[r].clock = subUpdates[r].clock
           /\ subs'[r].clock \in {subs[r].clock, Zero} /\ subUpdates'[r].clock \in {subUpdates[r].clock, Zero}
  BY <1>1, <1>2, WithoutIs
<1>4. UserTypes' /\ LoopTypes'
  <2>1. conn' \in [Users -> Connections] /\ got' \in [Users -> SUBSET (1..written)]
    BY <1>1, ConnectionIs
  <2> QED BY <1>1, <1>2, <1>3, <2>1 DEF Types, UserTypes, LoopTypes, LoopType, Connections, EntryOK, IsSubMap
<1>5. ASSUME NEW r \in Rooms
      PROVE  /\ IsSmaller(subs'[r].clock, NextId(r)) /\ IsSmaller(subUpdates'[r].clock, NextId(r))
             /\ loop'.result[r] \subseteq live[r] \union loop.result[r]
             /\ ResultOK(r)'
  <2>1. ResultOK(r)
    BY DEF IInv, RoomOK
  <2>2. ResultOK(r)'
    BY <1>1, <1>3, <2>1 DEF ResultOK
  <2> QED BY <1>1, <1>3, <2>2, RoomFacts DEF IsPast
<1>6. ASSUME NEW v \in Users PROVE IsSmaller(conn'[v].clock, NextId(RoomOf[v])) /\ UserOK(v)'
  <2>1. CASE v = u
    <3>1. conn'[u] = Closed /\ got'[u] = {}
      BY <1>1, ConnectionIs
    <3> QED BY <1>1, <1>3, <2>1, <3>1, ClosedIs
  <2>2. CASE v # u
    <3>1. conn'[v] = conn[v] /\ got'[v] = got[v] /\ RoomOf[v] \in Rooms
      BY <1>1, <2>2, ConnectionIs, UserFacts
    <3>2. \A r \in Rooms :
            (v \in subs'[r].users \union subUpdates'[r].users)
              <=> (v \in subs[r].users \union subUpdates[r].users)
      BY <1>3, <2>2
    <3>3. ASSUME NEW e \in live[RoomOf[v]],
                 NEW s \in {subs'[RoomOf[v]], subUpdates'[RoomOf[v]]}, v \in s.users
          PROVE  \E t \in {subs[RoomOf[v]], subUpdates[RoomOf[v]]} :
                   v \in t.users /\ (IsSmaller(t.clock, e.id) => IsSmaller(s.clock, e.id))
      BY <1>3, <3>1, <3>3
    <3>4. v \in subs'[RoomOf[v]].users =>
            \/ loop'.result[RoomOf[v]] = {}
            \/ /\ v \in subs[RoomOf[v]].users
               /\ loop'.result[RoomOf[v]] \subseteq live[RoomOf[v]] \union loop.result[RoomOf[v]]
      BY <1>1, <1>3, <3>1
    <3>5. UserOK(v)'
      BY <3>1, <3>2, <3>3, <3>4, UserStays
    <3> QED BY <3>1, <3>5, UserFacts DEF IsPast
  <2> QED BY <2>1, <2>2
<1> QED BY <1>4, <1>5, <1>6, ServerStep

(* Whom a turn of the loop serves. *)
Member(s, su, u) ==
  \A r \in Rooms : (u \in s[r].users \union su[r].users) <=> (conn'[u].pc = "synced" /\ r = RoomOf[u])
Serves(s, su, u) ==
  \A e \in live[RoomOf[u]] :
    e.kind # "nop" /\ IsSmaller(conn'[u].clock, e.id) =>
      \A t \in {s[RoomOf[u]], su[RoomOf[u]]} : u \in t.users => IsSmaller(t.clock, e.id)

(* A turn of the loop, when connections have advanced before. *)
LEMMA ReadOnStep ==
  ASSUME IInv, UNCHANGED <<redisVars, roomVars, authVars>>, UserTypes',
         NEW s, IsSubMap(s), NEW su, IsSubMap(su), ReadOn(s, su),
         \A r \in Rooms : IsSmaller(s[r].clock, NextId(r)) /\ IsSmaller(su[r].clock, NextId(r)),
         \A u \in Users :
           /\ IsSmaller(conn'[u].clock, NextId(RoomOf[u]))
           /\ HasAll(u)' /\ Started(u)' /\ \A e \in live[RoomOf[u]] : InOrder(u, e)'
           /\ Member(s, su, u) /\ Serves(s, su, u)
  PROVE  IInv'
<1>1. /\ subs' = Merged(s, su) /\ subUpdates' = NoSubs
      /\ loop' \in LoopType /\ loop'.result = NoResult /\ loop'.pc # "answered"
  BY ReadOnIs
<1>2. /\ IsSubMap(subs')
      /\ \A r \in Rooms :
           /\ subs'[r].users = s[r].users \union su[r].users
           /\ subs'[r].clock \in {s[r].clock, su[r].clock}
           /\ \A c \in Ids :
                \/ s[r].users # {} /\ IsSmaller(s[r].clock, c)
                \/ su[r].users # {} /\ IsSmaller(su[r].clock, c)
                => IsSmaller(subs'[r].clock, c)
  BY <1>1, MergedIs
<1>3. /\ IsSubMap(subUpdates')
      /\ \A r \in Rooms : subUpdates'[r].users = {} /\ subUpdates'[r].clock = Zero
  BY <1>1, NoSubsIs
<1>4. \A r \in Rooms : loop'.result[r] = {}
  BY <1>1 DEF NoResult
<1>5. LoopTypes'
  <2>1. LoopType' = LoopType
    BY DEF LoopType
  <2> QED BY <1>1, <1>2, <1>3, <1>4, <2>1, FS_EmptySet DEF LoopTypes, IsSubMap
<1>6. ASSUME NEW r \in Rooms
      PROVE  /\ IsSmaller(subs'[r].clock, NextId(r)) /\ IsSmaller(subUpdates'[r].clock, NextId(r))
             /\ loop'.result[r] \subseteq live[r] \union loop.result[r]
             /\ ResultOK(r)'
  <2>1. ResultOK(r)'
    BY <1>4 DEF ResultOK
  <2> QED BY <1>2, <1>3, <1>4, <2>1, RoomFacts DEF IsPast
<1>7. live' = live
  BY DEF redisVars
<1>8. ASSUME NEW u \in Users PROVE UserOK(u)'
  <2>1. RoomOf[u] \in Rooms /\ \A e \in live[RoomOf[u]] : e.id \in Ids
    BY RoomFacts, UserFacts
  <2>2. HasNoneLater(u)'
    BY <1>4, <1>7, <2>1 DEF HasNoneLater
  <2>3. IsServed(u)'
    <3>1. ASSUME NEW e \in live[RoomOf[u]], e.kind # "nop", IsSmaller(conn'[u].clock, e.id),
                 u \in subs'[RoomOf[u]].users
          PROVE  IsSmaller(subs'[RoomOf[u]].clock, e.id)
      <4>1. CASE u \in s[RoomOf[u]].users
        <5>1. IsSmaller(s[RoomOf[u]].clock, e.id)
          BY <3>1, <4>1 DEF Serves
        <5> QED BY <1>2, <2>1, <4>1, <5>1
      <4>2. CASE u \in su[RoomOf[u]].users
        <5>1. IsSmaller(su[RoomOf[u]].clock, e.id)
          BY <3>1, <4>2 DEF Serves
        <5> QED BY <1>2, <2>1, <4>2, <5>1
      <4> QED BY <1>2, <2>1, <3>1, <4>1, <4>2
    <3> QED BY <1>3, <1>7, <2>1, <3>1 DEF IsServed
  <2>4. IsMember(u)'
    BY <1>2, <1>3 DEF IsMember, IsSynced, Member
  <2> QED BY <2>2, <2>3, <2>4 DEF UserOK
<1> QED BY <1>5, <1>6, <1>8, ServerStep

(* A user of a step that changes no connection but possibly this one's pc. *)
LEMMA Unmoved ==
  ASSUME IInv, live' = live, NEW u \in Users,
         conn'[u].clock = conn[u].clock, got'[u] = got[u]
  PROVE  /\ IsSmaller(conn'[u].clock, NextId(RoomOf[u]))
         /\ HasAll(u)' /\ \A e \in live[RoomOf[u]] : InOrder(u, e)'
<1>1. HasAll(u) /\ HasNoneLater(u) /\ IsPast(RoomOf[u], conn[u].clock)
  BY UserFacts
<1> QED BY <1>1 DEF HasAll, HasNoneLater, InOrder, IsFresh, IsPast

(* The open handler ends with a subscription. *)
LEMMA SyncStep ==
  ASSUME IInv, NEW u \in Users, IsOpen(u), ~IsSynced(u), conn[u].stream # "unread", Sync(u),
         UNCHANGED <<redisVars, roomVars, authVars>>
  PROVE  IInv'
<1> DEFINE r == RoomOf[u]
           c == [conn[u] EXCEPT !.pc = "synced"]
<1>1. PICK su : su = WithSubscriber(u, conn[u].clock)
  OBVIOUS
<1>2. conn' = [conn EXCEPT ![u] = c] /\ got' = got /\ live' = live
  BY DEF Sync, redisVars
<1>3. /\ c \in Connections /\ c.clock = conn[u].clock /\ c.pc = "synced" /\ c.stream = conn[u].stream
      /\ r \in Rooms /\ conn[u].clock \in Ids
  BY ConnectionIs, UserFacts DEF Connections
<1> HIDE DEF c
<1>4. IsSubMap(subs) /\ IsSubMap(subUpdates)
  BY DEF IInv, Types, LoopTypes
<1>5. /\ IsSubMap(su) /\ su[r].users = subUpdates[r].users \union {u}
      /\ su[r].clock \in {conn[u].clock, subUpdates[r].clock}
      /\ \A x \in Ids :
           \/ IsSmaller(conn[u].clock, x)
           \/ subUpdates[r].users # {} /\ IsSmaller(subUpdates[r].clock, x)
           => IsSmaller(su[r].clock, x)
      /\ \A q \in Rooms : q # r => su[q] = subUpdates[q]
  BY <1>1, <1>3, <1>4, WithSubscriberIs
<1>6. UserTypes'
  <2>1. conn' \in [Users -> Connections] /\ got' \in [Users -> SUBSET (1..written)]
    BY <1>2, <1>3, ConnectionIs
  <2> QED BY <2>1 DEF IInv, Types, UserTypes, Connections, redisVars, authVars
<1>7. \A q \in Rooms : IsSmaller(subs[q].clock, NextId(q)) /\ IsSmaller(su[q].clock, NextId(q))
  <2>1. \A q \in Rooms : IsSmaller(subs[q].clock, NextId(q)) /\ IsSmaller(subUpdates[q].clock, NextId(q))
    BY RoomFacts DEF IsPast
  <2>2. IsSmaller(conn[u].clock, NextId(r))
    BY UserFacts DEF IsPast
  <2> QED BY <1>5, <2>1, <2>2
<1>8. ASSUME NEW v \in Users
      PROVE  /\ IsSmaller(conn'[v].clock, NextId(RoomOf[v]))
             /\ HasAll(v)' /\ Started(v)' /\ \A e \in live[RoomOf[v]] : InOrder(v, e)'
             /\ Member(subs, su, v) /\ Serves(subs, su, v)
  <2>0. /\ RoomOf[v] \in Rooms /\ IsServed(v) /\ Started(v) /\ IsMember(v)
        /\ \A e \in live[RoomOf[v]] : e.id \in Ids
    BY RoomFacts, UserFacts
  <2>1. /\ conn'[v].clock = conn[v].clock /\ got'[v] = got[v]
        /\ conn'[v] = IF v = u THEN c ELSE conn[v]
    BY <1>2, <1>3, ConnectionIs
  <2>2. IsSmaller(conn'[v].clock, NextId(RoomOf[v])) /\ HasAll(v)' /\ \A e \in live[RoomOf[v]] : InOrder(v, e)'
    BY <1>2, <2>1, Unmoved
  <2>3. Started(v)'
    BY <1>3, <2>0, <2>1 DEF Started, IsOpen
  <2>4. Member(subs, su, v)
    BY <1>3, <1>5, <2>0, <2>1 DEF Member, IsMember, IsSynced
  <2>5. Serves(subs, su, v)
    <3>1. ASSUME NEW e \in live[RoomOf[v]], e.kind # "nop", IsSmaller(conn[v].clock, e.id),
                 NEW t \in {subs[RoomOf[v]], su[RoomOf[v]]}, v \in t.users
          PROVE  IsSmaller(t.clock, e.id)
      <4>1. CASE v = u
        <5>1. v \notin subs[r].users
          BY <1>3, <2>0, <4>1 DEF IsMember
        <5> QED BY <1>5, <2>0, <3>1, <4>1, <5>1
      <4>2. CASE v # u
        <5>1. \A s \in {subs[RoomOf[v]], subUpdates[RoomOf[v]]} : v \in s.users => IsSmaller(s.clock, e.id)
          BY <2>0, <3>1 DEF IsServed
        <5>2. CASE t = subs[RoomOf[v]] \/ RoomOf[v] # r
          BY <1>5, <2>0, <3>1, <5>1, <5>2
        <5>3. CASE t = su[r] /\ RoomOf[v] = r
          BY <1>5, <2>0, <3>1, <4>2, <5>1, <5>3
        <5> QED BY <3>1, <5>2, <5>3
      <4> QED BY <4>1, <4>2
    <3> QED BY <2>1, <3>1 DEF Serves
  <2> QED BY <2>2, <2>3, <2>4, <2>5
<1>9. CASE loop.pc = "off"
  <2>1. ReadOn(subs, su)
    BY <1>1, <1>9 DEF Sync, Subscribe
  <2> QED BY <1>4, <1>5, <1>6, <1>7, <1>8, <2>1, ReadOnStep
<1>10. CASE loop.pc # "off"
  <2>1. /\ subUpdates' = su /\ subs' = subs
        /\ loop' = [loop EXCEPT !.pc = IF @ = "unconnected" THEN "connecting" ELSE @]
    BY <1>1, <1>10 DEF Sync, Subscribe
  <2>2. loop \in LoopType /\ LoopTypes /\ written' = written
    BY DEF IInv, Types, LoopTypes, redisVars
  <2>3. /\ loop' \in LoopType /\ loop'.result = loop.result
        /\ loop'.pc = "answered" <=> loop.pc = "answered"
    BY <2>1, <2>2 DEF LoopType
  <2>4. LoopTypes'
    BY <1>5, <2>1, <2>2, <2>3 DEF LoopTypes, LoopType, IsSubMap, EntryOK
  <2>5. ASSUME NEW q \in Rooms
        PROVE  /\ IsSmaller(subs'[q].clock, NextId(q)) /\ IsSmaller(subUpdates'[q].clock, NextId(q))
               /\ loop'.result[q] \subseteq live[q] \union loop.result[q]
               /\ ResultOK(q)'
    <3>1. ResultOK(q)
      BY DEF IInv, RoomOK
    <3>2. ResultOK(q)'
      BY <1>2, <2>1, <2>3, <3>1 DEF ResultOK
    <3> QED BY <1>7, <2>1, <2>3, <3>2
  <2>6. ASSUME NEW v \in Users PROVE IsSmaller(conn'[v].clock, NextId(RoomOf[v])) /\ UserOK(v)'
    <3>1. IsServed(v)' /\ IsMember(v)'
      BY <1>2, <1>8, <2>1 DEF Serves, Member, IsServed, IsMember, IsSynced
    <3>2. HasNoneLater(v)'
      <4>1. v = u => v \notin subs[RoomOf[v]].users
        BY <1>3, UserFacts DEF IsMember
      <4>2. v # u => conn'[v] = conn[v]
        BY <1>2, ConnectionIs
      <4>3. HasNoneLater(v)
        BY UserFacts
      <4> QED BY <1>2, <1>8, <2>1, <2>3, <4>1, <4>2, <4>3 DEF HasNoneLater, InOrder, IsFresh
    <3> QED BY <1>8, <3>1, <3>2 DEF UserOK
  <2> QED BY <1>6, <2>4, <2>5, <2>6, ServerStep
<1> QED BY <1>9, <1>10

(* The two handlers that end open. *)
LEMMA OpenedStep ==
  ASSUME IInv, NEW u \in Users, Opened(u) \/ OpenAfterCheck(u)
  PROVE  IInv'
<1>1. UNCHANGED <<redisVars, roomVars, authVars>>
  BY DEF Opened, OpenAfterCheck
<1>2. CASE Close(u)
  BY <1>1, <1>2, CloseStep
<1>3. CASE Sync(u) /\ (conn[u].pc = "checked" \/ (conn[u].pc = "opening" /\ conn[u].stream # "unread"))
  <2>1. Started(u)
    BY UserFacts
  <2>2. IsOpen(u) /\ ~IsSynced(u) /\ conn[u].stream # "unread"
    BY <1>3, <2>1 DEF IsOpen, IsSynced, Started
  <2> QED BY <1>1, <1>3, <2>2, SyncStep
<1>4. CASE /\ conn[u].pc = "opening" /\ conn[u].stream # "unread" /\ conn' = [conn EXCEPT ![u].pc = "checking"]
           /\ UNCHANGED <<got, subs, subUpdates, loop>>
  BY <1>1, <1>4, CheckingStep
<1> QED BY <1>2, <1>3, <1>4 DEF Opened, OpenAfterCheck

(* The handlers of a websocket. *)
LEMMA HandleStep == ASSUME IInv, NEW u \in Users, Handle(u) PROVE IInv'
<1>1. CASE ClientCloses(u) \/ Revoke(u)
  BY <1>1, CloseStep DEF ClientCloses, Revoke
<1>2. CASE Upgrade(u) \/ ReadRows(u) \/ ReadStream(u) \/ OpenChecked(u) \/ Reconnect(u) \/ AuthAnswers(u)
  BY <1>2, UpgradeStep, ReadRowsStep, ReadStreamStep, OpenCheckedStep, ReconnectStep, AuthAnswersStep
<1>3. CASE Opened(u) \/ OpenAfterCheck(u) \/ ClientMessage(u)
  BY <1>3, OpenedStep, MessageStep
<1> QED BY <1>1, <1>2, <1>3 DEF Handle

(* The loop starts, or starts again. *)
LEMMA LoopStartsStep == ASSUME IInv, LoopStarts PROVE IInv'
<1>1. /\ ReadOn(subs, subUpdates) /\ UNCHANGED <<redisVars, roomVars, authVars>>
      /\ conn' = conn /\ got' = got /\ live' = live
  BY DEF LoopStarts, redisVars
<1>2. IsSubMap(subs) /\ IsSubMap(subUpdates)
  BY DEF IInv, Types, LoopTypes
<1>3. UserTypes'
  BY <1>1 DEF IInv, Types, UserTypes, Connections, redisVars, authVars
<1>4. \A r \in Rooms : IsSmaller(subs[r].clock, NextId(r)) /\ IsSmaller(subUpdates[r].clock, NextId(r))
  BY RoomFacts DEF IsPast
<1>5. ASSUME NEW u \in Users
      PROVE  /\ IsSmaller(conn'[u].clock, NextId(RoomOf[u]))
             /\ HasAll(u)' /\ Started(u)' /\ \A e \in live[RoomOf[u]] : InOrder(u, e)'
             /\ Member(subs, subUpdates, u) /\ Serves(subs, subUpdates, u)
  BY <1>1, Unmoved, UserFacts DEF Started, IsOpen, Member, IsMember, IsSynced, Serves, IsServed
<1> QED BY <1>1, <1>2, <1>3, <1>4, <1>5, ReadOnStep

(* XREAD returns the oldest entries of each room. *)
LEMMA ReadStep == ASSUME IInv, RedisAnswers \/ ReadFails PROVE IInv'
<1>1. /\ loop.pc = "reading" /\ UNCHANGED <<redisVars, roomVars, authVars>>
      /\ conn' = conn /\ got' = got /\ subs' = subs /\ subUpdates' = subUpdates
      /\ live' = live /\ written' = written
  BY DEF RedisAnswers, ReadFails, redisVars
<1>2. loop \in LoopType /\ LoopTypes
  BY DEF IInv, Types, LoopTypes
<1>3. UserTypes'
  BY <1>1 DEF IInv, Types, UserTypes, Connections, redisVars, authVars
<1>4. /\ loop' \in LoopType
      /\ \A r \in Rooms :
           /\ loop'.result[r] \in SUBSET live[r]
           /\ ResultOK(r)'
  <2>1. CASE ReadFails
    <3>1. loop' = [loop EXCEPT !.pc = "waiting"]
      BY <2>1 DEF ReadFails
    <3>2. \A r \in Rooms : loop.result[r] = {}
      BY <1>1 DEF IInv, RoomOK, ResultOK
    <3>3. loop' \in LoopType /\ loop'.result = loop.result
      BY <1>2, <3>1 DEF LoopType
    <3> QED BY <3>2, <3>3 DEF ResultOK
  <2>2. CASE RedisAnswers
    <3> DEFINE read(r) == IF subs[r].users = {} THEN {} ELSE Oldest(ReadCount, After(r, subs[r].clock))
    <3>1. loop' = [pc |-> "answered", result |-> [r \in Rooms |-> read(r)]]
      BY <2>2 DEF RedisAnswers
    <3>2. ASSUME NEW r \in Rooms
          PROVE  /\ read(r) \in SUBSET live[r] /\ read(r) \in SUBSET Entries
                 /\ subs[r].users # {} =>
                      \A e \in live[r] \ read(r) :
                        IsSmaller(subs[r].clock, e.id) => \A f \in read(r) : IsSmaller(f.id, e.id)
      <4>1. PICK S : S = After(r, subs[r].clock)
        OBVIOUS
      <4>2. S \in SUBSET live[r] /\ \A e \in live[r] : IsSmaller(subs[r].clock, e.id) => e \in S
        BY <4>1 DEF After
      <4>3. S \in SUBSET Entries /\ IsFiniteSet(S) /\ ReadCount \in Nat
        BY <4>2, RoomFacts, FS_Subset, BoundsAssumption
      <4>4. PICK T : T = Oldest(ReadCount, S)
        OBVIOUS
      <4>5. T \in SUBSET S /\ \A e \in S \ T, f \in T : IsSmaller(f.id, e.id)
        BY <4>3, <4>4, OldestIs
      <4>6. read(r) = IF subs[r].users = {} THEN {} ELSE T
        BY <4>1, <4>4
      <4> HIDE DEF read
      <4> QED BY <4>2, <4>3, <4>5, <4>6
    <3> HIDE DEF read
    <3>3. loop' \in LoopType /\ \A r \in Rooms : loop'.result[r] = read(r)
      BY <3>1, <3>2 DEF LoopType
    <3>4. loop'.pc = "answered"
      BY <3>1
    <3> QED BY <1>1, <3>2, <3>3, <3>4 DEF ResultOK
  <2> QED BY <2>1, <2>2
<1>5. LoopTypes'
  <2>1. \A r \in Rooms : IsFiniteSet(loop'.result[r]) /\ \A e \in loop'.result[r] : EntryOK(e)
    BY <1>4, RoomFacts, FS_Subset
  <2> QED BY <1>1, <1>2, <1>4, <2>1 DEF LoopTypes, LoopType, IsSubMap, EntryOK
<1>6. ASSUME NEW r \in Rooms
      PROVE  /\ IsSmaller(subs'[r].clock, NextId(r)) /\ IsSmaller(subUpdates'[r].clock, NextId(r))
             /\ loop'.result[r] \subseteq live[r] \union loop.result[r]
             /\ ResultOK(r)'
  BY <1>1, <1>4, RoomFacts DEF IsPast
<1>7. ASSUME NEW u \in Users PROVE IsSmaller(conn'[u].clock, NextId(RoomOf[u])) /\ UserOK(u)'
  <2>1. /\ RoomOf[u] \in Rooms /\ IsPast(RoomOf[u], conn[u].clock)
        /\ HasAll(u) /\ HasNoneLater(u) /\ IsServed(u) /\ Started(u) /\ IsMember(u)
    BY UserFacts
  <2>2. HasNoneLater(u)'
    BY <1>1, <1>4, <2>1 DEF HasNoneLater, InOrder, IsFresh
  <2>3. HasAll(u)' /\ IsServed(u)' /\ Started(u)' /\ IsMember(u)'
    BY <1>1, <2>1 DEF HasAll, IsServed, Started, IsMember, IsOpen, IsSynced
  <2>4. UserOK(u)'
    BY <2>2, <2>3 DEF UserOK
  <2>5. IsSmaller(conn'[u].clock, NextId(RoomOf[u]))
    BY <1>1, <2>1 DEF IsPast
  <2> QED BY <2>4, <2>5
<1>8. UNCHANGED <<redisVars, roomVars, authVars>>
  BY <1>1
<1> QED BY <1>3, <1>5, <1>6, <1>7, <1>8, ServerStep

-----------------------------------------------------------------------------
(* A delivery *)

(* The clocks that the loop reads on from. *)
LEMMA AdvancedIs ==
  ASSUME IInv
  PROVE  /\ IsSubMap(Advanced)
         /\ \A r \in Rooms :
              /\ Advanced[r].users = subs[r].users
              /\ Advanced[r].clock = IF loop.result[r] = {} \/ subs[r].users = {} THEN subs[r].clock
                                     ELSE LastClock(loop.result[r])
              /\ IsSmaller(Advanced[r].clock, NextId(r))
<1> DEFINE a(r) == IF loop.result[r] = {} \/ subs[r].users = {} THEN subs[r]
                   ELSE [subs[r] EXCEPT !.clock = LastClock(loop.result[r])]
<1>1. Advanced = [r \in Rooms |-> a(r)]
  BY DEF Advanced
<1>2. ASSUME NEW r \in Rooms
      PROVE  /\ a(r) \in [clock : Ids, users : SUBSET Users] /\ a(r).users = subs[r].users
             /\ a(r).clock = IF loop.result[r] = {} \/ subs[r].users = {} THEN subs[r].clock
                             ELSE LastClock(loop.result[r])
             /\ IsSmaller(a(r).clock, NextId(r))
  <2>1. subs[r] \in [clock : Ids, users : SUBSET Users] /\ IsSmaller(subs[r].clock, NextId(r))
    BY RoomFacts DEF IInv, Types, LoopTypes, IsSubMap, IsPast
  <2>2. PICK l : l = LastClock(loop.result[r])
    OBVIOUS
  <2>3. l \in Ids /\ (loop.result[r] # {} => IsSmaller(l, NextId(r)))
    BY <2>2, RoomFacts, LastClockIs DEF IsPast
  <2> QED BY <2>1, <2>2, <2>3
<1> HIDE DEF a
<1> QED BY <1>1, <1>2 DEF IsSubMap

(* What is delivered to a connection, and to which. *)
LEMMA FilteredIs ==
  ASSUME IInv, NEW u \in Users
  PROVE  /\ \A e \in loop.result[RoomOf[u]] :
              e \in Filtered(u) <=>
                /\ u \in subs[RoomOf[u]].users /\ e.kind # "nop"
                /\ IsSmaller(conn[u].clock, e.id)
         /\ Filtered(u) \subseteq loop.result[RoomOf[u]]
         /\ Filtered(u) # {} => IsSynced(u) /\ u \in subs[RoomOf[u]].users
         /\ Updates(Filtered(u)) \in SUBSET (1..written)
<1>1. RoomOf[u] \in Rooms /\ IsMember(u)
  BY UserFacts
<1>2. /\ \A e \in loop.result[RoomOf[u]] :
           e \in Filtered(u) <=>
             /\ u \in subs[RoomOf[u]].users /\ e.kind # "nop"
             /\ IsSmaller(conn[u].clock, e.id)
      /\ Filtered(u) \subseteq loop.result[RoomOf[u]]
      /\ Filtered(u) # {} => u \in subs[RoomOf[u]].users
  BY DEF Filtered
<1>3. Updates(Filtered(u)) \in SUBSET (1..written)
  BY <1>1, <1>2, RoomFacts DEF Updates
<1> QED BY <1>1, <1>2, <1>3 DEF IsMember

(* What a connection becomes that stays. *)
Delivered(u) == IF Filtered(u) = {} THEN conn[u] ELSE Received(u)
(* It has a type, and its clock is past. *)
LEMMA DeliveredIs ==
  ASSUME IInv, NEW u \in Users
  PROVE  /\ Delivered(u) \in Connections /\ Delivered(u).pc = conn[u].pc /\ Delivered(u).stream = conn[u].stream
         /\ Delivered(u).clock = IF Filtered(u) = {} THEN conn[u].clock
                                 ELSE LastClock(loop.result[RoomOf[u]])
         /\ IsSmaller(Delivered(u).clock, NextId(RoomOf[u]))
<1> DEFINE asked == {e.n : e \in {f \in Filtered(u) : f.kind = "check" /\ u \in f.users}}
<1>0. RoomOf[u] \in Rooms /\ IsSmaller(conn[u].clock, NextId(RoomOf[u]))
  BY UserFacts DEF IsPast
<1>1. PICK A : A = asked
  OBVIOUS
<1>2. PICK l : l = LastClock(loop.result[RoomOf[u]])
  OBVIOUS
<1>3. A \in SUBSET (1..written)
  BY <1>0, <1>1, FilteredIs, RoomFacts
<1> HIDE DEF asked
<1>4. l \in Ids /\ (Filtered(u) # {} => IsSmaller(l, NextId(RoomOf[u])))
  <2>1. Filtered(u) # {} => loop.result[RoomOf[u]] # {}
    BY FilteredIs
  <2> QED BY <1>0, <1>2, <2>1, RoomFacts, LastClockIs DEF IsPast
<1>5. Received(u) = [conn[u] EXCEPT !.clock = l, !.asking = conn[u].asking \union A]
  BY <1>1, <1>2, ConnectionIs DEF Received, Connections, asked
<1>6. PICK B : B = conn[u].asking \union A
  OBVIOUS
<1>7. B \in SUBSET (1..written) /\ conn[u] \in Connections
  BY <1>3, <1>6, ConnectionIs, UserFacts
<1>8. Received(u) = [conn[u] EXCEPT !.clock = l, !.asking = B]
  BY <1>5, <1>6
<1>9. /\ Received(u) \in Connections /\ Received(u).pc = conn[u].pc
      /\ Received(u).stream = conn[u].stream /\ Received(u).clock = l
  BY <1>4, <1>7, <1>8 DEF Connections
<1> QED BY <1>0, <1>2, <1>4, <1>7, <1>9 DEF Delivered

(* Who is still synced afterwards was given no reason to leave. *)
LEMMA DeliveredTo ==
  ASSUME Deliver, NEW u \in Users, IsSynced(u)'
  PROVE  conn'[u] = Delivered(u) /\ \A e \in Filtered(u) : ~Disconnects(u, e)
<1>1. PICK D : conn' = [x \in Users |-> IF x \in Leaving(D) THEN Closed
                                        ELSE IF Filtered(x) = {} THEN conn[x]
                                        ELSE Received(x)]
  BY DEF Deliver
<1>2. Closed.pc = "closed"
  BY DEF Closed, NewConnection
<1>3. u \notin Leaving(D)
  BY <1>1, <1>2 DEF IsSynced
<1> QED BY <1>1, <1>3 DEF Delivered, Leaving

(* A connection that stays has what it was given, in order, and the loop     *)
(* reads on from where it needs it.                                          *)
LEMMA DeliverTo ==
  ASSUME IInv, NEW u \in Users, live' = live,
         conn'[u] = Delivered(u), got'[u] = got[u] \union Updates(Filtered(u)),
         NEW s, NEW su,
         s[RoomOf[u]].users \subseteq subs[RoomOf[u]].users,
         su[RoomOf[u]].users \subseteq subUpdates[RoomOf[u]].users,
         s[RoomOf[u]].users # {} => s[RoomOf[u]].clock = Advanced[RoomOf[u]].clock,
         su[RoomOf[u]].users # {} => su[RoomOf[u]].clock = subUpdates[RoomOf[u]].clock
  PROVE  /\ HasAll(u)' /\ Started(u)' /\ \A e \in live[RoomOf[u]] : InOrder(u, e)'
         /\ Serves(s, su, u)
<1> DEFINE r == RoomOf[u]
           res == loop.result[r]
           F == Filtered(u)
           last == LastClock(res)
<1>1. /\ r \in Rooms /\ conn[u].clock \in Ids
      /\ HasAll(u) /\ HasNoneLater(u) /\ IsServed(u) /\ Started(u)
      /\ ResultOK(r) /\ Sorted(r)
  BY UserFacts DEF IInv, RoomOK
<1>2. /\ \A e \in live[r] \union res : e.id \in Ids /\ (e.kind # "nop" => e.n \in Nat)
      /\ res \in SUBSET Entries /\ IsFiniteSet(res) /\ subs[r].clock \in Ids
  <2>1. \A e \in live[r] \union res : e.id \in Ids /\ (e.kind # "nop" => e.n \in 1..written)
    BY <1>1, RoomFacts
  <2> QED BY <1>1, <2>1, RoomFacts
<1>3. /\ \A e \in res : e \in F <=> u \in subs[r].users /\ e.kind # "nop" /\ IsSmaller(conn[u].clock, e.id)
      /\ F \subseteq res /\ (F # {} => IsSynced(u) /\ u \in subs[r].users)
      /\ \A e \in F : e.kind = "update" => e.n \in Updates(F)
      /\ \A n \in Updates(F) : \E e \in F : e.kind = "update" /\ e.n = n
  BY FilteredIs, UpdatesOf
<1>4. res # {} => /\ last \in Ids
                  /\ \A f \in res : ~IsSmaller(last, f.id)
                  /\ \A c \in Ids : IsSmaller(last, c) <=> \A f \in res : IsSmaller(f.id, c)
  BY <1>2, LastClockIs
<1>5. /\ conn'[u].clock = IF F = {} THEN conn[u].clock ELSE last
      /\ conn'[u].pc = conn[u].pc /\ conn'[u].stream = conn[u].stream
  BY DeliveredIs
<1>6. Advanced[r].clock = IF res = {} \/ subs[r].users = {} THEN subs[r].clock ELSE last
  BY <1>1, AdvancedIs
<1> HIDE DEF F, last, res
<1>7. ASSUME NEW e \in live[r], e \notin res, IsSmaller(subs[r].clock, e.id), u \in subs[r].users, res # {}
      PROVE  IsSmaller(last, e.id)
  BY <1>1, <1>2, <1>4, <1>7 DEF ResultOK, res
<1>8. F # {} => /\ res # {}
                /\ \A e \in live[r] : IsSmaller(last, e.id) => IsSmaller(conn[u].clock, e.id)
  <2>1. ASSUME F # {}, NEW e \in live[r], IsSmaller(last, e.id) PROVE IsSmaller(conn[u].clock, e.id)
    <3>1. PICK f \in F : f \in res /\ IsSmaller(conn[u].clock, f.id)
      BY <1>3, <2>1
    <3>2. IsSmaller(f.id, e.id)
      BY <1>2, <1>4, <2>1, <3>1
    <3> QED BY <1>1, <1>2, <3>1, <3>2, Order
  <2> QED BY <1>3, <2>1
<1>9. HasAll(u)'
  <2>1. ASSUME NEW e \in live[r], e.kind = "update", ~IsSmaller(conn'[u].clock, e.id)
        PROVE  e.n \in got[u] \union Updates(F)
    <3>1. CASE ~IsSmaller(conn[u].clock, e.id)
      BY <1>1, <2>1, <3>1 DEF HasAll
    <3>2. CASE IsSmaller(conn[u].clock, e.id)
      <4>1. F # {} /\ ~IsSmaller(last, e.id)
        BY <1>5, <2>1, <3>2
      <4>2. IsSmaller(subs[r].clock, e.id) /\ u \in subs[r].users /\ res # {}
        BY <1>1, <1>3, <1>8, <2>1, <3>2, <4>1 DEF IsServed
      <4>3. e \in res
        BY <1>7, <4>1, <4>2
      <4> QED BY <1>3, <2>1, <3>2, <4>2, <4>3
    <3> QED BY <3>1, <3>2
  <2> QED BY <2>1 DEF HasAll, F
<1>10. ASSUME NEW e \in live[r] PROVE InOrder(u, e)'
  <2>1. ASSUME IsFresh(e), IsSmaller(conn'[u].clock, e.id), NEW n \in got[u] \union Updates(F)
        PROVE  n < e.n
    <3>1. IsSmaller(conn[u].clock, e.id)
      BY <1>5, <1>8, <2>1
    <3>2. CASE n \in got[u]
      BY <1>1, <2>1, <3>1, <3>2 DEF HasNoneLater, InOrder
    <3>3. CASE n \in Updates(F)
      <4>1. PICK f \in F : f.n = n
        BY <1>3, <3>3
      <4>2. f \in res /\ IsSmaller(f.id, e.id)
        BY <1>2, <1>3, <1>4, <1>5, <2>1, <4>1
      <4> QED BY <1>1, <2>1, <4>1, <4>2 DEF Sorted, res
    <3> QED BY <2>1, <3>2, <3>3
  <2> QED BY <2>1 DEF InOrder, IsFresh, F
<1>11. Started(u)'
  <2>1. ~IsOpen(u) => F = {} /\ Updates(F) = {}
    <3>1. ~IsOpen(u) => F = {}
      BY <1>3 DEF IsOpen, IsSynced
    <3> QED BY <1>3, <3>1
  <2> QED BY <1>1, <1>5, <2>1 DEF Started, IsOpen, F
<1>12. Serves(s, su, u)
  <2>1. ASSUME NEW e \in live[r], e.kind # "nop", IsSmaller(conn'[u].clock, e.id)
        PROVE  /\ u \in s[r].users => IsSmaller(s[r].clock, e.id)
               /\ u \in su[r].users => IsSmaller(su[r].clock, e.id)
    <3>1. IsSmaller(conn[u].clock, e.id)
      BY <1>5, <1>8, <2>1
    <3>2. /\ u \in subs[r].users => IsSmaller(subs[r].clock, e.id)
          /\ u \in subUpdates[r].users => IsSmaller(subUpdates[r].clock, e.id)
      BY <1>1, <2>1, <3>1 DEF IsServed
    <3>3. ASSUME u \in subs[r].users, res # {} PROVE IsSmaller(last, e.id)
      <4>1. CASE F # {}
        BY <1>5, <2>1, <4>1
      <4>2. CASE F = {}
        <5>1. e \notin res
          BY <1>3, <2>1, <3>1, <3>3, <4>2
        <5> QED BY <1>7, <3>2, <3>3, <5>1
      <4> QED BY <4>1, <4>2
    <3> QED BY <1>6, <3>2, <3>3
  <2> QED BY <2>1 DEF Serves
<1> QED BY <1>9, <1>10, <1>11, <1>12

(* A delivery, the disconnects in it, and the next turn of the loop. *)
LEMMA DeliverStep == ASSUME IInv, Deliver PROVE IInv'
<1>1. PICK D : /\ conn' = [u \in Users |-> IF u \in Leaving(D) THEN Closed
                                           ELSE IF Filtered(u) = {} THEN conn[u]
                                           ELSE Received(u)]
               /\ got' = [u \in Users |-> IF u \in Leaving(D) THEN {}
                                          ELSE got[u] \union Updates(Filtered(u))]
               /\ ReadOn(Without(Advanced, Leaving(D)), Without(subUpdates, Leaving(D)))
  BY DEF Deliver
<1>2. PICK L : L = Leaving(D)
  OBVIOUS
<1>3. PICK s : s = Without(Advanced, L)
  OBVIOUS
<1>4. PICK su : su = Without(subUpdates, L)
  OBVIOUS
<1>5. /\ ReadOn(s, su) /\ UNCHANGED <<redisVars, roomVars, authVars>> /\ live' = live
      /\ \A u \in Users :
           /\ conn'[u] = IF u \in L THEN Closed ELSE Delivered(u)
           /\ got'[u] = IF u \in L THEN {} ELSE got[u] \union Updates(Filtered(u))
      /\ conn' = [u \in Users |-> conn'[u]] /\ got' = [u \in Users |-> got'[u]]
  BY <1>1, <1>2, <1>3, <1>4 DEF Deliver, Delivered, redisVars
<1>6. /\ IsSubMap(s) /\ IsSubMap(su)
      /\ \A r \in Rooms :
           /\ s[r].users = subs[r].users \ L /\ su[r].users = subUpdates[r].users \ L
           /\ s[r].users # {} => s[r].clock = Advanced[r].clock
           /\ su[r].users # {} => su[r].clock = subUpdates[r].clock
           /\ s[r].clock \in {Advanced[r].clock, Zero} /\ su[r].clock \in {subUpdates[r].clock, Zero}
  <2>1. IsSubMap(subUpdates)
    BY DEF IInv, Types, LoopTypes
  <2> QED BY <1>3, <1>4, <2>1, AdvancedIs, WithoutIs
<1>7. \A r \in Rooms : IsSmaller(s[r].clock, NextId(r)) /\ IsSmaller(su[r].clock, NextId(r))
  BY <1>6, AdvancedIs, RoomFacts DEF IsPast
<1>8. UserTypes'
  <2>1. ASSUME NEW u \in Users PROVE conn'[u] \in Connections /\ got'[u] \in SUBSET (1..written)
    BY <1>5, ConnectionIs, DeliveredIs, FilteredIs, UserFacts
  <2>2. conn' \in [Users -> Connections] /\ got' \in [Users -> SUBSET (1..written)]
    BY <1>5, <2>1
  <2> QED BY <1>5, <2>2 DEF IInv, Types, UserTypes, Connections, redisVars, authVars
<1>9. ASSUME NEW u \in Users
      PROVE  /\ IsSmaller(conn'[u].clock, NextId(RoomOf[u]))
             /\ HasAll(u)' /\ Started(u)' /\ \A e \in live[RoomOf[u]] : InOrder(u, e)'
             /\ Member(s, su, u) /\ Serves(s, su, u)
  <2>0. RoomOf[u] \in Rooms /\ IsMember(u)
    BY UserFacts
  <2>1. CASE u \in L
    <3>1. conn'[u] = Closed /\ got'[u] = {} /\ Closed.clock = Zero /\ Closed.pc = "closed"
      BY <1>5, <2>1 DEF Closed, NewConnection
    <3>2. \A r \in Rooms : u \notin s[r].users \union su[r].users
      BY <1>6, <2>1
    <3>3. \A e \in live[RoomOf[u]] : IsSmaller(Zero, e.id)
      BY <2>0, RoomFacts, ZeroId DEF IInv, RoomOK, Past
    <3>4. IsSmaller(conn'[u].clock, NextId(RoomOf[u]))
      BY <2>0, <3>1, RoomFacts DEF IsPast
    <3>5. HasAll(u)' /\ \A e \in live[RoomOf[u]] : InOrder(u, e)'
      BY <1>5, <3>1, <3>3 DEF HasAll, InOrder
    <3>6. Started(u)' /\ Member(s, su, u) /\ Serves(s, su, u)
      BY <2>0, <3>1, <3>2 DEF Started, IsOpen, Member, Serves
    <3> QED BY <3>4, <3>5, <3>6
  <2>2. CASE u \notin L
    <3>1. conn'[u] = Delivered(u) /\ got'[u] = got[u] \union Updates(Filtered(u))
      BY <1>5, <2>2
    <3>2. /\ HasAll(u)' /\ Started(u)' /\ \A e \in live[RoomOf[u]] : InOrder(u, e)'
          /\ Serves(s, su, u)
      BY <1>5, <1>6, <2>0, <3>1, DeliverTo
    <3>3. IsSmaller(conn'[u].clock, NextId(RoomOf[u])) /\ conn'[u].pc = conn[u].pc
      BY <3>1, DeliveredIs
    <3>4. Member(s, su, u)
      BY <1>6, <2>0, <2>2, <3>3 DEF Member, IsMember, IsSynced
    <3> QED BY <3>2, <3>3, <3>4
  <2> QED BY <2>1, <2>2
<1>10. UNCHANGED <<redisVars, roomVars, authVars>>
  BY <1>5
<1> QED BY <1>5, <1>6, <1>7, <1>8, <1>9, <1>10, ReadOnStep

-----------------------------------------------------------------------------
(* The invariant *)

(* Nothing has been written, and nobody is connected. *)
LEMMA InitOK == Init => IInv
<1> SUFFICES ASSUME Init PROVE IInv
  OBVIOUS
<1>1. /\ \A r \in Rooms :
           /\ live[r] = {} /\ quarantined[r] = {} /\ loop.result[r] = {} /\ rows[r] = {}
           /\ lastId[r] = Zero /\ rowClock[r] = Zero /\ kick[r] = 0
           /\ subs[r].users = {} /\ subs[r].clock = Zero
           /\ subUpdates[r].users = {} /\ subUpdates[r].clock = Zero
      /\ \A u \in Users : conn[u] = NewConnection /\ got[u] = {}
      /\ now = 1 /\ written = 0 /\ loop.pc = "unconnected"
  BY DEF Init, NoResult, NoSub
<1>2. NewConnection.clock = Zero /\ NewConnection.pc = "new"
  BY DEF NewConnection
<1>3. RedisTypes
  <2>1. 1 \in 1..MaxTime
    BY BoundsAssumption
  <2> QED BY <1>1, <2>1, ZeroId, FS_EmptySet, BoundsAssumption DEF RedisTypes, Init, NoResult
<1>4. RoomTypes /\ LoopTypes
  <2>1. RoomTypes
    BY ZeroId DEF RoomTypes, Init, NoResult, Tombstones, DeletionSteps
  <2>2. LoopTypes
    BY <1>1, ZeroId, FS_EmptySet DEF LoopTypes, LoopType, IsSubMap, Init, NoResult, NoSub
  <2> QED BY <2>1, <2>2
<1>5. UserTypes
  <2>1. NewConnection \in Connections
    BY ZeroId DEF NewConnection, Connections
  <2> QED BY <2>1 DEF UserTypes, Init
<1>6. ASSUME NEW r \in Rooms PROVE RoomOK(r)
  <2>1. IsSmaller(Zero, NextId(r))
    BY <1>3, NextIdIs, ZeroId
  <2>2. Past(r)
    BY <1>1, <1>2, <2>1 DEF Past, IsPast, Zero
  <2> QED BY <1>1, <2>2 DEF RoomOK, Sorted, RowsOK, ResultOK, KickOK
<1>7. ASSUME NEW u \in Users PROVE UserOK(u)
  BY <1>1, <1>2, RoomOfAssumption DEF UserOK, HasAll, HasNoneLater, IsServed, Started, IsMember, IsOpen, IsSynced
<1> QED BY <1>3, <1>4, <1>5, <1>6, <1>7 DEF IInv, Types

(* A step that changes nothing. *)
LEMMA Stutter == ASSUME IInv, UNCHANGED vars PROVE IInv'
<1>1. RedisTypes' /\ Appends(NoEntries)
  BY HasStreams, QuietAppends DEF vars
<1> QED BY <1>1, TypesOf, QuietStep DEF vars, redisVars, roomVars, authVars

(* Every step keeps the invariant. *)
LEMMA StepOK == IInv /\ [Next]_vars => IInv'
<1> SUFFICES ASSUME IInv, [Next]_vars PROVE IInv'
  OBVIOUS
<1>1. CASE UNCHANGED vars
  BY <1>1, Stutter
<1>2. ASSUME NEW u \in Users, Handle(u) \/ ChangeAccess(u) PROVE IInv'
  BY <1>2, HandleStep, AccessStep
<1>3. CASE RunSub
  BY <1>3, LoopStartsStep, ReadStep, DeliverStep DEF RunSub
<1>4. ASSUME NEW r \in Rooms, Others(r) PROVE IInv'
  BY <1>4, OthersStep, CompactStep
<1>5. CASE Tick
  BY <1>5, TickStep
<1> QED BY <1>1, <1>2, <1>3, <1>4, <1>5 DEF Next

(* The strengthened invariant of the server and of the streams it reads. *)
THEOREM InvariantHolds == Spec => []IInv
BY InitOK, StepOK, PTL DEF Spec

(* The loop has exactly the connections that are open and synced, and the    *)
(* variables have their types, in every reachable state.                     *)
THEOREM SubscribersAreSynced == Spec => []SubscribedIffSynced
<1>1. IInv => SubscribedIffSynced
  BY TypesAreTypeOK DEF IInv, UserOK, IsMember, SubscribedIffSynced
<1> QED BY <1>1, InvariantHolds, PTL

(* A synced connection was sent, or will be, every update on the stream of   *)
(* its room.                                                                 *)
THEOREM SyncedMissNothing == Spec => []NothingMissed
<1>1. IInv => NothingMissed
  <2>1. ASSUME IInv, NEW u \in Users, NEW e \in live[RoomOf[u]], e.kind = "update"
        PROVE  e.n \in got[u] \/ WillGet(u, e)
    BY <2>1, UserFacts DEF HasAll, IsServed, WillGet
  <2> QED BY <2>1 DEF NothingMissed
<1> QED BY <1>1, InvariantHolds, PTL

(* A delivery is new to the subscriber, and younger than all that it has,    *)
(* but for what unquarantine repeats.                                        *)
THEOREM DeliveriesInOrder == Spec => []DeliversOnceInOrder
<1>1. IInv => DeliversOnceInOrder
  <2>1. ASSUME IInv, NEW u \in Users, NEW e \in Filtered(u), e.kind = "update" /\ ~e.again
        PROVE  \A n \in got[u] : n < e.n
    BY <2>1, UserFacts DEF HasNoneLater, InOrder, IsFresh, Filtered
  <2> QED BY <2>1 DEF DeliversOnceInOrder
<1> QED BY <1>1, InvariantHolds, PTL

-----------------------------------------------------------------------------
(* The announcement of a deletion *)

(* It is on the stream after what the connection has, or on its way to it,   *)
(* or in quarantine.                                                         *)
OnStream(u) == \E e \in live[RoomOf[u]] : e.n = kick[RoomOf[u]] /\ IsSmaller(conn[u].clock, e.id)
OnItsWay(u) ==
  /\ u \in subs[RoomOf[u]].users
  /\ \E e \in loop.result[RoomOf[u]] : e.n = kick[RoomOf[u]] /\ IsSmaller(conn[u].clock, e.id)
InQuarantine(u) == \E e \in quarantined[RoomOf[u]] : e.n = kick[RoomOf[u]]
Pending(u) == OnStream(u) \/ OnItsWay(u) \/ InQuarantine(u)

(* That is what the property says, for the loop reads from early enough. *)
LEMMA PendingIs ==
  \A u \in Users : IInv /\ kick[RoomOf[u]] # 0 => (KickIsPending(u) <=> Pending(u))
<1> SUFFICES ASSUME NEW u \in Users, IInv, kick[RoomOf[u]] # 0
             PROVE  KickIsPending(u) <=> Pending(u)
  OBVIOUS
<1>1. RoomOf[u] \in Rooms /\ IsServed(u) /\ KickOK(RoomOf[u])
  BY UserFacts DEF IInv, RoomOK
<1>2. ASSUME NEW e \in live[RoomOf[u]], e.n = kick[RoomOf[u]], IsSmaller(conn[u].clock, e.id)
      PROVE  WillGet(u, e)
  <2>1. e.kind = "tombstone"
    BY <1>1, <1>2 DEF KickOK
  <2> QED BY <1>1, <1>2, <2>1 DEF IsServed, WillGet
<1>3. ASSUME NEW e \in loop.result[RoomOf[u]], IsSmaller(conn[u].clock, e.id), u \in subs[RoomOf[u]].users
      PROVE  WillGet(u, e)
  BY <1>3 DEF WillGet
<1>4. ASSUME NEW e, WillGet(u, e)
      PROVE  /\ IsSmaller(conn[u].clock, e.id)
             /\ e \in live[RoomOf[u]] \/ (e \in loop.result[RoomOf[u]] /\ u \in subs[RoomOf[u]].users)
  BY <1>4 DEF WillGet
<1> QED BY <1>2, <1>3, <1>4 DEF KickIsPending, WillGetKick, Pending, OnStream, OnItsWay, InQuarantine

(* What keeps it pending for a connection that does not move. *)
LEMMA StaysPending ==
  ASSUME NEW u \in Users, Pending(u),
         kick'[RoomOf[u]] = kick[RoomOf[u]], conn'[u].clock = conn[u].clock,
         u \in subs[RoomOf[u]].users /\ loop.result[RoomOf[u]] # {} =>
           u \in subs'[RoomOf[u]].users /\ loop'.result[RoomOf[u]] = loop.result[RoomOf[u]],
         \A e \in live[RoomOf[u]] : e.n = kick[RoomOf[u]] /\ IsSmaller(conn[u].clock, e.id) =>
           \/ e \in live'[RoomOf[u]]
           \/ \E f \in quarantined'[RoomOf[u]] : f.n = e.n,
         \A e \in quarantined[RoomOf[u]] : e.n = kick[RoomOf[u]] =>
           \/ e \in quarantined'[RoomOf[u]]
           \/ \E f \in live'[RoomOf[u]] : f.n = e.n /\ IsSmaller(conn[u].clock, f.id)
  PROVE  Pending(u)'
<1>1. CASE OnStream(u)
  BY <1>1 DEF Pending, OnStream, InQuarantine
<1>2. CASE OnItsWay(u)
  BY <1>2 DEF Pending, OnItsWay
<1>3. CASE InQuarantine(u)
  BY <1>3 DEF Pending, OnStream, InQuarantine
<1> QED BY <1>1, <1>2, <1>3 DEF Pending

(* The rest of the system: a trim leaves what the connection has not got, a  *)
(* quarantine keeps it, and its end writes it again.                         *)
LEMMA OthersPending ==
  ASSUME IInv, NEW r \in Rooms, Others(r), NEW u \in Users, IsSynced(u),
         ~Drain(RoomOf[u]), ~DropQuarantined(RoomOf[u]),
         Pending(u), kick[RoomOf[u]] # 0, kick'[RoomOf[u]] = kick[RoomOf[u]]
  PROVE  Pending(u)'
<1> DEFINE q == RoomOf[u]
<1>1. serverVars' = serverVars
  BY DEF Others, ApiWrite, Compact, Trim, Drain, Quarantine, Unquarantine, StoreTombstone, ClearMessages,
     ClearFails, AddTombstone, DropQuarantined, DeleteFails, RecheckAuth
<1>2. conn' = conn /\ subs' = subs /\ loop' = loop
  BY <1>1 DEF serverVars
<1>3. /\ q \in Rooms /\ Streams /\ KickOK(q) /\ Started(u) /\ conn[u].clock \in Ids
      /\ IsPast(q, conn[u].clock)
      /\ live \in [Rooms -> SUBSET Entries] /\ quarantined \in [Rooms -> SUBSET Entries]
      /\ kick \in [Rooms -> 0..written]
  BY UserFacts, HasStreams, TypesOf DEF IInv, RoomOK, Types, RedisTypes
<1>4. CASE \A p \in Rooms : live[p] \subseteq live'[p] /\ quarantined'[p] = quarantined[p]
  BY <1>2, <1>3, <1>4, StaysPending
<1>5. CASE Trim(r)
  <2>1. /\ live' = [live EXCEPT ![r] = live[r] \ {e \in live[r] : Outlived(r, e) /\ ~IsSmaller(rowClock[r], e.id)}]
        /\ quarantined' = quarantined
    BY <1>5 DEF Trim
  <2>2. ASSUME NEW e \in live[q], IsSmaller(conn[u].clock, e.id) PROVE e \in live'[q]
    <3>1. IsOpen(u) /\ conn[u].stream # "unread"
      BY <1>3 DEF IsOpen, IsSynced, Started
    <3>2. ~Outlived(q, e)
      BY <2>2, <3>1 DEF Outlived
    <3> QED BY <1>3, <2>1, <2>2, <3>2
  <2> QED BY <1>2, <1>3, <2>1, <2>2, StaysPending
<1>6. CASE Quarantine(r)
  <2>1. quarantined' = [quarantined EXCEPT ![r] = quarantined[r] \union {e \in live[r] : e.kind # "nop"}]
    BY <1>6 DEF Quarantine
  <2>2. PICK x : live' = [live EXCEPT ![r] = x]
    BY <1>6 DEF Quarantine
  <2>3. ASSUME NEW e \in live[q], e.n = kick[q]
        PROVE  e \in live'[q] \/ \E f \in quarantined'[q] : f.n = e.n
    <3>1. e.kind # "nop"
      BY <1>3, <2>3 DEF KickOK
    <3> QED BY <1>3, <2>1, <2>2, <3>1
  <2>4. quarantined[q] \subseteq quarantined'[q]
    BY <1>3, <2>1
  <2> QED BY <1>2, <1>3, <2>3, <2>4, StaysPending
<1>7. CASE Unquarantine(r)
  <2>1. PICK G \in [Rooms -> SUBSET Entries] :
          /\ Appends(G)
          /\ \A e \in quarantined[r] :
               e.kind \notin {"check", "kick"} => \E g \in G[r] : g.n = e.n /\ g.kind = e.kind
          /\ live' = [live EXCEPT ![r] = live[r] \union G[r]]
    BY <1>3, <1>7, UnquarantineAppends
  <2>2. quarantined' = [quarantined EXCEPT ![r] = {}]
    BY <1>7 DEF Unquarantine
  <2>3. live[q] \subseteq live'[q]
    BY <1>3, <2>1
  <2>4. ASSUME NEW e \in quarantined[q], e.n = kick[q]
        PROVE  e \in quarantined'[q] \/ \E f \in live'[q] : f.n = e.n /\ IsSmaller(conn[u].clock, f.id)
    <3>1. CASE q # r
      BY <1>3, <2>2, <3>1
    <3>2. CASE q = r
      <4>1. e.kind = "tombstone"
        BY <1>3, <2>4 DEF KickOK
      <4>2. PICK g \in G[q] : g.n = e.n
        BY <2>1, <3>2, <4>1
      <4>3. g \in Entries /\ IsAppended(q, g) /\ g \in live'[q]
        BY <1>3, <2>1, <3>2 DEF Appends
      <4>4. IsSmaller(conn[u].clock, g.id)
        BY <1>3, <4>3, AppendedLast DEF Streams
      <4> QED BY <4>2, <4>3, <4>4
    <3> QED BY <3>1, <3>2
  <2> QED BY <1>2, <1>3, <2>3, <2>4, StaysPending
<1>8. CASE ClearMessages(r)
  <2>1. q # r
    BY <1>3, <1>8 DEF ClearMessages
  <2>2. live'[q] = live[q] /\ quarantined' = quarantined
    BY <1>3, <1>8, <2>1 DEF ClearMessages
  <2> QED BY <1>2, <1>3, <2>2, StaysPending
<1>9. CASE ApiWrite(r) \/ AddTombstone(r) \/ RecheckAuth(r)
  <2>1. PICK x : live' = [live EXCEPT ![r] = live[r] \union {x}] /\ quarantined' = quarantined
    BY <1>9 DEF ApiWrite, AddTombstone, RecheckAuth, Add
  <2> QED BY <1>3, <1>4, <2>1
<1>10. CASE Compact(r) \/ StoreTombstone(r) \/ ClearFails(r) \/ DeleteFails(r)
  <2>1. live' = live /\ quarantined' = quarantined
    BY <1>10 DEF Compact, StoreTombstone, ClearFails, DeleteFails, redisVars
  <2> QED BY <1>4, <2>1
<1>11. CASE Drain(r) \/ DropQuarantined(r)
  <2>1. q # r
    BY <1>11
  <2>2. CASE Drain(r)
    <3>1. PICK x : live' = [live EXCEPT ![r] = x]
      BY <2>2 DEF Drain
    <3>2. live'[q] = live[q] /\ quarantined' = quarantined
      BY <1>3, <2>1, <2>2, <3>1 DEF Drain
    <3> QED BY <1>2, <1>3, <3>2, StaysPending
  <2>3. CASE DropQuarantined(r)
    <3>1. PICK x : quarantined' = [quarantined EXCEPT ![r] = x]
      BY <2>3 DEF DropQuarantined
    <3>2. live' = live /\ quarantined'[q] = quarantined[q]
      BY <1>3, <2>1, <2>3, <3>1 DEF DropQuarantined
    <3> QED BY <1>2, <1>3, <3>2, StaysPending
  <2> QED BY <1>11, <2>2, <2>3
<1> QED BY <1>5, <1>6, <1>7, <1>8, <1>9, <1>10, <1>11 DEF Others

(* No handler moves a connection that is synced and stays so, or takes       *)
(* anything from it.                                                         *)
LEMMA HandleKeeps ==
  ASSUME IInv, NEW v \in Users, Handle(v) \/ ChangeAccess(v),
         NEW u \in Users, IsSynced(u), IsSynced(u)'
  PROVE  /\ kick' = kick /\ quarantined' = quarantined
         /\ live[RoomOf[u]] \subseteq live'[RoomOf[u]]
         /\ conn'[u].clock = conn[u].clock
         /\ u \in subs[RoomOf[u]].users /\ loop.result[RoomOf[u]] # {} =>
              u \in subs'[RoomOf[u]].users /\ loop'.result[RoomOf[u]] = loop.result[RoomOf[u]]
<1> DEFINE q == RoomOf[u]
<1>1. /\ kick' = kick /\ quarantined' = quarantined
      /\ \A r \in Rooms : live[r] \subseteq live'[r]
      /\ q \in Rooms /\ conn \in [Users -> Connections] /\ IsSubMap(subs) /\ loop \in LoopType
  <2>1. kick' = kick /\ quarantined' = quarantined
    BY DEF Handle, Upgrade, ReadRows, ReadStream, Opened, OpenChecked, OpenAfterCheck, ClientMessage,
       ClientCloses, Reconnect, AuthAnswers, Revoke, ChangeAccess, redisVars, roomVars, Add
  <2>2. live' = live \/ (\E x : live' = [live EXCEPT ![RoomOf[v]] = live[RoomOf[v]] \union {x}])
    BY DEF Handle, Upgrade, ReadRows, ReadStream, Opened, OpenChecked, OpenAfterCheck, ClientMessage,
       ClientCloses, Reconnect, AuthAnswers, Revoke, ChangeAccess, redisVars, Add
  <2>3. live \in [Rooms -> SUBSET Entries] /\ conn \in [Users -> Connections] /\ IsSubMap(subs) /\ loop \in LoopType
    BY DEF IInv, Types, RedisTypes, UserTypes, LoopTypes
  <2> QED BY <2>1, <2>2, <2>3, UserFacts
<1>2. CASE /\ conn'[u].clock = conn[u].clock
           /\ u \in subs[q].users => u \in subs'[q].users
           /\ loop'.result = loop.result \/ loop.result[q] = {}
  BY <1>1, <1>2
<1>3. CASE ClientMessage(v) \/ ChangeAccess(v)
  BY <1>2, <1>3 DEF ClientMessage, ChangeAccess, serverVars
<1>4. CASE Upgrade(v) \/ ReadRows(v) \/ ReadStream(v) \/ OpenChecked(v) \/ Reconnect(v)
  <2>1. PICK c : conn' = [conn EXCEPT ![v] = c]
    BY <1>1, <1>4 DEF Upgrade, ReadRows, ReadStream, OpenChecked, Reconnect
  <2>2. ~IsSynced(v) /\ subs' = subs /\ loop' = loop
    BY <1>4 DEF Upgrade, ReadRows, ReadStream, OpenChecked, Reconnect, IsSynced
  <2> QED BY <1>1, <1>2, <2>1, <2>2
<1>5. CASE AuthAnswers(v)
  <2>1. PICK n \in conn[v].asking : \E verdict \in {"keep", "close"} :
          conn' = [conn EXCEPT ![v].asking = @ \ {n}, ![v].revoked = @ \/ verdict = "close"]
    BY <1>5 DEF AuthAnswers
  <2>2. PICK verdict \in {"keep", "close"} :
          conn' = [conn EXCEPT ![v].asking = @ \ {n}, ![v].revoked = @ \/ verdict = "close"]
    BY <2>1
  <2>3. conn'[u].clock = conn[u].clock
    BY <1>1, <2>2 DEF Connections
  <2>4. subs' = subs /\ loop' = loop
    BY <1>5 DEF AuthAnswers
  <2> QED BY <1>2, <2>3, <2>4
<1>6. CASE Close(v)
  <2>1. conn' = [conn EXCEPT ![v] = Closed] /\ subs' = Without(subs, {v}) /\ loop' = loop
    BY <1>6 DEF Close, Unsubscribe
  <2>2. Closed.pc = "closed"
    BY DEF Closed, NewConnection
  <2>3. u # v
    BY <1>1, <2>1, <2>2 DEF IsSynced
  <2>4. subs'[q].users = subs[q].users \ {v}
    BY <1>1, <2>1, WithoutIs
  <2> QED BY <1>1, <1>2, <2>1, <2>3, <2>4
<1>7. CASE Sync(v)
  <2>1. conn' = [conn EXCEPT ![v].pc = "synced"]
    BY <1>7 DEF Sync
  <2>2. conn'[u].clock = conn[u].clock
    BY <1>1, <2>1 DEF Connections
  <2>3. CASE loop.pc = "off"
    <3>1. loop.result[q] = {}
      BY <1>1, <2>3 DEF IInv, RoomOK, ResultOK
    <3> QED BY <1>1, <2>2, <3>1
  <2>4. CASE loop.pc # "off"
    <3>1. subs' = subs /\ loop' = [loop EXCEPT !.pc = IF @ = "unconnected" THEN "connecting" ELSE @]
      BY <1>7, <2>4 DEF Sync, Subscribe
    <3>2. loop'.result = loop.result
      BY <1>1, <3>1 DEF LoopType
    <3> QED BY <1>2, <2>2, <3>1, <3>2
  <2> QED BY <2>3, <2>4
<1>8. CASE conn[v].pc = "opening" /\ conn' = [conn EXCEPT ![v].pc = "checking"] /\ UNCHANGED <<got, subs, subUpdates, loop>>
  <2>1. conn'[u].clock = conn[u].clock
    BY <1>1, <1>8 DEF Connections
  <2> QED BY <1>2, <1>8, <2>1
<1>9. CASE Opened(v) \/ OpenAfterCheck(v) \/ ClientCloses(v) \/ Revoke(v)
  BY <1>6, <1>7, <1>8, <1>9 DEF Opened, OpenAfterCheck, ClientCloses, Revoke
<1> QED BY <1>3, <1>4, <1>5, <1>9 DEF Handle

LEMMA HandlePending ==
  ASSUME IInv, NEW v \in Users, Handle(v) \/ ChangeAccess(v),
         NEW u \in Users, IsSynced(u), IsSynced(u)', Pending(u)
  PROVE  Pending(u)'
BY HandleKeeps, StaysPending

(* A delivery moves nobody past what is not in it. *)
LEMMA DeliverKeeps ==
  ASSUME IInv, Deliver, NEW u \in Users, IsSynced(u)', NEW e \in live[RoomOf[u]],
         e.kind # "nop", IsSmaller(conn[u].clock, e.id),
         ~(u \in subs[RoomOf[u]].users /\ e \in loop.result[RoomOf[u]])
  PROVE  IsSmaller(conn'[u].clock, e.id)
<1> DEFINE q == RoomOf[u]
<1>1. q \in Rooms /\ conn[u].clock \in Ids /\ ResultOK(q) /\ IsServed(u)
  BY UserFacts DEF IInv, RoomOK
<1>2. conn'[u] = Delivered(u)
  BY DeliveredTo
<1>3. conn'[u].clock = IF Filtered(u) = {} THEN conn[u].clock ELSE LastClock(loop.result[q])
  BY <1>2, DeliveredIs
<1>4. CASE Filtered(u) = {}
  BY <1>3, <1>4
<1>5. CASE Filtered(u) # {}
  <2>1. u \in subs[q].users /\ loop.result[q] # {}
    BY <1>5, FilteredIs
  <2>2. e \notin loop.result[q]
    BY <2>1
  <2>3. IsSmaller(subs[q].clock, e.id)
    BY <1>1, <2>1 DEF IsServed
  <2>4. \A f \in loop.result[q] : IsSmaller(f.id, e.id)
    BY <1>1, <2>1, <2>2, <2>3 DEF ResultOK
  <2>5. e.id \in Ids /\ loop.result[q] \in SUBSET Entries /\ IsFiniteSet(loop.result[q])
    BY <1>1, RoomFacts
  <2>6. IsSmaller(LastClock(loop.result[q]), e.id)
    BY <2>1, <2>4, <2>5, LastClockIs
  <2> QED BY <1>3, <1>5, <2>6
<1> QED BY <1>4, <1>5

(* The loop: whoever is given the announcement leaves, and a delivery moves  *)
(* nobody past what is not in it.                                            *)
LEMMA LoopPending ==
  ASSUME IInv, RunSub, NEW u \in Users, IsSynced(u), IsSynced(u)', Pending(u), kick[RoomOf[u]] # 0
  PROVE  Pending(u)'
<1> DEFINE q == RoomOf[u]
<1>1. /\ kick' = kick /\ quarantined' = quarantined /\ live' = live
      /\ q \in Rooms /\ conn[u].clock \in Ids
      /\ KickOK(q) /\ ResultOK(q) /\ IsServed(u)
  BY UserFacts DEF RunSub, LoopStarts, RedisAnswers, ReadFails, Deliver, redisVars, roomVars, IInv, RoomOK
<1>2. CASE loop.pc # "answered" /\ conn' = conn
  <2>1. loop.result[q] = {}
    BY <1>1, <1>2 DEF ResultOK
  <2> QED BY <1>1, <1>2, <2>1, StaysPending
<1>3. CASE LoopStarts \/ RedisAnswers \/ ReadFails
  BY <1>2, <1>3 DEF LoopStarts, RedisAnswers, ReadFails
<1>4. CASE Deliver
  <2>1. \A e \in Filtered(u) : e.kind # "tombstone"
    BY <1>4, DeliveredTo DEF Disconnects
  <2>5. \A e \in live[q] \union loop.result[q] : e.n = kick[q] => e.kind = "tombstone"
    BY <1>1 DEF KickOK
  <2>6. \A e \in loop.result[q] :
          e.n = kick[q] /\ IsSmaller(conn[u].clock, e.id) => u \notin subs[q].users
    BY <2>1, <2>5, FilteredIs
  <2>7. ~OnItsWay(u)
    BY <2>6 DEF OnItsWay
  <2>8. ASSUME OnStream(u) PROVE OnStream(u)'
    <3>1. PICK e \in live[q] : e.n = kick[q] /\ IsSmaller(conn[u].clock, e.id)
      BY <2>8 DEF OnStream
    <3>2. IsSmaller(conn'[u].clock, e.id)
      BY <1>4, <2>5, <2>6, <3>1, DeliverKeeps
    <3> QED BY <1>1, <3>1, <3>2 DEF OnStream
  <2> QED BY <1>1, <2>7, <2>8 DEF Pending, InQuarantine
<1> QED BY <1>3, <1>4 DEF RunSub

(* It is there for everybody when it is written. *)
LEMMA AnnouncedPending ==
  ASSUME IInv, Next, NEW u \in Users, IsAnnounced(RoomOf[u])
  PROVE  OnStream(u)'
<1> DEFINE q == RoomOf[u]
<1>1. kick'[q] # kick[q] /\ kick'[q] # 0 /\ q \in Rooms /\ kick \in [Rooms -> 0..written]
  BY UserFacts, TypesOf DEF IsAnnounced
<1>2. PICK r \in Rooms : AddTombstone(r)
  <2>1. ~(\E r \in Rooms : AddTombstone(r)) => kick' = kick \/ \E r \in Rooms : kick' = [kick EXCEPT ![r] = 0]
    <3> SUFFICES ASSUME ~(\E r \in Rooms : AddTombstone(r))
                 PROVE  kick' = kick \/ \E r \in Rooms : kick' = [kick EXCEPT ![r] = 0]
      OBVIOUS
    <3>1. ASSUME NEW v \in Users, Handle(v) \/ ChangeAccess(v) PROVE kick' = kick
      BY <3>1 DEF Handle, Upgrade, ReadRows, ReadStream, Opened, OpenChecked, OpenAfterCheck, ClientMessage,
         ClientCloses, Reconnect, AuthAnswers, Revoke, ChangeAccess, roomVars
    <3>2. CASE RunSub \/ Tick
      BY <3>2 DEF RunSub, LoopStarts, RedisAnswers, ReadFails, Deliver, Tick, roomVars
    <3>3. ASSUME NEW r \in Rooms, Others(r) PROVE kick' = kick \/ kick' = [kick EXCEPT ![r] = 0]
      BY <3>3 DEF Others, ApiWrite, Compact, Trim, Drain, Quarantine, Unquarantine, StoreTombstone, ClearMessages,
         ClearFails, DropQuarantined, DeleteFails, RecheckAuth, roomVars
    <3> QED BY <3>1, <3>2, <3>3 DEF Next
  <2> QED BY <1>1, <2>1
<1>3. /\ Add(r, "tombstone", Users) /\ kick' = [kick EXCEPT ![r] = written + 1] /\ conn' = conn
  BY <1>2 DEF AddTombstone, serverVars
<1>4. q = r /\ kick'[q] = written + 1
  BY <1>1, <1>3
<1>5. Streams
  BY HasStreams
<1>6. PICK e \in Entries : /\ e.n = written + 1 /\ ~IsPast(r, e.id) /\ e.id = NextId(r)
                           /\ live' = [live EXCEPT ![r] = live[r] \union {e}]
  BY <1>3, <1>5, AddAppends DEF Kinds
<1>7. IsSmaller(conn[u].clock, e.id)
  BY <1>4, <1>6, UserFacts DEF IsPast
<1>8. e \in live'[q]
  BY <1>1, <1>4, <1>6 DEF IInv, Types, RedisTypes
<1> QED BY <1>3, <1>4, <1>6, <1>7, <1>8 DEF OnStream

(* Who is connected when a deletion is announced will be told, unless a      *)
(* worker drains the hard-deleted room, or the purge drops its quarantine    *)
(* keys, before the loop has read the message.                               *)
THEOREM KickReachesAll == Spec => KickReaches
<1>0. (\A u \in Users : IInv /\ kick[RoomOf[u]] # 0 => (KickIsPending(u) <=> Pending(u)))'
  BY PendingIs, PTL
<1>1. ASSUME IInv, IInv', [Next]_vars, NEW u \in Users, IsSynced(u), IsSynced(u)',
             IsAnnounced(RoomOf[u]) \/ (KickIsPending(u) /\ kick'[RoomOf[u]] # 0),
             ~Drain(RoomOf[u]), ~DropQuarantined(RoomOf[u])
      PROVE  KickIsPending(u)'
  <2>1. kick'[RoomOf[u]] # 0
    BY <1>1 DEF IsAnnounced
  <2>2. Pending(u)'
    <3>1. CASE UNCHANGED vars /\ ~IsAnnounced(RoomOf[u])
      <4>1. Pending(u)
        BY <1>1, <2>1, <3>1, PendingIs DEF vars, roomVars
      <4> QED BY <3>1, <4>1 DEF vars, redisVars, roomVars, serverVars, Pending, OnStream, OnItsWay, InQuarantine
    <3>2. CASE IsAnnounced(RoomOf[u])
      <4>1. Next
        BY <1>1, <3>2 DEF IsAnnounced, vars, roomVars
      <4> QED BY <1>1, <3>2, <4>1, AnnouncedPending DEF Pending
    <3>3. CASE Next /\ ~IsAnnounced(RoomOf[u])
      <4>1. kick'[RoomOf[u]] = kick[RoomOf[u]] /\ kick[RoomOf[u]] # 0
        BY <2>1, <3>3 DEF IsAnnounced
      <4>2. Pending(u)
        BY <1>1, <3>3, <4>1, PendingIs
      <4>3. CASE Tick
        <5>1. /\ live' = live /\ quarantined' = quarantined /\ kick' = kick
              /\ conn' = conn /\ subs' = subs /\ loop' = loop
          BY <4>3 DEF Tick, roomVars, serverVars
        <5> QED BY <4>2, <5>1 DEF Pending, OnStream, OnItsWay, InQuarantine
      <4> QED BY <1>1, <3>3, <4>1, <4>2, <4>3, HandlePending, LoopPending, OthersPending DEF Next
    <3> QED BY <1>1, <3>1, <3>2, <3>3
  <2> QED BY <1>0, <1>1, <2>1, <2>2
<1>2. IInv /\ IInv' /\ [Next]_vars =>
        [\A u \in Users :
           /\ IsSynced(u) /\ IsSynced(u)'
           /\ IsAnnounced(RoomOf[u]) \/ (KickIsPending(u) /\ kick'[RoomOf[u]] # 0)
           /\ ~Drain(RoomOf[u]) /\ ~DropQuarantined(RoomOf[u])
           => KickIsPending(u)']_vars
  BY <1>1
<1> QED BY <1>2, InvariantHolds, PTL DEF Spec, KickReaches

-----------------------------------------------------------------------------
(* The re-checks *)

(* An entry that a connection has not got, and is on the stream or on its    *)
(* way to it.                                                                *)
IsTold(u, e) ==
  /\ IsSmaller(conn[u].clock, e.id)
  /\ e \in live[RoomOf[u]] \/ (u \in subs[RoomOf[u]].users /\ e \in loop.result[RoomOf[u]])
IsAsked(u) == conn[u].asking # {} \/ conn[u].revoked
IsCheck(u, e) == e.kind \in {"check", "kick"} /\ u \in e.users
IsWarned(u) == \E e : IsCheck(u, e) /\ IsTold(u, e)

(* That is what the property says, for the loop reads from early enough. *)
LEMMA CheckedIs ==
  \A u \in Users : IInv => (IsBeingChecked(u) <=> IsAsked(u) \/ IsWarned(u))
<1> SUFFICES ASSUME NEW u \in Users, IInv
             PROVE  IsBeingChecked(u) <=> IsAsked(u) \/ IsWarned(u)
  OBVIOUS
<1>1. IsServed(u)
  BY UserFacts
<1>2. ASSUME NEW e, IsCheck(u, e) PROVE WillGet(u, e) <=> IsTold(u, e)
  BY <1>1, <1>2 DEF IsCheck, IsTold, IsServed, WillGet
<1>3. ASSUME NEW e, IsTold(u, e) PROVE e \in live[RoomOf[u]] \union loop.result[RoomOf[u]]
  BY <1>3 DEF IsTold
<1>4. \A e : e \in ChecksFor(u, live[RoomOf[u]] \union loop.result[RoomOf[u]]) <=>
              e \in live[RoomOf[u]] \union loop.result[RoomOf[u]] /\ IsCheck(u, e)
  BY DEF ChecksFor, IsCheck
<1> QED BY <1>2, <1>3, <1>4 DEF IsBeingChecked, IsAsked, IsWarned

(* What keeps an entry for a connection that does not move. *)
LEMMA StaysTold ==
  ASSUME NEW u \in Users, NEW e, IsTold(u, e), conn'[u].clock = conn[u].clock,
         u \in subs[RoomOf[u]].users /\ loop.result[RoomOf[u]] # {} =>
           u \in subs'[RoomOf[u]].users /\ loop'.result[RoomOf[u]] = loop.result[RoomOf[u]],
         e \in live[RoomOf[u]] => e \in live'[RoomOf[u]]
  PROVE  IsTold(u, e)'
BY DEF IsTold

(* The rest of the system takes nothing from a connection but by a           *)
(* quarantine, and the clearing and the draining of a hard deletion.         *)
LEMMA OthersKeep ==
  ASSUME IInv, NEW r \in Rooms, Others(r), NEW u \in Users, IsSynced(u),
         ~ClearMessages(RoomOf[u]), ~Drain(RoomOf[u]), ~Quarantine(RoomOf[u]), NEW e, IsTold(u, e)
  PROVE  IsTold(u, e)'
<1> DEFINE q == RoomOf[u]
<1>1. serverVars' = serverVars
  BY DEF Others, ApiWrite, Compact, Trim, Drain, Quarantine, Unquarantine, StoreTombstone, ClearMessages,
     ClearFails, AddTombstone, DropQuarantined, DeleteFails, RecheckAuth
<1>2. conn' = conn /\ subs' = subs /\ loop' = loop
  BY <1>1 DEF serverVars
<1>3. /\ q \in Rooms /\ Streams /\ Started(u)
      /\ live \in [Rooms -> SUBSET Entries] /\ quarantined \in [Rooms -> SUBSET Entries]
  BY UserFacts, HasStreams, TypesOf DEF IInv, RoomOK, Types, RedisTypes
<1>4. CASE live[q] \subseteq live'[q]
  BY <1>1, <1>2, <1>4, StaysTold
<1>5. CASE Trim(r)
  <2>1. live' = [live EXCEPT ![r] = live[r] \ {f \in live[r] : Outlived(r, f) /\ ~IsSmaller(rowClock[r], f.id)}]
    BY <1>5 DEF Trim
  <2>2. ASSUME e \in live[q] PROVE e \in live'[q]
    <3>1. IsOpen(u) /\ conn[u].stream # "unread" /\ IsSmaller(conn[u].clock, e.id)
      BY <1>3 DEF IsOpen, IsSynced, Started, IsTold
    <3>2. ~Outlived(q, e)
      BY <3>1 DEF Outlived
    <3> QED BY <1>3, <2>1, <2>2, <3>2
  <2> QED BY <1>1, <1>2, <2>2, StaysTold
<1>6. CASE Quarantine(r) \/ ClearMessages(r) \/ Drain(r)
  <2>1. q # r
    BY <1>6
  <2>2. PICK x : live' = [live EXCEPT ![r] = x]
    BY <1>6 DEF Quarantine, ClearMessages, Drain
  <2> QED BY <1>3, <1>4, <2>1, <2>2
<1>7. CASE Unquarantine(r)
  <2>1. PICK x : live' = [live EXCEPT ![r] = live[r] \union x]
    BY <1>7 DEF Unquarantine
  <2> QED BY <1>3, <1>4, <2>1
<1>8. CASE ApiWrite(r) \/ AddTombstone(r) \/ RecheckAuth(r)
  <2>1. PICK x : live' = [live EXCEPT ![r] = live[r] \union {x}]
    BY <1>8 DEF ApiWrite, AddTombstone, RecheckAuth, Add
  <2> QED BY <1>3, <1>4, <2>1
<1>9. CASE Compact(r) \/ StoreTombstone(r) \/ ClearFails(r) \/ DropQuarantined(r) \/ DeleteFails(r)
  BY <1>4, <1>9 DEF Compact, StoreTombstone, ClearFails, DropQuarantined, DeleteFails, redisVars
<1> QED BY <1>5, <1>6, <1>7, <1>8, <1>9 DEF Others

(* The loop: a re-check that is delivered is asked, or disconnects; no       *)
(* delivery forgets what is asked.                                           *)
LEMMA LoopAsks ==
  ASSUME IInv, RunSub, NEW u \in Users, IsSynced(u), IsSynced(u)'
  PROVE  /\ IsAsked(u) => IsAsked(u)'
         /\ \A e : IsCheck(u, e) /\ IsTold(u, e) => IsTold(u, e)' \/ IsAsked(u)'
<1> DEFINE q == RoomOf[u]
<1>1. live' = live /\ q \in Rooms /\ ResultOK(q) /\ conn[u] \in Connections
  BY UserFacts, ConnectionIs DEF RunSub, LoopStarts, RedisAnswers, ReadFails, Deliver, redisVars, IInv, RoomOK
<1>2. CASE LoopStarts \/ RedisAnswers \/ ReadFails
  <2>1. loop.pc # "answered" /\ conn' = conn
    BY <1>2 DEF LoopStarts, RedisAnswers, ReadFails
  <2>2. loop.result[q] = {}
    BY <1>1, <2>1 DEF ResultOK
  <2>3. \A e : IsTold(u, e) => IsTold(u, e)'
    BY <1>1, <2>1, <2>2, StaysTold
  <2> QED BY <1>1, <2>1, <2>3 DEF IsAsked
<1>3. CASE Deliver
  <2> DEFINE asked == {e.n : e \in {f \in Filtered(u) : f.kind = "check" /\ u \in f.users}}
  <2>1. conn'[u] = Delivered(u) /\ \A e \in Filtered(u) : ~Disconnects(u, e)
    BY <1>3, DeliveredTo
  <2>2. /\ conn'[u].revoked = conn[u].revoked
        /\ conn[u].asking \subseteq conn'[u].asking
        /\ Filtered(u) # {} => conn'[u].asking = conn[u].asking \union asked
    <3>1. CASE Filtered(u) = {}
      BY <2>1, <3>1 DEF Delivered
    <3>2. CASE Filtered(u) # {}
      <4>1. conn'[u] = [conn[u] EXCEPT !.clock = LastClock(loop.result[q]),
                                       !.asking = conn[u].asking \union asked]
        BY <1>1, <2>1, <3>2 DEF Delivered, Received, Connections
      <4> HIDE DEF asked
      <4> QED BY <1>1, <4>1 DEF Connections
    <3> QED BY <3>1, <3>2
  <2>3. IsAsked(u) => IsAsked(u)'
    BY <2>2 DEF IsAsked
  <2>4. ASSUME NEW e, IsCheck(u, e), IsTold(u, e) PROVE IsTold(u, e)' \/ IsAsked(u)'
    <3>1. CASE u \in subs[q].users /\ e \in loop.result[q]
      <4>1. e \in Filtered(u)
        BY <2>4, <3>1 DEF Filtered, IsCheck, IsTold
      <4>2. e.kind = "check" /\ u \in e.users
        BY <2>1, <2>4, <4>1 DEF Disconnects, IsCheck
      <4>3. e.n \in asked
        BY <4>1, <4>2
      <4> QED BY <2>2, <4>1, <4>3 DEF IsAsked
    <3>2. CASE ~(u \in subs[q].users /\ e \in loop.result[q])
      <4>1. e \in live[q] /\ IsSmaller(conn[u].clock, e.id) /\ e.kind # "nop"
        BY <2>4, <3>2 DEF IsTold, IsCheck
      <4>2. IsSmaller(conn'[u].clock, e.id)
        BY <1>3, <3>2, <4>1, DeliverKeeps
      <4> QED BY <1>1, <4>1, <4>2 DEF IsTold
    <3> QED BY <3>1, <3>2
  <2> QED BY <1>1, <2>3, <2>4
<1> QED BY <1>2, <1>3 DEF RunSub

(* The handlers: a re-check that is asked is answered by "close" as long as  *)
(* the access differs.                                                       *)
LEMMA HandleAsks ==
  ASSUME IInv, NEW v \in Users, Handle(v) \/ ChangeAccess(v),
         NEW u \in Users, IsSynced(u), IsSynced(u)', Mismatch(u)', IsAsked(u)
  PROVE  IsAsked(u)'
<1>1. conn \in [Users -> Connections] /\ conn[u] \in Connections
  BY ConnectionIs
<1>2. CASE conn'[u] = conn[u]
  BY <1>2 DEF IsAsked
<1>3. CASE ClientMessage(v) \/ ChangeAccess(v)
  BY <1>2, <1>3 DEF ClientMessage, ChangeAccess, serverVars
<1>4. CASE Upgrade(v) \/ ReadRows(v) \/ ReadStream(v) \/ OpenChecked(v) \/ Reconnect(v)
  <2>1. PICK c : conn' = [conn EXCEPT ![v] = c]
    BY <1>1, <1>4 DEF Upgrade, ReadRows, ReadStream, OpenChecked, Reconnect
  <2>2. ~IsSynced(v)
    BY <1>4 DEF Upgrade, ReadRows, ReadStream, OpenChecked, Reconnect, IsSynced
  <2> QED BY <1>1, <1>2, <2>1, <2>2
<1>5. CASE AuthAnswers(v)
  <2>1. PICK n \in conn[v].asking, verdict \in {"keep", "close"} :
          /\ verdict = "keep" => ~Mismatch(v)
          /\ conn' = [conn EXCEPT ![v].asking = @ \ {n}, ![v].revoked = @ \/ verdict = "close"]
    BY <1>5, Zenon DEF AuthAnswers
  <2>2. access' = access
    BY <1>5 DEF AuthAnswers, authVars
  <2>3. CASE v # u
    BY <1>1, <1>2, <2>1, <2>3
  <2>4. CASE v = u
    <3>1. conn'[u].write = conn[u].write
      BY <1>1, <2>1, <2>4 DEF Connections
    <3>2. Mismatch(u)
      BY <2>2, <3>1 DEF Mismatch
    <3>3. verdict = "close"
      BY <2>1, <2>4, <3>2
    <3>4. conn'[u].revoked
      BY <1>1, <2>1, <2>4, <3>3 DEF Connections
    <3> QED BY <3>4 DEF IsAsked
  <2> QED BY <2>3, <2>4
<1>6. CASE Close(v)
  <2>1. conn' = [conn EXCEPT ![v] = Closed] /\ Closed.pc = "closed"
    BY <1>6 DEF Close, Closed, NewConnection
  <2>2. u # v
    BY <1>1, <2>1 DEF IsSynced
  <2> QED BY <1>1, <1>2, <2>1, <2>2
<1>7. CASE Sync(v) \/ conn' = [conn EXCEPT ![v].pc = "checking"]
  <2>1. PICK l : conn' = [conn EXCEPT ![v].pc = l]
    BY <1>7 DEF Sync
  <2>2. conn'[u].asking = conn[u].asking /\ conn'[u].revoked = conn[u].revoked
    BY <1>1, <2>1 DEF Connections
  <2> QED BY <2>2 DEF IsAsked
<1>8. CASE Opened(v) \/ OpenAfterCheck(v) \/ ClientCloses(v) \/ Revoke(v)
  BY <1>6, <1>7, <1>8 DEF Opened, OpenAfterCheck, ClientCloses, Revoke
<1> QED BY <1>3, <1>4, <1>5, <1>8 DEF Handle

(* A re-check that is written has not been seen by anybody. *)
LEMMA NewCheckIsTold ==
  ASSUME IInv, Next, NEW u \in Users, ~Quarantine(RoomOf[u]),
         NEW e \in live'[RoomOf[u]] \ live[RoomOf[u]], IsCheck(u, e)
  PROVE  IsTold(u, e)'
<1> DEFINE q == RoomOf[u]
<1>1. /\ q \in Rooms /\ Streams /\ IsPast(q, conn[u].clock)
      /\ live \in [Rooms -> SUBSET Entries] /\ quarantined \in [Rooms -> SUBSET Entries]
  BY UserFacts, HasStreams, TypesOf DEF IInv, Types, RedisTypes
<1>2. e.kind \in {"check", "kick"}
  BY DEF IsCheck
<1>3. ASSUME NEW r \in Rooms, NEW kind \in {"update", "tombstone"}, NEW us \in SUBSET Users, Add(r, kind, us)
      PROVE  FALSE
  <2>1. PICK x \in Entries : x.kind = kind /\ live' = [live EXCEPT ![r] = live[r] \union {x}]
    BY <1>1, <1>3, AddAppends DEF Kinds
  <2>2. e = x
    BY <1>1, <2>1
  <2> QED BY <1>2, <1>3, <2>1, <2>2
<1>4. live' # live
  OBVIOUS
<1>5. ASSUME NEW v \in Users, Handle(v) \/ ChangeAccess(v) PROVE FALSE
  <2>1. ClientMessage(v)
    BY <1>4, <1>5 DEF Handle, Upgrade, ReadRows, ReadStream, Opened, OpenChecked, OpenAfterCheck,
       ClientCloses, Reconnect, AuthAnswers, Revoke, ChangeAccess, redisVars
  <2> QED BY <1>3, <2>1, RoomOfAssumption DEF ClientMessage
<1>6. ~RunSub /\ ~Tick
  BY <1>4 DEF RunSub, LoopStarts, RedisAnswers, ReadFails, Deliver, Tick, redisVars
<1>7. PICK r \in Rooms : Others(r)
  BY <1>5, <1>6 DEF Next
<1>8. ~ApiWrite(r) /\ ~AddTombstone(r)
  <2>1. /\ ApiWrite(r) => Add(r, "update", {})
        /\ AddTombstone(r) => Add(r, "tombstone", Users)
    BY DEF ApiWrite, AddTombstone
  <2>2. ~Add(r, "update", {}) /\ ~Add(r, "tombstone", Users)
    BY <1>3
  <2> QED BY <2>1, <2>2
<1>9. ~(Compact(r) \/ StoreTombstone(r) \/ ClearFails(r) \/ DropQuarantined(r) \/ DeleteFails(r))
  BY <1>4 DEF Compact, StoreTombstone, ClearFails, DropQuarantined, DeleteFails, redisVars
<1>10. ~Trim(r) /\ ~Drain(r) /\ ~ClearMessages(r)
  <2>1. Trim(r) \/ Drain(r) \/ ClearMessages(r) => \E x \in SUBSET live[r] : live' = [live EXCEPT ![r] = x]
    BY DEF Trim, Drain, ClearMessages
  <2> QED BY <1>1, <2>1
<1>11. ~Quarantine(r)
  <2>1. Quarantine(r) => \E x : live' = [live EXCEPT ![r] = x]
    BY DEF Quarantine
  <2> QED BY <1>1, <2>1
<1>12. ~Unquarantine(r)
  <2> SUFFICES ASSUME Unquarantine(r) PROVE FALSE
    OBVIOUS
  <2> DEFINE es == {f \in quarantined[r] : f.kind \notin {"check", "kick"}}
             Rank(f) == Cardinality({g \in es : g.n < f.n})
             Id(f) == <<NextId(r)[1], NextId(r)[2] + Rank(f)>>
  <2>1. live' = [live EXCEPT ![r] = live[r] \union {At([f EXCEPT !.again = TRUE], Id(f)) : f \in es}]
    BY DEF Unquarantine
  <2> HIDE DEF Id
  <2>2. PICK f \in es : e = At([f EXCEPT !.again = TRUE], Id(f))
    BY <1>1, <2>1
  <2>3. f \in Entries
    BY <1>1
  <2>4. e.kind = f.kind
    BY <2>2, <2>3 DEF At, Entries
  <2> QED BY <1>2, <2>4
<1>13. RecheckAuth(r)
  BY <1>7, <1>8, <1>9, <1>10, <1>11, <1>12 DEF Others
<1>14. PICK kind \in {"check", "kick"}, us \in SUBSET Users : Add(r, kind, us)
  BY <1>13 DEF RecheckAuth
<1>15. PICK x \in Entries : x.id = NextId(r) /\ live' = [live EXCEPT ![r] = live[r] \union {x}]
  BY <1>1, <1>14, AddAppends DEF Kinds
<1>16. q = r /\ e = x
  BY <1>1, <1>15
<1>17. conn' = conn
  BY <1>13 DEF RecheckAuth, serverVars
<1> QED BY <1>1, <1>15, <1>16, <1>17 DEF IsTold, IsPast

(* A re-check that finds a connection synced is not lost, whatever happens   *)
(* to the shared loop: it ends the connection as long as the access differs. *)
THEOREM RecheckReachesAll == Spec => RecheckReaches
<1>0. (\A u \in Users : IInv => (IsBeingChecked(u) <=> IsAsked(u) \/ IsWarned(u)))'
  BY CheckedIs, PTL
<1>1. ASSUME IInv, IInv', [Next]_vars, NEW u \in Users, IsSynced(u), IsSynced(u)', Mismatch(u)',
             IsBeingChecked(u) \/ ChecksFor(u, live'[RoomOf[u]] \ live[RoomOf[u]]) # {},
             ~ClearMessages(RoomOf[u]), ~Drain(RoomOf[u]), ~Quarantine(RoomOf[u])
      PROVE  IsBeingChecked(u)'
  <2> DEFINE Stays == (IsAsked(u) => IsAsked(u)') /\ \A e : IsCheck(u, e) /\ IsTold(u, e) => IsTold(u, e)' \/ IsAsked(u)'
  <2>1. \A e : IsCheck(u, e)' <=> IsCheck(u, e)
    BY DEF IsCheck
  <2>2. ASSUME Stays, IsBeingChecked(u) PROVE IsBeingChecked(u)'
    <3>1. IsAsked(u) \/ \E e : IsCheck(u, e) /\ IsTold(u, e)
      BY <1>1, <2>2, CheckedIs DEF IsWarned
    <3>2. IsAsked(u)' \/ \E e : IsCheck(u, e) /\ IsTold(u, e)'
      BY <2>2, <3>1
    <3>3. IsAsked(u)' \/ IsWarned(u)'
      BY <2>1, <3>2 DEF IsWarned
    <3> QED BY <1>0, <1>1, <3>3
  <2>3. CASE UNCHANGED vars
    <3>1. /\ live' = live /\ conn' = conn /\ subs' = subs /\ loop' = loop
      BY <2>3 DEF vars, redisVars, serverVars
    <3>2. Stays
      BY <3>1 DEF IsAsked, IsTold
    <3>3. ChecksFor(u, live'[RoomOf[u]] \ live[RoomOf[u]]) = {}
      BY <3>1 DEF ChecksFor
    <3> QED BY <1>1, <2>2, <3>2, <3>3
  <2>4. CASE Next
    <3>1. CASE ChecksFor(u, live'[RoomOf[u]] \ live[RoomOf[u]]) # {}
      <4>1. PICK e \in live'[RoomOf[u]] \ live[RoomOf[u]] : IsCheck(u, e)
        BY <3>1 DEF ChecksFor, IsCheck
      <4>2. IsTold(u, e)'
        BY <1>1, <2>4, <4>1, NewCheckIsTold
      <4>3. IsWarned(u)'
        BY <2>1, <4>1, <4>2 DEF IsWarned
      <4> QED BY <1>0, <1>1, <4>3
    <3>2. CASE IsBeingChecked(u)
      <4>1. ASSUME NEW v \in Users, Handle(v) \/ ChangeAccess(v) PROVE Stays
        <5>1. \A e : IsTold(u, e) => IsTold(u, e)'
          BY <1>1, <4>1, HandleKeeps, StaysTold
        <5> QED BY <1>1, <4>1, <5>1, HandleAsks
      <4>2. ASSUME RunSub PROVE Stays
        BY <1>1, <4>2, LoopAsks
      <4>3. ASSUME NEW r \in Rooms, Others(r) PROVE Stays
        <5>1. conn' = conn
          BY <4>3 DEF Others, ApiWrite, Compact, Trim, Drain, Quarantine, Unquarantine, StoreTombstone,
             ClearMessages, ClearFails, AddTombstone, DropQuarantined, DeleteFails, RecheckAuth, serverVars
        <5> QED BY <1>1, <4>3, <5>1, OthersKeep DEF IsAsked
      <4>4. ASSUME Tick PROVE Stays
        <5>1. live' = live /\ conn' = conn /\ subs' = subs /\ loop' = loop
          BY <4>4 DEF Tick, serverVars
        <5> QED BY <5>1 DEF IsAsked, IsTold
      <4>5. Stays
        BY <2>4, <4>1, <4>2, <4>3, <4>4 DEF Next
      <4> QED BY <2>2, <3>2, <4>5
    <3> QED BY <1>1, <3>1, <3>2
  <2> QED BY <1>1, <2>3, <2>4
<1>2. IInv /\ IInv' /\ [Next]_vars =>
        [\A u \in Users :
           /\ IsSynced(u) /\ IsSynced(u)' /\ Mismatch(u)'
           /\ \/ IsBeingChecked(u)
              \/ ChecksFor(u, live'[RoomOf[u]] \ live[RoomOf[u]]) # {}
           /\ ~ClearMessages(RoomOf[u]) /\ ~Drain(RoomOf[u]) /\ ~Quarantine(RoomOf[u])
           => IsBeingChecked(u)']_vars
  BY <1>1
<1> QED BY <1>2, InvariantHolds, PTL DEF Spec, RecheckReaches
=============================================================================
