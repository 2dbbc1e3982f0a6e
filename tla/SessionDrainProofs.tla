------------------------- MODULE SessionDrainProofs -------------------------
(***************************************************************************)
(* Proofs about SessionDrain: the inbox and the history stay one record of *)
(* the same prompts, promotions keep the order of admission, and a drain   *)
(* goes idle on no input it was woken for.                                 *)
(***************************************************************************)
EXTENDS SessionDrain, FiniteSetTheorems, TLAPS

-----------------------------------------------------------------------------
(* ORDER BY *)

\* A finite set whose members have distinct keys can be put in the order of
\* its keys: place each member by the number of keys up to its own.
LEMMA SortedExists ==
  ASSUME NEW ids, IsFiniteSet(ids), NEW key,
         \A i \in ids : key[i] \in Int,
         \A i, j \in ids : key[i] = key[j] => i = j
  PROVE  \E r \in [1 .. Cardinality(ids) -> ids] :
           \A j, k \in DOMAIN r : j < k => key[r[j]] < key[r[k]]
<1> DEFINE n == Cardinality(ids)
           UpTo(i) == {j \in ids : key[j] <= key[i]}
           rank == [i \in ids |-> Cardinality(UpTo(i))]
<1>1. n \in Nat
  BY FS_CardinalityType
<1>2. \A i \in ids : IsFiniteSet(UpTo(i)) /\ Cardinality(UpTo(i)) <= n
  BY FS_Subset
<1>3. \A i \in ids : Cardinality(UpTo(i)) \in Nat
  BY <1>2, FS_CardinalityType
<1>4. \A i \in ids : rank[i] \in 1 .. n
  <2> TAKE i \in ids
  <2>1. i \in UpTo(i)
    OBVIOUS
  <2>2. Cardinality(UpTo(i)) # 0
    BY <1>2, <2>1, FS_EmptySet
  <2>3. rank[i] = Cardinality(UpTo(i))
    OBVIOUS
  <2> HIDE DEF rank, UpTo, n
  <2>4. Cardinality(UpTo(i)) \in 1 .. n
    BY <1>1, <1>2, <1>3, <2>2
  <2> QED  BY <2>3, <2>4
<1>5. \A i, j \in ids : key[i] < key[j] => rank[i] < rank[j]
  <2> TAKE i, j \in ids
  <2> HAVE key[i] < key[j]
  <2>1. UpTo(i) \in SUBSET UpTo(j) /\ UpTo(i) # UpTo(j)
    <3>1. UpTo(i) \in SUBSET UpTo(j)
      OBVIOUS
    <3>2. j \in UpTo(j) /\ j \notin UpTo(i)
      OBVIOUS
    <3> QED  BY <3>1, <3>2
  <2>2. Cardinality(UpTo(i)) <= Cardinality(UpTo(j)) /\ Cardinality(UpTo(j)) # Cardinality(UpTo(i))
    BY <1>2, <2>1, FS_Subset
  <2> QED  BY <1>3, <2>2
<1>6. \A i, j \in ids : rank[i] = rank[j] => i = j
  <2> HIDE DEF rank
  <2> SUFFICES ASSUME NEW i \in ids, NEW j \in ids, rank[i] = rank[j], key[i] # key[j]
               PROVE  FALSE
    OBVIOUS
  <2>1. key[i] < key[j] \/ key[j] < key[i]
    OBVIOUS
  <2>2. rank[i] \in Int
    BY <1>1, <1>4
  <2> QED  BY <1>5, <2>1, <2>2
<1>7. rank \in Injection(ids, 1 .. n)
  <2> HIDE DEF rank
  <2>1. rank \in [ids -> 1 .. n]
    BY <1>4 DEF rank
  <2> QED  BY <1>6, <2>1 DEF Injection, IsInjective
<1>8. IsFiniteSet(1 .. n) /\ Cardinality(1 .. n) = n
  BY <1>1, FS_Interval
<1>9. rank \in Surjection(ids, 1 .. n)
  BY <1>7, <1>8, FS_Injection
<1> HIDE DEF rank
<1>10. \A k \in 1 .. n : \E i \in ids : rank[i] = k
  BY <1>9 DEF Surjection
<1> DEFINE r == [k \in 1 .. n |-> CHOOSE i \in ids : rank[i] = k]
<1>11. \A k \in 1 .. n : r[k] \in ids /\ rank[r[k]] = k
  BY <1>10
<1>12. \A j, k \in 1 .. n : j < k => key[r[j]] < key[r[k]]
  BY <1>1, <1>5, <1>11
<1>13. r \in [1 .. n -> ids]
  BY <1>11
<1> QED  BY <1>12, <1>13

-----------------------------------------------------------------------------
(* The inductive invariant *)

\* A session's numbers are given once: to an admission, then to its promotion.
Numbered ==
  \A i \in Ids : input[i] # None =>
    /\ input[i].admitted <= latest[input[i].session]
    /\ input[i].promoted # Pending =>
         /\ input[i].admitted <= input[i].promoted
         /\ input[i].promoted <= latest[input[i].session]
    /\ \A j \in Ids :
         /\ input[j] # None
         /\ input[j].session = input[i].session
         /\ input[j].admitted = input[i].admitted
         => i = j

\* Only a running execution drains.
ExecutionDrains == \A s \in Sessions : drain[s] # Off => phase[s] = "running"

\* The admission a row was selected with is the one its id has now.
Current(s, row) ==
  /\ input[row.id] # None
  /\ input[row.id].session = s
  /\ input[row.id].admitted = row.admitted

\* i waits in s, was admitted before the row and is of its kind.
WaitsBefore(i, s, row) ==
  /\ IsPending(i, s, row.delivery)
  /\ input[i].admitted < row.admitted

\* What waits ahead of a current row is held ahead of it.
Held(s, rows) ==
  \A k \in DOMAIN rows :
    /\ rows[k].admitted <= latest[s]
    /\ \A i \in Ids :
         Current(s, rows[k]) /\ WaitsBefore(i, s, rows[k]) =>
           \E h \in DOMAIN rows : h < k /\ rows[h].id = i

RowsInOrder ==
  \A s \in Sessions : drain[s] # Off =>
    /\ Held(s, drain[s].rows)
    /\ drain[s].pc = "recheck" => drain[s].rows # <<>>

\* Between the loop's two reads no steer is left that the drain was woken for.
SteersRead ==
  \A s \in Sessions :
    drain[s].pc \in {"start-queue", "after-turns"} /\ ~owed[s] =>
      \A i \in due : input[i].session = s => input[i].delivery # "steer"

\* The row a client is about to compare with its prompt is the recorded one.
AnswersRecorded ==
  \A c \in Clients :
    client[c].pc = "answer" =>
      LET i == client[c].req.id
          row == client[c].row IN
      \/ c \in undone
      \/ /\ input[i] # None
         /\ input[i].session = row.session
         /\ input[i].delivery = row.delivery

Ledger == TablesAgree /\ Numbered
Orders == PromotedInOrder /\ RowsInOrder
Wakes == ExecutionDrains /\ NothingStranded /\ SteersRead /\ AskedBeforeIdle
Answers == AnswersRecorded /\ AcceptedIsRecorded

IInv == Ledger /\ Orders /\ Wakes /\ Answers

-----------------------------------------------------------------------------
(* What the tables, the clients and the drains hold *)

LEMMA SeqsAreNumbers == Seqs \subseteq Nat /\ Pending \in Int /\ Pending \notin Seqs
BY InboxAssumption DEF Seqs, Pending

LEMMA Fields ==
  ASSUME TypeOK
  PROVE  /\ \A i \in Ids : input[i] # None =>
              /\ input[i] \in Rows
              /\ input[i].session \in Sessions /\ input[i].delivery \in Deliveries
              /\ input[i].time \in Times
              /\ input[i].admitted \in Seqs /\ input[i].admitted \in Nat
              /\ input[i].promoted \in Seqs \cup {Pending} /\ input[i].promoted \in Int
         /\ \A i \in Ids : message[i] # None =>
              /\ message[i] \in Messages
              /\ message[i].session \in Sessions /\ message[i].seq \in Seqs
              /\ message[i].seq \in Nat
         /\ \A s \in Sessions : latest[s] \in Seqs /\ latest[s] \in Nat
<1>1. TypeOK /\ InboxTypeOK
  BY DEF TypeOK
<1>2. \A i \in Ids : input[i] # None => input[i] \in Rows
  BY <1>1 DEF InboxTypeOK
<1>3. \A i \in Ids : message[i] # None => message[i] \in Messages
  BY <1>1 DEF InboxTypeOK
<1>4. \A s \in Sessions : latest[s] \in Seqs
  BY <1>1 DEF InboxTypeOK
<1>5. \A row \in Rows : /\ row.session \in Sessions /\ row.delivery \in Deliveries
                        /\ row.time \in Times
                        /\ row.admitted \in Seqs /\ row.promoted \in Seqs \cup {Pending}
  BY DEF Rows
<1>6. \A m \in Messages : m.session \in Sessions /\ m.seq \in Seqs
  BY DEF Messages
<1>7. /\ \A n \in Seqs : n \in Nat
      /\ \A n \in Seqs \cup {Pending} : n \in Int
  BY InboxAssumption DEF Seqs, Pending
<1> HIDE DEF TypeOK
<1>8. \A i \in Ids : input[i] # None =>
        /\ input[i] \in Rows
        /\ input[i].session \in Sessions /\ input[i].delivery \in Deliveries
        /\ input[i].time \in Times
        /\ input[i].admitted \in Seqs /\ input[i].admitted \in Nat
        /\ input[i].promoted \in Seqs \cup {Pending} /\ input[i].promoted \in Int
  BY <1>2, <1>5, <1>7, Zenon
<1> QED  BY <1>3, <1>4, <1>6, <1>7, <1>8, Zenon

LEMMA ClientFields ==
  ASSUME TypeOK, NEW c \in Clients
  PROVE  /\ client[c] \in ClientStates
         /\ client[c].pc \in {"find", "publish", "recover", "accepted", "conflict", "answer"} =>
              /\ client[c].req \in Requests
              /\ client[c].req.id \in Ids /\ client[c].req.session \in Sessions
              /\ client[c].req.delivery \in Deliveries /\ client[c].req.resume \in BOOLEAN
         /\ client[c].pc = "answer" => client[c].row \in Rows
         /\ client[c].pc \in {"stage", "commit", "clear"} => client[c].session \in Sessions
         /\ client[c].pc \in {"stage", "commit"} => client[c].id \in Ids
<1>1. client[c] \in ClientStates
  BY DEF TypeOK, InboxTypeOK
<1>2. \A r \in Requests : /\ r.id \in Ids /\ r.session \in Sessions
                          /\ r.delivery \in Deliveries /\ r.resume \in BOOLEAN
  BY InboxAssumption DEF Requests
<1>3. /\ client[c].pc \in {"find", "publish", "recover", "accepted", "conflict", "answer"} =>
           client[c].req \in Requests
      /\ client[c].pc = "answer" => client[c].row \in Rows
      /\ client[c].pc \in {"stage", "commit", "clear"} => client[c].session \in Sessions
      /\ client[c].pc \in {"stage", "commit"} => client[c].id \in Ids
  BY <1>1 DEF ClientStates
<1> QED  BY <1>1, <1>2, <1>3

LEMMA DrainFields ==
  ASSUME TypeOK, NEW s \in Sessions
  PROVE  /\ drain[s] = Off <=> drain[s].pc = "off"
         /\ drain[s] # Off => drain[s] \in Drains
         /\ drain[s] # Off =>
              /\ drain[s].rows \in Seq(PromotionRows)
              /\ drain[s].step \in 1 .. Steps
              /\ drain[s].cutoff \in Seqs
              /\ drain[s].promotion \in {"steer", "queue", None}
<1>1. drain[s] \in Drains \cup {Off}
  BY DEF TypeOK, DrainStates
<1>2. Off.pc = "off" /\ \A d \in Drains : /\ d.pc # "off"
                                          /\ d.rows \in Seq(PromotionRows)
                                          /\ d.step \in 1 .. Steps
                                          /\ d.cutoff \in Seqs
                                          /\ d.promotion \in {"steer", "queue", None}
  BY DEF Off, Drains
<1> QED  BY <1>1, <1>2

LEMMA RowFields ==
  ASSUME NEW row \in PromotionRows
  PROVE  /\ row.id \in Ids /\ row.delivery \in Deliveries /\ row.time \in Times
         /\ row.admitted \in Seqs /\ row.admitted \in Nat
BY SeqsAreNumbers DEF PromotionRows


-----------------------------------------------------------------------------
(* Selections *)

\* The order a selection asks for exists, and holds every id selected.
LEMMA OrderedIsOrder ==
  ASSUME TypeOK, Numbered, NEW s \in Sessions, NEW ids \in SUBSET Ids,
         \A i \in ids : input[i] # None /\ input[i].session = s
  PROVE  /\ Ordered(ids) \in [1 .. Cardinality(ids) -> ids]
         /\ Cardinality(ids) \in Nat
         /\ \A j, k \in DOMAIN Ordered(ids) :
              j < k => input[Ordered(ids)[j]].admitted < input[Ordered(ids)[k]].admitted
         /\ \A i \in ids : \E k \in DOMAIN Ordered(ids) : Ordered(ids)[k] = i
<1> DEFINE key == [i \in ids |-> input[i].admitted]
           n == Cardinality(ids)
           IsOrder(r) == \A j, k \in DOMAIN r :
                           j < k => input[r[j]].admitted < input[r[k]].admitted
<1>1. IsFiniteSet(ids) /\ n \in Nat
  BY InboxAssumption, FS_Subset, FS_CardinalityType
<1>2. \A i \in ids : key[i] \in Nat /\ key[i] = input[i].admitted
  BY Fields
<1>3. \A i, j \in ids : key[i] = key[j] => i = j
  BY <1>2 DEF Numbered
<1>4. \E r \in [1 .. n -> ids] : \A j, k \in DOMAIN r : j < k => key[r[j]] < key[r[k]]
  <2> HIDE DEF key
  <2>1. \A i \in ids : key[i] \in Int
    BY <1>2
  <2> QED  BY <1>1, <1>3, <2>1, SortedExists
<1>5. \E r \in [1 .. n -> ids] : IsOrder(r)
  BY <1>2, <1>4
<1>6. Ordered(ids) = CHOOSE r \in [1 .. n -> ids] : IsOrder(r)
  BY DEF Ordered
<1>7. Ordered(ids) \in [1 .. n -> ids] /\ IsOrder(Ordered(ids))
  <2> HIDE DEF IsOrder
  <2> QED  BY <1>5, <1>6
<1> HIDE DEF n
<1>8. Ordered(ids) \in Injection(1 .. n, ids)
  <2>1. \A i \in ids : input[i].admitted \in Nat
    BY Fields
  <2>2. \A j, k \in 1 .. n : Ordered(ids)[j] = Ordered(ids)[k] => j = k
    BY <1>1, <1>7, <2>1
  <2> QED  BY <1>7, <2>2 DEF Injection, IsInjective
<1>9. Ordered(ids) \in Surjection(1 .. n, ids)
  <2>1. IsFiniteSet(1 .. n) /\ Cardinality(1 .. n) = n
    BY <1>1, FS_Interval
  <2> QED  BY <1>1, <1>8, <2>1, FS_Injection DEF n
<1>10. \A i \in ids : \E k \in 1 .. n : Ordered(ids)[k] = i
  BY <1>9 DEF Surjection
<1> QED  BY <1>1, <1>7, <1>10 DEF n

\* A selection that leaves nothing of its kind ahead of what it takes holds its
\* rows in order.
LEMMA SelectionHolds ==
  ASSUME TypeOK, Numbered, NEW s \in Sessions, NEW d, NEW ids \in SUBSET Ids,
         \A i \in ids : IsPending(i, s, d),
         \A i \in Ids, j \in ids :
           IsPending(i, s, d) /\ input[i].admitted < input[j].admitted => i \in ids,
         NEW rows, rows = [k \in DOMAIN Ordered(ids) |-> RowOf(Ordered(ids)[k])]
  PROVE  rows \in Seq(PromotionRows) /\ Held(s, rows)
<1> DEFINE r == Ordered(ids)
           n == Cardinality(ids)
<1>1. /\ r \in [1 .. n -> ids] /\ n \in Nat
      /\ \A j, k \in DOMAIN r : j < k => input[r[j]].admitted < input[r[k]].admitted
      /\ \A i \in ids : \E k \in DOMAIN r : r[k] = i
  <2>1. \A i \in ids : input[i] # None /\ input[i].session = s
    BY DEF IsPending
  <2> QED  BY <2>1, OrderedIsOrder
<1> HIDE DEF r, n
<1>2. rows = [k \in 1 .. n |-> RowOf(r[k])]
  BY <1>1 DEF r
<1>3. \A k \in 1 .. n : /\ r[k] \in ids /\ r[k] \in Ids
                        /\ input[r[k]] # None /\ input[r[k]].session = s
                        /\ input[r[k]].delivery = d
  BY <1>1 DEF IsPending
<1>4. \A k \in 1 .. n : RowOf(r[k]) \in PromotionRows
  BY <1>3, Fields DEF RowOf, PromotionRows
<1>5. rows \in Seq(PromotionRows)
  BY <1>1, <1>2, <1>4
<1>6. \A k \in 1 .. n : /\ rows[k].id = r[k] /\ rows[k].delivery = d
                        /\ rows[k].admitted = input[r[k]].admitted
  BY <1>2, <1>3 DEF RowOf
<1>7. DOMAIN rows = 1 .. n /\ DOMAIN r = 1 .. n
  BY <1>1, <1>2
<1>8. \A k \in 1 .. n : rows[k].admitted <= latest[s]
  BY <1>3, <1>6 DEF Numbered
<1>9. ASSUME NEW k \in 1 .. n, NEW i \in Ids, WaitsBefore(i, s, rows[k])
      PROVE  \E h \in 1 .. n : h < k /\ rows[h].id = i
  <2>1. IsPending(i, s, d) /\ input[i].admitted < input[r[k]].admitted
    BY <1>6, <1>9 DEF WaitsBefore
  <2>2. i \in ids
    BY <1>3, <2>1
  <2>3. PICK h \in 1 .. n : r[h] = i
    BY <1>1, <1>7, <2>2
  <2>4. input[i].admitted \in Nat /\ input[r[k]].admitted \in Nat
    BY <1>3, <2>1, Fields DEF IsPending
  <2>5. h < k
    <3>1. ASSUME k < h
          PROVE  FALSE
      <4>1. input[r[k]].admitted < input[i].admitted
        BY <1>1, <1>7, <2>3, <3>1
      <4> QED  BY <2>1, <2>4, <4>1
    <3>2. k # h
      BY <2>1, <2>3, <2>4
    <3> QED  BY <1>1, <3>1, <3>2
  <2> QED  BY <1>6, <2>3, <2>5
<1> QED  BY <1>5, <1>7, <1>8, <1>9 DEF Held

-----------------------------------------------------------------------------
(* What a step of the runner is *)

\* Where a drain may still hold what it promoted.
Promoting == {"publish", "recheck", "steers", "ask"}
Places == {"start", "start-queue", "cutoff", "queued", "steers", "publish", "recheck",
           "ask", "turn", "after", "after-turns"}

\* A step of the loop that writes nothing but the runner's own state.
Reads(s, d) ==
  /\ drain[s] \in Drains
  /\ d \in Drains
  /\ Moves(s, d)
  /\ drain[s].pc \in Promoting => d.pc \in Promoting
  /\ d.pc \in {"start-queue", "after-turns"} => ~HasPending(s, "steer")
  /\ Held(s, d.rows)
  /\ d.pc = "recheck" => d.rows # <<>>

\* The loop's last read of the inbox finds nothing.
Ends(s) ==
  /\ drain[s].pc \in {"start-queue", "after-turns"}
  /\ ~HasPending(s, "queue")
  /\ Finish(s)

\* A row whose id does not wait any more may be taken off the front.
LEMMA TailHeld ==
  ASSUME NEW s, NEW rows \in Seq(PromotionRows), rows # <<>>, Held(s, rows),
         input[Head(rows).id].promoted # Pending
  PROVE  Held(s, Tail(rows))
<1> DEFINE n == Len(rows)
           tail == Tail(rows)
<1>1. /\ n \in Nat /\ n > 0 /\ DOMAIN rows = 1 .. n
      /\ DOMAIN tail = 1 .. n - 1
      /\ \A k \in 1 .. n - 1 : tail[k] = rows[k + 1]
      /\ Head(rows) = rows[1]
  OBVIOUS
<1> HIDE DEF n, tail
<1>2. \A k \in 1 .. n - 1 : tail[k].admitted <= latest[s]
  <2> TAKE k \in 1 .. n - 1
  <2>1. k + 1 \in DOMAIN rows /\ tail[k] = rows[k + 1]
    BY <1>1
  <2> QED  BY <2>1 DEF Held
<1>3. ASSUME NEW k \in 1 .. n - 1, NEW i \in Ids,
             Current(s, tail[k]), WaitsBefore(i, s, tail[k])
      PROVE  \E h \in 1 .. n - 1 : h < k /\ tail[h].id = i
  <2>1. k + 1 \in DOMAIN rows /\ tail[k] = rows[k + 1]
    BY <1>1
  <2>2. PICK h \in 1 .. n : h < k + 1 /\ rows[h].id = i
    BY <1>1, <1>3, <2>1 DEF Held
  <2>3. input[i].promoted = Pending
    BY <1>3 DEF WaitsBefore, IsPending
  <2>4. h # 1
    BY <1>1, <2>2, <2>3
  <2>5. h - 1 \in 1 .. n - 1 /\ h - 1 < k /\ tail[h - 1] = rows[h]
    BY <1>1, <2>2, <2>4
  <2> QED  BY <2>2, <2>5
<1>4. Held(s, tail)
  <2>1. \A k \in DOMAIN tail : tail[k].admitted <= latest[s]
    BY <1>1, <1>2
  <2>2. \A k \in DOMAIN tail : \A i \in Ids :
          Current(s, tail[k]) /\ WaitsBefore(i, s, tail[k]) =>
            \E h \in DOMAIN tail : h < k /\ tail[h].id = i
    BY <1>1, <1>3
  <2> QED  BY <2>1, <2>2 DEF Held
<1> QED  BY <1>4 DEF tail

\* A read that leaves the rows alone.
LEMMA ReadsOn ==
  ASSUME NEW s \in Sessions, RowsInOrder, drain[s] \in Drains, drain[s] # Off,
         NEW d \in Drains, Moves(s, d), d.rows = drain[s].rows,
         drain[s].pc \in Promoting => d.pc \in Promoting,
         d.pc \in {"start-queue", "after-turns"} => ~HasPending(s, "steer"),
         d.pc = "recheck" => d.rows # <<>>
  PROVE  Reads(s, d)
BY DEF Reads, RowsInOrder

\* Every step of the loop is such a read, a promotion, a request, or the end of
\* the drain: with an error, or because the inbox is empty.
LEMMA RunnerSteps ==
  ASSUME TypeOK, Numbered, RowsInOrder, NEW s \in Sessions, Run(s)
  PROVE  \/ \E d : Reads(s, d)
         \/ PublishPrompted(s)
         \/ Ask(s)
         \/ Recheck(s) /\ Fails(s) /\ UNCHANGED inboxVars
         \/ Ends(s)
<1>1. \A p \in Places : At(s, p) => drain[s] \in Drains /\ drain[s] # Off
  BY DrainFields DEF At, Places
<1>2. 1 \in 1 .. Steps
  BY StepsAssumption
<1>3. ASSUME NEW p \in Places, At(s, p), p \notin Promoting,
             NEW dl \in {"steer", "queue", None}, NEW step \in 1 .. Steps,
             Promote(s, dl, step)
      PROVE  \E d : Reads(s, d)
  <2> DEFINE d == [drain[s] EXCEPT !.pc = "cutoff", !.promotion = dl, !.force = FALSE,
                                   !.step = step]
  <2>1. drain[s] \in Drains /\ drain[s] # Off /\ drain[s].pc = p
    BY <1>1, <1>3 DEF At
  <2>2. d \in Drains /\ d.pc = "cutoff" /\ d.rows = drain[s].rows
    BY <2>1 DEF Drains
  <2>3. Moves(s, d)
    BY <1>3 DEF Promote
  <2> HIDE DEF d
  <2>4. Reads(s, d)
    BY <1>3, <2>1, <2>2, <2>3, ReadsOn
  <2> QED  BY <2>4
<1>4. ASSUME NEW p \in Places, At(s, p), NEW q \in Places,
             p \in Promoting => q \in Promoting,
             q \in {"start-queue", "after-turns"} => ~HasPending(s, "steer"),
             q = "recheck" => drain[s].rows # <<>>,
             Moves(s, [drain[s] EXCEPT !.pc = q])
      PROVE  \E d : Reads(s, d)
  <2> DEFINE d == [drain[s] EXCEPT !.pc = q]
  <2>1. drain[s] \in Drains /\ drain[s] # Off /\ drain[s].pc = p
    BY <1>1, <1>4 DEF At
  <2>2. d \in Drains /\ d.pc = q /\ d.rows = drain[s].rows
    BY <2>1 DEF Drains, Places
  <2>3. Moves(s, d)
    BY <1>4
  <2> HIDE DEF d
  <2>4. Reads(s, d)
    BY <1>4, <2>1, <2>2, <2>3, ReadsOn
  <2> QED  BY <2>4
<1>5. NextStep(s) \in 1 .. Steps \/ drain[s] = Off
  BY StepsAssumption, DrainFields DEF NextStep
<1>6. ASSUME StartSteer(s) PROVE \E d : Reads(s, d)
  <2>1. At(s, "start") /\ "start" \in Places /\ "start" \notin Promoting
    BY <1>6 DEF StartSteer, Places, Promoting
  <2>2. CASE HasPending(s, "steer")
    <3>1. Promote(s, "steer", 1)
      BY <1>6, <2>2 DEF StartSteer
    <3> QED  BY <1>2, <1>3, <2>1, <3>1
  <2>3. CASE ~HasPending(s, "steer")
    <3>1. Moves(s, [drain[s] EXCEPT !.pc = "start-queue"])
      BY <1>6, <2>3 DEF StartSteer
    <3>2. "start-queue" \in Places
      BY DEF Places
    <3> QED  BY <1>4, <2>1, <2>3, <3>1, <3>2
  <2> QED  BY <2>2, <2>3
<1>7. ASSUME StartQueue(s) PROVE (\E d : Reads(s, d)) \/ Ends(s)
  <2>1. At(s, "start-queue") /\ "start-queue" \in Places /\ "start-queue" \notin Promoting
    BY <1>7 DEF StartQueue, Places, Promoting
  <2>2. CASE Promote(s, "queue", 1)
    BY <1>2, <1>3, <2>1, <2>2
  <2>3. CASE Promote(s, None, 1)
    BY <1>2, <1>3, <2>1, <2>3
  <2>4. CASE ~HasPending(s, "queue") /\ Finish(s)
    BY <2>1, <2>4 DEF Ends, At
  <2> QED  BY <1>7, <2>2, <2>3, <2>4 DEF StartQueue
<1>8. ASSUME Cutoff(s) PROVE \E d : Reads(s, d)
  <2> DEFINE n == IF drain[s].promotion = None THEN 0 ELSE latest[s]
             p == CASE drain[s].promotion = "steer" -> "steers"
                    [] drain[s].promotion = "queue" -> "queued"
                    [] OTHER -> "ask"
             d == [drain[s] EXCEPT !.cutoff = n, !.pc = p]
  <2>1. drain[s] \in Drains /\ drain[s] # Off /\ drain[s].pc = "cutoff"
    BY <1>1, <1>8 DEF Cutoff, At, Places
  <2>2. n \in Seqs
    BY Fields, InboxAssumption DEF Seqs
  <2>3. p \in Places /\ p \notin {"start-queue", "after-turns", "recheck"}
    BY DEF Places
  <2>4. Moves(s, d)
    BY <1>8 DEF Cutoff
  <2> HIDE DEF n, p
  <2>5. d \in Drains /\ d.pc = p /\ d.rows = drain[s].rows
    BY <2>1, <2>2, <2>3 DEF Drains, Places
  <2> HIDE DEF d
  <2>6. Reads(s, d)
    BY <2>1, <2>3, <2>4, <2>5, ReadsOn DEF Promoting
  <2> QED  BY <2>6
<1>9. ASSUME NEW p \in Places, At(s, p), NEW dl, NEW ids \in SUBSET Ids,
             \A i \in ids : IsPending(i, s, dl),
             \A i \in Ids, j \in ids :
               IsPending(i, s, dl) /\ input[i].admitted < input[j].admitted => i \in ids,
             Selects(s, ids)
      PROVE  \E d : Reads(s, d)
  <2> DEFINE rows == [k \in DOMAIN Ordered(ids) |-> RowOf(Ordered(ids)[k])]
             b == ids # {}
             d == [drain[s] EXCEPT !.pc = "publish", !.rows = rows, !.promoted = @ \/ b]
  <2>1. drain[s] \in Drains
    BY <1>1, <1>9
  <2>2. Moves(s, d)
    BY <1>9 DEF Selects
  <2>3. rows \in Seq(PromotionRows) /\ Held(s, rows)
    BY <1>9, SelectionHolds
  <2> HIDE DEF rows
  <2>4. b \in BOOLEAN
    OBVIOUS
  <2> HIDE DEF b
  <2>5. d \in Drains /\ d.pc = "publish" /\ d.rows = rows
    BY <2>1, <2>3, <2>4 DEF Drains
  <2> HIDE DEF d
  <2>6. Reads(s, d)
    BY <2>1, <2>2, <2>3, <2>5 DEF Reads, Promoting
  <2> QED  BY <2>6
<1>10. ASSUME SelectQueued(s) PROVE \E d : Reads(s, d)
  <2> DEFINE queued == {i \in Ids : IsPending(i, s, "queue")}
             ids == {i \in queued : \A j \in queued : input[i].admitted <= input[j].admitted}
  <2>1. At(s, "queued") /\ "queued" \in Places /\ Selects(s, ids)
    BY <1>10 DEF SelectQueued, Places
  <2>2. ids \in SUBSET Ids /\ \A i \in ids : IsPending(i, s, "queue")
    OBVIOUS
  <2>3. \A i \in Ids, j \in ids :
          IsPending(i, s, "queue") /\ input[i].admitted < input[j].admitted => i \in ids
    <3> SUFFICES ASSUME NEW i \in Ids, NEW j \in ids, IsPending(i, s, "queue"),
                        input[i].admitted < input[j].admitted
                 PROVE  FALSE
      OBVIOUS
    <3>1. input[j].admitted <= input[i].admitted
      OBVIOUS
    <3>2. input[i].admitted \in Nat /\ input[j].admitted \in Nat
      BY Fields DEF IsPending
    <3> QED  BY <3>1, <3>2
  <2> HIDE DEF ids
  <2> QED  BY <1>9, <2>1, <2>2, <2>3
<1>11. ASSUME SelectSteers(s) PROVE \E d : Reads(s, d)
  <2> DEFINE ids == {i \in Ids : IsPending(i, s, "steer") /\ input[i].admitted <= drain[s].cutoff}
  <2>1. At(s, "steers") /\ "steers" \in Places /\ Selects(s, ids)
    BY <1>11 DEF SelectSteers, Places
  <2>2. ids \in SUBSET Ids /\ \A i \in ids : IsPending(i, s, "steer")
    OBVIOUS
  <2>3. \A i \in Ids, j \in ids :
          IsPending(i, s, "steer") /\ input[i].admitted < input[j].admitted => i \in ids
    <3> TAKE i \in Ids, j \in ids
    <3> HAVE IsPending(i, s, "steer") /\ input[i].admitted < input[j].admitted
    <3>1. input[i].admitted \in Nat /\ input[j].admitted \in Nat
      BY Fields DEF IsPending
    <3>2. drain[s].cutoff \in Nat
      BY <1>1, <2>1, DrainFields, SeqsAreNumbers
    <3>3. input[j].admitted <= drain[s].cutoff
      OBVIOUS
    <3>4. input[i].admitted <= drain[s].cutoff
      BY <3>1, <3>2, <3>3
    <3> QED  BY <3>4
  <2> HIDE DEF ids
  <2> QED  BY <1>9, <2>1, <2>2, <2>3
<1>12. ASSUME Published(s) PROVE \E d : Reads(s, d)
  <2>1. drain[s] \in Drains /\ drain[s] # Off /\ drain[s].pc = "publish"
    BY <1>1, <1>12 DEF Published, At, Places
  <2>2. CASE drain[s].promotion = "queue"
    <3> DEFINE d == [drain[s] EXCEPT !.pc = "steers", !.promotion = "steer"]
    <3>1. Moves(s, d)
      BY <1>12, <2>2 DEF Published
    <3>2. d \in Drains /\ d.pc = "steers" /\ d.rows = drain[s].rows
      BY <2>1 DEF Drains
    <3> HIDE DEF d
    <3>3. Reads(s, d)
      BY <2>1, <3>1, <3>2, ReadsOn DEF Promoting
    <3> QED  BY <3>3
  <2>3. CASE drain[s].promotion # "queue"
    <3> DEFINE step == IF drain[s].promoted THEN 1 ELSE drain[s].step
               d == [drain[s] EXCEPT !.pc = "ask", !.promotion = None, !.cutoff = 0,
                                     !.promoted = FALSE, !.step = step]
    <3>1. Moves(s, d)
      BY <1>12, <2>3 DEF Published
    <3>2. step \in 1 .. Steps
      BY <1>2, <2>1, DrainFields
    <3> HIDE DEF step
    <3>3. d \in Drains /\ d.pc = "ask" /\ d.rows = drain[s].rows
      <4>1. 0 \in Seqs /\ FALSE \in BOOLEAN
        BY InboxAssumption DEF Seqs
      <4>2. d.pc = "ask" /\ d.rows = drain[s].rows
        BY <2>1 DEF Drains
      <4>3. d \in Drains
        BY <2>1, <3>2, <4>1 DEF Drains
      <4> QED  BY <4>2, <4>3
    <3> HIDE DEF d
    <3>4. Reads(s, d)
      BY <2>1, <3>1, <3>3, ReadsOn DEF Promoting
    <3> QED  BY <3>4
  <2> QED  BY <2>2, <2>3
<1>13. ASSUME PublishDies(s) PROVE \E d : Reads(s, d)
  <2>1. /\ At(s, "publish") /\ drain[s].rows # <<>>
        /\ Moves(s, [drain[s] EXCEPT !.pc = "recheck"])
    BY <1>13 DEF PublishDies
  <2>2. {"publish", "recheck"} \subseteq Places /\ {"publish", "recheck"} \subseteq Promoting
    BY DEF Places, Promoting
  <2> QED  BY <1>4, <2>1, <2>2
<1>14. ASSUME Recheck(s)
       PROVE  (\E d : Reads(s, d)) \/ (Recheck(s) /\ Fails(s) /\ UNCHANGED inboxVars)
  <2>1. drain[s] \in Drains /\ drain[s] # Off /\ drain[s].pc = "recheck"
    BY <1>1, <1>14 DEF Recheck, At, Places
  <2>2. CASE Moves(s, NextRow(s)) /\ input[Head(drain[s].rows).id].promoted # Pending
             /\ drain[s].rows # <<>>
    <3> DEFINE rows == drain[s].rows
               d == [drain[s] EXCEPT !.pc = "publish", !.rows = Tail(@)]
    <3>1. Moves(s, d)
      BY <2>2 DEF NextRow
    <3>2. rows \in Seq(PromotionRows) /\ Held(s, rows)
      BY <2>1, DrainFields DEF RowsInOrder
    <3>3. d \in Drains /\ d.pc = "publish" /\ d.rows = Tail(rows)
      <4>1. Tail(rows) \in Seq(PromotionRows)
        BY <2>2, <3>2
      <4> QED  BY <2>1, <4>1 DEF Drains
    <3>4. Held(s, Tail(rows))
      BY <2>2, <3>2, TailHeld
    <3> HIDE DEF d
    <3>5. Reads(s, d)
      BY <2>1, <3>1, <3>3, <3>4 DEF Reads, Promoting
    <3> QED  BY <3>5
  <2>3. CASE Fails(s) /\ UNCHANGED inboxVars
    BY <1>14, <2>3
  <2> QED  BY <1>14, <2>1, <2>2, <2>3 DEF Recheck, RowsInOrder
<1>15. ASSUME Turn(s) PROVE \E d : Reads(s, d)
  <2>1. At(s, "turn") /\ {"turn", "after"} \subseteq Places /\ "turn" \notin Promoting
    BY <1>15 DEF Turn, Places, Promoting
  <2>2. CASE Promote(s, "steer", NextStep(s))
    BY <1>1, <1>3, <1>5, <2>1, <2>2
  <2>3. CASE Moves(s, [drain[s] EXCEPT !.pc = "after"])
    BY <1>4, <2>1, <2>3
  <2> QED  BY <1>15, <2>2, <2>3 DEF Turn, Continues
<1>16. ASSUME AfterTurn(s) PROVE \E d : Reads(s, d)
  <2>1. At(s, "after") /\ {"after", "after-turns"} \subseteq Places /\ "after" \notin Promoting
    BY <1>16 DEF AfterTurn, Places, Promoting
  <2>2. CASE Promote(s, "steer", NextStep(s))
    BY <1>1, <1>3, <1>5, <2>1, <2>2
  <2>3. CASE ~HasPending(s, "steer") /\ Moves(s, [drain[s] EXCEPT !.pc = "after-turns"])
    BY <1>4, <2>1, <2>3
  <2> QED  BY <1>16, <2>2, <2>3 DEF AfterTurn
<1>17. ASSUME AfterTurns(s) PROVE (\E d : Reads(s, d)) \/ Ends(s)
  <2>1. At(s, "after-turns") /\ "after-turns" \in Places /\ "after-turns" \notin Promoting
    BY <1>17 DEF AfterTurns, Places, Promoting
  <2>2. CASE Promote(s, "queue", 1)
    BY <1>2, <1>3, <2>1, <2>2
  <2>3. CASE ~HasPending(s, "queue") /\ Finish(s)
    BY <2>1, <2>3 DEF Ends, At
  <2> QED  BY <1>17, <2>2, <2>3 DEF AfterTurns
<1> QED
  BY <1>6, <1>7, <1>8, <1>10, <1>11, <1>12, <1>13, <1>14, <1>15, <1>16, <1>17 DEF Run

-----------------------------------------------------------------------------
(* What a step does to the tables *)

\* Nothing is written to the tables; sessions may publish other events.
Quiet ==
  /\ UNCHANGED <<input, message>>
  /\ latest' \in [Sessions -> Seqs]
  /\ \A s \in Sessions : latest[s] <= latest'[s]

\* A publication of s takes the next number.
Numbers(s) ==
  /\ s \in Sessions
  /\ latest' \in [Sessions -> Seqs]
  /\ latest'[s] = latest[s] + 1
  /\ \A t \in Sessions : t # s => latest'[t] = latest[t]
  /\ \A t \in Sessions : latest[t] <= latest'[t]

\* The new id i is admitted in s.
Admits(i, s, row) ==
  /\ Numbers(s)
  /\ i \in Ids /\ input[i] = None /\ message[i] = None
  /\ row \in Rows /\ row.session = s
  /\ row.admitted = latest[s] + 1 /\ row.promoted = Pending
  /\ input' = [input EXCEPT ![i] = row]
  /\ UNCHANGED message

\* The row of id i, waiting or deleted, is promoted in s.
Promotes(i, s, row) ==
  /\ Numbers(s)
  /\ i \in Ids /\ message[i] = None
  /\ \/ /\ input[i] # None /\ input[i].promoted = Pending
        /\ row.session = input[i].session /\ row.delivery = input[i].delivery
        /\ row.admitted = input[i].admitted
     \/ input[i] = None /\ row.admitted = latest[s] + 1
  /\ row \in Rows /\ row.session = s /\ row.promoted = latest[s] + 1
  /\ input' = [input EXCEPT ![i] = row]
  /\ message' = [message EXCEPT ![i] = [session |-> s, seq |-> latest[s] + 1, type |-> "user"]]

\* What followed number n in s is deleted.
Deletes(s, n) ==
  /\ Numbers(s)
  /\ n \in Nat
  /\ message' = [i \in Ids |-> IF message[i] # None /\ message[i].session = s /\ message[i].seq > n
                               THEN None ELSE message[i]]
  /\ input' = [i \in Ids |-> IF Dropped(i, s, n) THEN None ELSE input[i]]

LEMMA RoomLeft ==
  ASSUME TypeOK, NEW s \in Sessions, Room(s)
  PROVE  latest[s] < MaxSeq
<1>1. IsFiniteSet(Ids \ History)
  BY InboxAssumption, FS_Subset
<1>2. Cardinality(Ids \ History) \in Nat
  BY <1>1, FS_CardinalityType
<1>3. latest[s] \in Nat /\ MaxSeq \in Nat
  BY Fields, InboxAssumption
<1> QED  BY <1>2, <1>3 DEF Room

LEMMA AdvanceNumbers ==
  ASSUME TypeOK, NEW s \in Sessions, latest[s] < MaxSeq, Advance(s)
  PROVE  Numbers(s) /\ NextSeq(s) \in Seqs
<1>1. latest \in [Sessions -> Seqs] /\ \A t \in Sessions : latest[t] \in Nat
  BY Fields DEF TypeOK, InboxTypeOK
<1>2. NextSeq(s) \in Seqs
  BY <1>1, InboxAssumption DEF NextSeq, Seqs
<1>3. latest' = [latest EXCEPT ![s] = NextSeq(s)]
  BY DEF Advance
<1>4. latest' \in [Sessions -> Seqs] /\ latest'[s] = latest[s] + 1
  BY <1>1, <1>2, <1>3 DEF NextSeq
<1>5. \A t \in Sessions : t # s => latest'[t] = latest[t]
  BY <1>1, <1>3
<1>6. \A t \in Sessions : latest[t] <= latest'[t]
  BY <1>1, <1>4, <1>5
<1> QED  BY <1>2, <1>4, <1>5, <1>6 DEF Numbers

LEMMA NumbersQuiet ==
  ASSUME NEW s, Numbers(s), UNCHANGED <<input, message>>
  PROVE  Quiet
BY DEF Numbers, Quiet

LEMMA StillQuiet ==
  ASSUME TypeOK, UNCHANGED <<latest, input, message>>
  PROVE  Quiet
<1>1. latest \in [Sessions -> Seqs] /\ \A t \in Sessions : latest[t] \in Nat
  BY Fields DEF TypeOK, InboxTypeOK
<1> QED  BY <1>1 DEF Quiet

LEMMA AdmitAdmits ==
  ASSUME TypeOK, NEW c \in Clients, Admit(c)
  PROVE  \E row \in Rows :
           /\ Admits(client[c].req.id, client[c].req.session, row)
           /\ row.delivery = client[c].req.delivery
           /\ client' = [client EXCEPT ![c] = [pc |-> "answer", req |-> client[c].req, row |-> row]]
           /\ UNCHANGED <<revert, undone>>
<1> DEFINE r == client[c].req
<1>1. client[c].pc = "publish" /\ r \in Requests
      /\ r.id \in Ids /\ r.session \in Sessions /\ r.delivery \in Deliveries
  BY ClientFields DEF Admit
<1> HIDE DEF r
<1>2. latest[r.session] < MaxSeq /\ Advance(r.session)
  BY <1>1, RoomLeft DEF Admit, r
<1>3. Numbers(r.session) /\ NextSeq(r.session) \in Seqs
  BY <1>1, <1>2, AdvanceNumbers
<1>4. input[r.id] = None /\ message[r.id] = None
  BY DEF Admit, Admissible, r
<1>5. PICK t \in Times :
        LET row == [session |-> r.session, delivery |-> r.delivery, time |-> t,
                    admitted |-> NextSeq(r.session), promoted |-> Pending] IN
        /\ input' = [input EXCEPT ![r.id] = row]
        /\ Goto(c, [pc |-> "answer", req |-> r, row |-> row])
  BY DEF Admit, r
<1> DEFINE row == [session |-> r.session, delivery |-> r.delivery, time |-> t,
                   admitted |-> NextSeq(r.session), promoted |-> Pending]
<1>6. row \in Rows
  BY <1>1, <1>3 DEF Rows
<1>7. /\ row.session = r.session /\ row.admitted = latest[r.session] + 1
      /\ row.promoted = Pending /\ row.delivery = r.delivery
  BY DEF NextSeq
<1>8. /\ input' = [input EXCEPT ![r.id] = row]
      /\ client' = [client EXCEPT ![c] = [pc |-> "answer", req |-> r, row |-> row]]
  BY <1>5 DEF Goto
<1>9. UNCHANGED <<message, revert, undone>>
  BY DEF Admit
<1> HIDE DEF row
<1>10. Admits(r.id, r.session, row)
  BY <1>1, <1>3, <1>4, <1>6, <1>7, <1>8, <1>9 DEF Admits
<1> QED  BY <1>6, <1>7, <1>8, <1>9, <1>10 DEF r

LEMMA PublishPromotes ==
  ASSUME TypeOK, NEW s \in Sessions, PublishPrompted(s)
  PROVE  /\ drain[s] \in Drains /\ drain[s] # Off /\ drain[s].rows # <<>>
         /\ drain[s].rows \in Seq(PromotionRows) /\ drain[s].pc = "publish"
         /\ Head(drain[s].rows) \in PromotionRows
         /\ \E row \in Rows : Promotes(Head(drain[s].rows).id, s, row)
<1> DEFINE rows == drain[s].rows
           head == Head(rows)
           i == head.id
           n == IF input[i] = None THEN NextSeq(s) ELSE input[i].admitted
           new == [session |-> s, delivery |-> head.delivery, time |-> head.time,
                   admitted |-> n, promoted |-> NextSeq(s)]
<1>1. /\ drain[s] \in Drains /\ drain[s] # Off /\ rows # <<>>
      /\ rows \in Seq(PromotionRows) /\ drain[s].pc = "publish"
  BY DrainFields DEF PublishPrompted, At
<1>2. head \in PromotionRows
  BY <1>1
<1>3. /\ i \in Ids /\ head.delivery \in Deliveries /\ head.time \in Times
  BY <1>2, RowFields
<1>4. Numbers(s) /\ NextSeq(s) \in Seqs
  BY AdvanceNumbers DEF PublishPrompted
<1>5. /\ Promotable(s, head)
      /\ message[i] = None
      /\ input' = [input EXCEPT ![i] = new]
      /\ message' = [message EXCEPT ![i] = [session |-> s, seq |-> NextSeq(s), type |-> "user"]]
  BY DEF PublishPrompted
<1> HIDE DEF i, head
<1>6. n \in Seqs
  BY <1>3, <1>4, Fields
<1>7. new \in Rows
  <2> HIDE DEF n
  <2> QED  BY <1>3, <1>4, <1>6 DEF Rows
<1>8. /\ new.session = s /\ new.delivery = head.delivery
      /\ new.admitted = n /\ new.promoted = latest[s] + 1
  BY DEF NextSeq
<1> HIDE DEF new
<1>9. \/ /\ input[i] # None /\ input[i].promoted = Pending
         /\ new.session = input[i].session /\ new.delivery = input[i].delivery
         /\ new.admitted = input[i].admitted
      \/ input[i] = None /\ new.admitted = latest[s] + 1
  BY <1>5, <1>8 DEF Promotable, IsPending, NextSeq, i
<1>10. Promotes(i, s, new)
  BY <1>3, <1>4, <1>5, <1>7, <1>8, <1>9 DEF Promotes, NextSeq
<1> QED  BY <1>1, <1>2, <1>7, <1>10 DEF i, head

LEMMA CommittedDeletes ==
  ASSUME TypeOK, NEW c \in Clients, Committed(c)
  PROVE  /\ client[c].session \in Sessions /\ client[c].id \in Ids
         /\ message[client[c].id].seq \in Nat
         /\ Deletes(client[c].session, message[client[c].id].seq)
<1>1. client[c].session \in Sessions /\ client[c].id \in Ids
  BY ClientFields DEF Committed
<1>2. message[client[c].id].seq \in Nat
  BY <1>1, Fields DEF Committed
<1>3. Numbers(client[c].session)
  BY <1>1, RoomLeft, AdvanceNumbers DEF Committed
<1> QED  BY <1>1, <1>2, <1>3 DEF Committed, Deletes

\* Every step leaves the tables alone but for an admission, a promotion or a
\* committed revert.
LEMMA TableSteps ==
  ASSUME TypeOK, Numbered, RowsInOrder, [Next]_allVars
  PROVE  \/ Quiet
         \/ \E i \in Ids, s \in Sessions, row \in Rows : Admits(i, s, row)
         \/ \E i \in Ids, s \in Sessions, row \in Rows :
              Promotes(i, s, row) /\ PublishPrompted(s)
         \/ \E s \in Sessions, n \in Nat : Deletes(s, n)
<1>1. ASSUME NEW s \in Sessions, Room(s), Advance(s), UNCHANGED <<input, message>>
      PROVE  Quiet
  BY <1>1, RoomLeft, AdvanceNumbers, NumbersQuiet
<1>2. CASE Serve
  <2>1. PICK c \in Clients :
          \/ \E r \in Requests : Submit(c, r)
          \/ Find(c) \/ Admit(c) \/ AdmitDies(c) \/ Recover(c)
          \/ \E s \in Sessions : Clear(c, s) \/ Commit(c, s) \/ \E i \in Ids : Stage(c, s, i)
          \/ Staged(c) \/ Cleared(c) \/ Committed(c) \/ CommitDies(c)
    BY <1>2 DEF Serve, ClientStep
  <2>2. CASE Admit(c)
    BY <2>2, ClientFields, AdmitAdmits DEF Admit
  <2>3. CASE Committed(c)
    BY <2>3, CommittedDeletes
  <2>4. CASE Staged(c)
    <3>1. client[c].session \in Sessions
      BY <2>4, ClientFields DEF Staged
    <3> QED  BY <1>1, <2>4, <3>1 DEF Staged
  <2>5. CASE Cleared(c)
    <3>1. client[c].session \in Sessions
      BY <2>5, ClientFields DEF Cleared
    <3> QED  BY <1>1, <2>5, <3>1 DEF Cleared
  <2>6. CASE \/ \E r \in Requests : Submit(c, r)
             \/ \E s \in Sessions : Clear(c, s) \/ Commit(c, s) \/ \E i \in Ids : Stage(c, s, i)
    BY <2>6, StillQuiet DEF Submit, Clear, Commit, Stage
  <2>7. CASE Find(c) \/ AdmitDies(c) \/ Recover(c) \/ CommitDies(c)
    BY <2>7, StillQuiet DEF Find, AdmitDies, Recover, CommitDies
  <2> QED  BY <2>1, <2>2, <2>3, <2>4, <2>5, <2>6, <2>7
<1>3. CASE \E c \in Clients : WakeFor(c)
  BY <1>3, StillQuiet DEF WakeFor, Answer
<1>4. ASSUME NEW s \in Sessions,
             Resume(s) \/ Begin(s) \/ Stop(s) \/ Wound(s) \/ TurnFails(s)
      PROVE  Quiet
  <2>1. UNCHANGED <<latest, input, message>>
    BY <1>4 DEF Resume, Begin, Stop, Wound, TurnFails, inboxVars
  <2> QED  BY <2>1, StillQuiet
<1>5. ASSUME NEW s \in Sessions, Compact(s)
      PROVE  Quiet
  BY <1>1, <1>5 DEF Compact
<1>6. ASSUME NEW s \in Sessions, Run(s)
      PROVE  Quiet \/ \E i \in Ids, row \in Rows : Promotes(i, s, row) /\ PublishPrompted(s)
  <2>1. CASE PublishPrompted(s)
    <3>1. Head(drain[s].rows).id \in Ids
      BY <2>1, PublishPromotes, RowFields
    <3> QED  BY <2>1, <3>1, PublishPromotes
  <2>2. CASE ~PublishPrompted(s)
    <3>1. UNCHANGED inboxVars
      BY <1>6, <2>2, RunnerSteps DEF Reads, Moves, Ask, Ends, Finish
    <3> QED  BY <3>1, StillQuiet DEF inboxVars
  <2> QED  BY <2>1, <2>2
<1>7. CASE Crash
  BY <1>7, StillQuiet DEF Crash
<1>8. CASE UNCHANGED allVars
  BY <1>8, StillQuiet DEF allVars
<1> QED  BY <1>2, <1>3, <1>4, <1>5, <1>6, <1>7, <1>8 DEF Next

-----------------------------------------------------------------------------
(* The tables agree *)

LEMMA NumberedInv ==
  ASSUME TablesAgree, Numbered, RowsInOrder, [Next]_allVars
  PROVE  Numbered'
<1>0. TypeOK
  BY DEF TablesAgree
<1>1. \A i \in Ids : input[i] # None =>
        /\ input[i].session \in Sessions /\ input[i].admitted \in Nat /\ input[i].promoted \in Int
  BY <1>0, Fields
<1>2. \A s \in Sessions : latest[s] \in Nat
  BY <1>0, Fields
<1>3. input \in [Ids -> Rows \cup {None}]
  BY <1>0 DEF TypeOK, InboxTypeOK
<1> USE <1>1, <1>2, <1>3
<1>4. CASE Quiet
  <2>1. input' = input /\ \A s \in Sessions : latest[s] <= latest'[s] /\ latest'[s] \in Nat
    BY <1>4, SeqsAreNumbers DEF Quiet
  <2> QED  BY <2>1 DEF Numbered
<1>5. ASSUME NEW s \in Sessions, NEW i \in Ids, NEW row, Numbers(s), row \in Rows,
             row.session = s,
             input' = [input EXCEPT ![i] = row],
             \/ row.admitted = latest[s] + 1
             \/ input[i] # None /\ input[i].session = s /\ row.admitted = input[i].admitted,
             row.promoted \in {Pending, latest[s] + 1}
      PROVE  Numbered'
  <2>1. /\ latest'[s] = latest[s] + 1
        /\ \A t \in Sessions : t # s => latest'[t] = latest[t]
    BY <1>5 DEF Numbers
  <2>2. input'[i] = row /\ \A j \in Ids : j # i => input'[j] = input[j]
    BY <1>5
  <2>3. row # None /\ row.admitted \in Nat /\ row.admitted <= latest[s] + 1
    BY <1>5, AbsentRow, SeqsAreNumbers DEF Rows, Numbered
  <2>4. ASSUME NEW j \in Ids, input'[j] # None
        PROVE  /\ input'[j].admitted <= latest'[input'[j].session]
               /\ input'[j].promoted # Pending =>
                    /\ input'[j].admitted <= input'[j].promoted
                    /\ input'[j].promoted <= latest'[input'[j].session]
    <3>1. CASE j = i
      BY <1>5, <2>1, <2>2, <2>3, <3>1
    <3>2. CASE j # i
      <4>1. input'[j] = input[j] /\ input[j] # None
        BY <2>2, <2>4, <3>2
      <4>2. latest[input[j].session] <= latest'[input[j].session]
            /\ latest'[input[j].session] \in Nat
        BY <2>1, <4>1
      <4> QED  BY <4>1, <4>2 DEF Numbered
    <3> QED  BY <3>1, <3>2
  <2>5. ASSUME NEW j \in Ids, j # i, input[j] # None, input[j].session = s
        PROVE  input[j].admitted # row.admitted
    <3>1. input[j].admitted <= latest[s]
      BY <2>5 DEF Numbered
    <3>2. CASE row.admitted = latest[s] + 1
      BY <3>1, <3>2
    <3>3. CASE input[i] # None /\ input[i].session = s /\ row.admitted = input[i].admitted
      BY <2>5, <3>3 DEF Numbered
    <3> QED  BY <1>5, <3>2, <3>3
  <2>6. ASSUME NEW j \in Ids, input'[j] # None, NEW k \in Ids, input'[k] # None,
               input'[k].session = input'[j].session,
               input'[k].admitted = input'[j].admitted
        PROVE  j = k
    <3>1. CASE j = i
      BY <1>5, <2>2, <2>5, <2>6, <3>1
    <3>2. CASE k = i
      BY <1>5, <2>2, <2>5, <2>6, <3>2
    <3>3. CASE j # i /\ k # i
      BY <2>2, <2>6, <3>3 DEF Numbered
    <3> QED  BY <3>1, <3>2, <3>3
  <2> QED  BY <2>4, <2>6 DEF Numbered
<1>6. ASSUME NEW i \in Ids, NEW s \in Sessions, NEW row \in Rows, Admits(i, s, row)
      PROVE  Numbered'
  BY <1>5, <1>6 DEF Admits
<1>7. ASSUME NEW i \in Ids, NEW s \in Sessions, NEW row \in Rows, Promotes(i, s, row)
      PROVE  Numbered'
  BY <1>5, <1>7 DEF Promotes
<1>8. ASSUME NEW s \in Sessions, NEW n \in Nat, Deletes(s, n)
      PROVE  Numbered'
  <2>1. \A i \in Ids : input'[i] # None => input'[i] = input[i]
    BY <1>8 DEF Deletes
  <2>2. \A t \in Sessions : latest[t] <= latest'[t] /\ latest'[t] \in Nat
    BY <1>8, SeqsAreNumbers DEF Deletes, Numbers
  <2> QED  BY <2>1, <2>2 DEF Numbered
<1> QED  BY <1>0, <1>4, <1>6, <1>7, <1>8, TableSteps

\* The second and third conjunct of TablesAgree.
HistoryAgrees ==
  \A i \in Ids :
    /\ message[i] # None /\ message[i].type = "user" =>
         /\ input[i] # None
         /\ input[i].session = message[i].session
         /\ input[i].promoted = message[i].seq
    /\ input[i] # None /\ input[i].promoted # Pending =>
         message[i] = [session |-> input[i].session, seq |-> input[i].promoted, type |-> "user"]

LEMMA HistoryAgreesInv ==
  ASSUME TablesAgree, Numbered, RowsInOrder, [Next]_allVars
  PROVE  HistoryAgrees'
<1>0. TypeOK /\ HistoryAgrees
  BY DEF TablesAgree, HistoryAgrees
<1>1. input \in [Ids -> Rows \cup {None}] /\ message \in [Ids -> Messages \cup {None}]
  BY <1>0 DEF TypeOK, InboxTypeOK
<1>2. CASE Quiet
  BY <1>0, <1>2 DEF Quiet, HistoryAgrees
<1>3. ASSUME NEW i \in Ids, NEW s \in Sessions, NEW row \in Rows, Admits(i, s, row)
      PROVE  HistoryAgrees'
  <2>1. /\ message' = message /\ message[i] = None
        /\ input'[i] = row /\ row.promoted = Pending
        /\ \A j \in Ids : j # i => input'[j] = input[j]
    BY <1>1, <1>3 DEF Admits
  <2> QED  BY <1>0, <2>1 DEF HistoryAgrees
<1>4. ASSUME NEW i \in Ids, NEW s \in Sessions, NEW row \in Rows, Promotes(i, s, row)
      PROVE  HistoryAgrees'
  <2>1. /\ message'[i] = [session |-> s, seq |-> latest[s] + 1, type |-> "user"]
        /\ input'[i] = row /\ row.session = s /\ row.promoted = latest[s] + 1
        /\ \A j \in Ids : j # i => input'[j] = input[j] /\ message'[j] = message[j]
    BY <1>1, <1>4 DEF Promotes
  <2>2. row # None
    BY AbsentRow
  <2>3. ASSUME NEW j \in Ids
        PROVE  /\ message'[j] # None /\ message'[j].type = "user" =>
                    /\ input'[j] # None
                    /\ input'[j].session = message'[j].session
                    /\ input'[j].promoted = message'[j].seq
               /\ input'[j] # None /\ input'[j].promoted # Pending =>
                    message'[j] = [session |-> input'[j].session, seq |-> input'[j].promoted,
                                   type |-> "user"]
    <3>1. CASE j = i
      BY <2>1, <2>2, <3>1
    <3>2. CASE j # i
      <4>1. input'[j] = input[j] /\ message'[j] = message[j]
        BY <2>1, <3>2
      <4> QED  BY <1>0, <4>1 DEF HistoryAgrees
    <3> QED  BY <3>1, <3>2
  <2> QED  BY <2>3 DEF HistoryAgrees
<1>5. ASSUME NEW s \in Sessions, NEW n \in Nat, Deletes(s, n)
      PROVE  HistoryAgrees'
  <2> SUFFICES ASSUME NEW i \in Ids
               PROVE  /\ message'[i] # None /\ message'[i].type = "user" =>
                           /\ input'[i] # None
                           /\ input'[i].session = message'[i].session
                           /\ input'[i].promoted = message'[i].seq
                      /\ input'[i] # None /\ input'[i].promoted # Pending =>
                           message'[i] = [session |-> input'[i].session,
                                          seq |-> input'[i].promoted, type |-> "user"]
    BY DEF HistoryAgrees
  <2>1. /\ message'[i] = IF message[i] # None /\ message[i].session = s /\ message[i].seq > n
                         THEN None ELSE message[i]
        /\ input'[i] = IF Dropped(i, s, n) THEN None ELSE input[i]
    BY <1>5 DEF Deletes
  <2>2. ASSUME message[i] # None, message[i].type = "user"
        PROVE  Dropped(i, s, n) <=> message[i].session = s /\ message[i].seq > n
    <3>1. /\ input[i] # None /\ input[i].session = message[i].session
          /\ input[i].promoted = message[i].seq
      BY <1>0, <2>2 DEF HistoryAgrees
    <3>2. /\ message[i].seq \in Nat /\ message[i].seq \in Seqs
          /\ input[i].admitted \in Nat
      BY <1>0, <2>2, <3>1, Fields
    <3>3. input[i].promoted # Pending
      BY <3>1, <3>2, SeqsAreNumbers
    <3>4. input[i].admitted <= input[i].promoted
      BY <3>1, <3>3 DEF Numbered
    <3> QED  BY <3>1, <3>2, <3>4 DEF Dropped
  <2>3. ASSUME input[i] # None, input[i].promoted # Pending
        PROVE  /\ message[i] = [session |-> input[i].session, seq |-> input[i].promoted,
                                type |-> "user"]
               /\ message[i] # None /\ message[i].type = "user"
    <3>1. message[i] = [session |-> input[i].session, seq |-> input[i].promoted, type |-> "user"]
      BY <1>0, <2>3 DEF HistoryAgrees
    <3>2. message[i] \in Messages
      BY <1>0, <2>3, <3>1, Fields, SeqsAreNumbers DEF Messages
    <3> QED  BY <3>1, <3>2, AbsentRow
  <2>4. ASSUME message'[i] # None, message'[i].type = "user"
        PROVE  /\ input'[i] # None
               /\ input'[i].session = message'[i].session
               /\ input'[i].promoted = message'[i].seq
    <3>1. message'[i] = message[i] /\ ~(message[i].session = s /\ message[i].seq > n)
      BY <2>1, <2>4
    <3>2. input'[i] = input[i]
      BY <2>1, <2>2, <2>4, <3>1
    <3> QED  BY <1>0, <2>4, <3>1, <3>2 DEF HistoryAgrees
  <2>5. ASSUME input'[i] # None, input'[i].promoted # Pending
        PROVE  message'[i] = [session |-> input'[i].session, seq |-> input'[i].promoted,
                              type |-> "user"]
    <3>1. input'[i] = input[i] /\ ~Dropped(i, s, n)
      BY <2>1, <2>5
    <3> QED  BY <2>1, <2>2, <2>3, <2>5, <3>1
  <2> QED  BY <2>4, <2>5
<1> QED  BY <1>0, <1>2, <1>3, <1>4, <1>5, TableSteps

-----------------------------------------------------------------------------
(* Promotions keep the order of admission *)

LEMMA TailOf ==
  ASSUME NEW S, NEW rows \in Seq(S), rows # <<>>
  PROVE  /\ 1 \in DOMAIN rows /\ Head(rows) = rows[1]
         /\ \A h \in DOMAIN rows : h \in Nat /\ h >= 1
         /\ \A k \in DOMAIN Tail(rows) : k + 1 \in DOMAIN rows /\ Tail(rows)[k] = rows[k + 1]
         /\ \A h \in DOMAIN rows :
              h # 1 => h - 1 \in DOMAIN Tail(rows) /\ Tail(rows)[h - 1] = rows[h]
<1>1. Len(rows) \in Nat /\ Len(rows) > 0 /\ DOMAIN rows = 1 .. Len(rows)
  OBVIOUS
<1>2. /\ DOMAIN Tail(rows) = 1 .. Len(rows) - 1
      /\ \A k \in 1 .. Len(rows) - 1 : Tail(rows)[k] = rows[k + 1]
  BY <1>1
<1>3. Head(rows) = rows[1]
  BY <1>1
<1> QED  BY <1>1, <1>2, <1>3

\* Nothing that happens to the tables puts an input ahead of a row already held.
LEMMA HeldKept ==
  ASSUME TablesAgree, Numbered, NEW t \in Sessions,
         NEW rows \in Seq(PromotionRows), Held(t, rows),
         \/ Quiet
         \/ \E i \in Ids, s \in Sessions, row \in Rows : Admits(i, s, row)
         \/ \E i \in Ids, s \in Sessions, row \in Rows : Promotes(i, s, row)
         \/ \E s \in Sessions, n \in Nat : Deletes(s, n)
  PROVE  Held(t, rows)'
<1>0. TypeOK
  BY DEF TablesAgree
<1>1. /\ input \in [Ids -> Rows \cup {None}]
      /\ \A s \in Sessions : latest[s] \in Nat
  BY <1>0, Fields DEF TypeOK, InboxTypeOK
<1>2. \A k \in DOMAIN rows : rows[k].id \in Ids /\ rows[k].admitted \in Nat
  BY RowFields
<1>3. /\ latest[t] <= latest'[t] /\ latest'[t] \in Nat
  BY SeqsAreNumbers DEF Quiet, Admits, Promotes, Deletes, Numbers
<1>4. \A k \in DOMAIN rows : rows[k].admitted <= latest[t]
  BY DEF Held
<1>5. ASSUME NEW k \in DOMAIN rows, NEW i \in Ids,
             Current(t, rows[k])', WaitsBefore(i, t, rows[k])'
      PROVE  Current(t, rows[k]) /\ WaitsBefore(i, t, rows[k])
  <2> DEFINE r == rows[k]
             j == r.id
  <2>1. j \in Ids /\ r.admitted \in Nat /\ r.admitted <= latest[t]
    BY <1>2, <1>4
  <2> HIDE DEF r
  <2>2. input'[j] # None /\ input'[j].session = t /\ input'[j].admitted = r.admitted
    BY <1>5 DEF Current, r
  <2>3. /\ input'[i] # None /\ input'[i].session = t /\ input'[i].delivery = r.delivery
        /\ input'[i].promoted = Pending
        /\ input'[i].admitted < r.admitted
    BY <1>5 DEF WaitsBefore, IsPending, r
  <2>4. CASE Quiet
    BY <2>2, <2>3, <2>4 DEF Quiet, Current, WaitsBefore, IsPending, r
  <2>5. ASSUME NEW i0 \in Ids, NEW s \in Sessions, NEW row \in Rows, Admits(i0, s, row)
        PROVE  Current(t, r) /\ WaitsBefore(i, t, r)
    <3>1. /\ input'[i0] = row /\ row.session = s /\ row.admitted = latest[s] + 1
          /\ \A h \in Ids : h # i0 => input'[h] = input[h]
      BY <1>1, <2>5 DEF Admits
    <3>2. j # i0 /\ i # i0
      BY <1>1, <2>1, <2>2, <2>3, <3>1
    <3> QED  BY <2>1, <2>2, <2>3, <3>1, <3>2 DEF Current, WaitsBefore, IsPending
  <2>6. ASSUME NEW i0 \in Ids, NEW s \in Sessions, NEW row \in Rows, Promotes(i0, s, row)
        PROVE  Current(t, r) /\ WaitsBefore(i, t, r)
    <3>1. /\ input'[i0] = row /\ row.session = s /\ row.promoted = latest[s] + 1
          /\ \A h \in Ids : h # i0 => input'[h] = input[h]
      BY <1>1, <2>6 DEF Promotes
    <3>2. i # i0
      BY <1>1, <2>3, <3>1 DEF Pending
    <3>3. WaitsBefore(i, t, r)
      BY <2>3, <3>1, <3>2 DEF WaitsBefore, IsPending
    <3>4. CASE j # i0
      BY <2>1, <2>2, <3>1, <3>3, <3>4 DEF Current
    <3>5. CASE j = i0
      <4>1. row.session = t /\ row.admitted = r.admitted
        BY <2>2, <3>1, <3>5
      <4>2. row.admitted # latest[s] + 1
        BY <1>1, <2>1, <3>1, <4>1
      <4> QED  BY <2>6, <3>3, <3>5, <4>1, <4>2 DEF Promotes, Current
    <3> QED  BY <3>4, <3>5
  <2>7. ASSUME NEW s \in Sessions, NEW n \in Nat, Deletes(s, n)
        PROVE  Current(t, r) /\ WaitsBefore(i, t, r)
    <3>1. \A h \in Ids : input'[h] # None => input'[h] = input[h]
      BY <2>7 DEF Deletes
    <3> QED  BY <2>1, <2>2, <2>3, <3>1 DEF Current, WaitsBefore, IsPending
  <2> QED  BY <2>4, <2>5, <2>6, <2>7 DEF r
<1> QED  BY <1>1, <1>2, <1>3, <1>4, <1>5 DEF Held

\* Where the rows a drain holds come from.
LEMMA RowSteps ==
  ASSUME TypeOK, Numbered, RowsInOrder, [Next]_allVars, NEW t \in Sessions, drain'[t] # Off
  PROVE  \/ /\ drain[t] # Off /\ drain'[t].rows = drain[t].rows
            /\ drain'[t].pc = "recheck" => drain[t].pc = "recheck"
         \/ drain'[t].rows = <<>> /\ drain'[t].pc = "start"
         \/ Reads(t, drain'[t])
         \/ PublishPrompted(t)
<1>1. drain \in [Sessions -> DrainStates]
  BY DEF TypeOK
<1>2. CASE UNCHANGED drain
  BY <1>2
<1>3. ASSUME NEW s \in Sessions, drain' = [drain EXCEPT ![s] = Off]
      PROVE  UNCHANGED drain[t]
  BY <1>1, <1>3
<1>4. ASSUME NEW s \in Sessions, Begin(s)
      PROVE  \/ UNCHANGED drain[t]
             \/ drain'[t].rows = <<>> /\ drain'[t].pc = "start"
  BY <1>1, <1>4 DEF Begin
<1>5. ASSUME NEW s \in Sessions, Ask(s)
      PROVE  \/ UNCHANGED drain[t]
             \/ drain[t] # Off /\ drain'[t].rows = drain[t].rows /\ drain'[t].pc = "turn"
  <2>1. CASE t = s
    <3>1. drain[s] \in Drains /\ drain[s] # Off
      BY <1>5, DrainFields DEF Ask, At
    <3>2. drain'[s] = [drain[s] EXCEPT !.pc = "turn"]
      BY <1>1, <1>5 DEF Ask
    <3> QED  BY <2>1, <3>1, <3>2 DEF Drains
  <2>2. CASE t # s
    BY <1>1, <1>5, <2>2 DEF Ask
  <2> QED  BY <2>1, <2>2
<1>6. ASSUME NEW s \in Sessions, Run(s)
      PROVE  \/ UNCHANGED drain[t]
             \/ drain[t] # Off /\ drain'[t].rows = drain[t].rows /\ drain'[t].pc = "turn"
             \/ Reads(t, drain'[t])
             \/ PublishPrompted(t)
  <2>1. CASE \E d : Reads(s, d)
    <3>1. PICK d : Reads(s, d)
      BY <2>1
    <3>2. drain' = [drain EXCEPT ![s] = d]
      BY <3>1 DEF Reads, Moves
    <3> QED  BY <1>1, <3>1, <3>2
  <2>2. CASE PublishPrompted(s)
    <3>1. CASE t = s
      BY <2>2, <3>1
    <3>2. CASE t # s
      BY <1>1, <2>2, <3>2 DEF PublishPrompted
    <3> QED  BY <3>1, <3>2
  <2>3. CASE Ask(s)
    BY <1>5, <2>3
  <2>4. CASE Fails(s) \/ Ends(s)
    <3>1. drain' = [drain EXCEPT ![s] = Off]
      BY <2>4 DEF Fails, Ends, Finish
    <3> QED  BY <1>3, <3>1
  <2> QED  BY <1>6, <2>1, <2>2, <2>3, <2>4, RunnerSteps
<1>7. ASSUME NEW s \in Sessions, Stop(s) \/ TurnFails(s)
      PROVE  UNCHANGED drain[t]
  BY <1>3, <1>7 DEF Stop, TurnFails, Fails
<1>8. ~Crash
  BY DEF Crash
<1>9. UNCHANGED allVars \/ Serve \/ (\E c \in Clients : WakeFor(c))
      \/ (\E s \in Sessions : Resume(s) \/ Wound(s) \/ Compact(s)) => UNCHANGED drain
  BY DEF allVars, Serve, WakeFor, Resume, Wound, Compact
<1> QED  BY <1>2, <1>4, <1>6, <1>7, <1>8, <1>9 DEF Next

LEMMA RowsInOrderInv ==
  ASSUME TablesAgree, Numbered, RowsInOrder, [Next]_allVars
  PROVE  RowsInOrder'
<1>0. TypeOK
  BY DEF TablesAgree
<1> SUFFICES ASSUME NEW t \in Sessions, drain'[t] # Off, NEW new, new = drain'[t].rows
             PROVE  /\ Held(t, new)'
                    /\ drain'[t].pc = "recheck" => new # <<>>
  BY DEF RowsInOrder, Held
<1>1. ASSUME NEW rows \in Seq(PromotionRows), Held(t, rows)
      PROVE  Held(t, rows)'
  BY <1>0, <1>1, TableSteps, HeldKept
<1>2. CASE /\ drain[t] # Off /\ drain'[t].rows = drain[t].rows
           /\ drain'[t].pc = "recheck" => drain[t].pc = "recheck"
  <2>1. /\ new \in Seq(PromotionRows) /\ Held(t, new)
        /\ drain[t].pc = "recheck" => new # <<>>
    BY <1>0, <1>2, DrainFields DEF RowsInOrder
  <2>2. Held(t, new)'
    BY <1>1, <2>1
  <2> QED  BY <1>2, <2>1, <2>2
<1>3. CASE drain'[t].rows = <<>> /\ drain'[t].pc = "start"
  BY <1>3 DEF Held
<1>4. CASE Reads(t, drain'[t])
  <2>1. Held(t, new) /\ UNCHANGED inboxVars
        /\ (drain'[t].pc = "recheck" => new # <<>>)
    BY <1>4 DEF Reads, Moves
  <2> QED  BY <2>1 DEF Held, Current, WaitsBefore, IsPending, inboxVars
<1>5. CASE PublishPrompted(t)
  <2>1. PICK rows : rows = drain[t].rows
    OBVIOUS
  <2>2. /\ drain[t] \in Drains /\ drain[t] # Off
        /\ rows # <<>> /\ rows \in Seq(PromotionRows)
    BY <1>0, <1>5, <2>1, PublishPromotes
  <2>3. Head(rows).id \in Ids
    BY <2>2, RowFields
  <2>4. PICK row \in Rows : Promotes(Head(rows).id, t, row)
    BY <1>0, <1>5, <2>1, PublishPromotes
  <2>5. input'[Head(rows).id].promoted = latest[t] + 1 /\ latest[t] \in Nat
    BY <1>0, <2>3, <2>4, Fields DEF Promotes, TypeOK, InboxTypeOK
  <2>6. Held(t, rows)'
    BY <1>1, <2>1, <2>2 DEF RowsInOrder
  <2>7. drain'[t] = [drain[t] EXCEPT !.pc = "publish", !.rows = Tail(@)]
    BY <1>0, <1>5 DEF PublishPrompted, NextRow, TypeOK
  <2>8. drain'[t].rows = Tail(rows) /\ drain'[t].pc = "publish"
    BY <2>1, <2>2, <2>7 DEF Drains
  <2>9. /\ 1 \in DOMAIN rows /\ Head(rows) = rows[1]
        /\ \A h \in DOMAIN rows : h \in Nat /\ h >= 1
        /\ \A k \in DOMAIN Tail(rows) : k + 1 \in DOMAIN rows /\ Tail(rows)[k] = rows[k + 1]
        /\ \A h \in DOMAIN rows :
             h # 1 => h - 1 \in DOMAIN Tail(rows) /\ Tail(rows)[h - 1] = rows[h]
    BY <2>2, TailOf
  <2>10. PICK tail : tail = Tail(rows) /\ tail = new
    BY <2>8
  <2>11. ASSUME NEW k \in DOMAIN tail
         PROVE  tail[k].admitted <= latest'[t]
    BY <2>6, <2>9, <2>10 DEF Held
  <2>12. ASSUME NEW k \in DOMAIN tail, NEW i \in Ids,
                Current(t, tail[k])', WaitsBefore(i, t, tail[k])'
         PROVE  \E h \in DOMAIN tail : h < k /\ tail[h].id = i
    <3>1. k + 1 \in DOMAIN rows /\ tail[k] = rows[k + 1] /\ k + 1 \in Nat
      BY <2>9, <2>10
    <3>2. Current(t, rows[k + 1])' /\ WaitsBefore(i, t, rows[k + 1])'
      BY <2>12, <3>1
    <3>3. PICK h \in DOMAIN rows : h < k + 1 /\ rows[h].id = i
      BY <2>6, <3>1, <3>2 DEF Held
    <3>4. input'[i].promoted = Pending
      BY <2>12 DEF WaitsBefore, IsPending
    <3>5. h # 1
      BY <2>5, <2>9, <3>3, <3>4 DEF Pending
    <3>6. h - 1 \in DOMAIN tail /\ tail[h - 1] = rows[h] /\ h - 1 < k
      <4>1. k \in Nat
        <5>1. DOMAIN tail \subseteq Nat
          BY <2>2, <2>10
        <5> QED  BY <5>1
      <4> QED  BY <2>9, <2>10, <3>3, <3>5, <4>1
    <3> QED  BY <3>3, <3>6
  <2>13. Held(t, tail)'
    BY <2>11, <2>12 DEF Held
  <2> QED  BY <2>8, <2>10, <2>13
<1> QED  BY <1>0, <1>2, <1>3, <1>4, <1>5, RowSteps

\* Only a promotion marks an input, and only deleting it takes its mark away.
LEMMA VoidedSteps ==
  ASSUME TypeOK, Numbered, RowsInOrder, [Next]_allVars
  PROVE  \/ \E s \in Sessions : PublishPrompted(s)
         \/ \A i \in voided : input'[i] # None => i \in voided'
<1>1. CASE Serve
  BY <1>1 DEF Serve
<1>2. ASSUME NEW s \in Sessions, Run(s)
      PROVE  PublishPrompted(s) \/ UNCHANGED voided
  BY <1>2, RunnerSteps DEF Reads, Moves, Ask, Fails, Ends, Finish
<1>3. ASSUME \/ UNCHANGED allVars \/ Crash \/ \E c \in Clients : WakeFor(c)
             \/ \E s \in Sessions : \/ Resume(s) \/ Begin(s) \/ Stop(s) \/ Wound(s)
                                    \/ Compact(s) \/ TurnFails(s)
      PROVE  UNCHANGED voided
  BY <1>3 DEF allVars, Crash, WakeFor, Resume, Begin, Stop, Wound, Compact, TurnFails, Fails
<1> QED  BY <1>1, <1>2, <1>3 DEF Next

LEMMA PromotedInOrderInv ==
  ASSUME TablesAgree, Numbered, RowsInOrder, PromotedInOrder, [Next]_allVars
  PROVE  PromotedInOrder'
<1>0. TypeOK
  BY DEF TablesAgree
<1>1. /\ input \in [Ids -> Rows \cup {None}]
      /\ \A s \in Sessions : latest[s] \in Nat
      /\ \A i \in Ids : input[i] # None =>
           /\ input[i].session \in Sessions
           /\ input[i].admitted \in Nat /\ input[i].promoted \in Int
  BY <1>0, Fields DEF TypeOK, InboxTypeOK
<1> DEFINE InOrder(i, j) ==
      /\ input[i] # None /\ input[j] # None
      /\ input[i].session = input[j].session /\ input[i].delivery = input[j].delivery
      /\ input[i].admitted < input[j].admitted
      /\ input[j].promoted # Pending
      => input[i].promoted # Pending /\ input[i].promoted < input[j].promoted
<1>2. \A i, j \in Ids : i \notin voided /\ j \notin voided => InOrder(i, j)
  BY DEF PromotedInOrder
<1>3. ASSUME NEW s \in Sessions, PublishPrompted(s)
      PROVE  PromotedInOrder'
  <2>1. PICK rows : rows = drain[s].rows
    OBVIOUS
  <2>2. PICK head : head = Head(rows)
    OBVIOUS
  <2>3. /\ drain[s] # Off /\ rows # <<>> /\ rows \in Seq(PromotionRows)
        /\ head \in PromotionRows
    BY <1>0, <1>3, <2>1, <2>2, PublishPromotes
  <2>4. PICK i0 \in Ids : i0 = head.id
    BY <2>3, RowFields
  <2>5. PICK row \in Rows : Promotes(i0, s, row)
    BY <1>0, <1>3, <2>1, <2>2, <2>4, PublishPromotes
  <2>6. /\ input'[i0] = row /\ row.session = s /\ row.promoted = latest[s] + 1
        /\ \A j \in Ids : j # i0 => input'[j] = input[j]
    BY <1>1, <2>5 DEF Promotes
  <2>7. /\ voided \subseteq voided'
        /\ input[i0] = None \/ input[i0].admitted # head.admitted => i0 \in voided'
    BY <1>3, <2>1, <2>2, <2>4 DEF PublishPrompted
  <2>8. ASSUME NEW i \in Ids, NEW j \in Ids, i \notin voided', j \notin voided'
        PROVE  InOrder(i, j)'
    <3> SUFFICES ASSUME input'[i] # None, input'[j] # None,
                        input'[i].session = input'[j].session,
                        input'[i].delivery = input'[j].delivery,
                        input'[i].admitted < input'[j].admitted,
                        input'[j].promoted # Pending
                 PROVE  input'[i].promoted # Pending /\ input'[i].promoted < input'[j].promoted
      OBVIOUS
    <3> HIDE DEF InOrder
    <3>1. i \notin voided /\ j \notin voided
      BY <2>7, <2>8
    <3>2. CASE i = i0 /\ j = i0
      <4>1. row.admitted \in Nat
        BY SeqsAreNumbers DEF Rows
      <4> QED  BY <2>6, <3>2, <4>1
    <3>3. CASE j = i0 /\ i # i0
      <4>1. /\ input[i0] # None /\ input[i0].admitted = head.admitted
            /\ input[i0].promoted = Pending
            /\ row.session = input[i0].session /\ row.delivery = input[i0].delivery
            /\ row.admitted = input[i0].admitted
        BY <2>5, <2>7, <2>8, <3>3 DEF Promotes
      <4>2. head.delivery = input[i0].delivery
        BY <1>3, <2>1, <2>2, <2>4, <4>1 DEF PublishPrompted, Promotable, IsPending
      <4>3. /\ input[i] # None /\ input[i].session = s
            /\ input[i].delivery = head.delivery
            /\ input[i].admitted < head.admitted
        BY <2>6, <3>3, <4>1, <4>2
      <4>4. Current(s, head)
        BY <2>4, <2>6, <4>1 DEF Current
      <4>5. rows[1] = head /\ 1 \in DOMAIN rows /\ \A h \in DOMAIN rows : h \in Nat /\ h >= 1
        BY <2>2, <2>3, TailOf
      <4>6. Held(s, rows)
        BY <2>1, <2>3 DEF RowsInOrder
      <4>7. ~WaitsBefore(i, s, head)
        <5> SUFFICES ASSUME WaitsBefore(i, s, head) PROVE FALSE
          OBVIOUS
        <5>1. PICK h \in DOMAIN rows : h < 1
          BY <4>4, <4>5, <4>6 DEF Held
        <5> QED  BY <4>5, <5>1
      <4>8. input[i].promoted # Pending
        BY <4>3, <4>7 DEF WaitsBefore, IsPending
      <4>9. input[i].promoted <= latest[s]
        BY <4>3, <4>8 DEF Numbered
      <4> QED  BY <1>1, <2>6, <3>3, <4>3, <4>8, <4>9
    <3>4. CASE i = i0 /\ j # i0
      <4>1. /\ input[i0] # None
            /\ input[i0].promoted = Pending
            /\ row.session = input[i0].session /\ row.delivery = input[i0].delivery
            /\ row.admitted = input[i0].admitted
        BY <2>5, <2>7, <2>8, <3>4 DEF Promotes
      <4>2. InOrder(i0, j)
        BY <1>2, <3>1, <3>4
      <4> QED  BY <2>6, <3>4, <4>1, <4>2 DEF InOrder
    <3>5. CASE i # i0 /\ j # i0
      <4>1. InOrder(i, j) /\ input'[i] = input[i] /\ input'[j] = input[j]
        BY <1>2, <2>6, <3>1, <3>5
      <4> QED  BY <4>1 DEF InOrder
    <3> QED  BY <3>2, <3>3, <3>4, <3>5
  <2> QED  BY <2>8 DEF PromotedInOrder
<1>4. ASSUME \A i \in voided : input'[i] # None => i \in voided',
             \A i, j \in Ids :
               /\ input'[i] # None /\ input'[j] # None /\ InOrder(i, j)
               /\ input'[i].session = input'[j].session
               /\ input'[i].admitted < input'[j].admitted
               /\ input'[j].promoted # Pending
               => input'[i] = input[i] /\ input'[j] = input[j]
      PROVE  PromotedInOrder'
  <2> SUFFICES ASSUME NEW i \in Ids \ voided', NEW j \in Ids \ voided',
                      input'[i] # None, input'[j] # None,
                      input'[i].session = input'[j].session,
                      input'[i].delivery = input'[j].delivery,
                      input'[i].admitted < input'[j].admitted,
                      input'[j].promoted # Pending
               PROVE  input'[i].promoted # Pending /\ input'[i].promoted < input'[j].promoted
    BY DEF PromotedInOrder
  <2>1. InOrder(i, j)
    BY <1>2, <1>4
  <2> HIDE DEF InOrder
  <2>2. input'[i] = input[i] /\ input'[j] = input[j]
    BY <1>4, <2>1
  <2> QED  BY <2>1, <2>2 DEF InOrder
<1> HIDE DEF InOrder
<1>5. CASE \A i \in voided : input'[i] # None => i \in voided'
  <2>1. CASE Quiet
    BY <1>4, <1>5, <2>1 DEF Quiet
  <2>2. ASSUME NEW i0 \in Ids, NEW s \in Sessions, NEW row \in Rows, Admits(i0, s, row)
        PROVE  PromotedInOrder'
    <3>1. /\ input'[i0] = row /\ row.session = s /\ row.promoted = Pending
          /\ row.admitted = latest[s] + 1
          /\ \A j \in Ids : j # i0 => input'[j] = input[j]
      BY <1>1, <2>2 DEF Admits
    <3>2. \A j \in Ids : j # i0 /\ input[j] # None /\ input[j].session = s =>
            ~(row.admitted < input[j].admitted)
      BY <1>1, <3>1 DEF Numbered
    <3> QED  BY <1>4, <1>5, <3>1, <3>2
  <2>3. ASSUME NEW s \in Sessions, NEW n \in Nat, Deletes(s, n)
        PROVE  PromotedInOrder'
    <3>1. \A i \in Ids : input'[i] # None => input'[i] = input[i]
      BY <2>3 DEF Deletes
    <3> QED  BY <1>4, <1>5, <3>1
  <2> QED  BY <1>0, <1>3, <2>1, <2>2, <2>3, TableSteps
<1> QED  BY <1>0, <1>3, <1>5, VoidedSteps

-----------------------------------------------------------------------------
(* Types *)

LEMMA ClientStatesHave ==
  /\ [pc |-> "idle"] \in ClientStates
  /\ \A pc \in {"find", "publish", "recover", "accepted", "conflict"}, r \in Requests :
       [pc |-> pc, req |-> r] \in ClientStates
  /\ \A r \in Requests, row \in Rows : [pc |-> "answer", req |-> r, row |-> row] \in ClientStates
  /\ \A pc \in {"stage", "commit"}, s \in Sessions, i \in Ids :
       [pc |-> pc, session |-> s, id |-> i] \in ClientStates
  /\ \A s \in Sessions : [pc |-> "clear", session |-> s] \in ClientStates
BY DEF ClientStates

\* One client goes on, or all start again after a crash.
LEMMA ClientTypeInv ==
  ASSUME TypeOK, Numbered, RowsInOrder, [Next]_allVars
  PROVE  /\ client' \in [Clients -> ClientStates]
         /\ revert' \in [Sessions -> Ids \cup {None}]
         /\ undone' \subseteq Clients
<1>0. /\ client \in [Clients -> ClientStates] /\ undone \subseteq Clients
      /\ revert \in [Sessions -> Ids \cup {None}] /\ input \in [Ids -> Rows \cup {None}]
  BY DEF TypeOK, InboxTypeOK
<1>1. ASSUME NEW c \in Clients, NEW state \in ClientStates, Goto(c, state)
      PROVE  client' \in [Clients -> ClientStates]
  BY <1>0, <1>1 DEF Goto
<1>2. ASSUME NEW c \in Clients, NEW pc \in {"find", "publish", "recover", "accepted", "conflict"},
             client[c].req \in Requests, Become(c, pc)
      PROVE  client' \in [Clients -> ClientStates]
  <2>1. [pc |-> pc, req |-> client[c].req] \in ClientStates
    BY <1>2, ClientStatesHave
  <2> QED  BY <1>1, <1>2, <2>1 DEF Become
<1>3. CASE Serve
  <2>1. PICK c \in Clients :
          \/ \E r \in Requests : Submit(c, r)
          \/ Find(c) \/ Admit(c) \/ AdmitDies(c) \/ Recover(c)
          \/ \E s \in Sessions : Clear(c, s) \/ Commit(c, s) \/ \E i \in Ids : Stage(c, s, i)
          \/ Staged(c) \/ Cleared(c) \/ Committed(c) \/ CommitDies(c)
    BY <1>3 DEF Serve, ClientStep
  <2>2. ASSUME NEW r \in Requests, Submit(c, r)
        PROVE  client' \in [Clients -> ClientStates] /\ UNCHANGED revert
               /\ undone' \subseteq Clients
    <3>1. [pc |-> "find", req |-> r] \in ClientStates
      BY ClientStatesHave
    <3> QED  BY <1>0, <1>1, <2>2, <3>1 DEF Submit
  <2>3. ASSUME Find(c) \/ Recover(c)
        PROVE  client' \in [Clients -> ClientStates] /\ UNCHANGED <<revert, undone>>
    <3>1. client[c].req \in Requests /\ client[c].req.id \in Ids
      BY <2>3, ClientFields DEF Find, Recover
    <3>2. CASE input[client[c].req.id] = None
      BY <1>2, <2>3, <3>1, <3>2 DEF Find, Recover
    <3>3. CASE input[client[c].req.id] # None
      <4>1. input[client[c].req.id] \in Rows
        BY <1>0, <3>1, <3>3
      <4>2. [pc |-> "answer", req |-> client[c].req, row |-> input[client[c].req.id]]
              \in ClientStates
        BY <3>1, <4>1, ClientStatesHave
      <4> QED  BY <1>1, <2>3, <3>3, <4>2 DEF Find, Recover
    <3> QED  BY <2>3, <3>2, <3>3 DEF Find, Recover
  <2>4. ASSUME AdmitDies(c)
        PROVE  client' \in [Clients -> ClientStates] /\ UNCHANGED <<revert, undone>>
    <3>1. client[c].req \in Requests
      BY <2>4, ClientFields DEF AdmitDies
    <3> QED  BY <1>2, <2>4, <3>1 DEF AdmitDies
  <2>5. ASSUME Admit(c)
        PROVE  client' \in [Clients -> ClientStates] /\ UNCHANGED <<revert, undone>>
    <3>1. PICK row \in Rows :
            /\ client' = [client EXCEPT ![c] = [pc |-> "answer", req |-> client[c].req,
                                                row |-> row]]
            /\ UNCHANGED <<revert, undone>>
      BY <2>5, AdmitAdmits
    <3>2. client[c].req \in Requests
      BY <2>5, ClientFields DEF Admit
    <3>3. [pc |-> "answer", req |-> client[c].req, row |-> row] \in ClientStates
      BY <3>2, ClientStatesHave
    <3> QED  BY <1>0, <3>1, <3>3
  <2>6. ASSUME NEW s \in Sessions, Clear(c, s) \/ Commit(c, s) \/ \E i \in Ids : Stage(c, s, i)
        PROVE  client' \in [Clients -> ClientStates] /\ UNCHANGED revert
               /\ undone' \subseteq Clients
    <3>1. CASE Clear(c, s)
      <4>1. [pc |-> "clear", session |-> s] \in ClientStates
        BY ClientStatesHave
      <4> QED  BY <1>0, <1>1, <3>1, <4>1 DEF Clear
    <3>2. CASE Commit(c, s)
      <4>1. revert[s] \in Ids
        BY <1>0, <3>2 DEF Commit
      <4>2. [pc |-> "commit", session |-> s, id |-> revert[s]] \in ClientStates
        BY <4>1, ClientStatesHave
      <4> QED  BY <1>0, <1>1, <3>2, <4>2 DEF Commit
    <3>3. ASSUME NEW i \in Ids, Stage(c, s, i)
          PROVE  client' \in [Clients -> ClientStates] /\ UNCHANGED revert
                 /\ undone' \subseteq Clients
      <4>1. [pc |-> "stage", session |-> s, id |-> i] \in ClientStates
        BY ClientStatesHave
      <4> QED  BY <1>0, <1>1, <3>3, <4>1 DEF Stage
    <3> QED  BY <2>6, <3>1, <3>2, <3>3
  <2>7. ASSUME Staged(c) \/ Cleared(c) \/ Committed(c) \/ CommitDies(c)
        PROVE  /\ client' \in [Clients -> ClientStates]
               /\ revert' \in [Sessions -> Ids \cup {None}]
               /\ undone' \subseteq Clients
    <3>1. client' \in [Clients -> ClientStates]
      BY <1>1, <2>7, ClientStatesHave DEF Staged, Cleared, Committed, CommitDies
    <3>2. Staged(c) => client[c].id \in Ids
      BY ClientFields DEF Staged
    <3>3. revert' \in [Sessions -> Ids \cup {None}]
      BY <1>0, <2>7, <3>2 DEF Staged, Cleared, Committed, CommitDies
    <3>4. undone' \subseteq Clients
      BY <1>0, <2>7 DEF Staged, Cleared, Committed, CommitDies
    <3> QED  BY <3>1, <3>3, <3>4
  <2> QED  BY <1>0, <2>1, <2>2, <2>3, <2>4, <2>5, <2>6, <2>7
<1>4. ASSUME NEW c \in Clients, WakeFor(c)
      PROVE  client' \in [Clients -> ClientStates] /\ UNCHANGED <<revert, undone>>
  <2>1. client[c].pc = "answer" /\ (Become(c, "accepted") \/ Become(c, "conflict"))
        /\ UNCHANGED <<revert, undone>>
    BY <1>4 DEF WakeFor, Answer
  <2>2. client[c].req \in Requests
    BY <2>1, ClientFields
  <2> QED  BY <1>2, <2>1, <2>2
<1>5. CASE Crash
  BY <1>0, <1>5, ClientStatesHave DEF Crash
<1>6. ASSUME NEW s \in Sessions, Run(s)
      PROVE  UNCHANGED <<client, revert, undone>>
  BY <1>6, RunnerSteps DEF Reads, Moves, PublishPrompted, Ask, Ends, Finish, inboxVars
<1>7. ASSUME \/ UNCHANGED allVars
             \/ \E s \in Sessions : \/ Resume(s) \/ Begin(s) \/ Stop(s) \/ Wound(s)
                                    \/ Compact(s) \/ TurnFails(s)
      PROVE  UNCHANGED <<client, revert, undone>>
  BY <1>7 DEF allVars, Resume, Begin, Stop, Wound, Compact, TurnFails, inboxVars
<1> QED  BY <1>0, <1>3, <1>4, <1>5, <1>6, <1>7 DEF Next

LEMMA TableTypeInv ==
  ASSUME TypeOK, Numbered, RowsInOrder, [Next]_allVars
  PROVE  /\ latest' \in [Sessions -> Seqs]
         /\ input' \in [Ids -> Rows \cup {None}]
         /\ message' \in [Ids -> Messages \cup {None}]
<1>0. /\ input \in [Ids -> Rows \cup {None}]
      /\ message \in [Ids -> Messages \cup {None}]
  BY DEF TypeOK, InboxTypeOK
<1>1. CASE Quiet
  BY <1>0, <1>1 DEF Quiet
<1>2. ASSUME NEW i \in Ids, NEW s \in Sessions, NEW row \in Rows, Admits(i, s, row)
      PROVE  /\ latest' \in [Sessions -> Seqs]
             /\ input' \in [Ids -> Rows \cup {None}]
             /\ message' \in [Ids -> Messages \cup {None}]
  BY <1>0, <1>2 DEF Admits, Numbers
<1>3. ASSUME NEW i \in Ids, NEW s \in Sessions, NEW row \in Rows, Promotes(i, s, row)
      PROVE  /\ latest' \in [Sessions -> Seqs]
             /\ input' \in [Ids -> Rows \cup {None}]
             /\ message' \in [Ids -> Messages \cup {None}]
  <2>1. latest' \in [Sessions -> Seqs] /\ latest[s] + 1 \in Seqs
    BY <1>3 DEF Promotes, Numbers
  <2>2. [session |-> s, seq |-> latest[s] + 1, type |-> "user"] \in Messages
    BY <2>1 DEF Messages
  <2> QED  BY <1>0, <1>3, <2>1, <2>2 DEF Promotes
<1>4. ASSUME NEW s \in Sessions, NEW n \in Nat, Deletes(s, n)
      PROVE  /\ latest' \in [Sessions -> Seqs]
             /\ input' \in [Ids -> Rows \cup {None}]
             /\ message' \in [Ids -> Messages \cup {None}]
  BY <1>0, <1>4 DEF Deletes, Numbers
<1> QED  BY <1>1, <1>2, <1>3, <1>4, TableSteps

LEMMA ExecutionTypeInv ==
  ASSUME TypeOK, Numbered, RowsInOrder, [Next]_allVars
  PROVE  Execution!TypeOK' /\ forced' \in [Sessions -> BOOLEAN]
<1>0. /\ phase \in [Sessions -> {"idle", "running", "stopping"}]
      /\ owed \in [Sessions -> BOOLEAN] /\ forced \in [Sessions -> BOOLEAN]
  BY DEF TypeOK, Execution!TypeOK
<1>1. ASSUME NEW s \in Sessions, Execution!Request(s) \/ Execution!Begin(s)
                                 \/ Execution!End(s) \/ Execution!Stop(s)
      PROVE  Execution!TypeOK'
  BY <1>0, <1>1 DEF Execution!TypeOK, Execution!Request, Execution!Begin, Execution!End,
                    Execution!Stop
<1>2. ASSUME UNCHANGED <<phase, owed>>
      PROVE  Execution!TypeOK'
  BY <1>0, <1>2 DEF Execution!TypeOK
<1>3. ASSUME NEW s \in Sessions, Run(s) \/ TurnFails(s)
      PROVE  Execution!TypeOK' /\ UNCHANGED forced
  <2>1. \/ UNCHANGED execVars
        \/ Execution!End(s) /\ UNCHANGED forced
    BY <1>3, RunnerSteps
       DEF Reads, Moves, PublishPrompted, Ask, Fails, Ends, Finish, TurnFails
  <2> QED  BY <1>1, <1>2, <2>1 DEF execVars
<1>4. ASSUME NEW s \in Sessions, Resume(s) \/ Begin(s) \/ Stop(s) \/ Wound(s)
      PROVE  Execution!TypeOK' /\ forced' \in [Sessions -> BOOLEAN]
  BY <1>0, <1>1, <1>4 DEF Resume, Begin, Stop, Wound
<1>5. ASSUME NEW c \in Clients, WakeFor(c)
      PROVE  Execution!TypeOK' /\ UNCHANGED forced
  <2>1. client[c].req.session \in Sessions
    BY <1>5, ClientFields DEF WakeFor, Answer
  <2> QED  BY <1>1, <1>2, <1>5, <2>1 DEF WakeFor
<1>6. CASE Crash
  BY <1>6 DEF Crash, Execution!TypeOK
<1>7. ASSUME UNCHANGED allVars \/ Serve \/ \E s \in Sessions : Compact(s)
      PROVE  Execution!TypeOK' /\ UNCHANGED forced
  <2>1. UNCHANGED <<phase, owed, forced>>
    BY <1>7 DEF allVars, Serve, Compact, execVars
  <2> QED  BY <1>2, <2>1
<1> QED  BY <1>0, <1>3, <1>4, <1>5, <1>6, <1>7 DEF Next

LEMMA DrainTypeInv ==
  ASSUME TypeOK, Numbered, RowsInOrder, [Next]_allVars
  PROVE  /\ drain' \in [Sessions -> DrainStates]
         /\ due' \subseteq Ids
         /\ unasked' \in [Sessions -> SUBSET Ids]
         /\ voided' \subseteq Ids
<1> DEFINE Typed == /\ drain' \in [Sessions -> DrainStates]
                    /\ due' \subseteq Ids
                    /\ unasked' \in [Sessions -> SUBSET Ids]
                    /\ voided' \subseteq Ids
<1>0. /\ drain \in [Sessions -> DrainStates] /\ due \subseteq Ids
      /\ unasked \in [Sessions -> SUBSET Ids] /\ voided \subseteq Ids
  BY DEF TypeOK
<1>1. Off \in DrainStates /\ Drains \subseteq DrainStates
  BY DEF DrainStates
<1>2. ASSUME NEW s \in Sessions, NEW d \in DrainStates, drain' = [drain EXCEPT ![s] = d]
      PROVE  drain' \in [Sessions -> DrainStates]
  BY <1>0, <1>2
<1>3. ASSUME NEW s \in Sessions, Begin(s)
      PROVE  Typed
  <2> DEFINE d == [pc |-> "start", force |-> forced[s], promotion |-> None, cutoff |-> 0,
                   rows |-> <<>>, promoted |-> FALSE, step |-> 1]
  <2>1. /\ 1 \in 1 .. Steps /\ 0 \in Seqs
    BY StepsAssumption, InboxAssumption DEF Seqs
  <2>2. <<>> \in Seq(PromotionRows) /\ forced[s] \in BOOLEAN
    BY DEF TypeOK
  <2>3. d \in Drains
    BY <2>1, <2>2 DEF Drains
  <2>4. drain' = [drain EXCEPT ![s] = d] /\ UNCHANGED <<due, unasked, voided>>
    BY <1>3 DEF Begin
  <2> HIDE DEF d
  <2> QED  BY <1>0, <1>1, <1>2, <2>3, <2>4
<1>4. ASSUME NEW s \in Sessions, drain' = [drain EXCEPT ![s] = Off],
             due' \subseteq due, UNCHANGED voided,
             UNCHANGED unasked \/ unasked' = [unasked EXCEPT ![s] = {}]
      PROVE  Typed
  BY <1>0, <1>1, <1>2, <1>4
<1>5. ASSUME NEW s \in Sessions, Run(s)
      PROVE  Typed
  <2>1. CASE \E d : Reads(s, d)
    BY <1>0, <1>1, <1>2, <2>1 DEF Reads, Moves
  <2>2. CASE PublishPrompted(s)
    <3>1. /\ drain[s] \in Drains /\ drain[s].rows \in Seq(PromotionRows)
          /\ drain[s].rows # <<>> /\ Head(drain[s].rows) \in PromotionRows
      BY <2>2, PublishPromotes
    <3>2. Head(drain[s].rows).id \in Ids
      BY <3>1, RowFields
    <3>3. Tail(drain[s].rows) \in Seq(PromotionRows)
      BY <3>1
    <3>4. NextRow(s) \in Drains
      BY <3>1, <3>3 DEF NextRow, Drains
    <3>5. drain' \in [Sessions -> DrainStates]
      BY <1>1, <1>2, <2>2, <3>4 DEF PublishPrompted
    <3>6. due' \subseteq Ids /\ unasked' \in [Sessions -> SUBSET Ids] /\ voided' \subseteq Ids
      BY <1>0, <2>2, <3>2 DEF PublishPrompted
    <3> QED  BY <3>5, <3>6
  <2>3. CASE Ask(s)
    <3>1. drain[s] \in Drains
      BY <2>3, DrainFields DEF Ask, At
    <3> DEFINE d == [drain[s] EXCEPT !.pc = "turn"]
    <3>2. d \in Drains
      BY <3>1 DEF Drains
    <3>3. drain' = [drain EXCEPT ![s] = d]
      BY <1>0, <2>3 DEF Ask
    <3> HIDE DEF d
    <3> QED  BY <1>0, <1>1, <1>2, <2>3, <3>2, <3>3 DEF Ask
  <2>4. CASE Fails(s)
    BY <1>4, <2>4 DEF Fails
  <2>5. CASE Ends(s)
    BY <1>4, <2>5 DEF Ends, Finish
  <2> QED  BY <1>5, <2>1, <2>2, <2>3, <2>4, <2>5, RunnerSteps
<1>6. ASSUME NEW s \in Sessions, Stop(s) \/ TurnFails(s)
      PROVE  Typed
  BY <1>4, <1>6 DEF Stop, TurnFails, Fails
<1>7. ASSUME Crash
      PROVE  Typed
  BY <1>0, <1>1, <1>7 DEF Crash
<1>8. ASSUME Serve
      PROVE  Typed
  BY <1>0, <1>8 DEF Serve
<1>9. ASSUME NEW c \in Clients, WakeFor(c)
      PROVE  Typed
  <2>1. client[c].req.id \in Ids
    BY <1>9, ClientFields DEF WakeFor, Answer
  <2> QED  BY <1>0, <1>9, <2>1 DEF WakeFor
<1>10. ASSUME UNCHANGED allVars \/ \E s \in Sessions : Resume(s) \/ Wound(s) \/ Compact(s)
       PROVE  Typed
  BY <1>0, <1>10 DEF allVars, Resume, Wound, Compact
<1> HIDE DEF Typed
<1>11. Typed
  BY <1>3, <1>5, <1>6, <1>7, <1>8, <1>9, <1>10 DEF Next
<1> QED  BY <1>11 DEF Typed

LEMMA TypeInv ==
  ASSUME TypeOK, Numbered, RowsInOrder, [Next]_allVars
  PROVE  TypeOK'
BY TableTypeInv, ClientTypeInv, ExecutionTypeInv, DrainTypeInv DEF TypeOK, InboxTypeOK

-----------------------------------------------------------------------------
(* Wakes and requests *)

LEMMA ExecutionDrainsInv ==
  ASSUME TypeOK, Numbered, RowsInOrder, ExecutionDrains, [Next]_allVars
  PROVE  ExecutionDrains'
<1>0. /\ phase \in [Sessions -> {"idle", "running", "stopping"}]
      /\ drain \in [Sessions -> DrainStates]
  BY DEF TypeOK, Execution!TypeOK
<1>1. ASSUME NEW s \in Sessions, drain' = [drain EXCEPT ![s] = Off],
             \A t \in Sessions : t # s => phase'[t] = phase[t]
      PROVE  ExecutionDrains'
  BY <1>0, <1>1 DEF ExecutionDrains
<1>2. ASSUME NEW s \in Sessions, Run(s) \/ TurnFails(s)
      PROVE  ExecutionDrains'
  <2>1. CASE \E d : Reads(s, d)
    BY <1>0, <2>1, DrainFields DEF Reads, Moves, execVars, ExecutionDrains, Off, Drains
  <2>2. CASE PublishPrompted(s)
    BY <1>0, <2>2, PublishPromotes DEF PublishPrompted, execVars, ExecutionDrains
  <2>3. CASE Ask(s)
    <3>1. drain[s] # Off
      BY <2>3, DrainFields DEF Ask, At
    <3> QED  BY <1>0, <2>3, <3>1 DEF Ask, execVars, ExecutionDrains
  <2>4. CASE Fails(s) \/ Ends(s)
    BY <1>0, <1>1, <2>4 DEF Fails, Ends, Finish, Execution!End
  <2> QED  BY <1>2, <2>1, <2>2, <2>3, <2>4, RunnerSteps DEF TurnFails
<1>3. ASSUME NEW s \in Sessions, Begin(s)
      PROVE  ExecutionDrains'
  BY <1>0, <1>3 DEF Begin, Execution!Begin, ExecutionDrains
<1>4. ASSUME NEW s \in Sessions, Stop(s)
      PROVE  ExecutionDrains'
  BY <1>0, <1>1, <1>4 DEF Stop, Execution!Stop
<1>5. ASSUME NEW s \in Sessions, Wound(s)
      PROVE  ExecutionDrains'
  BY <1>0, <1>5 DEF Wound, Execution!End, ExecutionDrains
<1>6. CASE Crash
  BY <1>6 DEF Crash, ExecutionDrains
<1>7. ASSUME \/ UNCHANGED allVars \/ Serve \/ \E c \in Clients : WakeFor(c)
             \/ \E s \in Sessions : Resume(s) \/ Compact(s)
      PROVE  ExecutionDrains'
  <2>1. UNCHANGED <<phase, drain>>
    BY <1>7 DEF allVars, Serve, WakeFor, Resume, Compact, execVars, Execution!Request
  <2> QED  BY <2>1 DEF ExecutionDrains
<1> QED  BY <1>2, <1>3, <1>4, <1>5, <1>6, <1>7 DEF Next

\* What clients do leaves a recorded input as it is or deletes it.
LEMMA ServeKeeps ==
  ASSUME TypeOK, Serve
  PROVE  \A i \in Ids : input[i] # None /\ input'[i] # None => input'[i] = input[i]
<1>0. input \in [Ids -> Rows \cup {None}]
  BY DEF TypeOK, InboxTypeOK
<1>1. PICK c \in Clients :
        \/ \E r \in Requests : Submit(c, r)
        \/ Find(c) \/ Admit(c) \/ AdmitDies(c) \/ Recover(c)
        \/ \E s \in Sessions : Clear(c, s) \/ Commit(c, s) \/ \E i \in Ids : Stage(c, s, i)
        \/ Staged(c) \/ Cleared(c) \/ Committed(c) \/ CommitDies(c)
  BY DEF Serve, ClientStep
<1>2. CASE Admit(c)
  BY <1>0, <1>2 DEF Admit, Admissible
<1>3. CASE Committed(c)
  BY <1>0, <1>3 DEF Committed
<1>4. CASE ~Admit(c) /\ ~Committed(c)
  <2>1. UNCHANGED input
    BY <1>1, <1>4 DEF Submit, Find, AdmitDies, Recover, Clear, Commit, Stage, Staged, Cleared,
                      CommitDies
  <2> QED  BY <2>1
<1> QED  BY <1>2, <1>3, <1>4

\* An input that stays due stays pending; a drain that had not read it yet, or an
\* execution owed, is still there.
LEMMA StillAwaited ==
  ASSUME TypeOK, NothingStranded,
         due' \subseteq due,
         \A i \in due' : input'[i] = input[i],
         \A t \in Sessions : \A i \in due' : input[i].session = t =>
           /\ owed[t] \/ drain[t] # Off => owed'[t] \/ drain'[t] # Off
           /\ drain'[t].pc \in {"start-queue", "after-turns"} /\ ~owed'[t]
                => input[i].delivery # "steer"
  PROVE  NothingStranded' /\ SteersRead'
<1>1. due \subseteq Ids
  BY DEF TypeOK
<1>2. \A i \in due : /\ IsPending(i, input[i].session, input[i].delivery)
                     /\ input[i] # None
                     /\ owed[input[i].session] \/ drain[input[i].session] # Off
  BY DEF NothingStranded, IsPending
<1>3. \A i \in due' : input[i].session \in Sessions
  BY <1>1, <1>2, Fields
<1>4. NothingStranded'
  <2> SUFFICES ASSUME NEW i \in due'
               PROVE  /\ input'[i] # None /\ input'[i].promoted = Pending
                      /\ owed'[input'[i].session] \/ drain'[input'[i].session] # Off
    BY DEF NothingStranded, IsPending
  <2>1. i \in due /\ input'[i] = input[i]
    OBVIOUS
  <2>2. input'[i] # None /\ input'[i].promoted = Pending
    BY <1>2, <2>1 DEF IsPending
  <2>3. owed'[input[i].session] \/ drain'[input[i].session] # Off
    BY <1>2, <1>3, <2>1
  <2> QED  BY <2>1, <2>2, <2>3
<1>5. SteersRead'
  BY <1>3 DEF SteersRead
<1> QED  BY <1>4, <1>5

LEMMA WakesInv ==
  ASSUME TypeOK, Numbered, RowsInOrder, NothingStranded, SteersRead, [Next]_allVars
  PROVE  NothingStranded' /\ SteersRead'
<1>0. /\ owed \in [Sessions -> BOOLEAN] /\ drain \in [Sessions -> DrainStates]
      /\ due \subseteq Ids /\ input \in [Ids -> Rows \cup {None}]
  BY DEF TypeOK, Execution!TypeOK, InboxTypeOK
<1>1. \A i \in due : input[i] # None /\ IsPending(i, input[i].session, input[i].delivery)
  BY DEF NothingStranded, IsPending
<1>2. \A t \in Sessions : drain[t].pc \in {"start-queue", "after-turns"} /\ ~owed[t] =>
        \A i \in due : input[i].session = t => input[i].delivery # "steer"
  BY DEF SteersRead
<1>3. ASSUME due' \subseteq due, UNCHANGED drain, \A i \in due' : input'[i] = input[i],
             \A t \in Sessions : owed[t] => owed'[t]
      PROVE  NothingStranded' /\ SteersRead'
  BY <1>2, <1>3, StillAwaited
<1>4. ASSUME NEW s \in Sessions, drain' = [drain EXCEPT ![s] = Off], UNCHANGED input,
             due' \subseteq due, \A t \in Sessions : t # s => owed'[t] = owed[t],
             \A i \in due' : input[i].session = s => owed'[s]
      PROVE  NothingStranded' /\ SteersRead'
  <2>1. /\ drain'[s] = Off /\ drain'[s].pc = "off"
        /\ \A t \in Sessions : t # s => drain'[t] = drain[t]
    BY <1>0, <1>4 DEF Off
  <2> QED  BY <1>2, <1>4, <2>1, StillAwaited
<1>5. ASSUME NEW s \in Sessions, drain'[s] # Off,
             \A t \in Sessions : t # s => drain'[t] = drain[t] /\ owed'[t] = owed[t],
             due' \subseteq due, \A i \in due' : input'[i] = input[i],
             drain'[s].pc \in {"start-queue", "after-turns"} => ~HasPending(s, "steer")
      PROVE  NothingStranded' /\ SteersRead'
  <2>1. drain'[s].pc \in {"start-queue", "after-turns"} =>
          \A i \in due : input[i].session = s => input[i].delivery # "steer"
    BY <1>0, <1>1, <1>5 DEF HasPending
  <2> QED  BY <1>2, <1>5, <2>1, StillAwaited
<1>6. CASE Serve
  <2>1. due' \subseteq due /\ UNCHANGED drain /\ UNCHANGED owed
        /\ \A i \in due' : input'[i] # None
    BY <1>6 DEF Serve, execVars
  <2>2. \A i \in due' : input'[i] = input[i]
    BY <1>0, <1>1, <1>6, <2>1, ServeKeeps
  <2> QED  BY <1>3, <2>1, <2>2
<1>7. ASSUME NEW c \in Clients, WakeFor(c)
      PROVE  NothingStranded' /\ SteersRead'
  <2>1. client[c].req.session \in Sessions /\ client[c].req.id \in Ids
    BY <1>7, ClientFields DEF WakeFor, Answer
  <2>2. UNCHANGED <<drain, input>>
    BY <1>7 DEF WakeFor, Answer
  <2>3. CASE UNCHANGED <<phase, owed, due>>
    BY <1>3, <2>2, <2>3
  <2>4. CASE ~UNCHANGED <<phase, owed, due>>
    <3> DEFINE r == client[c].req
    <3>1. /\ owed' = [owed EXCEPT ![r.session] = TRUE]
          /\ due' = IF IsPending(r.id, r.session, r.delivery) THEN due \cup {r.id} ELSE due
      BY <1>7, <2>4 DEF WakeFor, Execution!Request
    <3> HIDE DEF r
    <3>2. owed'[r.session] /\ \A t \in Sessions : owed[t] => owed'[t]
      BY <1>0, <2>1, <3>1 DEF r
    <3>3. \A i \in due' : i \in due \/ (i = r.id /\ IsPending(i, r.session, r.delivery))
      BY <3>1
    <3>4. ASSUME NEW i \in due'
          PROVE  /\ IsPending(i, input[i].session, input[i].delivery)
                 /\ owed'[input[i].session] \/ drain[input[i].session] # Off
                 /\ i \in due \/ owed'[input[i].session]
      <4>1. CASE i \in due
        <5>1. input[i].session \in Sessions
          BY <1>0, <1>1, <4>1, Fields
        <5> QED  BY <1>1, <3>2, <4>1, <5>1 DEF NothingStranded
      <4>2. CASE i = r.id /\ IsPending(i, r.session, r.delivery)
        BY <3>2, <4>2 DEF IsPending
      <4> QED  BY <3>3, <3>4, <4>1, <4>2
    <3>5. NothingStranded'
      BY <2>2, <3>4 DEF NothingStranded, IsPending
    <3>6. SteersRead'
      BY <1>2, <2>2, <3>2, <3>4 DEF SteersRead
    <3> QED  BY <3>5, <3>6
  <2> QED  BY <2>3, <2>4
<1>8. ASSUME NEW s \in Sessions, Resume(s) \/ Wound(s) \/ Compact(s)
      PROVE  NothingStranded' /\ SteersRead'
  <2>1. UNCHANGED <<drain, due, input>>
    BY <1>8 DEF Resume, Wound, Compact, inboxVars
  <2>2. \A t \in Sessions : owed[t] => owed'[t]
    BY <1>0, <1>8 DEF Resume, Wound, Compact, execVars, Execution!Request, Execution!End
  <2> QED  BY <1>3, <2>1, <2>2
<1>9. ASSUME NEW s \in Sessions, Begin(s)
      PROVE  NothingStranded' /\ SteersRead'
  <2>1. /\ drain'[s].pc = "start" /\ drain'[s] # Off
        /\ \A t \in Sessions : t # s => drain'[t] = drain[t] /\ owed'[t] = owed[t]
        /\ UNCHANGED <<due, input>>
    BY <1>0, <1>9 DEF Begin, Execution!Begin, inboxVars, Off
  <2> QED  BY <1>5, <2>1
<1>10. ASSUME NEW s \in Sessions, Stop(s)
       PROVE  NothingStranded' /\ SteersRead'
  <2>1. /\ drain' = [drain EXCEPT ![s] = Off] /\ UNCHANGED input
        /\ due' \subseteq due /\ \A i \in due' : input[i].session # s
        /\ \A t \in Sessions : t # s => owed'[t] = owed[t]
    BY <1>0, <1>10 DEF Stop, Execution!Stop, inboxVars
  <2> QED  BY <1>4, <2>1
<1>11. ASSUME NEW s \in Sessions, Fails(s), UNCHANGED input
       PROVE  NothingStranded' /\ SteersRead'
  <2>1. /\ drain' = [drain EXCEPT ![s] = Off] /\ UNCHANGED owed
        /\ due' \subseteq due /\ \A i \in due' : input[i].session = s => owed[s]
    BY <1>11 DEF Fails, Execution!End
  <2> QED  BY <1>4, <1>11, <2>1
<1>12. ASSUME NEW s \in Sessions, Ends(s)
       PROVE  NothingStranded' /\ SteersRead'
  <2>1. /\ drain' = [drain EXCEPT ![s] = Off] /\ UNCHANGED <<owed, due, input>>
        /\ drain[s].pc \in {"start-queue", "after-turns"} /\ ~HasPending(s, "queue")
    BY <1>12 DEF Ends, Finish, Execution!End, inboxVars
  <2>2. ASSUME NEW i \in due, input[i].session = s
        PROVE  owed[s]
    <3>1. input[i].delivery \in {"steer", "queue"}
      BY <1>0, <1>1, Fields, InboxAssumption
    <3>2. input[i].delivery # "queue"
      BY <1>0, <1>1, <2>1, <2>2 DEF HasPending
    <3> QED  BY <1>2, <2>1, <2>2, <3>1, <3>2
  <2> QED  BY <1>4, <2>1, <2>2
<1>13. ASSUME NEW s \in Sessions, Run(s)
       PROVE  NothingStranded' /\ SteersRead'
  <2>1. ASSUME NEW d, Reads(s, d)
        PROVE  NothingStranded' /\ SteersRead'
    <3>1. /\ drain'[s] = d /\ d # Off
          /\ \A t \in Sessions : t # s => drain'[t] = drain[t] /\ owed'[t] = owed[t]
          /\ UNCHANGED <<due, input>>
          /\ d.pc \in {"start-queue", "after-turns"} => ~HasPending(s, "steer")
      BY <1>0, <2>1 DEF Reads, Moves, execVars, inboxVars, Drains, Off
    <3> QED  BY <1>5, <3>1
  <2>2. CASE PublishPrompted(s)
    <3>1. PICK i0 : i0 = Head(drain[s].rows).id
      OBVIOUS
    <3>2. /\ drain[s] \in Drains /\ drain'[s] = NextRow(s)
          /\ \A t \in Sessions : t # s => drain'[t] = drain[t] /\ owed'[t] = owed[t]
          /\ due' = due \ {i0} /\ \A i \in Ids : i # i0 => input'[i] = input[i]
      BY <1>0, <2>2, <3>1, PublishPromotes DEF PublishPrompted, execVars
    <3>3. drain'[s].pc = "publish" /\ drain'[s] # Off
      BY <3>2 DEF NextRow, Drains, Off
    <3> QED  BY <1>0, <1>5, <3>2, <3>3
  <2>3. CASE Ask(s)
    <3>1. drain[s] \in Drains
      BY <2>3, DrainFields DEF Ask, At
    <3>2. /\ drain'[s] = [drain[s] EXCEPT !.pc = "turn"]
          /\ \A t \in Sessions : t # s => drain'[t] = drain[t] /\ owed'[t] = owed[t]
          /\ UNCHANGED <<due, input>>
      BY <1>0, <2>3 DEF Ask, execVars, inboxVars
    <3>3. drain'[s].pc = "turn" /\ drain'[s] # Off
      BY <3>1, <3>2 DEF Drains, Off
    <3> QED  BY <1>5, <3>2, <3>3
  <2>4. CASE Fails(s) /\ UNCHANGED inboxVars
    BY <1>11, <2>4 DEF inboxVars
  <2>5. CASE Ends(s)
    BY <1>12, <2>5
  <2> QED  BY <1>13, <2>1, <2>2, <2>3, <2>4, <2>5, RunnerSteps
<1>14. ASSUME NEW s \in Sessions, TurnFails(s)
       PROVE  NothingStranded' /\ SteersRead'
  BY <1>11, <1>14 DEF TurnFails, inboxVars
<1>15. CASE Crash
  BY <1>15 DEF Crash, NothingStranded, SteersRead
<1>16. CASE UNCHANGED allVars
  BY <1>3, <1>16 DEF allVars
<1> QED
  BY <1>6, <1>7, <1>8, <1>9, <1>10, <1>13, <1>14, <1>15, <1>16 DEF Next

LEMMA AskedBeforeIdleInv ==
  ASSUME TypeOK, Numbered, RowsInOrder, ExecutionDrains, AskedBeforeIdle, [Next]_allVars
  PROVE  AskedBeforeIdle'
<1>0. /\ drain \in [Sessions -> DrainStates] /\ unasked \in [Sessions -> SUBSET Ids]
  BY DEF TypeOK
<1>1. \A s \in Sessions : unasked[s] # {} => drain[s].pc \in Promoting
  BY DEF AskedBeforeIdle, Promoting
<1>2. ASSUME NEW s \in Sessions,
             \A t \in Sessions : t # s => drain'[t] = drain[t] /\ unasked'[t] = unasked[t],
             unasked'[s] # {} => drain'[s].pc \in Promoting
      PROVE  AskedBeforeIdle'
  BY <1>1, <1>2 DEF AskedBeforeIdle, Promoting
<1>3. ASSUME NEW s \in Sessions, drain' = [drain EXCEPT ![s] = Off],
             \/ unasked' = [unasked EXCEPT ![s] = {}]
             \/ UNCHANGED unasked /\ unasked[s] = {}
      PROVE  AskedBeforeIdle'
  BY <1>0, <1>2, <1>3
<1>4. ASSUME NEW s \in Sessions, Run(s)
      PROVE  AskedBeforeIdle'
  <2>1. CASE \E d : Reads(s, d)
    BY <1>0, <1>1, <1>2, <2>1 DEF Reads, Moves
  <2>2. CASE PublishPrompted(s)
    <3>1. /\ drain[s] \in Drains /\ drain'[s] = NextRow(s)
          /\ \A t \in Sessions : t # s => drain'[t] = drain[t] /\ unasked'[t] = unasked[t]
      BY <1>0, <2>2, PublishPromotes DEF PublishPrompted
    <3>2. drain'[s].pc = "publish"
      BY <3>1 DEF NextRow, Drains
    <3> QED  BY <1>2, <3>1, <3>2 DEF Promoting
  <2>3. CASE Ask(s)
    BY <1>0, <1>2, <2>3 DEF Ask
  <2>4. CASE Fails(s)
    BY <1>3, <2>4 DEF Fails
  <2>5. CASE Ends(s)
    BY <1>1, <1>3, <2>5 DEF Ends, Finish, Promoting
  <2> QED  BY <1>4, <2>1, <2>2, <2>3, <2>4, <2>5, RunnerSteps
<1>5. ASSUME NEW s \in Sessions, Begin(s)
      PROVE  AskedBeforeIdle'
  <2>1. drain[s] = Off /\ UNCHANGED unasked
        /\ \A t \in Sessions : t # s => drain'[t] = drain[t]
    BY <1>0, <1>5 DEF Begin, Execution!Begin, ExecutionDrains
  <2>2. unasked[s] = {}
    BY <1>1, <2>1 DEF Off, Promoting
  <2> QED  BY <1>2, <2>1, <2>2
<1>6. ASSUME NEW s \in Sessions, Stop(s) \/ TurnFails(s)
      PROVE  AskedBeforeIdle'
  BY <1>3, <1>6 DEF Stop, TurnFails, Fails
<1>7. CASE Crash
  BY <1>7 DEF Crash, AskedBeforeIdle
<1>8. CASE Serve
  BY <1>1, <1>8 DEF Serve, AskedBeforeIdle, Promoting
<1>9. ASSUME \/ UNCHANGED allVars \/ \E c \in Clients : WakeFor(c)
             \/ \E s \in Sessions : Resume(s) \/ Wound(s) \/ Compact(s)
      PROVE  AskedBeforeIdle'
  <2>1. UNCHANGED <<drain, unasked>>
    BY <1>9 DEF allVars, WakeFor, Resume, Wound, Compact
  <2> QED  BY <2>1 DEF AskedBeforeIdle
<1> QED  BY <1>4, <1>5, <1>6, <1>7, <1>8, <1>9 DEF Next

-----------------------------------------------------------------------------
(* What clients are told *)

Stands(c, session, delivery) ==
  LET i == client[c].req.id IN
  \/ c \in undone
  \/ /\ input[i] # None
     /\ input[i].session = session
     /\ input[i].delivery = delivery

\* What AnswersRecorded and AcceptedIsRecorded say of one client.
Told(c) ==
  /\ client[c].pc = "answer" => Stands(c, client[c].row.session, client[c].row.delivery)
  /\ client[c].pc = "accepted" => Stands(c, client[c].req.session, client[c].req.delivery)

\* What stood for a client still does after a step.
StillStands(c) ==
  LET i == client[c].req.id IN
  /\ client'[c] = client[c]
  /\ c \in undone => c \in undone'
  /\ client[c].pc \in {"answer", "accepted"} /\ input[i] # None =>
       \/ c \in undone'
       \/ /\ input'[i] # None
          /\ input'[i].session = input[i].session
          /\ input'[i].delivery = input[i].delivery

LEMMA ToldMeans == Answers <=> \A c \in Clients : Told(c)
BY DEF Answers, AnswersRecorded, AcceptedIsRecorded, Told, Stands

LEMMA ToldStays ==
  ASSUME NEW c, Told(c), StillStands(c)
  PROVE  Told(c)'
BY DEF Told, Stands, StillStands

LEMMA AnswersInv ==
  ASSUME TypeOK, Numbered, RowsInOrder, Answers, [Next]_allVars
  PROVE  Answers'
<1>0. /\ input \in [Ids -> Rows \cup {None}] /\ client \in [Clients -> ClientStates]
      /\ undone \subseteq Clients
  BY DEF TypeOK, InboxTypeOK
<1>1. \A c \in Clients : Told(c)
  BY ToldMeans
<1>2. ASSUME NEW c \in Clients, Told(c)', \A d \in Clients : d # c => StillStands(d)
      PROVE  Answers'
  <2>1. \A d \in Clients : Told(d)'
    BY <1>1, <1>2, ToldStays
  <2> QED  BY <2>1 DEF Answers, AnswersRecorded, AcceptedIsRecorded, Told, Stands
<1>3. ASSUME \A d \in Clients : StillStands(d)
      PROVE  Answers'
  <2>1. \A d \in Clients : Told(d)'
    BY <1>1, <1>3, ToldStays
  <2> QED  BY <2>1 DEF Answers, AnswersRecorded, AcceptedIsRecorded, Told, Stands
<1>4. ASSUME NEW c \in Clients, NEW state, Goto(c, state), UNCHANGED input,
             \A d \in Clients : d # c => (d \in undone => d \in undone')
      PROVE  client'[c] = state /\ \A d \in Clients : d # c => StillStands(d)
  BY <1>0, <1>4 DEF Goto, StillStands
<1>5. CASE Serve
  <2>1. PICK c \in Clients :
          \/ \E r \in Requests : Submit(c, r)
          \/ Find(c) \/ Admit(c) \/ AdmitDies(c) \/ Recover(c)
          \/ \E s \in Sessions : Clear(c, s) \/ Commit(c, s) \/ \E i \in Ids : Stage(c, s, i)
          \/ Staged(c) \/ Cleared(c) \/ Committed(c) \/ CommitDies(c)
    BY <1>5 DEF Serve, ClientStep
  <2>2. ASSUME NEW state, Goto(c, state), UNCHANGED input,
               \A d \in Clients : d # c => (d \in undone => d \in undone'),
               state.pc \notin {"answer", "accepted"}
        PROVE  Answers'
    <3>1. client'[c] = state /\ \A d \in Clients : d # c => StillStands(d)
      BY <1>4, <2>2
    <3>2. Told(c)'
      BY <2>2, <3>1 DEF Told
    <3> QED  BY <1>2, <3>1, <3>2
  <2>3. ASSUME NEW r \in Requests, Submit(c, r)
        PROVE  Answers'
    BY <2>2, <2>3 DEF Submit
  <2>4. ASSUME NEW s \in Sessions, Clear(c, s) \/ Commit(c, s) \/ \E i \in Ids : Stage(c, s, i)
        PROVE  Answers'
    <3>1. CASE Clear(c, s)
      BY <2>2, <3>1 DEF Clear
    <3>2. CASE Commit(c, s)
      BY <2>2, <3>2 DEF Commit
    <3>3. CASE \E i \in Ids : Stage(c, s, i)
      BY <2>2, <3>3 DEF Stage
    <3> QED  BY <2>4, <3>1, <3>2, <3>3
  <2>5. ASSUME AdmitDies(c)
        PROVE  Answers'
    BY <2>2, <2>5 DEF AdmitDies, Become
  <2>6. ASSUME Staged(c) \/ Cleared(c) \/ CommitDies(c)
        PROVE  Answers'
    BY <2>2, <2>6 DEF Staged, Cleared, CommitDies
  <2>7. ASSUME Find(c) \/ Recover(c)
        PROVE  Answers'
    <3> DEFINE r == client[c].req
               row == input[r.id]
    <3>1. UNCHANGED <<input, undone>>
      BY <2>7 DEF Find, Recover
    <3>2. CASE row = None
      BY <2>2, <2>7, <3>1, <3>2 DEF Find, Recover, Become
    <3>3. CASE row # None
      <4>1. Goto(c, [pc |-> "answer", req |-> r, row |-> row])
        BY <2>7, <3>3 DEF Find, Recover
      <4>2. /\ client'[c] = [pc |-> "answer", req |-> r, row |-> row]
            /\ \A d \in Clients : d # c => StillStands(d)
        BY <1>4, <3>1, <4>1
      <4>3. Told(c)'
        BY <3>1, <3>3, <4>2 DEF Told, Stands
      <4> QED  BY <1>2, <4>2, <4>3
    <3> QED  BY <3>2, <3>3
  <2>8. ASSUME Admit(c)
        PROVE  Answers'
    <3>1. PICK i0 : i0 = client[c].req.id
      OBVIOUS
    <3>2. i0 \in Ids
      BY <2>8, <3>1, ClientFields DEF Admit
    <3>3. PICK row \in Rows :
            /\ Admits(i0, client[c].req.session, row)
            /\ client' = [client EXCEPT ![c] = [pc |-> "answer", req |-> client[c].req,
                                                row |-> row]]
            /\ UNCHANGED undone
      BY <2>8, <3>1, AdmitAdmits
    <3>4. /\ input[i0] = None /\ input'[i0] = row /\ row # None
          /\ \A i \in Ids : i # i0 => input'[i] = input[i]
      BY <1>0, <3>3, AbsentRow DEF Admits
    <3>5. ASSUME NEW d \in Clients, d # c
          PROVE  StillStands(d)
      <4>1. client'[d] = client[d]
        BY <1>0, <3>3, <3>5
      <4>2. client[d].pc \in {"answer", "accepted"} => client[d].req.id \in Ids
        BY ClientFields
      <4> QED  BY <3>3, <3>4, <4>1, <4>2 DEF StillStands
    <3>6. /\ client'[c].pc = "answer" /\ client'[c].req.id = i0 /\ client'[c].row = row
      BY <1>0, <3>1, <3>3
    <3>7. Told(c)'
      BY <3>4, <3>6 DEF Told, Stands
    <3> QED  BY <1>2, <3>5, <3>7
  <2>9. ASSUME Committed(c)
        PROVE  Answers'
    <3>1. /\ undone' = undone \cup {d \in Clients :
                         /\ client[d].pc \in {"answer", "accepted"}
                         /\ Dropped(client[d].req.id, client[c].session,
                                    message[client[c].id].seq)}
          /\ \A i \in Ids : input'[i] = IF Dropped(i, client[c].session,
                                                   message[client[c].id].seq)
                                        THEN None ELSE input[i]
          /\ client' = [client EXCEPT ![c] = [pc |-> "idle"]]
      BY <2>9 DEF Committed, Goto
    <3>2. ASSUME NEW d \in Clients, d # c
          PROVE  StillStands(d)
      <4>1. client'[d] = client[d]
        BY <1>0, <3>1, <3>2
      <4>2. client[d].pc \in {"answer", "accepted"} => client[d].req.id \in Ids
        BY ClientFields
      <4> QED  BY <3>1, <4>1, <4>2 DEF StillStands
    <3>3. client'[c].pc = "idle"
      BY <1>0, <3>1
    <3>4. Told(c)'
      BY <3>3 DEF Told
    <3> QED  BY <1>2, <3>2, <3>4
  <2> QED  BY <2>1, <2>3, <2>4, <2>5, <2>6, <2>7, <2>8, <2>9
<1>6. ASSUME NEW c \in Clients, WakeFor(c)
      PROVE  Answers'
  <2>1. /\ client[c].pc = "answer" /\ UNCHANGED <<input, undone>>
        /\ \/ Become(c, "accepted") /\ Equivalent(client[c].row, client[c].req)
           \/ Become(c, "conflict")
    BY <1>6 DEF WakeFor, Answer
  <2>2. CASE Become(c, "accepted") /\ Equivalent(client[c].row, client[c].req)
    <3>1. /\ client'[c] = [pc |-> "accepted", req |-> client[c].req]
          /\ \A d \in Clients : d # c => StillStands(d)
      BY <1>4, <2>1, <2>2 DEF Become
    <3>2. Stands(c, client[c].row.session, client[c].row.delivery)
      BY <1>1, <2>1 DEF Told
    <3>3. Told(c)'
      BY <2>1, <2>2, <3>1, <3>2 DEF Told, Stands, Equivalent
    <3> QED  BY <1>2, <3>1, <3>3
  <2>3. CASE Become(c, "conflict")
    <3>1. /\ client'[c] = [pc |-> "conflict", req |-> client[c].req]
          /\ \A d \in Clients : d # c => StillStands(d)
      BY <1>4, <2>1, <2>3 DEF Become
    <3>2. Told(c)'
      BY <3>1 DEF Told
    <3> QED  BY <1>2, <3>1, <3>2
  <2> QED  BY <2>1, <2>2, <2>3
<1>7. ASSUME NEW s \in Sessions, PublishPrompted(s)
      PROVE  Answers'
  <2>1. PICK i0 : i0 = Head(drain[s].rows).id
    OBVIOUS
  <2>2. PICK row \in Rows : Promotes(i0, s, row)
    BY <1>7, <2>1, PublishPromotes
  <2>3. /\ input'[i0] = row /\ row # None
        /\ input[i0] # None => row.session = input[i0].session /\ row.delivery = input[i0].delivery
        /\ \A i \in Ids : i # i0 => input'[i] = input[i]
    BY <1>0, <2>2, AbsentRow DEF Promotes
  <2>4. ASSUME NEW d \in Clients
        PROVE  StillStands(d)
    <3>1. client'[d] = client[d] /\ UNCHANGED undone
      BY <1>7 DEF PublishPrompted
    <3>2. client[d].pc \in {"answer", "accepted"} => client[d].req.id \in Ids
      BY ClientFields
    <3> QED  BY <2>3, <3>1, <3>2 DEF StillStands
  <2> QED  BY <1>3, <2>4
<1>8. CASE UNCHANGED <<input, client, undone>>
  BY <1>3, <1>8 DEF StillStands
<1>9. ASSUME NEW s \in Sessions, Run(s)
      PROVE  PublishPrompted(s) \/ UNCHANGED <<input, client, undone>>
  BY <1>9, RunnerSteps DEF Reads, Moves, Ask, Ends, Finish, inboxVars
<1>10. ASSUME \/ UNCHANGED allVars
              \/ \E s \in Sessions : \/ Resume(s) \/ Begin(s) \/ Stop(s) \/ Wound(s)
                                     \/ Compact(s) \/ TurnFails(s)
       PROVE  UNCHANGED <<input, client, undone>>
  BY <1>10 DEF allVars, Resume, Begin, Stop, Wound, Compact, TurnFails, inboxVars
<1>11. CASE Crash
  BY <1>11 DEF Crash, Answers, AnswersRecorded, AcceptedIsRecorded
<1> QED  BY <1>5, <1>6, <1>7, <1>8, <1>9, <1>10, <1>11 DEF Next

-----------------------------------------------------------------------------
(* The theorems *)

LEMMA InitHolds == Init => IInv
<1> SUFFICES ASSUME Init PROVE IInv
  OBVIOUS
<1>1. /\ latest = [s \in Sessions |-> 1] /\ input = [i \in Ids |-> None]
      /\ revert \in [Sessions -> History \cup {None}]
      /\ client = [c \in Clients |-> [pc |-> "idle"]] /\ undone = {}
  BY DEF Init, InboxInit
<1>2. /\ phase = [s \in Sessions |-> "idle"] /\ owed = [s \in Sessions |-> FALSE]
      /\ forced = [s \in Sessions |-> FALSE] /\ drain = [s \in Sessions |-> Off]
      /\ due = {} /\ unasked = [s \in Sessions |-> {}] /\ voided = {}
  BY DEF Init, Execution!Init
<1>3. PICK home \in [History -> Sessions] :
        message = [i \in Ids |-> IF i \in History
                                 THEN [session |-> home[i], seq |-> 1, type |-> "other"]
                                 ELSE None]
  BY DEF Init, InboxInit
<1>4. 1 \in Seqs /\ History \subseteq Ids
  BY InboxAssumption DEF Seqs
<1>5. message \in [Ids -> Messages \cup {None}]
  BY <1>3, <1>4 DEF Messages
<1>6. TypeOK
  <2>1. InboxTypeOK
    BY <1>1, <1>4, <1>5, ClientStatesHave DEF InboxTypeOK
  <2> QED  BY <1>2, <2>1 DEF TypeOK, Execution!TypeOK, DrainStates
<1>7. \A i \in Ids : message[i] # None => message[i].type # "user"
  BY <1>3
<1>8. Ledger
  BY <1>1, <1>6, <1>7 DEF Ledger, TablesAgree, Numbered
<1>9. Orders
  BY <1>1, <1>2 DEF Orders, PromotedInOrder, RowsInOrder
<1>10. Wakes
  BY <1>2 DEF Wakes, ExecutionDrains, NothingStranded, SteersRead, AskedBeforeIdle, Off
<1>11. Answers
  BY <1>1 DEF Answers, AnswersRecorded, AcceptedIsRecorded
<1> QED  BY <1>8, <1>9, <1>10, <1>11 DEF IInv

LEMMA NextKeeps == IInv /\ [Next]_allVars => IInv'
<1> SUFFICES ASSUME IInv, [Next]_allVars PROVE IInv'
  OBVIOUS
<1>1. /\ TablesAgree /\ Numbered /\ PromotedInOrder /\ RowsInOrder
      /\ ExecutionDrains /\ NothingStranded /\ SteersRead /\ AskedBeforeIdle /\ Answers
  BY DEF IInv, Ledger, Orders, Wakes
<1>2. TypeOK
  BY <1>1 DEF TablesAgree
<1>3. TypeOK' /\ HistoryAgrees'
  BY <1>1, <1>2, TypeInv, HistoryAgreesInv
<1>4. TablesAgree'
  BY <1>3 DEF TablesAgree, HistoryAgrees
<1>5. Ledger' /\ Orders'
  BY <1>1, <1>4, NumberedInv, PromotedInOrderInv, RowsInOrderInv DEF Ledger, Orders
<1>6. Wakes'
  BY <1>1, <1>2, ExecutionDrainsInv, WakesInv, AskedBeforeIdleInv DEF Wakes
<1>7. Answers'
  BY <1>1, <1>2, AnswersInv
<1> QED  BY <1>5, <1>6, <1>7 DEF IInv

\* The invariant that the theorems below are read from holds in every state.
THEOREM DrainInductive == Spec => []IInv
BY InitHolds, NextKeeps, PTL DEF Spec

\* However clients retry, runners promote and reverts delete, the inbox and the
\* history tell of the same prompts: projectAdmitted, projectPrompted and the
\* projector of Committed keep both tables together.
THEOREM InboxMatchesHistory == Spec => []TablesAgree
<1>1. IInv => TablesAgree
  BY DEF IInv, Ledger
<1> QED  BY <1>1, DrainInductive, PTL

\* promoteSteers and promoteNextQueued give the history the order in which
\* prompts were admitted, although clients publish between any two of the
\* runner's steps.
THEOREM PromotionsKeepOrder == Spec => []PromotedInOrder
<1>1. IInv => PromotedInOrder
  BY DEF IInv, Orders
<1> QED  BY <1>1, DrainInductive, PTL

\* No interleaving of a wake with the loop of run() lets the drain end on an
\* input the wake was for, unless another execution is owed.
THEOREM NoLostWake == Spec => []NothingStranded
<1>1. IInv => NothingStranded
  BY DEF IInv, Wakes
<1> QED  BY <1>1, DrainInductive, PTL

\* A drain that promoted an input puts it to the provider before it ends
\* normally.
THEOREM PromotedIsAsked == Spec => []AskedBeforeIdle
<1>1. IInv => AskedBeforeIdle
  BY DEF IInv, Wakes
<1> QED  BY <1>1, DrainInductive, PTL

\* The answer of prompt() is true: what it accepted is recorded with the session
\* and the delivery it was asked for, until a revert deletes it.
THEOREM AnswersAreTrue == Spec => []AcceptedIsRecorded
<1>1. IInv => AcceptedIsRecorded
  BY DEF IInv, Answers
<1> QED  BY <1>1, DrainInductive, PTL

=============================================================================
