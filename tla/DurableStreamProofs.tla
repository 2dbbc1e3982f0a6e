------------------------- MODULE DurableStreamProofs -------------------------
(***************************************************************************)
(* Theorems about the log of EventLog, for any aggregates, ids, owners,    *)
(* writers and any bound on sequence numbers, and about the streams of     *)
(* DurableStream, for any subscribers and over any such log.               *)
(***************************************************************************)
EXTENDS DurableStream, FiniteSetTheorems, SequenceTheorems, TLAPS

-----------------------------------------------------------------------------
(* The log *)

\* The rest of a run stays within the sequence numbers that were checked when
\* the run was accepted.
RunsFit ==
  \A w \in Writers :
    writer[w] # Idle => writer[w].count >= 1 /\ writer[w].seq + writer[w].count <= MaxSeq + 1

\* The three facts about the tables hold together or not at all: a commit
\* keeps the rows contiguous because latest is the last row, and keeps the
\* projections in order because their number is the next sequence number.
IInv == TypeOK /\ RunsFit /\ LogContiguous /\ IdsUnique /\ ProjectedInOrder

LEMMA InitInv == ASSUME Init PROVE IInv
<1> USE LogAssumption DEF Init, Seqs
<1>1. TypeOK BY DEF TypeOK, AnyOwner, WriterStates
<1>2. RunsFit BY DEF RunsFit
<1>3. LogContiguous BY DEF LogContiguous, Stored
<1>4. IdsUnique BY DEF IdsUnique
<1>5. ProjectedInOrder BY DEF ProjectedInOrder
<1> QED BY <1>1, <1>2, <1>3, <1>4, <1>5 DEF IInv

\* What a commit does to the tables.
LEMMA CommitInv ==
  ASSUME IInv, NEW id \in Ids, NEW a \in Aggregates, NEW o \in AnyOwner,
         latest[a] + 1 \in Seqs, CommitRows(NewEvent(id, a, latest[a] + 1), o)
  PROVE  /\ event' \subseteq Events
         /\ latest' \in [Aggregates -> -1 .. MaxSeq]
         /\ owner' \in [Aggregates -> AnyOwner]
         /\ applied' \in [Aggregates -> Seq(Ids)]
         /\ LogContiguous' /\ IdsUnique' /\ ProjectedInOrder'
<1> USE LogAssumption DEF IInv, TypeOK, CommitRows, NewEvent, Seqs, Events
<1>1. event' \subseteq Events /\ latest' \in [Aggregates -> -1 .. MaxSeq]
  OBVIOUS
<1>2. owner' \in [Aggregates -> AnyOwner]
  OBVIOUS
<1>3. applied' \in [Aggregates -> Seq(Ids)]
  OBVIOUS
<1>4. LogContiguous'
  <2> DEFINE e == [id |-> id, agg |-> a, seq |-> latest[a] + 1]
  <2>1. /\ e.agg = a /\ e.seq = latest[a] + 1 /\ event' = event \cup {e}
        /\ latest' = [latest EXCEPT ![a] = latest[a] + 1]
    OBVIOUS
  <2> HIDE DEF e
  <2>2. ASSUME NEW b \in Aggregates, NEW n \in Seqs
        PROVE  n <= latest'[b] <=> \E d \in event' : d.agg = b /\ d.seq = n
    <3>1. n <= latest[b] <=> \E d \in event : d.agg = b /\ d.seq = n
      BY DEF LogContiguous, Stored
    <3>2. n <= latest'[b] <=> n <= latest[b] \/ (b = a /\ n = latest[a] + 1)
      BY <2>1
    <3>3. (\E d \in event' : d.agg = b /\ d.seq = n)
          <=> (\E d \in event : d.agg = b /\ d.seq = n) \/ (b = a /\ n = latest[a] + 1)
      BY <2>1
    <3> QED BY <3>1, <3>2, <3>3
  <2>3. \A d \in event : d.agg = a => d.seq # latest[a] + 1
    BY DEF LogContiguous, Stored
  <2>4. ASSUME NEW b \in Aggregates, NEW c \in event', NEW d \in event',
               c.agg = b, d.agg = b, c.seq = d.seq
        PROVE  c = d
    BY <2>1, <2>3, <2>4 DEF LogContiguous
  <2> QED BY <2>2, <2>4 DEF LogContiguous, Stored
<1>5. IdsUnique'
  BY DEF IdsUnique, Exists
<1>6. ProjectedInOrder'
  <2> SUFFICES ASSUME NEW b \in Aggregates
               PROVE  /\ Len(applied'[b]) = latest'[b] + 1
                      /\ \A e \in event' : e.agg = b => applied'[b][e.seq + 1] = e.id
    BY DEF ProjectedInOrder
  <2>1. CASE b # a
    BY <2>1 DEF ProjectedInOrder
  <2>2. CASE b = a
    <3>1. applied[a] \in Seq(Ids) /\ Len(applied[a]) = latest[a] + 1
      BY DEF ProjectedInOrder
    <3>2. applied'[a] = Append(applied[a], id)
      OBVIOUS
    <3>3. ASSUME NEW e \in event, e.agg = a
          PROVE  e.seq + 1 \in 1 .. Len(applied[a]) /\ applied[a][e.seq + 1] = e.id
      <4>1. e.seq \in 0 .. MaxSeq /\ e \in Stored(a, e.seq)
        BY <3>3 DEF Stored
      <4>2. e.seq <= latest[a]
        BY <4>1 DEF LogContiguous
      <4>3. applied[a][e.seq + 1] = e.id
        BY <3>3 DEF ProjectedInOrder
      <4> QED BY <3>1, <4>1, <4>2, <4>3
    <3>4. latest'[a] = latest[a] + 1 /\ Len(applied'[a]) = Len(applied[a]) + 1
      BY <3>1, <3>2
    <3>5. applied'[a][latest[a] + 2] = id
      BY <3>1, <3>2
    <3>6. \A i \in 1 .. Len(applied[a]) : applied'[a][i] = applied[a][i]
      BY <3>1, <3>2
    <3>7. ASSUME NEW e \in event', e.agg = a PROVE applied'[a][e.seq + 1] = e.id
      <4>1. CASE e \in event
        BY <3>3, <3>6, <3>7, <4>1
      <4>2. CASE e = [id |-> id, agg |-> a, seq |-> latest[a] + 1]
        <5>1. e.seq + 1 = latest[a] + 2 /\ e.id = id
          BY <4>2
        <5> QED BY <3>5, <5>1
      <4> QED BY <4>1, <4>2
    <3> QED BY <2>2, <3>1, <3>4, <3>7
  <2> QED BY <2>1, <2>2
<1> QED BY <1>1, <1>2, <1>3, <1>4, <1>5, <1>6

LEMMA PublishInv ==
  ASSUME IInv, NEW w \in Writers, NEW a \in Aggregates, Publish(w, a)
  PROVE  IInv'
<1> USE LogAssumption DEF IInv, Publish, Seqs
<1>1. PICK id \in Ids : CommitRows(NewEvent(id, a, latest[a] + 1), NoOwner)
  OBVIOUS
<1>2. latest[a] + 1 \in Seqs /\ NoOwner \in AnyOwner
  BY DEF TypeOK, AnyOwner
<1>3. writer' \in [Writers -> WriterStates] /\ RunsFit'
  BY <1>2 DEF TypeOK, WriterStates, RunsFit, Idle
<1> QED BY <1>1, <1>2, <1>3, CommitInv DEF TypeOK

\* Steps that leave the tables alone keep every fact about them.
LEMMA TablesSame ==
  ASSUME IInv, UNCHANGED <<event, latest, applied>>,
         owner' \in [Aggregates -> AnyOwner],
         writer' \in [Writers -> WriterStates], RunsFit'
  PROVE  IInv'
BY DEF IInv, TypeOK, LogContiguous, Stored, IdsUnique, ProjectedInOrder

LEMMA AfterFits ==
  ASSUME IInv, NEW w \in Writers, writer[w].pc # "idle"
  PROVE  /\ After(writer[w]) \in WriterStates
         /\ After(writer[w]) # Idle =>
              /\ After(writer[w]).count >= 1
              /\ After(writer[w]).seq + After(writer[w]).count <= MaxSeq + 1
<1> DEFINE job == writer[w]
<1>1. job \in [pc: {"replaying", "waking"}, agg: Aggregates, seq: Seqs,
              count: Nat, owner: AnyOwner, strict: BOOLEAN]
  BY DEF IInv, TypeOK, WriterStates, Idle
<1>2. job.count >= 1 /\ job.seq + job.count <= MaxSeq + 1
  BY DEF IInv, RunsFit, Idle
<1> HIDE DEF job
<1>3. CASE job.count = 1
  BY <1>3 DEF After, WriterStates, job
<1>4. CASE job.count # 1
  <2>1. After(job) = [job EXCEPT !.seq = @ + 1, !.count = @ - 1]
    BY <1>4 DEF After
  <2>2. job.seq + 1 \in Seqs /\ job.count - 1 \in Nat /\ job.count - 1 >= 1
    BY <1>1, <1>2, <1>4, LogAssumption DEF Seqs
  <2>3. /\ After(job) \in [pc: {"replaying", "waking"}, agg: Aggregates, seq: Seqs,
                          count: Nat, owner: AnyOwner, strict: BOOLEAN]
        /\ After(job).seq = job.seq + 1 /\ After(job).count = job.count - 1
    BY <1>1, <2>1, <2>2
  <2>4. After(job).seq + After(job).count <= MaxSeq + 1
    BY <1>1, <1>2, <2>3, LogAssumption DEF Seqs
  <2> QED BY <2>2, <2>3, <2>4 DEF WriterStates, job
<1> QED BY <1>3, <1>4

LEMMA ReplayAllInv ==
  ASSUME IInv, NEW w \in Writers, NEW a \in Aggregates, ReplayAll(w, a)
  PROVE  IInv'
<1> USE LogAssumption DEF IInv, ReplayAll
<1>1. writer' \in [Writers -> WriterStates] /\ RunsFit'
  BY DEF TypeOK, WriterStates, RunsFit, Idle, Seqs
<1> QED BY <1>1, TablesSame DEF TypeOK

LEMMA ReplayStoredInv ==
  ASSUME IInv, NEW w \in Writers, ReplayStored(w) PROVE IInv'
<1> USE DEF IInv, ReplayStored
<1>1. writer[w] \in WriterStates /\ writer[w].agg \in Aggregates /\ writer[w].owner \in AnyOwner
  BY DEF TypeOK, WriterStates, Idle
<1>2. writer' \in [Writers -> WriterStates] /\ RunsFit'
  BY AfterFits DEF TypeOK, RunsFit
<1>3. owner' \in [Aggregates -> AnyOwner]
  BY <1>1 DEF TypeOK
<1> QED BY <1>2, <1>3, TablesSame

LEMMA ReplayForeignInv ==
  ASSUME IInv, NEW w \in Writers, ReplayForeign(w) PROVE IInv'
<1> USE DEF IInv, ReplayForeign
<1>1. writer' \in [Writers -> WriterStates] /\ RunsFit'
  BY AfterFits DEF TypeOK, RunsFit
<1> QED BY <1>1, TablesSame DEF TypeOK

LEMMA ReplayDiesInv ==
  ASSUME IInv, NEW w \in Writers, ReplayDies(w) PROVE IInv'
<1> USE DEF IInv, ReplayDies
<1>1. writer' \in [Writers -> WriterStates] /\ RunsFit'
  BY DEF TypeOK, WriterStates, RunsFit
<1> QED BY <1>1, TablesSame DEF TypeOK

LEMMA ReplayNewInv ==
  ASSUME IInv, NEW w \in Writers, ReplayNew(w) PROVE IInv'
<1> USE LogAssumption DEF IInv, ReplayNew
<1>1. writer[w] \in [pc: {"replaying", "waking"}, agg: Aggregates, seq: Seqs,
                     count: Nat, owner: AnyOwner, strict: BOOLEAN]
  BY DEF TypeOK, WriterStates, Idle
<1> DEFINE job == writer[w]
<1>2. PICK id \in Ids : CommitRows(NewEvent(id, job.agg, latest[job.agg] + 1), job.owner)
  BY <1>1
<1>3. writer' \in [Writers -> WriterStates]
  BY <1>1 DEF TypeOK, WriterStates
<1>4. RunsFit'
  BY <1>1 DEF TypeOK, RunsFit, Idle
<1>5. latest[job.agg] + 1 \in Seqs
  BY <1>1
<1> QED BY <1>1, <1>2, <1>3, <1>4, <1>5, CommitInv DEF TypeOK

LEMMA AnnounceInv ==
  ASSUME IInv, NEW w \in Writers, Announce(w) PROVE IInv'
<1> USE LogAssumption DEF IInv, Announce
<1> DEFINE next == IF writer[w].count = 1 THEN Idle
                   ELSE [After(writer[w]) EXCEPT !.pc = "replaying"]
<1>0. next \in WriterStates /\ (next # Idle =>
        next.count >= 1 /\ next.seq + next.count <= MaxSeq + 1)
  <2>1. CASE writer[w].count = 1
    BY <2>1 DEF WriterStates
  <2>2. CASE writer[w].count # 1
    <3>1. After(writer[w]) # Idle
      BY <2>2 DEF After, Idle, TypeOK, WriterStates
    <3> QED BY <2>2, <3>1, AfterFits DEF WriterStates, Idle
  <2> QED BY <2>1, <2>2
<1>1. writer' \in [Writers -> WriterStates] /\ RunsFit'
  <2> HIDE DEF next
  <2>1. writer' = [writer EXCEPT ![w] = next]
    BY DEF next
  <2> QED BY <1>0, <2>1 DEF TypeOK, RunsFit
<1> QED BY <1>1, TablesSame DEF TypeOK

LEMMA ClaimInv ==
  ASSUME IInv, NEW a \in Aggregates, NEW o \in Owners, Claim(a, o) PROVE IInv'
BY TablesSame DEF IInv, TypeOK, RunsFit, Claim, AnyOwner

LEMMA CrashInv == ASSUME IInv, Crash PROVE IInv'
BY TablesSame DEF IInv, TypeOK, RunsFit, Crash, WriterStates

LEMMA RemoveInv ==
  ASSUME IInv, NEW a \in Aggregates, Remove(a) PROVE IInv'
<1> USE LogAssumption DEF IInv, TypeOK, Remove, Seqs, Events
<1>1. TypeOK'
  BY DEF AnyOwner
<1>2. RunsFit'
  BY DEF RunsFit
<1>3. LogContiguous'
  BY DEF LogContiguous, Stored
<1>4. IdsUnique'
  BY DEF IdsUnique
<1>5. ProjectedInOrder'
  BY DEF ProjectedInOrder
<1> QED BY <1>1, <1>2, <1>3, <1>4, <1>5

LEMMA NextInv == ASSUME IInv, [Next]_vars PROVE IInv'
<1>1. CASE Next
  BY <1>1, PublishInv, ReplayAllInv, ReplayStoredInv, ReplayForeignInv, ReplayNewInv,
     ReplayDiesInv, AnnounceInv, ClaimInv, RemoveInv, CrashInv DEF Next, Commit
<1>2. CASE UNCHANGED vars
  BY <1>2, TablesSame DEF IInv, TypeOK, RunsFit, vars
<1> QED BY <1>1, <1>2

THEOREM Inductive == Spec => []IInv
BY InitInv, NextInv, PTL DEF Spec

\* Whatever is published, replayed, claimed or removed and whenever the process
\* stops, the tables keep their types ...
THEOREM TypeCorrect == Spec => []TypeOK
<1>1. IInv => TypeOK BY DEF IInv
<1> QED BY <1>1, Inductive, PTL

\* ... every aggregate's rows are exactly the sequence numbers 0 .. latest ...
THEOREM Contiguous == Spec => []LogContiguous
<1>1. IInv => LogContiguous BY DEF IInv
<1> QED BY <1>1, Inductive, PTL

\* ... no event is stored twice ...
THEOREM UniqueIds == Spec => []IdsUnique
<1>1. IInv => IdsUnique BY DEF IInv
<1> QED BY <1>1, Inductive, PTL

\* ... and every stored event was projected exactly once, in order.
THEOREM ProjectionsFollow == Spec => []ProjectedInOrder
<1>1. IInv => ProjectedInOrder BY DEF IInv
<1> QED BY <1>1, Inductive, PTL

-----------------------------------------------------------------------------
Fence(w) ==
  LET job == writer[w] IN
  job.pc = "replaying" /\ owner[job.agg] # NoOwner /\ writer'[w].pc = "waking"
  => owner[job.agg] = job.owner /\ owner'[job.agg] = job.owner

\* A replaying writer comes to announce an event only by ReplayNew of its own.
LEMMA FenceHolds == ASSUME TypeOK, [Next]_vars, NEW w \in Writers PROVE Fence(w)
<1> SUFFICES ASSUME writer[w].pc = "replaying", writer'[w].pc = "waking",
                    owner[writer[w].agg] # NoOwner
             PROVE  /\ owner[writer[w].agg] = writer[w].owner
                    /\ owner'[writer[w].agg] = writer[w].owner
  BY DEF Fence
<1> USE DEF TypeOK
<1>1. writer[w] \in WriterStates /\ writer[w] # Idle /\ writer'[w] # writer[w]
  BY DEF Idle
<1>2. ASSUME NEW v \in Writers, NEW a \in Aggregates, Publish(v, a) \/ ReplayAll(v, a)
      PROVE  FALSE
  BY <1>1, <1>2 DEF Publish, ReplayAll
<1>3. ASSUME NEW v \in Writers, ReplayStored(v) \/ ReplayForeign(v)
      PROVE  FALSE
  <2>1. writer' = [writer EXCEPT ![v] = After(writer[v])] /\ writer[v].pc = "replaying"
    BY <1>3 DEF ReplayStored, ReplayForeign
  <2>2. v = w
    BY <1>1, <2>1
  <2>3. After(writer[w]).pc # "waking"
    BY <1>1 DEF After, Idle, WriterStates
  <2> QED BY <2>1, <2>2, <2>3
<1>4. ASSUME NEW v \in Writers, ReplayDies(v) \/ Announce(v)
      PROVE  FALSE
  BY <1>1, <1>4 DEF ReplayDies, Announce, Idle
<1>5. CASE \E v \in Writers : ReplayNew(v)
  <2>1. PICK v \in Writers : ReplayNew(v)
    BY <1>5
  <2>2. v = w
    BY <1>1, <2>1 DEF ReplayNew
  <2>3. owner[writer[w].agg] = writer[w].owner
    BY <2>1, <2>2 DEF ReplayNew, Foreign
  <2>4. writer[w].agg \in Aggregates
    BY <1>1 DEF WriterStates
  <2>5. owner'[writer[w].agg] = owner[writer[w].agg]
    BY <2>1, <2>2, <2>4 DEF ReplayNew, CommitRows, NewEvent
  <2> QED BY <2>3, <2>5
<1>6. CASE \/ \E a \in Aggregates, o \in Owners : Claim(a, o)
           \/ \E a \in Aggregates : Remove(a)
           \/ UNCHANGED vars
  BY <1>1, <1>6 DEF Claim, Remove, vars
<1>7. CASE Crash
  BY <1>7 DEF Crash, Idle
<1> QED BY <1>2, <1>3, <1>4, <1>5, <1>6, <1>7 DEF Next, Commit

\* Once an aggregate is owned, a replay extends it only for its owner, also in
\* the middle of a run that was accepted before the claim.
THEOREM ClaimFences == Spec => FencedByOwner
<1>1. TypeOK /\ [Next]_vars => \A w \in Writers : Fence(w)
  BY FenceHolds
<1>2. (\A w \in Writers : Fence(w)) <=>
        \A w \in Writers :
          LET job == writer[w] IN
          /\ job.pc = "replaying" /\ owner[job.agg] # NoOwner
          /\ writer'[w].pc = "waking"
          => owner[job.agg] = job.owner /\ owner'[job.agg] = job.owner
  BY DEF Fence
<1> QED BY <1>1, <1>2, TypeCorrect, PTL DEF Spec, FencedByOwner

-----------------------------------------------------------------------------
(* The streams *)

\* A stream that is about to read has emitted everything it read before.
ReadsAfterEmitting == \A s \in Subscribers : sub[s].pc = "reading" => sub[s].batch = <<>>

\* No stream is ahead of its aggregate, unless the aggregate was removed.
CursorBehind ==
  \A s \in Subscribers :
    sub[s] # Off /\ ~sub[s].cut => sub[s].cursor <= latest[sub[s].agg]

SubType == sub \in [Subscribers -> SubStates]

StreamInv == IInv /\ SubType /\ ReadsAfterEmitting /\ CursorBehind /\ GapFree /\ NoStrandedEvent

-----------------------------------------------------------------------------
(* The rows a read returns *)

Rows(a, n) == {e \in event : e.agg = a /\ e.seq > n}

LEMMA IsInjection ==
  ASSUME NEW S, NEW T, NEW f \in [S -> T], \A x, y \in S : f[x] = f[y] => x = y
  PROVE  f \in Injection(S, T)
BY DEF Injection, IsInjective

\* How many numbers an interval holds.
LEMMA IntervalCardinality ==
  ASSUME NEW m \in Int, NEW n \in Int, m <= n + 1
  PROVE  IsFiniteSet(m .. n) /\ Cardinality(m .. n) = n - m + 1
BY FS_Interval

LEMMA IntervalSize ==
  \A m, n \in Int : m <= n + 1 => IsFiniteSet(m .. n) /\ Cardinality(m .. n) = n - m + 1
BY IntervalCardinality

LEMMA FirstNumbers == \A m \in Nat : IsFiniteSet(1 .. m) /\ Cardinality(1 .. m) = m
BY IntervalCardinality

\* The rows of a after n are one for each sequence number from n + 1 to latest.
LEMMA RowsNumbered ==
  ASSUME IInv, NEW a \in Aggregates, NEW n \in -1 .. latest[a]
  PROVE  /\ IsFiniteSet(Rows(a, n)) /\ Cardinality(Rows(a, n)) = latest[a] - n
         /\ \E r \in [1 .. latest[a] - n -> Rows(a, n)] :
              \A i \in 1 .. latest[a] - n : r[i].seq = n + i
<1> USE LogAssumption DEF IInv, TypeOK, Seqs, Events, Rows
<1> DEFINE k == latest[a] - n
           At(i) == CHOOSE e \in event : e.agg = a /\ e.seq = n + i
           r == [i \in 1 .. k |-> At(i)]
<1>1. k \in Nat
  OBVIOUS
<1>2. ASSUME NEW i \in 1 .. k
      PROVE  At(i) \in event /\ At(i).agg = a /\ At(i).seq = n + i
  <2>1. n + i \in Seqs /\ n + i <= latest[a]
    OBVIOUS
  <2>2. \E e \in event : e.agg = a /\ e.seq = n + i
    BY <2>1 DEF LogContiguous, Stored
  <2> QED BY <2>2
<1>3. \A i \in 1 .. k : r[i] \in Rows(a, n) /\ r[i].seq = n + i
  BY <1>2
<1>4. r \in [1 .. k -> Rows(a, n)]
  BY <1>3
<1>5. \A e \in Rows(a, n) : e.seq - n \in 1 .. k /\ r[e.seq - n] = e
  <2> TAKE e \in Rows(a, n)
  <2>1. e.seq \in Seqs /\ e \in Stored(a, e.seq)
    BY DEF Stored
  <2>2. e.seq <= latest[a]
    BY <2>1 DEF LogContiguous
  <2>3. e.seq - n \in 1 .. k
    BY <2>1, <2>2
  <2>4. r[e.seq - n] \in event /\ r[e.seq - n].agg = a /\ r[e.seq - n].seq = e.seq
    BY <1>2, <2>1, <2>3
  <2>5. \A c, d \in event : c.agg = a /\ d.agg = a /\ c.seq = d.seq => c = d
    BY DEF LogContiguous
  <2> QED BY <2>3, <2>4, <2>5 DEF Rows
<1>6. ExistsBijection(1 .. k, Rows(a, n))
  <2> HIDE DEF At, r, k
  <2>1. r \in Injection(1 .. k, Rows(a, n))
    <3>1. \A i, j \in 1 .. k : r[i] = r[j] => i = j
      BY <1>1, <1>3
    <3> QED BY <1>4, <3>1, IsInjection, Zenon
  <2>2. r \in Surjection(1 .. k, Rows(a, n))
    BY <1>4, <1>5 DEF Surjection
  <2> QED BY <2>1, <2>2 DEF ExistsBijection, Bijection
<1>7. IsFiniteSet(1 .. k) /\ Cardinality(1 .. k) = k
  <2> HIDE DEF k
  <2> QED BY <1>1, FirstNumbers, Zenon
<1>8. IsFiniteSet(Rows(a, n)) /\ Cardinality(Rows(a, n)) = k
  BY <1>6, <1>7, FS_Bijection
<1> QED BY <1>3, <1>4, <1>8

\* An increasing enumeration of numbers from n + 1 to n + k leaves none out:
\* there is no room below an element for those before it, or above it for those
\* after it, unless each stands at its own place.
LEMMA NoRoom ==
  ASSUME NEW n \in Int, NEW k \in Nat, NEW q \in [1 .. k -> n + 1 .. n + k],
         \A i, j \in 1 .. k : i < j => q[i] < q[j]
  PROVE  \A i \in 1 .. k : q[i] = n + i
<1> TAKE i \in 1 .. k
<1>1. /\ \A j \in 1 .. k : q[j] \in n + 1 .. n + k /\ q[j] \in Int
      /\ \A j, l \in 1 .. k : q[j] = q[l] => j = l
      /\ \A j \in 1 .. k : (j <= i => q[j] <= q[i]) /\ (j >= i => q[j] >= q[i])
  OBVIOUS
<1>2. i <= q[i] - n
  <2> DEFINE low == [j \in 1 .. i |-> q[j]]
  <2>1. low \in Injection(1 .. i, n + 1 .. q[i])
    <3>0. \A j \in 1 .. i : q[j] \in n + 1 .. q[i]
      BY <1>1
    <3>1. low \in [1 .. i -> n + 1 .. q[i]]
      BY <3>0
    <3>2. \A j, l \in 1 .. i : low[j] = low[l] => j = l
      BY <1>1
    <3> HIDE DEF low
    <3> QED BY <3>1, <3>2, IsInjection, Zenon
  <2>2. IsFiniteSet(n + 1 .. q[i]) /\ Cardinality(n + 1 .. q[i]) = q[i] - n
    BY <1>1, IntervalCardinality
  <2>3. Cardinality(1 .. i) = i
    BY IntervalCardinality
  <2> QED BY <2>1, <2>2, <2>3, FS_Injection
<1>3. k - i + 1 <= n + k - q[i] + 1
  <2> DEFINE high == [j \in i .. k |-> q[j]]
  <2>1. high \in Injection(i .. k, q[i] .. n + k)
    <3>0. \A j \in i .. k : q[j] \in q[i] .. n + k
      BY <1>1
    <3>1. high \in [i .. k -> q[i] .. n + k]
      BY <3>0
    <3>2. \A j, l \in i .. k : high[j] = high[l] => j = l
      BY <1>1
    <3> HIDE DEF high
    <3> QED BY <3>1, <3>2, IsInjection, Zenon
  <2>2. IsFiniteSet(q[i] .. n + k) /\ Cardinality(q[i] .. n + k) = n + k - q[i] + 1
    <3> DEFINE first == q[i]
               final == n + k
    <3>1. first \in Int /\ final \in Int /\ first <= final + 1
      BY <1>1
    <3>2. IsFiniteSet(first .. final) /\ Cardinality(first .. final) = final - first + 1
      <4> HIDE DEF first, final
      <4> QED BY <3>1, IntervalSize, Zenon
    <3> QED BY <3>2
  <2>3. Cardinality(i .. k) = k - i + 1
    BY IntervalCardinality
  <2> QED BY <2>1, <2>2, <2>3, FS_Injection
<1>4. \A x \in Int : i <= x - n /\ k - i + 1 <= n + k - x + 1 => x = n + i
  OBVIOUS
<1> QED BY <1>1, <1>2, <1>3, <1>4, Zenon

\* So a read returns the events after the cursor, each at its place.
LEMMA RowsInOrder ==
  ASSUME IInv, NEW a \in Aggregates, NEW n \in -1 .. latest[a]
  PROVE  /\ RowsAfter(a, n) \in Seq(Events)
         /\ Len(RowsAfter(a, n)) = latest[a] - n
         /\ \A i \in 1 .. latest[a] - n : RowsAfter(a, n)[i] \in Stored(a, n + i)
<1> DEFINE k == latest[a] - n
           Ordered(r) == \A i, j \in DOMAIN r : i < j => r[i].seq < r[j].seq
           r == RowsAfter(a, n)
<1>1. k \in Nat /\ n \in Int /\ latest[a] \in -1 .. MaxSeq /\ MaxSeq \in Nat
  BY LogAssumption DEF IInv, TypeOK
<1>2. r = CHOOSE f \in [1 .. k -> Rows(a, n)] : Ordered(f)
  BY RowsNumbered DEF RowsAfter, Rows
<1>3. \E f \in [1 .. k -> Rows(a, n)] : Ordered(f)
  <2>1. PICK f \in [1 .. k -> Rows(a, n)] : \A i \in 1 .. k : f[i].seq = n + i
    BY RowsNumbered
  <2>2. Ordered(f)
    BY <1>1, <2>1
  <2> QED BY <2>2
<1>4. r \in [1 .. k -> Rows(a, n)] /\ Ordered(r)
  <2> HIDE DEF Ordered, r
  <2> QED BY <1>2, <1>3
<1> HIDE DEF r, k
<1>5. \A e \in Rows(a, n) : e \in Events /\ e.agg = a /\ e.seq \in n + 1 .. n + k
  <2> TAKE e \in Rows(a, n)
  <2>1. e \in event /\ e.agg = a /\ e.seq > n /\ e \in Events /\ e.seq \in Seqs
    BY DEF Rows, IInv, TypeOK, Events
  <2>2. e.seq <= latest[a]
    BY <2>1 DEF IInv, LogContiguous, Stored
  <2> QED BY <1>1, <2>1, <2>2 DEF k, Seqs
<1>6. r \in [1 .. k -> Events]
  BY <1>4, <1>5
<1>7. \A i \in 1 .. k : r[i].seq = n + i
  <2> DEFINE q == [i \in 1 .. k |-> r[i].seq]
  <2>1. q \in [1 .. k -> n + 1 .. n + k]
    BY <1>4, <1>5
  <2>2. \A i, j \in 1 .. k : i < j => q[i] < q[j]
    BY <1>4
  <2> HIDE DEF q
  <2>3. \A i \in 1 .. k : q[i] = n + i
    BY <1>1, <2>1, <2>2, NoRoom
  <2> QED BY <2>3 DEF q
<1>8. r \in Seq(Events) /\ Len(r) = k
  BY <1>1, <1>6
<1>9. \A i \in 1 .. k : r[i] \in Stored(a, n + i)
  BY <1>4, <1>7 DEF Rows, Stored
<1> QED BY <1>8, <1>9 DEF r, k

\* A cut stream reads no more than a type-correct batch.
LEMMA RowsTyped ==
  ASSUME IInv, NEW a \in Aggregates, NEW n \in Cursors
  PROVE  /\ RowsAfter(a, n) \in Seq(Events)
         /\ \A i \in DOMAIN RowsAfter(a, n) : RowsAfter(a, n)[i].seq \in Seqs
<1>1. CASE n <= latest[a]
  <2>1. n \in -1 .. latest[a]
    BY <1>1, LogAssumption DEF Cursors, IInv, TypeOK
  <2>2. RowsAfter(a, n) \in Seq(Events)
    BY <2>1, RowsInOrder
  <2>3. \A i \in DOMAIN RowsAfter(a, n) : RowsAfter(a, n)[i] \in Events
    BY <2>2
  <2> QED BY <2>2, <2>3 DEF Events
<1>2. CASE n > latest[a]
  <2>1. Rows(a, n) = {}
    <3> SUFFICES ASSUME NEW e \in event, e.agg = a, e.seq > n PROVE FALSE
      BY DEF Rows
    <3>1. e.seq \in Seqs /\ e.seq <= latest[a]
      BY DEF IInv, TypeOK, Events, LogContiguous, Stored
    <3> QED BY <1>2, <3>1, LogAssumption DEF Seqs, Cursors, IInv, TypeOK
  <2>2. Cardinality(Rows(a, n)) = 0
    BY <2>1, FS_EmptySet
  <2>3. \E f \in [1 .. 0 -> {}] : \A i, j \in DOMAIN f : i < j => f[i].seq < f[j].seq
    <3>1. [i \in 1 .. 0 |-> i] \in [1 .. 0 -> {}]
      OBVIOUS
    <3> QED BY <3>1
  <2>4. RowsAfter(a, n) \in [1 .. 0 -> {}]
    BY <2>1, <2>2, <2>3 DEF RowsAfter, Rows
  <2> QED BY <2>4
<1> QED BY <1>1, <1>2, LogAssumption DEF Cursors, IInv, TypeOK

-----------------------------------------------------------------------------
(* Every step keeps the invariant *)

Streams == [pc: {"reading", "waiting"}, agg: Aggregates, from: Cursors, cursor: Cursors,
            wake: BOOLEAN, batch: Seq(Events), got: Seq(Events), cut: BOOLEAN]

LEMMA StreamTyped ==
  ASSUME SubType, NEW s \in Subscribers
  PROVE  /\ sub[s] = Off <=> sub[s].pc \notin {"reading", "waiting"}
         /\ sub[s] # Off => sub[s] \in Streams
BY DEF SubType, SubStates, Streams, Off

LEMMA StreamInitInv == ASSUME StreamInit PROVE StreamInv
<1> USE DEF StreamInit
<1>1. IInv
  BY InitInv
<1>2. SubType /\ ReadsAfterEmitting /\ CursorBehind /\ GapFree /\ NoStrandedEvent
  BY DEF SubType, SubStates, ReadsAfterEmitting, CursorBehind, GapFree, NoStrandedEvent, Off
<1> QED BY <1>1, <1>2 DEF StreamInv

\* What the rest of the invariant says of one stream.
InPlace(x) ==
  /\ x.cursor = x.from + Len(x.got \o x.batch)
  /\ \A i \in DOMAIN (x.got \o x.batch) : (x.got \o x.batch)[i] \in Stored(x.agg, x.from + i)

Coming(x) ==
  x.cursor < latest[x.agg] =>
    \/ x.pc = "reading"
    \/ x.wake
    \/ \E w \in Writers : writer[w].pc = "waking" /\ writer[w].agg = x.agg

Good(x) ==
  /\ x.pc = "reading" => x.batch = <<>>
  /\ ~x.cut => x.cursor <= latest[x.agg] /\ InPlace(x) /\ Coming(x)

LEMMA GoodStreams ==
  ASSUME IInv, SubType
  PROVE  StreamInv <=> \A s \in Subscribers : sub[s] # Off => Good(sub[s])
<1>1. ReadsAfterEmitting <=>
        \A s \in Subscribers : sub[s] # Off /\ sub[s].pc = "reading" => sub[s].batch = <<>>
  BY StreamTyped DEF ReadsAfterEmitting
<1>2. GapFree <=> \A s \in Subscribers : sub[s] # Off /\ ~sub[s].cut => InPlace(sub[s])
  BY DEF GapFree, InPlace
<1>3. NoStrandedEvent <=> \A s \in Subscribers : sub[s] # Off /\ ~sub[s].cut => Coming(sub[s])
  BY DEF NoStrandedEvent, Coming
<1> QED BY <1>1, <1>2, <1>3 DEF StreamInv, CursorBehind, Good

\* A commit only adds rows, and whoever adds one is to announce it; who was to
\* announce one still is.
Grows ==
  /\ event \subseteq event'
  /\ \A a \in Aggregates : latest'[a] >= latest[a]
  /\ \A a \in Aggregates : latest'[a] # latest[a] =>
       \E w \in Writers : writer'[w].pc = "waking" /\ writer'[w].agg = a
  /\ \A w \in Writers : writer[w].pc = "waking" => writer'[w] = writer[w]

LEMMA AddedRowGrows ==
  ASSUME TypeOK, NEW w \in Writers, NEW a \in Aggregates,
         event \subseteq event', latest' = [latest EXCEPT ![a] = latest[a] + 1],
         writer'[w].pc = "waking", writer'[w].agg = a,
         \A v \in Writers : writer[v].pc = "waking" => writer'[v] = writer[v]
  PROVE  Grows
<1>1. latest \in [Aggregates -> Int]
  BY LogAssumption DEF TypeOK
<1>2. \A b \in Aggregates : latest'[b] >= latest[b] /\ (latest'[b] # latest[b] => b = a)
  BY <1>1
<1> QED BY <1>2 DEF Grows

LEMMA SameRowsGrow ==
  ASSUME TypeOK, UNCHANGED <<event, latest>>,
         \A v \in Writers : writer[v].pc = "waking" => writer'[v] = writer[v]
  PROVE  Grows
BY LogAssumption DEF TypeOK, Grows

LEMMA CommitGrows == ASSUME TypeOK, Commit PROVE Grows
<1>1. ASSUME NEW w \in Writers, NEW a \in Aggregates, Publish(w, a) PROVE Grows
  <2>1. /\ event \subseteq event' /\ latest' = [latest EXCEPT ![a] = latest[a] + 1]
        /\ writer'[w].pc = "waking" /\ writer'[w].agg = a
        /\ \A v \in Writers : writer[v].pc = "waking" => writer'[v] = writer[v]
    BY <1>1 DEF TypeOK, Publish, CommitRows, NewEvent, Idle
  <2> QED BY <2>1, AddedRowGrows
<1>2. ASSUME NEW w \in Writers, ReplayNew(w) PROVE Grows
  <2>1. writer[w] \in WriterStates /\ writer[w].pc = "replaying" /\ writer[w].agg \in Aggregates
    BY <1>2 DEF TypeOK, ReplayNew, WriterStates, Idle
  <2>2. /\ event \subseteq event'
        /\ latest' = [latest EXCEPT ![writer[w].agg] = latest[writer[w].agg] + 1]
        /\ writer'[w].pc = "waking" /\ writer'[w].agg = writer[w].agg
        /\ \A v \in Writers : writer[v].pc = "waking" => writer'[v] = writer[v]
    BY <1>2, <2>1 DEF TypeOK, ReplayNew, CommitRows, NewEvent
  <2> QED BY <2>1, <2>2, AddedRowGrows
<1>3. ASSUME NEW w \in Writers,
             \/ \E a \in Aggregates : ReplayAll(w, a)
             \/ ReplayStored(w) \/ ReplayForeign(w) \/ ReplayDies(w)
      PROVE  Grows
  BY <1>3, SameRowsGrow DEF TypeOK, ReplayAll, ReplayStored, ReplayForeign, ReplayDies, Idle
<1>4. ASSUME NEW a \in Aggregates, NEW o \in Owners, Claim(a, o) PROVE Grows
  BY <1>4, SameRowsGrow DEF Claim
<1> QED BY <1>1, <1>2, <1>3, <1>4 DEF Commit

LEMMA CommitGood ==
  ASSUME IInv, SubType, Commit, UNCHANGED sub,
         NEW s \in Subscribers, sub[s] # Off, Good(sub[s])
  PROVE  Good(sub[s])'
<1>1. sub[s].agg \in Aggregates /\ sub[s].cursor \in Int
  BY StreamTyped, LogAssumption DEF Streams, Cursors
<1>2. latest[sub[s].agg] \in Int /\ latest'[sub[s].agg] \in Int
  BY <1>1, LogAssumption, NextInv DEF IInv, TypeOK, Next
<1>3. sub' = sub /\ sub'[s] = sub[s]
  OBVIOUS
<1>4. InPlace(sub[s]) => InPlace(sub[s])'
  BY <1>3, CommitGrows DEF IInv, Grows, InPlace, Stored
<1>5. sub[s].cursor <= latest[sub[s].agg] => sub[s].cursor <= latest'[sub[s].agg]
  BY <1>1, <1>2, CommitGrows DEF IInv, Grows
<1>6. Coming(sub[s]) => Coming(sub[s])'
  <2>1. CASE latest'[sub[s].agg] = latest[sub[s].agg]
    BY <1>3, <2>1, CommitGrows DEF IInv, Grows, Coming
  <2>2. CASE latest'[sub[s].agg] # latest[sub[s].agg]
    BY <1>1, <1>3, <2>2, CommitGrows DEF IInv, Grows, Coming
  <2> QED BY <2>1, <2>2
<1> QED BY <1>3, <1>4, <1>5, <1>6 DEF Good

LEMMA AnnounceGood ==
  ASSUME IInv, SubType, NEW w \in Writers, Announce(w), Wakes(w),
         NEW s \in Subscribers, sub[s] # Off, Good(sub[s])
  PROVE  Good(sub[s])'
<1>1. /\ UNCHANGED <<event, latest>>
      /\ \A v \in Writers \ {w} : writer'[v] = writer[v]
  BY DEF IInv, TypeOK, Announce
<1>2. sub[s] \in Streams
  BY StreamTyped
<1>3. CASE sub[s].agg = writer[w].agg
  <2>1. sub'[s] = [sub[s] EXCEPT !.wake = TRUE]
    BY <1>3 DEF Wakes, Listening
  <2>2. /\ sub'[s].wake
        /\ sub'[s].pc = sub[s].pc /\ sub'[s].agg = sub[s].agg /\ sub'[s].cut = sub[s].cut
        /\ sub'[s].from = sub[s].from /\ sub'[s].cursor = sub[s].cursor
        /\ sub'[s].got = sub[s].got /\ sub'[s].batch = sub[s].batch
    BY <1>2, <2>1 DEF Streams
  <2>3. \A a, n : Stored(a, n)' = Stored(a, n)
    BY <1>1 DEF Stored
  <2>4. InPlace(sub[s]) => InPlace(sub[s])'
    BY <2>2, <2>3 DEF InPlace
  <2>5. Coming(sub[s])'
    BY <2>2 DEF Coming
  <2> QED BY <1>1, <2>2, <2>4, <2>5 DEF Good
<1>4. CASE sub[s].agg # writer[w].agg
  <2>1. sub'[s] = sub[s]
    BY <1>4 DEF Wakes, Listening
  <2>2. Coming(sub[s]) => Coming(sub[s])'
    BY <1>1, <1>4, <2>1 DEF Coming
  <2> QED BY <1>1, <2>1, <2>2 DEF Good, InPlace, Stored
<1> QED BY <1>3, <1>4

LEMMA RemoveGood ==
  ASSUME IInv, SubType, NEW a \in Aggregates, StreamRemove(a),
         NEW s \in Subscribers, sub[s] # Off, Good(sub[s])
  PROVE  Good(sub[s])'
<1>1. sub[s] \in Streams
  BY StreamTyped
<1>2. CASE sub[s].agg = a
  <2>1. sub'[s] = [sub[s] EXCEPT !.cut = TRUE]
    BY <1>2 DEF StreamRemove, Listening
  <2>2. sub'[s].cut /\ sub'[s].pc = sub[s].pc /\ sub'[s].batch = sub[s].batch
    BY <1>1, <2>1 DEF Streams
  <2> QED BY <2>2 DEF Good
<1>3. CASE sub[s].agg # a
  <2>1. sub'[s] = sub[s] /\ writer' = writer
    BY <1>3 DEF StreamRemove, Remove, Listening
  <2>2. latest'[sub[s].agg] = latest[sub[s].agg]
    BY <1>1, <1>3 DEF StreamRemove, Remove, IInv, TypeOK, Streams
  <2>3. \A n : Stored(sub[s].agg, n)' = Stored(sub[s].agg, n)
    BY <1>3, <2>1 DEF StreamRemove, Remove, Stored
  <2>4. InPlace(sub[s]) => InPlace(sub[s])'
    BY <2>1, <2>3 DEF InPlace
  <2>5. Coming(sub[s]) => Coming(sub[s])'
    BY <2>1, <2>2 DEF Coming
  <2> QED BY <2>1, <2>2, <2>4, <2>5 DEF Good
<1> QED BY <1>2, <1>3

LEMMA SubscribeGood ==
  ASSUME IInv, SubType, NEW s \in Subscribers, NEW a \in Aggregates, Subscribe(s, a)
  PROVE  SubType' /\ Good(sub[s])' /\ \A t \in Subscribers \ {s} : sub'[t] = sub[t]
<1>1. PICK n \in -1 .. latest[a] :
        sub' = [sub EXCEPT ![s] =
                  [pc |-> "reading", agg |-> a, from |-> n, cursor |-> n, wake |-> FALSE,
                   batch |-> <<>>, got |-> <<>>, cut |-> FALSE]]
  BY DEF Subscribe
<1>2. n \in Cursors /\ n <= latest[a] /\ latest' = latest
  BY LogAssumption DEF IInv, TypeOK, Cursors, Subscribe, vars
<1>3. /\ sub'[s].pc = "reading" /\ sub'[s].agg = a /\ sub'[s].from = n /\ sub'[s].cursor = n
      /\ sub'[s].batch = <<>> /\ sub'[s].got = <<>>
  BY <1>1 DEF SubType
<1>4. SubType'
  BY <1>1, <1>2 DEF SubType, SubStates
<1>5. InPlace(sub[s])'
  BY <1>2, <1>3 DEF InPlace, Cursors
<1>6. Coming(sub[s])' /\ sub'[s].cursor <= latest'[sub'[s].agg]
  BY <1>2, <1>3 DEF Coming
<1> QED BY <1>1, <1>3, <1>4, <1>5, <1>6 DEF Good, SubType

LEMMA Concatenated ==
  ASSUME NEW g \in Seq(Events), NEW b \in Seq(Events)
  PROVE  /\ Len(g \o b) = Len(g) + Len(b)
         /\ DOMAIN (g \o b) = 1 .. Len(g) + Len(b)
         /\ \A i \in 1 .. Len(g) + Len(b) :
              (g \o b)[i] = IF i <= Len(g) THEN g[i] ELSE b[i - Len(g)]
OBVIOUS

LEMMA ReadGood ==
  ASSUME IInv, SubType, NEW s \in Subscribers, ReadRows(s), Good(sub[s])
  PROVE  SubType' /\ Good(sub[s])' /\ \A t \in Subscribers \ {s} : sub'[t] = sub[t]
<1> DEFINE old == sub[s]
           rows == RowsAfter(old.agg, old.cursor)
           last == IF rows = <<>> THEN old.cursor ELSE rows[Len(rows)].seq
           new == [old EXCEPT !.pc = "waiting", !.batch = rows, !.cursor = last]
<1>1. old \in Streams /\ old.pc = "reading" /\ old.batch = <<>>
  BY StreamTyped DEF ReadRows, Off, Good
<1>2. old.agg \in Aggregates /\ old.cursor \in Cursors /\ old.from \in Cursors
      /\ old.got \in Seq(Events) /\ latest[old.agg] \in -1 .. MaxSeq /\ MaxSeq \in Nat
  BY <1>1, LogAssumption DEF Streams, IInv, TypeOK
<1>3. rows \in Seq(Events) /\ \A i \in DOMAIN rows : rows[i].seq \in Seqs
  BY <1>2, RowsTyped
<1>4. last \in Cursors
  BY <1>2, <1>3 DEF Cursors, Seqs
<1>5. /\ new \in Streams
      /\ new.pc = "waiting" /\ new.agg = old.agg /\ new.cut = old.cut /\ new.from = old.from
      /\ new.got = old.got /\ new.batch = rows /\ new.cursor = last
  <2> HIDE DEF old, rows, last
  <2> QED BY <1>1, <1>3, <1>4 DEF Streams
<1>6. sub' = [sub EXCEPT ![s] = new] /\ UNCHANGED vars
  BY DEF ReadRows
<1>7. SubType' /\ sub'[s] = new /\ \A t \in Subscribers \ {s} : sub'[t] = sub[t]
  <2> HIDE DEF new
  <2>1. new \in SubStates
    BY <1>5 DEF SubStates, Streams
  <2> QED BY <1>6, <2>1 DEF SubType
<1> HIDE DEF new, last
<1>8. ASSUME ~old.cut
      PROVE  /\ last = latest[old.agg]
             /\ last = old.from + Len(old.got \o rows)
             /\ \A i \in DOMAIN (old.got \o rows) :
                  (old.got \o rows)[i] \in Stored(old.agg, old.from + i)
  <2>1. old.cursor \in -1 .. latest[old.agg] /\ InPlace(old)
    BY <1>2, <1>8 DEF Good, Cursors
  <2>2. /\ Len(rows) = latest[old.agg] - old.cursor
        /\ \A i \in 1 .. Len(rows) : rows[i] \in Stored(old.agg, old.cursor + i)
    BY <1>2, <2>1, RowsInOrder
  <2>3. old.got \o old.batch = old.got
    BY <1>1, <1>2, ConcatEmptySeq
  <2>4. /\ old.cursor = old.from + Len(old.got)
        /\ \A i \in 1 .. Len(old.got) : old.got[i] \in Stored(old.agg, old.from + i)
    BY <1>2, <2>1, <2>3 DEF InPlace
  <2> HIDE DEF rows, old
  <2>5. Len(old.got) \in Nat /\ Len(rows) \in Nat
    BY <1>2, <1>3
  <2>6. last = latest[old.agg]
    <3>1. CASE rows = <<>>
      BY <1>2, <2>2, <3>1 DEF last, Cursors
    <3>2. CASE rows # <<>>
      <4>1. Len(rows) \in 1 .. Len(rows)
        BY <1>3, <3>2
      <4>2. rows[Len(rows)].seq = old.cursor + Len(rows)
        BY <2>2, <4>1 DEF Stored
      <4> QED BY <1>2, <2>2, <3>2, <4>2 DEF last, Cursors
    <3> QED BY <3>1, <3>2
  <2>7. /\ Len(old.got \o rows) = Len(old.got) + Len(rows)
        /\ DOMAIN (old.got \o rows) = 1 .. Len(old.got) + Len(rows)
        /\ \A i \in 1 .. Len(old.got) + Len(rows) :
             (old.got \o rows)[i] = IF i <= Len(old.got) THEN old.got[i] ELSE rows[i - Len(old.got)]
    BY <1>2, <1>3, Concatenated, Zenon
  <2>8. last = old.from + Len(old.got \o rows)
    <3>1. Len(rows) = latest[old.agg] - old.cursor
      BY <2>2
    <3>2. old.cursor = old.from + Len(old.got)
      BY <2>4
    <3>3. Len(old.got \o rows) = Len(old.got) + Len(rows)
      BY <2>7
    <3>4. latest[old.agg] \in Int /\ old.cursor \in Int /\ old.from \in Int
      BY <1>2 DEF Cursors
    <3> HIDE DEF last
    <3> QED BY <2>5, <2>6, <3>1, <3>2, <3>3, <3>4, SMTT(30)
  <2>9. ASSUME NEW i \in DOMAIN (old.got \o rows)
        PROVE  (old.got \o rows)[i] \in Stored(old.agg, old.from + i)
    <3>1. CASE i <= Len(old.got)
      BY <2>4, <2>5, <2>7, <3>1
    <3>2. CASE i > Len(old.got)
      <4>1. i - Len(old.got) \in 1 .. Len(rows)
        BY <2>5, <2>7, <3>2
      <4>2. rows[i - Len(old.got)] \in Stored(old.agg, old.cursor + (i - Len(old.got)))
        BY <2>2, <4>1
      <4>3. old.cursor + (i - Len(old.got)) = old.from + i
        BY <1>2, <2>4, <2>5, <2>7 DEF Cursors
      <4> QED BY <2>5, <2>7, <3>2, <4>2, <4>3
    <3> QED BY <2>5, <2>7, <3>1, <3>2
  <2> QED BY <2>6, <2>8, <2>9
<1>9. Good(sub[s])'
  <2> HIDE DEF old, rows
  <2>1. /\ sub'[s].pc = "waiting" /\ sub'[s].agg = old.agg /\ sub'[s].cut = old.cut
        /\ sub'[s].from = old.from /\ sub'[s].got = old.got /\ sub'[s].batch = rows
        /\ sub'[s].cursor = last
    BY <1>5, <1>7
  <2>2. latest' = latest /\ \A a, n : Stored(a, n)' = Stored(a, n)
    BY <1>6 DEF vars, Stored
  <2>3. ~old.cut => InPlace(sub[s])'
    BY <1>8, <2>1, <2>2 DEF InPlace
  <2>4. ~old.cut => sub'[s].cursor <= latest'[sub'[s].agg] /\ Coming(sub[s])'
    BY <1>2, <1>8, <2>1, <2>2 DEF Coming
  <2> QED BY <2>1, <2>3, <2>4 DEF Good
<1> QED BY <1>7, <1>9

LEMMA MoveHead ==
  ASSUME NEW g \in Seq(Events), NEW b \in Seq(Events), b # <<>>
  PROVE  /\ Append(g, Head(b)) \in Seq(Events) /\ Tail(b) \in Seq(Events)
         /\ Append(g, Head(b)) \o Tail(b) = g \o b
OBVIOUS

LEMMA EmitGood ==
  ASSUME SubType, NEW s \in Subscribers, Emit(s), Good(sub[s])
  PROVE  SubType' /\ Good(sub[s])' /\ \A t \in Subscribers \ {s} : sub'[t] = sub[t]
<1> DEFINE old == sub[s]
           new == [old EXCEPT !.got = Append(@, Head(old.batch)), !.batch = Tail(@)]
<1>1. old \in Streams /\ old.batch # <<>> /\ old.pc = "waiting"
  BY StreamTyped DEF Emit, Off
<1>2. sub' = [sub EXCEPT ![s] = new] /\ UNCHANGED vars
  BY DEF Emit
<1> HIDE DEF old
<1>3. /\ Append(old.got, Head(old.batch)) \in Seq(Events) /\ Tail(old.batch) \in Seq(Events)
      /\ Append(old.got, Head(old.batch)) \o Tail(old.batch) = old.got \o old.batch
  BY <1>1, MoveHead DEF Streams
<1>4. /\ new \in Streams
      /\ new.pc = old.pc /\ new.agg = old.agg /\ new.cut = old.cut /\ new.from = old.from
      /\ new.cursor = old.cursor /\ new.wake = old.wake
      /\ new.got \o new.batch = old.got \o old.batch
  BY <1>1, <1>3 DEF Streams
<1> HIDE DEF new
<1>5. SubType' /\ sub'[s] = new /\ \A t \in Subscribers \ {s} : sub'[t] = sub[t]
  BY <1>2, <1>4 DEF SubType, SubStates, Streams
<1>6. latest' = latest /\ writer' = writer /\ \A a, n : Stored(a, n)' = Stored(a, n)
  BY <1>2 DEF vars, Stored
<1>7. InPlace(old) => InPlace(sub[s])'
  BY <1>4, <1>5, <1>6 DEF InPlace
<1>8. Coming(old) => Coming(sub[s])'
  BY <1>4, <1>5, <1>6 DEF Coming
<1> QED BY <1>1, <1>4, <1>5, <1>6, <1>7, <1>8 DEF Good, old

LEMMA TakeWakeGood ==
  ASSUME SubType, NEW s \in Subscribers, TakeWake(s), Good(sub[s])
  PROVE  SubType' /\ Good(sub[s])' /\ \A t \in Subscribers \ {s} : sub'[t] = sub[t]
<1> DEFINE old == sub[s]
           new == [old EXCEPT !.pc = "reading", !.wake = FALSE]
<1>1. old \in Streams /\ old.batch = <<>>
  BY StreamTyped DEF TakeWake, Off
<1>2. sub' = [sub EXCEPT ![s] = new] /\ UNCHANGED vars
  BY DEF TakeWake
<1> HIDE DEF old
<1>3. /\ new \in Streams
      /\ new.pc = "reading" /\ new.agg = old.agg /\ new.cut = old.cut /\ new.from = old.from
      /\ new.cursor = old.cursor /\ new.got = old.got /\ new.batch = old.batch
  BY <1>1 DEF Streams
<1> HIDE DEF new
<1>4. SubType' /\ sub'[s] = new /\ \A t \in Subscribers \ {s} : sub'[t] = sub[t]
  BY <1>2, <1>3 DEF SubType, SubStates, Streams
<1>5. latest' = latest /\ \A a, n : Stored(a, n)' = Stored(a, n)
  BY <1>2 DEF vars, Stored
<1>6. InPlace(old) => InPlace(sub[s])'
  BY <1>3, <1>4, <1>5 DEF InPlace
<1>7. Coming(sub[s])'
  BY <1>3, <1>4 DEF Coming
<1> QED BY <1>1, <1>3, <1>4, <1>5, <1>6, <1>7 DEF Good, old

LEMMA SubTyped ==
  ASSUME SubType,
         \/ \E w \in Writers : Wakes(w)
         \/ \E a \in Aggregates : StreamRemove(a)
         \/ sub' = [s \in Subscribers |-> Off]
         \/ \E s \in Subscribers : Unsubscribe(s)
         \/ UNCHANGED sub
  PROVE  SubType'
<1>1. \A s \in Subscribers : sub[s] # Off =>
        [sub[s] EXCEPT !.wake = TRUE] \in Streams /\ [sub[s] EXCEPT !.cut = TRUE] \in Streams
  BY StreamTyped DEF Streams
<1>2. \A s \in Subscribers : sub[s] \in SubStates
  BY DEF SubType
<1>3. \A x \in Streams : x \in SubStates
  BY DEF Streams, SubStates
<1>4. Off \in SubStates
  BY DEF SubStates
<1>5. CASE \E w \in Writers : Wakes(w)
  BY <1>1, <1>2, <1>3, <1>5 DEF SubType, Wakes, Listening
<1>6. CASE \E a \in Aggregates : StreamRemove(a)
  BY <1>1, <1>2, <1>3, <1>6 DEF SubType, StreamRemove, Listening
<1>7. CASE sub' = [s \in Subscribers |-> Off] \/ UNCHANGED sub \/ \E s \in Subscribers : Unsubscribe(s)
  BY <1>2, <1>4, <1>7 DEF SubType, Unsubscribe
<1> QED BY <1>5, <1>6, <1>7

\* The same after a step: GoodStreams read in the next state.
LEMMA GoodStreamsNext ==
  ASSUME IInv', SubType', \A s \in Subscribers : sub'[s] # Off => Good(sub[s])'
  PROVE  StreamInv'
<1>1. ReadsAfterEmitting'
  <2>1. \A s \in Subscribers : sub'[s] = Off => sub'[s].pc # "reading"
    BY DEF Off
  <2> QED BY <2>1 DEF ReadsAfterEmitting, Good
<1>2. GapFree'
  BY DEF GapFree, InPlace, Good
<1>3. NoStrandedEvent'
  BY DEF NoStrandedEvent, Coming, Good
<1> QED BY <1>1, <1>2, <1>3 DEF StreamInv, CursorBehind, Good

\* A stream that does not move while the log stands still.
LEMMA StandingGood ==
  ASSUME UNCHANGED vars, NEW t \in Subscribers, sub'[t] = sub[t], Good(sub[t])
  PROVE  Good(sub[t])'
<1>1. latest' = latest /\ writer' = writer /\ \A a, n : Stored(a, n)' = Stored(a, n)
  BY DEF vars, Stored
<1>2. InPlace(sub[t]) => InPlace(sub[t])'
  BY <1>1 DEF InPlace
<1>3. Coming(sub[t]) => Coming(sub[t])'
  BY <1>1 DEF Coming
<1> QED BY <1>1, <1>2, <1>3 DEF Good

LEMMA StreamStepIsLogStep == ASSUME [StreamNext]_allVars PROVE [Next]_vars
BY DEF StreamNext, StreamRemove, Next, Subscribe, ReadRows, Emit, TakeWake, Unsubscribe,
       vars, allVars

LEMMA StreamNextInv == ASSUME StreamInv, [StreamNext]_allVars PROVE StreamInv'
<1> DEFINE Kept == \A s \in Subscribers : sub'[s] # Off => Good(sub[s])'
<1>1. IInv /\ SubType /\ \A s \in Subscribers : sub[s] # Off => Good(sub[s])
  BY GoodStreams DEF StreamInv
<1>2. [Next]_vars
  BY StreamStepIsLogStep
<1>3. IInv'
  BY <1>1, <1>2, NextInv
<1> SUFFICES SubType' /\ Kept
  BY <1>3, GoodStreamsNext
<1>4. ASSUME NEW s \in Subscribers,
             SubType' /\ Good(sub[s])' /\ (\A t \in Subscribers \ {s} : sub'[t] = sub[t]),
             UNCHANGED vars
      PROVE  SubType' /\ Kept
  <2> SUFFICES ASSUME NEW t \in Subscribers, sub'[t] # Off PROVE Good(sub[t])'
    BY <1>4
  <2>1. CASE t = s
    BY <1>4, <2>1
  <2>2. CASE t # s
    <3>1. sub'[t] = sub[t] /\ Good(sub[t])
      BY <1>1, <1>4, <2>2
    <3> QED BY <1>4, <3>1, StandingGood
  <2> QED BY <2>1, <2>2
<1>5. CASE Commit /\ UNCHANGED sub
  BY <1>1, <1>5, SubTyped, CommitGood
<1>6. ASSUME NEW w \in Writers, Announce(w), Wakes(w) PROVE SubType' /\ Kept
  <2>1. \A s \in Subscribers : sub'[s] # Off => sub[s] # Off
    BY <1>6 DEF Wakes, Listening
  <2> QED BY <1>1, <1>6, <2>1, SubTyped, AnnounceGood
<1>7. ASSUME NEW a \in Aggregates, StreamRemove(a) PROVE SubType' /\ Kept
  <2>1. \A s \in Subscribers : sub'[s] # Off => sub[s] # Off
    BY <1>7 DEF StreamRemove, Listening
  <2> QED BY <1>1, <1>7, <2>1, SubTyped, RemoveGood
<1>8. CASE Crash /\ sub' = [s \in Subscribers |-> Off]
  BY <1>1, <1>8, SubTyped
<1>9. ASSUME NEW s \in Subscribers, NEW a \in Aggregates, Subscribe(s, a) PROVE SubType' /\ Kept
  BY <1>1, <1>4, <1>9, SubscribeGood DEF Subscribe
<1>10. ASSUME NEW s \in Subscribers, ReadRows(s) \/ Emit(s) \/ TakeWake(s) PROVE SubType' /\ Kept
  <2>1. sub[s] # Off /\ UNCHANGED vars
    BY <1>10 DEF ReadRows, Emit, TakeWake, Off
  <2> QED BY <1>1, <1>4, <1>10, <2>1, ReadGood, EmitGood, TakeWakeGood
<1>11. ASSUME NEW s \in Subscribers, Unsubscribe(s) PROVE SubType' /\ Kept
  <2>1. SubType'
    BY <1>1, <1>11, SubTyped
  <2>2. \A t \in Subscribers : sub'[t] # Off => sub[t] # Off /\ sub'[t] = sub[t]
    BY <1>1, <1>11 DEF Unsubscribe, SubType
  <2> QED BY <1>1, <1>11, <2>1, <2>2, StandingGood DEF Unsubscribe
<1>12. CASE UNCHANGED allVars
  <2>1. UNCHANGED vars /\ UNCHANGED sub
    BY <1>12 DEF vars, allVars
  <2> QED BY <1>1, <2>1, SubTyped, StandingGood
<1> HIDE DEF Kept
<1> QED BY <1>5, <1>6, <1>7, <1>8, <1>9, <1>10, <1>11, <1>12 DEF StreamNext

THEOREM StreamInductive == StreamSpec => []StreamInv
BY StreamInitInv, StreamNextInv, PTL DEF StreamSpec

\* However publishes, replays, claims, removals, crashes, reads and wakes
\* interleave, an open stream has got exactly the events after its start, in
\* order, up to its cursor ...
THEOREM StreamsGapFree == StreamSpec => []GapFree
<1>1. StreamInv => GapFree BY DEF StreamInv
<1> QED BY <1>1, StreamInductive, PTL

\* ... and an event beyond the cursor has a read, a kept wake or a writer's
\* announcement that will bring it.
THEOREM NothingStrands == StreamSpec => []NoStrandedEvent
<1>1. StreamInv => NoStrandedEvent BY DEF StreamInv
<1> QED BY <1>1, StreamInductive, PTL

\* Streams only read the log: every behaviour with streams is one of the log,
\* so what is proved of the log holds under them.
THEOREM StreamsRefineLog == StreamSpec => Spec
<1>1. StreamInit => Init BY DEF StreamInit
<1>2. [StreamNext]_allVars => [Next]_vars BY StreamStepIsLogStep
<1> QED BY <1>1, <1>2, PTL DEF StreamSpec, Spec

\* Streams, and the log beneath them, keep their types.
THEOREM StreamTypeCorrect == StreamSpec => []StreamTypeOK
<1>1. StreamInv => StreamTypeOK BY DEF StreamInv, IInv, SubType, StreamTypeOK
<1> QED BY <1>1, StreamInductive, PTL
=============================================================================
