------------------------------ MODULE EventLog ------------------------------
(***************************************************************************)
(* EventV2: durable events of many aggregates in one SQLite database.      *)
(*                                                                         *)
(* A durable event is committed in one immediate transaction that checks   *)
(* owner, sequence and id, runs the projectors and writes both tables, so  *)
(* each commit is one action; a check that dies or a projector that fails  *)
(* rolls everything back.  What is not atomic is everything around it: the *)
(* wake-up of durable subscribers after the commit, the events of one      *)
(* replayAll, and the process, which may stop between any two of these.    *)
(***************************************************************************)
EXTENDS Integers, Sequences, FiniteSets

CONSTANTS Aggregates, Ids, Owners, NoOwner,
          Writers,  \* fibers that publish or replay
          MaxSeq    \* bound: no aggregate grows past this sequence number

ASSUME LogAssumption == NoOwner \notin Owners /\ MaxSeq \in Nat

VARIABLES event,    \* EventTable
          latest,   \* EventSequenceTable.seq, -1 where there is no row
          owner,    \* EventSequenceTable.owner_id
          applied,  \* ids projected since the aggregate's rows were last removed
          writer    \* what each writer is in the middle of

vars == <<event, latest, owner, applied, writer>>

-----------------------------------------------------------------------------
(* Data *)

Seqs == 0 .. MaxSeq

\* An event's id stands for its type and data: replays that differ from what
\* is stored under the id are ReplayDies.
Events == [id: Ids, agg: Aggregates, seq: Seqs]
AnyOwner == Owners \cup {NoOwner}

\* "replaying": count events are left, the next has sequence number seq;
\* "waking": committed, and the subscribers of agg are still to be woken.
Idle == [pc |-> "idle"]
WriterStates ==
  {Idle} \cup [pc: {"replaying", "waking"}, agg: Aggregates, seq: Seqs,
               count: Nat, owner: AnyOwner, strict: BOOLEAN]

TypeOK ==
  /\ event \subseteq Events
  /\ latest \in [Aggregates -> -1 .. MaxSeq]
  /\ owner \in [Aggregates -> AnyOwner]
  /\ applied \in [Aggregates -> Seq(Ids)]
  /\ writer \in [Writers -> WriterStates]

Init ==
  /\ event = {}
  /\ latest = [a \in Aggregates |-> -1]
  /\ owner = [a \in Aggregates |-> NoOwner]
  /\ applied = [a \in Aggregates |-> <<>>]
  /\ writer = [w \in Writers |-> Idle]

-----------------------------------------------------------------------------
(* The transaction *)

Stored(a, n) == {e \in event : e.agg = a /\ e.seq = n}
Exists(id) == \E e \in event : e.id = id

\* The rows one commit writes: projections, sequence row and event row.  An
\* owner is recorded only where the row has none.
CommitRows(e, o) ==
  /\ ~Exists(e.id)
  /\ applied' = [applied EXCEPT ![e.agg] = Append(@, e.id)]
  /\ latest' = [latest EXCEPT ![e.agg] = e.seq]
  /\ owner' = [owner EXCEPT ![e.agg] = IF @ = NoOwner THEN o ELSE @]
  /\ event' = event \cup {e}

NewEvent(id, a, n) == [id |-> id, agg |-> a, seq |-> n]

\* publish: the next sequence number, whoever owns the aggregate.
Publish(w, a) ==
  /\ writer[w] = Idle
  /\ latest[a] < MaxSeq
  /\ \E id \in Ids : CommitRows(NewEvent(id, a, latest[a] + 1), NoOwner)
  /\ writer' = [writer EXCEPT ![w] =
                  [pc |-> "waking", agg |-> a, seq |-> latest[a] + 1, count |-> 1,
                   owner |-> NoOwner, strict |-> FALSE]]

\* replayAll accepts a contiguous run of one aggregate's events; replay is the
\* run of length 1.  What the events are is chosen when each is replayed.
ReplayAll(w, a) ==
  /\ writer[w] = Idle
  /\ \E n \in Seqs, o \in AnyOwner, strict \in BOOLEAN :
       \E k \in 1 .. MaxSeq - n + 1 :
         writer' = [writer EXCEPT ![w] =
                      [pc |-> "replaying", agg |-> a, seq |-> n, count |-> k,
                       owner |-> o, strict |-> strict]]
  /\ UNCHANGED <<event, latest, owner, applied>>

\* Mutant: ownership fences strict runs only.
ForeignStrict(job) == /\ job.strict
                      /\ owner[job.agg] # NoOwner /\ owner[job.agg] # job.owner

\* Where a writer goes after an event it did not have to announce.
After(job) == IF job.count = 1 THEN Idle
              ELSE [job EXCEPT !.seq = @ + 1, !.count = @ - 1]

Foreign(job) == owner[job.agg] # NoOwner /\ owner[job.agg] # job.owner

\* Mutant: a replayed event is projected again.
ReplayStoredProjects(w) ==
  LET job == writer[w] IN
  /\ job.pc = "replaying"
  /\ ~(job.strict /\ Foreign(job))
  /\ \E e \in Stored(job.agg, job.seq) :
       applied' = [applied EXCEPT ![job.agg] = Append(@, e.id)]
  /\ writer' = [writer EXCEPT ![w] = After(job)]
  /\ UNCHANGED <<event, latest, owner>>

\* The event is already stored at its place: at most an owner is recorded.
ReplayStored(w) ==
  LET job == writer[w] IN
  /\ job.pc = "replaying"
  /\ ~(job.strict /\ Foreign(job))
  /\ job.seq <= latest[job.agg]
  /\ owner' = [owner EXCEPT ![job.agg] = IF @ = NoOwner THEN job.owner ELSE @]
  /\ writer' = [writer EXCEPT ![w] = After(job)]
  /\ UNCHANGED <<event, latest, applied>>

\* A new event of an aggregate somebody else owns is dropped silently.
ReplayForeign(w) ==
  LET job == writer[w] IN
  /\ job.pc = "replaying"
  /\ ~job.strict /\ Foreign(job)
  /\ job.seq > latest[job.agg]
  /\ writer' = [writer EXCEPT ![w] = After(job)]
  /\ UNCHANGED <<event, latest, owner, applied>>

\* Mutant: any later event is taken for the next one.
ReplayNewGap(w) ==
  LET job == writer[w] IN
  /\ job.pc = "replaying"
  /\ ~Foreign(job)
  /\ job.seq > latest[job.agg]
  /\ \E id \in Ids : CommitRows(NewEvent(id, job.agg, job.seq), job.owner)
  /\ writer' = [writer EXCEPT ![w].pc = "waking"]

\* The next event of the aggregate, from its owner or from anyone if unowned.
ReplayNew(w) ==
  LET job == writer[w] IN
  /\ job.pc = "replaying"
  /\ ~Foreign(job)
  /\ job.seq = latest[job.agg] + 1
  /\ \E id \in Ids : CommitRows(NewEvent(id, job.agg, job.seq), job.owner)
  /\ writer' = [writer EXCEPT ![w].pc = "waking"]

\* Replay dies, and with it the rest of the run: a strict owner conflict, an
\* event that differs from the stored one, a gap, an id used elsewhere, or a
\* projector that fails.
ReplayDies(w) ==
  LET job == writer[w] IN
  /\ job.pc = "replaying"
  /\ \/ job.strict /\ Foreign(job)
     \/ job.seq <= latest[job.agg]
     \/ ~Foreign(job) /\ job.seq > latest[job.agg]
  /\ writer' = [writer EXCEPT ![w] = Idle]
  /\ UNCHANGED <<event, latest, owner, applied>>

\* After the transaction: PubSub.publish to the subscriptions of the aggregate
\* (DurableStream says what that does), then the rest of the run.
Announce(w) ==
  /\ writer[w].pc = "waking"
  /\ writer' = [writer EXCEPT ![w] =
                  IF @.count = 1 THEN Idle ELSE [After(@) EXCEPT !.pc = "replaying"]]
  /\ UNCHANGED <<event, latest, owner, applied>>

-----------------------------------------------------------------------------
(* claim and remove *)

Claim(a, o) ==
  /\ latest[a] >= 0
  /\ owner' = [owner EXCEPT ![a] = o]
  /\ UNCHANGED <<event, latest, applied, writer>>

Remove(a) ==
  /\ latest[a] >= 0
  /\ event' = {e \in event : e.agg # a}
  /\ latest' = [latest EXCEPT ![a] = -1]
  /\ owner' = [owner EXCEPT ![a] = NoOwner]
  /\ applied' = [applied EXCEPT ![a] = <<>>]
  /\ UNCHANGED writer

-----------------------------------------------------------------------------

\* The process stops: transactions stand, everything in memory is gone.
Crash ==
  /\ writer' = [w \in Writers |-> Idle]
  /\ UNCHANGED <<event, latest, owner, applied>>

Commit == \/ \E w \in Writers, a \in Aggregates : Publish(w, a) \/ ReplayAll(w, a)
          \/ \E w \in Writers : \/ ReplayStored(w) \/ ReplayForeign(w)
                                \/ ReplayNew(w) \/ ReplayDies(w)
          \/ \E a \in Aggregates, o \in Owners : Claim(a, o)

Next == \/ Commit
        \/ \E w \in Writers : Announce(w)
        \/ \E a \in Aggregates : Remove(a)
        \/ Crash

Spec == Init /\ [][Next]_vars

-----------------------------------------------------------------------------
(* Properties *)

\* The rows of an aggregate are exactly 0 .. latest, one event each, whatever
\* local publishes, replays of any order and crashes wrote them.
LogContiguous ==
  \A a \in Aggregates :
    /\ \A n \in Seqs : n <= latest[a] <=> Stored(a, n) # {}
    /\ \A d, e \in event : d.agg = a /\ e.agg = a /\ d.seq = e.seq => d = e

\* An event id is never stored twice, at any aggregate.
IdsUnique == \A d, e \in event : d.id = e.id => d = e

\* Projections are what the log says: every stored event was projected exactly
\* once and in sequence order (replays of stored events project nothing).
ProjectedInOrder ==
  \A a \in Aggregates :
    /\ Len(applied[a]) = latest[a] + 1
    /\ \A e \in event : e.agg = a => applied[a][e.seq + 1] = e.id

\* Once an aggregate is owned, only its owner's replays and local publishes
\* extend it, also in the middle of a run that began before the claim
\* ("claim fences replay owners", event.test.ts:786).
FencedByOwner ==
  [][\A w \in Writers :
       LET job == writer[w] IN
       /\ job.pc = "replaying" /\ owner[job.agg] # NoOwner
       /\ writer'[w].pc = "waking"
       => owner[job.agg] = job.owner /\ owner'[job.agg] = job.owner]_vars
=============================================================================
