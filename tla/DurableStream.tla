---------------------------- MODULE DurableStream ----------------------------
(***************************************************************************)
(* EventV2.durable(): a stream of one aggregate's durable events after a   *)
(* sequence number, history first and then live.  The subscription only    *)
(* carries wake-ups, at most one of which is kept (PubSub.sliding(1)); the *)
(* events are always read from the table, from the stream's own cursor.    *)
(***************************************************************************)
EXTENDS EventLog

CONSTANT Subscribers  \* fibers that run a stream returned by durable()

\* pc "reading": the next step is a read; "waiting": emitting, then waiting.
\* from: input.after; cursor: `sequence`; wake: the sliding pubsub holds a
\* wake; batch: rows read and not yet emitted; got: what has been emitted;
\* cut: the aggregate was removed under the subscription.
VARIABLE sub

allVars == <<event, latest, owner, applied, writer, sub>>

Off == [pc |-> "off"]
Cursors == -1 .. MaxSeq
SubStates ==
  {Off} \cup [pc: {"reading", "waiting"}, agg: Aggregates, from: Cursors,
              cursor: Cursors, wake: BOOLEAN, batch: Seq(Events),
              got: Seq(Events), cut: BOOLEAN]

StreamTypeOK == TypeOK /\ sub \in [Subscribers -> SubStates]

StreamInit == Init /\ sub = [s \in Subscribers |-> Off]

-----------------------------------------------------------------------------

Listening(s, a) == sub[s] # Off /\ sub[s].agg = a

\* The wakes an announcement publishes: one to every subscription of the
\* aggregate, kept once however many arrive before it is taken.
Wakes(w) ==
  sub' = [s \in Subscribers |-> IF Listening(s, writer[w].agg)
                                THEN [sub[s] EXCEPT !.wake = TRUE] ELSE sub[s]]

\* The wake is registered before history is read.
Subscribe(s, a) ==
  /\ sub[s] = Off
  /\ \E n \in -1 .. latest[a] :
       sub' = [sub EXCEPT ![s] =
                 [pc |-> "reading", agg |-> a, from |-> n, cursor |-> n, wake |-> FALSE,
                  batch |-> <<>>, got |-> <<>>, cut |-> FALSE]]
  /\ UNCHANGED vars

\* The rows of a after sequence number n, ordered by sequence number.
RowsAfter(a, n) ==
  LET rows == {e \in event : e.agg = a /\ e.seq > n} IN
  CHOOSE r \in [1 .. Cardinality(rows) -> rows] :
    \A i, j \in DOMAIN r : i < j => r[i].seq < r[j].seq

\* Mutant: the cursor moves to the first row read.
ReadRowsFirst(s) ==
  /\ sub[s].pc = "reading"
  /\ LET rows == RowsAfter(sub[s].agg, sub[s].cursor) IN
     sub' = [sub EXCEPT ![s].pc = "waiting", ![s].batch = rows,
                        ![s].cursor = IF rows = <<>> THEN @ ELSE rows[1].seq]
  /\ UNCHANGED vars

\* One read; the cursor moves to the last row read, at once.
ReadRows(s) ==
  /\ sub[s].pc = "reading"
  /\ LET rows == RowsAfter(sub[s].agg, sub[s].cursor) IN
     sub' = [sub EXCEPT ![s].pc = "waiting", ![s].batch = rows,
                        ![s].cursor = IF rows = <<>> THEN @ ELSE rows[Len(rows)].seq]
  /\ UNCHANGED vars

Emit(s) ==
  /\ sub[s].pc = "waiting"
  /\ sub[s].batch # <<>>
  /\ sub' = [sub EXCEPT ![s].got = Append(@, Head(sub[s].batch)), ![s].batch = Tail(@)]
  /\ UNCHANGED vars

\* Mutant: a wake taken after everything was emitted causes no read.
TakeWakeIdly(s) ==
  /\ sub[s].pc = "waiting"
  /\ sub[s].batch = <<>>
  /\ sub[s].wake
  /\ sub' = [sub EXCEPT ![s].wake = FALSE]
  /\ UNCHANGED vars

\* The stream pulls the next wake once everything read has been emitted.
TakeWake(s) ==
  /\ sub[s].pc = "waiting"
  /\ sub[s].batch = <<>>
  /\ sub[s].wake
  /\ sub' = [sub EXCEPT ![s].pc = "reading", ![s].wake = FALSE]
  /\ UNCHANGED vars

\* The release of the scope deregisters the wake.
Unsubscribe(s) ==
  /\ sub[s] # Off
  /\ sub' = [sub EXCEPT ![s] = Off]
  /\ UNCHANGED vars

StreamRemove(a) ==
  /\ Remove(a)
  /\ sub' = [s \in Subscribers |-> IF Listening(s, a)
                                   THEN [sub[s] EXCEPT !.cut = TRUE] ELSE sub[s]]

StreamNext ==
  \/ Commit /\ UNCHANGED sub
  \/ \E w \in Writers : Announce(w) /\ Wakes(w)
  \/ \E a \in Aggregates : StreamRemove(a)
  \/ Crash /\ sub' = [s \in Subscribers |-> Off]
  \/ \E s \in Subscribers, a \in Aggregates : Subscribe(s, a)
  \/ \E s \in Subscribers : ReadRows(s) \/ Emit(s) \/ TakeWake(s) \/ Unsubscribe(s)

StreamSpec == StreamInit /\ [][StreamNext]_allVars

\* A committed writer announces, and a stream that is being consumed runs.
StreamFairness ==
  /\ \A w \in Writers : WF_allVars(Announce(w) /\ Wakes(w))
  /\ \A s \in Subscribers : WF_allVars(ReadRows(s) \/ Emit(s) \/ TakeWake(s))

FairStreamSpec == StreamSpec /\ StreamFairness

-----------------------------------------------------------------------------
(* Properties *)

\* A stream emits its aggregate's events after input.after with no gap, no
\* duplicate and in order, however reads, wakes and commits interleave.
GapFree ==
  \A s \in Subscribers :
    sub[s] # Off /\ ~sub[s].cut =>
      LET all == sub[s].got \o sub[s].batch IN
      /\ sub[s].cursor = sub[s].from + Len(all)
      /\ \A i \in DOMAIN all : all[i] \in Stored(sub[s].agg, sub[s].from + i)

\* A committed event always has something that will bring it to each stream of
\* its aggregate: the stream is about to read, holds a wake, or the committing
\* writer is still to announce it.  Coalescing wakes loses no event.
NoStrandedEvent ==
  \A s \in Subscribers :
    sub[s] # Off /\ ~sub[s].cut /\ sub[s].cursor < latest[sub[s].agg] =>
      \/ sub[s].pc = "reading"
      \/ sub[s].wake
      \/ \E w \in Writers : writer[w].pc = "waking" /\ writer[w].agg = sub[s].agg

\* So every stream that stays open catches up with its aggregate.
StreamsCatchUp ==
  \A s \in Subscribers, n \in Seqs :
    (sub[s] # Off /\ latest[sub[s].agg] >= n) ~>
      (sub[s] = Off \/ sub[s].cut \/ sub[s].from + Len(sub[s].got) >= n)
=============================================================================
