--------------------------- MODULE BackgroundJob ---------------------------
(***************************************************************************)
(* The process-local registry of background jobs.  A job is a generation   *)
(* of its id: starting an ended job again replaces the registry's entry    *)
(* and leaves the fibers, waiters and deferreds of the old generation      *)
(* behind, told apart by their token.  A running job may be extended: its  *)
(* runs execute one after the other and it ends with the last of them, or  *)
(* with the first that fails.                                              *)
(*                                                                         *)
(* Each change of the registry is one SynchronizedRef.modify.  What a      *)
(* fiber does after it (fork, resolve a deferred, close the scope) is a    *)
(* step of its own, which other fibers may precede.                        *)
(***************************************************************************)
EXTENDS Integers, FiniteSets

CONSTANTS Ids,      \* job ids
          Gens,     \* generations: the `token` objects
          Callers,  \* fibers that use the registry
          MaxRuns,  \* bound: runs of each generation, the first included
          None

ASSUME JobAssumption == MaxRuns \in [Gens -> Nat \ {0}] /\ None \notin Gens

VARIABLES current,  \* Map<string, Active>: the generation of each id
          gen,      \* the generations' Active records
          run,      \* the runs' fibers, by generation and sequence
          caller    \* what each caller stands before

vars == <<current, gen, run, caller>>

-----------------------------------------------------------------------------
(* Data *)

RunNumbers == UNION {0 .. MaxRuns[g] - 1 : g \in Gens}
NoOutput == -1
Ends == {"completed", "error", "cancelled"}

\* done and promoted are the deferreds; output: the number of the run whose
\* text it is.
GenStates ==
  [id: Ids, status: {"unused", "running"} \cup Ends, pending: Nat,
   next: Nat, output: RunNumbers \cup {NoOutput}, done: BOOLEAN,
   promoted: BOOLEAN, background: BOOLEAN,
   scope: {"open", "closing", "closed"}]

\* A run succeeds with text or with an empty string, fails, or interrupts.
Exits == {"text", "empty", "failure", "interrupt"}

\* "claimed": counted and not forked; "waiting": for the tail of the run before
\* it; "ended": before settle; "resolve": settle ended the job.
RunStates == [pc: {"none", "claimed", "waiting", "running", "ended", "resolve", "gone"},
              exit: Exits \cup {"none"}]

CallerStates ==
  [pc: {"idle"}] \cup
  [pc: {"fork"}, gen: Gens, run: RunNumbers] \cup
  [pc: {"cancelled", "closing", "promoted", "waiting", "awaiting"}, gen: Gens]

TypeOK ==
  /\ current \in [Ids -> Gens \cup {None}]
  /\ gen \in [Gens -> GenStates]
  /\ run \in [Gens -> [RunNumbers -> RunStates]]
  /\ caller \in [Callers -> CallerStates]

Init ==
  /\ current = [i \in Ids |-> None]
  /\ \E i \in Ids :
       gen = [g \in Gens |->
                [id |-> i, status |-> "unused", pending |-> 0, next |-> 0,
                 output |-> NoOutput, done |-> FALSE, promoted |-> FALSE,
                 background |-> FALSE, scope |-> "open"]]
  /\ run = [g \in Gens |-> [n \in RunNumbers |-> [pc |-> "none", exit |-> "none"]]]
  /\ caller = [c \in Callers |-> [pc |-> "idle"]]

Free(c) == caller[c].pc = "idle"
Goes(c, state) == caller' = [caller EXCEPT ![c] = state]
Idles(c) == Goes(c, [pc |-> "idle"])

\* jobs.get(id), when its status is "running"
Running(i) == current[i] # None /\ gen[current[i]].status = "running"

-----------------------------------------------------------------------------
(* start and extend *)

MayStart(i) == ~Running(i)

Start(c, i) ==
  /\ Free(c)
  /\ MayStart(i)
  /\ \E g \in Gens, background \in BOOLEAN :
       /\ gen[g].status = "unused"
       /\ gen' = [gen EXCEPT ![g] =
                    [@ EXCEPT !.id = i, !.status = "running", !.pending = 1, !.next = 1,
                              !.background = background]]
       /\ current' = [current EXCEPT ![i] = g]
       /\ run' = [run EXCEPT ![g][0].pc = "claimed"]
       /\ Goes(c, [pc |-> "fork", gen |-> g, run |-> 0])

\* Mutant: an extension is counted when it is forked, not before.
ExtendUncounted(c, i) ==
  LET g == current[i]
      n == gen[g].next IN
  /\ Free(c)
  /\ Running(i)
  /\ n < MaxRuns[g]
  /\ gen' = [gen EXCEPT ![g].next = n + 1]
  /\ run' = [run EXCEPT ![g][n].pc = "claimed"]
  /\ Goes(c, [pc |-> "fork", gen |-> g, run |-> n])
  /\ UNCHANGED current

Extend(c, i) ==
  LET g == current[i]
      n == gen[g].next IN
  /\ Free(c)
  /\ Running(i)
  /\ n < MaxRuns[g]
  /\ gen' = [gen EXCEPT ![g].pending = @ + 1, ![g].next = n + 1]
  /\ run' = [run EXCEPT ![g][n].pc = "claimed"]
  /\ Goes(c, [pc |-> "fork", gen |-> g, run |-> n])
  /\ UNCHANGED current

\* A fiber forked into a scope that is no longer open is interrupted.
Fork(c) ==
  LET g == caller[c].gen
      n == caller[c].run IN
  /\ caller[c].pc = "fork"
  /\ run' = [run EXCEPT ![g][n] =
               CASE gen[g].scope # "open" -> [pc |-> "ended", exit |-> "interrupt"]
                 [] n = 0                 -> [pc |-> "running", exit |-> "none"]
                 [] OTHER                 -> [pc |-> "waiting", exit |-> "none"]]
  /\ Idles(c)
  /\ UNCHANGED <<current, gen>>

-----------------------------------------------------------------------------
(* The runs *)

\* The tail of a run is resolved when the run is over, before it is settled.
TailResolved(g, n) == run[g][n].pc \in {"ended", "resolve", "gone"}

\* Mutant: an extension does not wait for the tail before it.
BeginsAtOnce(g, n) ==
  /\ run[g][n].pc = "waiting"
  /\ run' = [run EXCEPT ![g][n].pc = "running"]
  /\ UNCHANGED <<current, gen, caller>>

Begins(g, n) ==
  /\ run[g][n].pc = "waiting"
  /\ TailResolved(g, n - 1)
  /\ run' = [run EXCEPT ![g][n].pc = "running"]
  /\ UNCHANGED <<current, gen, caller>>

RunEnds(g, n) ==
  /\ run[g][n].pc = "running"
  /\ \E e \in Exits : run' = [run EXCEPT ![g][n] = [pc |-> "ended", exit |-> e]]
  /\ UNCHANGED <<current, gen, caller>>

Interrupted(g, n) ==
  /\ run[g][n].pc \in {"waiting", "running"}
  /\ gen[g].scope = "closing"
  /\ run' = [run EXCEPT ![g][n] = [pc |-> "ended", exit |-> "interrupt"]]
  /\ UNCHANGED <<current, gen, caller>>

\* Mutant: the output of the run that settles last wins.
OutputOfLast(g, n) == IF run[g][n].exit = "text" THEN n ELSE gen[g].output

\* Empty outputs and earlier runs do not replace an output.
OutputAfter(g, n) ==
  IF run[g][n].exit = "text" /\ n > gen[g].output THEN n ELSE gen[g].output

Success(e) == e \in {"text", "empty"}

EndOf(e) == CASE Success(e)      -> "completed"
              [] e = "interrupt" -> "cancelled"
              [] OTHER           -> "error"

\* Mutant: a job that has ended is settled again.
SettlesAgain(g) == current[gen[g].id] = g

\* Only the generation in the registry is settled, while it runs.
Settles(g) == current[gen[g].id] = g /\ gen[g].status = "running"

Settle(g, n) ==
  LET e == run[g][n].exit
      last == ~Success(e) \/ gen[g].pending <= 1
      out == OutputAfter(g, n) IN
  /\ run[g][n].pc = "ended"
  /\ IF ~Settles(g) THEN
       /\ run' = [run EXCEPT ![g][n].pc = "gone"]
       /\ UNCHANGED gen
     ELSE IF last THEN
       /\ gen' = [gen EXCEPT ![g] = [@ EXCEPT !.status = EndOf(e), !.pending = 0, !.output = out]]
       /\ run' = [run EXCEPT ![g][n].pc = "resolve"]
     ELSE
       /\ gen' = [gen EXCEPT ![g].pending = @ - 1, ![g].output = out]
       /\ run' = [run EXCEPT ![g][n].pc = "gone"]
  /\ UNCHANGED <<current, caller>>

\* The rest of settle: done is resolved and the scope's closing is forked.
Resolve(g, n) ==
  /\ run[g][n].pc = "resolve"
  /\ gen' = [gen EXCEPT ![g].done = TRUE, ![g].scope = "closing"]
  /\ run' = [run EXCEPT ![g][n].pc = "gone"]
  /\ UNCHANGED <<current, caller>>

\* Closing a scope ends when its fibers have.
Closed(g) ==
  /\ gen[g].scope = "closing"
  /\ \A n \in RunNumbers : run[g][n].pc \in {"none", "claimed", "gone"}
  /\ gen' = [gen EXCEPT ![g].scope = "closed"]
  /\ UNCHANGED <<current, run, caller>>

-----------------------------------------------------------------------------
(* cancel, promote and the waits *)

Cancel(c, i) ==
  LET g == current[i] IN
  /\ Free(c)
  /\ Running(i)
  /\ gen' = [gen EXCEPT ![g] = [@ EXCEPT !.status = "cancelled", !.pending = 0]]
  /\ Goes(c, [pc |-> "cancelled", gen |-> g])
  /\ UNCHANGED <<current, run>>

CancelResolves(c) ==
  LET g == caller[c].gen IN
  /\ caller[c].pc = "cancelled"
  /\ gen' = [gen EXCEPT ![g].done = TRUE, ![g].scope = "closing"]
  /\ Goes(c, [pc |-> "closing", gen |-> g])
  /\ UNCHANGED <<current, run>>

CancelReturns(c) ==
  /\ caller[c].pc = "closing"
  /\ gen[caller[c].gen].scope = "closed"
  /\ Idles(c)
  /\ UNCHANGED <<current, gen, run>>

\* onPromote, taken from the record here, runs after the deferred is resolved.
Promote(c, i) ==
  LET g == current[i] IN
  /\ Free(c)
  /\ Running(i)
  /\ ~gen[g].background
  /\ gen' = [gen EXCEPT ![g].background = TRUE]
  /\ Goes(c, [pc |-> "promoted", gen |-> g])
  /\ UNCHANGED <<current, run>>

Promoted(c) ==
  LET g == caller[c].gen IN
  /\ caller[c].pc = "promoted"
  /\ gen' = [gen EXCEPT ![g].promoted = TRUE]
  /\ Idles(c)
  /\ UNCHANGED <<current, run>>

Wait(c, i) ==
  /\ Free(c)
  /\ Running(i)
  /\ Goes(c, [pc |-> "waiting", gen |-> current[i]])
  /\ UNCHANGED <<current, gen, run>>

WaitReturns(c) ==
  LET g == caller[c].gen IN
  /\ caller[c].pc = "waiting"
  /\ gen[g].done
  /\ Idles(c)
  /\ UNCHANGED <<current, gen, run>>

\* A foreground job may be promoted while somebody waits for it.
WaitForPromotion(c, i) ==
  /\ Free(c)
  /\ Running(i)
  /\ ~gen[current[i]].background
  /\ Goes(c, [pc |-> "awaiting", gen |-> current[i]])
  /\ UNCHANGED <<current, gen, run>>

PromotionSeen(c) ==
  /\ caller[c].pc = "awaiting"
  /\ gen[caller[c].gen].promoted
  /\ Idles(c)
  /\ UNCHANGED <<current, gen, run>>

\* A wait times out, or its caller gives up.
Abandon(c) ==
  /\ caller[c].pc \in {"waiting", "awaiting"}
  /\ Idles(c)
  /\ UNCHANGED <<current, gen, run>>

\* get() and list() only read, as start, extend, promote and cancel do of a
\* job that is not in the state they ask for.
Get(c) == Free(c) /\ UNCHANGED vars

-----------------------------------------------------------------------------

Fiber(g, n) == Begins(g, n) \/ RunEnds(g, n) \/ Interrupted(g, n) \/ Settle(g, n) \/ Resolve(g, n)
Proceed(c) == \/ Fork(c) \/ CancelResolves(c) \/ CancelReturns(c) \/ Promoted(c)
              \/ WaitReturns(c) \/ PromotionSeen(c)

Next ==
  \/ \E c \in Callers, i \in Ids :
       Start(c, i) \/ Extend(c, i) \/ Cancel(c, i) \/ Promote(c, i) \/ Wait(c, i)
         \/ WaitForPromotion(c, i)
  \/ \E c \in Callers : Proceed(c) \/ Abandon(c) \/ Get(c)
  \/ \E g \in Gens, n \in RunNumbers : Fiber(g, n)
  \/ \E g \in Gens : Closed(g)

Spec == Init /\ [][Next]_vars

-----------------------------------------------------------------------------
(* Properties *)

Unsettled(g) == {n \in RunNumbers : run[g][n].pc \in {"claimed", "waiting", "running", "ended"}}

\* A running job counts exactly its runs that are still to be settled, so it
\* neither completes before the last of them nor outlives it.
PendingExact ==
  \A g \in Gens : gen[g].status = "running" =>
    gen[g].pending = Cardinality(Unsettled(g)) /\ gen[g].pending > 0

\* A job that runs is the one in the registry: no two generations of an id
\* run at once, and none runs where nobody can cancel it.
RunningIsCurrent == \A g \in Gens : gen[g].status = "running" => current[gen[g].id] = g

\* The runs of a job execute one at a time, in the order they were added.  The
\* exception is a scope that is closing: an interrupted extension resolves its
\* tail although the run it waited for is still winding down.
OneRunAtATime ==
  \A g \in Gens, n \in RunNumbers :
    run[g][n].pc = "running" /\ gen[g].scope = "open" => \A m \in RunNumbers : m < n => TailResolved(g, m)

\* A completed job has the output of its latest run that returned any, in
\* whatever order the runs were settled.
LatestOutputWins ==
  \A g \in Gens : gen[g].status = "completed" =>
    LET texts == {n \in RunNumbers : run[g][n].exit = "text"} IN
    /\ texts = {} <=> gen[g].output = NoOutput
    /\ \A n \in texts : n <= gen[g].output

\* An ended job has resolved its waiters or is about to.
EndIsAnnounced ==
  \A g \in Gens : gen[g].status \in Ends /\ ~gen[g].done =>
    \/ \E n \in RunNumbers : run[g][n].pc = "resolve"
    \/ \E c \in Callers : caller[c].pc = "cancelled" /\ caller[c].gen = g

\* The registry at any moment: an entry that runs is the current one and counts
\* its unsettled runs, and one that has ended is announced.
Consistent == TypeOK /\ PendingExact /\ RunningIsCurrent /\ EndIsAnnounced

\* The end of a job, and its output, never change, whatever its fibers and
\* those of other generations still do.
EndsOnce ==
  [][\A g \in Gens : gen[g].status \in Ends =>
       gen'[g].status = gen[g].status /\ gen'[g].output = gen[g].output]_vars
=============================================================================
