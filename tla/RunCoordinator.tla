--------------------------- MODULE RunCoordinator ---------------------------
(***************************************************************************)
(* SessionRunCoordinator: serialized execution per key.                    *)
(*                                                                         *)
(* JavaScript runs one synchronous block at a time, so each action below   *)
(* is one such block: a call of run, wake or interrupt up to the point     *)
(* where it suspends, the owner fiber reaching its drain, and the drain's  *)
(* exit with everything settle does in the same block (it resolves `done`, *)
(* which resumes every waiter, and lets Fiber.interrupt return).           *)
(*                                                                         *)
(* Entries and fibers are identities taken from pools; an identity may be  *)
(* reused once nothing in the coordinator refers to it, as a collected     *)
(* object's memory may be.                                                 *)
(***************************************************************************)
EXTENDS FiniteSets

CONSTANTS Keys,     \* sessions
          Callers,  \* fibers that call run or interrupt and wait
          Entries, Fibers,
          NoEntry, NoFiber

ASSUME PoolAssumption == /\ NoEntry \notin Entries
                         /\ NoFiber \notin Fibers

VARIABLES active,       \* Map<Key, Entry>
          owner,        \* entry.owner
          pendingWake,  \* entry.pendingWake
          stopping,     \* entry.stopping
          fiber,        \* owner fibers and the start() call each was forked by
          call          \* what each caller is suspended on, or its last result

entryVars == <<owner, pendingWake, stopping>>
vars == <<active, owner, pendingWake, stopping, fiber, call>>

-----------------------------------------------------------------------------
(* Data *)

Outcomes == {"success", "failure", "interrupted"}

\* "free": exited; "queued": forked and not yet in options.drain.
Exited == [pc |-> "free"]
FiberStates ==
  {Exited} \cup [pc: {"queued", "draining"}, key: Keys, entry: Entries,
                 force: BOOLEAN, interrupted: BOOLEAN]

IdleCall(result) == [pc |-> "idle", result |-> result]
CallStates ==
  [pc: {"idle"}, result: Outcomes \cup {"none"}] \cup
  [pc: {"waiting"}, key: Keys, entry: Entries, again: BOOLEAN] \cup
  [pc: {"rerun"}, key: Keys] \cup
  [pc: {"interrupting"}, key: Keys, target: Fibers]

TypeOK ==
  /\ active \in [Keys -> Entries \cup {NoEntry}]
  /\ owner \in [Entries -> Fibers \cup {NoFiber}]
  /\ pendingWake \in [Entries -> BOOLEAN]
  /\ stopping \in [Entries -> BOOLEAN]
  /\ fiber \in [Fibers -> FiberStates]
  /\ call \in [Callers -> CallStates]

Live(f) == fiber[f].pc # "free"
FreshEntries == {e \in Entries : \A k \in Keys : active[k] # e}
FreshFibers == {f \in Fibers : ~Live(f)}

Init ==
  /\ active = [k \in Keys |-> NoEntry]
  /\ owner = [e \in Entries |-> NoFiber]
  /\ pendingWake = [e \in Entries |-> FALSE]
  /\ stopping = [e \in Entries |-> FALSE]
  /\ fiber = [f \in Fibers |-> Exited]
  /\ call = [c \in Callers |-> IdleCall("none")]

-----------------------------------------------------------------------------
(* Entries and their owner fibers *)

\* Mutant: without its yieldNow a successor drains inside settle.
ForkedDraining(k, e, force) == [pc |-> "draining", key |-> k, entry |-> e,
                                force |-> force, interrupted |-> FALSE]

\* start: forks the owner of entry e; it reaches drain in a later step.
Forked(k, e, force) == [pc |-> "queued", key |-> k, entry |-> e,
                        force |-> force, interrupted |-> FALSE]

\* makeEntry, active.set and start of a key that gets a fresh entry.
StartEntry(k, e, f, force) ==
  /\ active' = [active EXCEPT ![k] = e]
  /\ owner' = [owner EXCEPT ![e] = f]
  /\ pendingWake' = [pendingWake EXCEPT ![e] = FALSE]
  /\ stopping' = [stopping EXCEPT ![e] = FALSE]
  /\ fiber' = [fiber EXCEPT ![f] = Forked(k, e, force)]

\* The owner leaves ready / yieldNow and enters options.drain.
BeginDrain(f) ==
  /\ fiber[f].pc = "queued"
  /\ ~fiber[f].interrupted
  /\ fiber' = [fiber EXCEPT ![f].pc = "draining"]
  /\ UNCHANGED <<active, entryVars, call>>

\* Mutant: waiters that found the entry stopping are forgotten.
ResumedUnlessAgain(c, f, e, x) ==
  CASE call[c].pc = "waiting" /\ call[c].entry = e /\ ~call[c].again -> IdleCall(x)
    [] call[c].pc = "interrupting" /\ call[c].target = f -> IdleCall("success")
    [] OTHER -> call[c]

\* What each caller becomes when owner f exits with x and resolves done of e;
\* a waiter that found the entry stopping calls run again only on success.
Resumed(c, f, e, x) ==
  CASE call[c].pc = "waiting" /\ call[c].entry = e ->
         IF call[c].again /\ x = "success"
         THEN [pc |-> "rerun", key |-> call[c].key]
         ELSE IdleCall(x)
    [] call[c].pc = "interrupting" /\ call[c].target = f -> IdleCall("success")
    [] OTHER -> call[c]

\* Fiber.interrupt of f returns although done of its entry stays unresolved.
Joined(c, f) ==
  IF call[c].pc = "interrupting" /\ call[c].target = f
  THEN IdleCall("success") ELSE call[c]

\* Mutant: done is resolved before the follow-up, not after the last one.
ContinueResolved(f, k, e) ==
  \E g \in FreshFibers :
    /\ pendingWake' = [pendingWake EXCEPT ![e] = FALSE]
    /\ owner' = [owner EXCEPT ![e] = g]
    /\ fiber' = [fiber EXCEPT ![f] = Exited, ![g] = Forked(k, e, FALSE)]
    /\ call' = [c \in Callers |-> Resumed(c, f, e, "success")]
    /\ UNCHANGED <<active, stopping>>

\* settle, first branch: the same entry drains again; done stays unresolved.
Continue(f, k, e) ==
  \E g \in FreshFibers :
    /\ pendingWake' = [pendingWake EXCEPT ![e] = FALSE]
    /\ owner' = [owner EXCEPT ![e] = g]
    /\ fiber' = [fiber EXCEPT ![f] = Exited, ![g] = Forked(k, e, FALSE)]
    /\ call' = [c \in Callers |-> Joined(c, f)]
    /\ UNCHANGED <<active, stopping>>

\* Mutant: the failing execution's done is left unresolved.
SucceedUnresolved(f, k, e, x) ==
  \E d \in FreshEntries, g \in FreshFibers :
    /\ active' = [active EXCEPT ![k] = d]
    /\ owner' = [owner EXCEPT ![d] = g]
    /\ pendingWake' = [pendingWake EXCEPT ![d] = FALSE]
    /\ stopping' = [stopping EXCEPT ![d] = FALSE]
    /\ fiber' = [fiber EXCEPT ![f] = Exited, ![g] = Forked(k, d, FALSE)]
    /\ call' = [c \in Callers |-> Joined(c, f)]

\* settle, wake recorded by a failing or stopping execution: a new entry.
Succeed(f, k, e, x) ==
  \E d \in FreshEntries, g \in FreshFibers :
    /\ active' = [active EXCEPT ![k] = d]
    /\ owner' = [owner EXCEPT ![d] = g]
    /\ pendingWake' = [pendingWake EXCEPT ![d] = FALSE]
    /\ stopping' = [stopping EXCEPT ![d] = FALSE]
    /\ fiber' = [fiber EXCEPT ![f] = Exited, ![g] = Forked(k, d, FALSE)]
    /\ call' = [c \in Callers |-> Resumed(c, f, e, x)]

\* settle, nothing to follow: the key becomes idle.
Release(f, k, e, x) ==
  /\ active' = [active EXCEPT ![k] = NoEntry]
  /\ fiber' = [fiber EXCEPT ![f] = Exited]
  /\ call' = [c \in Callers |-> Resumed(c, f, e, x)]
  /\ UNCHANGED entryVars

\* Mutant: a failing drain forgets the wake recorded meanwhile.
SettleForgets(f, k, e, x) ==
  IF x = "success" /\ ~stopping[e] /\ pendingWake[e]
  THEN Continue(f, k, e) ELSE Release(f, k, e, x)

Settle(f, k, e, x) ==
  \/ /\ x = "success" /\ ~stopping[e] /\ pendingWake[e]
     /\ Continue(f, k, e)
  \/ /\ ~(x = "success" /\ ~stopping[e])
     /\ pendingWake[e]
     /\ Succeed(f, k, e, x)
  \/ /\ ~pendingWake[e]
     /\ Release(f, k, e, x)

\* Mutant: only a drain can be interrupted, not the wait before it.
ExitDrainsOnly(f) ==
  \E x \in Outcomes :
    /\ fiber[f].pc = "draining"
    /\ Settle(f, fiber[f].key, fiber[f].entry, x)

\* An owner exits: interrupted before its drain, or with whatever its drain
\* ends in (a drain may interrupt itself, and may end normally although an
\* interrupt is on its way); onExit runs settle before the fiber is done.
Exit(f) ==
  \E x \in Outcomes :
    /\ \/ fiber[f].pc = "draining"
       \/ fiber[f].pc = "queued" /\ fiber[f].interrupted /\ x = "interrupted"
    /\ Settle(f, fiber[f].key, fiber[f].entry, x)

-----------------------------------------------------------------------------
(* The interface *)

MayRun(c, k) == \/ call[c].pc = "idle"
                \/ call[c].pc = "rerun" /\ call[c].key = k

Waiting(k, e, again) ==
  [pc |-> "waiting", key |-> k, entry |-> e, again |-> again]

\* run of an active key: await done, and run again if the entry is stopping.
RunJoin(c, k) ==
  /\ MayRun(c, k)
  /\ active[k] # NoEntry
  /\ call' = [call EXCEPT ![c] = Waiting(k, active[k], stopping[active[k]])]
  /\ UNCHANGED <<active, entryVars, fiber>>

\* run of an idle key: a forced drain.
RunStart(c, k) ==
  /\ MayRun(c, k)
  /\ active[k] = NoEntry
  /\ \E e \in FreshEntries, f \in FreshFibers :
       /\ StartEntry(k, e, f, TRUE)
       /\ call' = [call EXCEPT ![c] = Waiting(k, e, FALSE)]

Run(c, k) == RunJoin(c, k) \/ RunStart(c, k)

\* restore(...) leaves the wait interruptible: only the caller goes away.
Abandon(c) ==
  /\ call[c].pc = "waiting"
  /\ call' = [call EXCEPT ![c] = IdleCall("none")]
  /\ UNCHANGED <<active, entryVars, fiber>>

WakeActive(k) ==
  /\ active[k] # NoEntry
  /\ pendingWake' = [pendingWake EXCEPT ![active[k]] = TRUE]
  /\ UNCHANGED <<active, owner, stopping, fiber, call>>

WakeIdle(k) ==
  /\ active[k] = NoEntry
  /\ \E e \in FreshEntries, f \in FreshFibers : StartEntry(k, e, f, FALSE)
  /\ UNCHANGED call

Wake(k) == WakeActive(k) \/ WakeIdle(k)

\* interrupt of an idle key returns at once and changes nothing.
Interrupt(c, k) ==
  /\ call[c].pc = "idle"
  /\ active[k] # NoEntry
  /\ LET e == active[k]
         f == owner[e]
     IN /\ f # NoFiber
        /\ stopping' = [stopping EXCEPT ![e] = TRUE]
        /\ pendingWake' = [pendingWake EXCEPT ![e] = FALSE]
        /\ fiber' = [fiber EXCEPT ![f].interrupted = TRUE]
        /\ call' = [call EXCEPT ![c] =
                      [pc |-> "interrupting", key |-> k, target |-> f]]
  /\ UNCHANGED <<active, owner>>

-----------------------------------------------------------------------------

Next ==
  \/ \E c \in Callers, k \in Keys : Run(c, k) \/ Interrupt(c, k)
  \/ \E c \in Callers : Abandon(c)
  \/ \E k \in Keys : Wake(k)
  \/ \E f \in Fibers : BeginDrain(f) \/ Exit(f)

Spec == Init /\ [][Next]_vars

\* Owner fibers are scheduled, drains end (provider streams and tools do, or
\* are interrupted), and a caller that must run again does so.
Fairness ==
  /\ \A f \in Fibers : WF_vars(BeginDrain(f)) /\ WF_vars(Exit(f))
  /\ \A c \in Callers : WF_vars(\E k \in Keys : call[c].pc = "rerun" /\ Run(c, k))

FairSpec == Spec /\ Fairness
-----------------------------------------------------------------------------
(* Properties *)

\* At most one execution of a key at any time, counting one that was forked
\* and has not begun: the reason the coordinator exists ("Serializes
\* execution for each key", run-coordinator.ts:5).
OneOwner ==
  \A f, g \in Fibers :
    Live(f) /\ Live(g) /\ fiber[f].key = fiber[g].key => f = g

\* Nobody waits on a deferred that no owner will resolve: a waiter's entry is
\* the active one of its key and its owner has not exited, and an interrupt
\* waits only for a fiber of that key that has not exited.
NobodyOrphaned ==
  \A c \in Callers :
    /\ call[c].pc = "waiting" =>
         /\ active[call[c].key] = call[c].entry
         /\ owner[call[c].entry] \in Fibers
         /\ Live(owner[call[c].entry])
    /\ call[c].pc = "interrupting" => Live(call[c].target)

\* The work the coordinator knows of and no drain has begun on.
Owed(k) ==
  /\ active[k] # NoEntry
  /\ \/ pendingWake[active[k]]
     \/ \E f \in Fibers : /\ fiber[f].pc = "queued"
                          /\ fiber[f].key = k
                          /\ ~fiber[f].interrupted

Phase(k) ==
  IF \E f \in Fibers : Live(f) /\ fiber[f].key = k /\ fiber[f].interrupted
  THEN "stopping"
  ELSE IF \E f \in Fibers : fiber[f].pc = "draining" /\ fiber[f].key = k
       THEN "running" ELSE "idle"

\* The coordinator implements SerialExecution: a wake is never lost to a
\* failing drain, to an exit it races with or to interruption cleanup; only
\* an interrupt withdraws it; and what is owed is eventually begun on.
Serial == INSTANCE SerialExecution
            WITH phase <- [k \in Keys |-> Phase(k)],
                 owed  <- [k \in Keys |-> Owed(k)]
ImplementsSerial == Serial!Safety
EventuallySerial == Serial!Spec

\* A run that returns success from an execution nobody stopped covers every
\* wake recorded before it returned: nothing of that key is owed any more.
JoinCoversWakes ==
  [][\A c \in Callers, k \in Keys :
       /\ call[c].pc = "waiting" /\ call[c].key = k
       /\ call'[c] = IdleCall("success")
       /\ ~stopping[call[c].entry]
       => ~Owed(k)']_vars

\* When an interrupt returns, cleanup is over and nothing of the key drains:
\* a wake recorded during cleanup is only queued ("Stops active execution and
\* waits for its cleanup", run-coordinator.ts:13).
InterruptWaitsForCleanup ==
  [][\A c \in Callers :
       call[c].pc = "interrupting" /\ call'[c].pc # "interrupting"
       => \A f \in Fibers :
            fiber'[f].pc = "draining" => fiber'[f].key # call[c].key]_vars

\* An interrupt returns, and a caller waiting on a key that eventually stops
\* being woken and interrupted returns too (a key woken forever keeps its
\* first run waiting, one interrupted forever may send it round run again).
CallersReturn ==
  \A c \in Callers :
    /\ (call[c].pc = "interrupting") ~> (call[c].pc # "interrupting")
    /\ \/ []<>(\E k \in Keys : active[k] # NoEntry /\ pendingWake[active[k]])
       \/ []<>(\E d \in Callers : call[d].pc = "interrupting")
       \/ (call[c].pc \in {"waiting", "rerun"}) ~> (call[c].pc = "idle")
=============================================================================
