-------------------------- MODULE SessionRunProofs --------------------------
(***************************************************************************)
(* Theorems about the runs of a session: first those of RunCoordinator,    *)
(* for any keys, callers, entries and fibers, which say who may run it;    *)
(* then those of ProviderTurn, for any calls, which say what a run leaves. *)
(***************************************************************************)
EXTENDS RunCoordinator, ProviderTurn, FiniteSetTheorems, SequenceTheorems, TLAPS

(***************************************************************************)
(* The inductive invariant.  OneOwner alone is not inductive: settle frees *)
(* or replaces whatever active[key] holds, so it preserves OneOwner only   *)
(* when the exiting fiber is the owner of the entry the map holds.  Owned  *)
(* says that of every live fiber, Staffed is its converse, and Flagged     *)
(* ties entry.stopping to the interruption of the owner.                   *)
(***************************************************************************)
Owned ==
  \A f \in Fibers :
    Live(f) => /\ active[fiber[f].key] = fiber[f].entry
               /\ owner[fiber[f].entry] = f

Staffed ==
  \A k \in Keys :
    active[k] # NoEntry =>
      /\ owner[active[k]] \in Fibers
      /\ Live(owner[active[k]])
      /\ fiber[owner[active[k]]].key = k
      /\ fiber[owner[active[k]]].entry = active[k]

Flagged ==
  \A f \in Fibers : Live(f) => (stopping[fiber[f].entry] <=> fiber[f].interrupted)

Attended ==
  \A c \in Callers :
    /\ call[c].pc = "waiting" => active[call[c].key] = call[c].entry
    /\ call[c].pc = "interrupting" =>
         /\ Live(call[c].target)
         /\ fiber[call[c].target].key = call[c].key
         /\ fiber[call[c].target].interrupted

IInv == TypeOK /\ Owned /\ Staffed /\ Flagged /\ Attended
-----------------------------------------------------------------------------
LEMMA RunJoinInv ==
  ASSUME IInv,
         NEW c \in Callers,
         NEW k \in Keys,
         RunJoin(c, k)
  PROVE  IInv'
<1> USE PoolAssumption
    DEF IInv, TypeOK, FiberStates, CallStates, Exited, Outcomes,
        RunJoin, MayRun, Waiting, entryVars, Live
<1>1. TypeOK'
  BY PoolAssumption
<1>2. Owned'
  BY DEF Owned
<1>3. Staffed'
  BY DEF Owned, Staffed
<1>4. Flagged'
  BY DEF Owned, Staffed, Flagged
<1>5. Attended'
  BY DEF Owned, Staffed, Attended
<1> QED BY <1>1, <1>2, <1>3, <1>4, <1>5

LEMMA RunStartInv ==
  ASSUME IInv,
         NEW c \in Callers,
         NEW k \in Keys,
         RunStart(c, k)
  PROVE  IInv'
<1> USE PoolAssumption
    DEF IInv, TypeOK, FiberStates, CallStates, Exited, Outcomes,
        RunStart, MayRun, Waiting, StartEntry, Forked, FreshEntries, FreshFibers, entryVars, Live
<1>1. TypeOK'
  BY PoolAssumption
<1>2. Owned'
  BY DEF Owned
<1>3. Staffed'
  BY DEF Owned, Staffed
<1>4. Flagged'
  BY DEF Owned, Staffed, Flagged
<1>5. Attended'
  BY DEF Owned, Staffed, Attended
<1> QED BY <1>1, <1>2, <1>3, <1>4, <1>5

LEMMA AbandonInv ==
  ASSUME IInv,
         NEW c \in Callers,
         Abandon(c)
  PROVE  IInv'
<1> USE PoolAssumption
    DEF IInv, TypeOK, FiberStates, CallStates, Exited, Outcomes,
        Abandon, IdleCall, entryVars, Live
<1>1. TypeOK'
  BY PoolAssumption
<1>2. Owned'
  BY DEF Owned
<1>3. Staffed'
  BY DEF Owned, Staffed
<1>4. Flagged'
  BY DEF Owned, Staffed, Flagged
<1>5. Attended'
  BY DEF Owned, Staffed, Attended
<1> QED BY <1>1, <1>2, <1>3, <1>4, <1>5

LEMMA WakeActiveInv ==
  ASSUME IInv,
         NEW k \in Keys,
         WakeActive(k)
  PROVE  IInv'
<1> USE PoolAssumption
    DEF IInv, TypeOK, FiberStates, CallStates, Exited, Outcomes,
        WakeActive, entryVars, Live
<1>1. TypeOK'
  BY PoolAssumption
<1>2. Owned'
  BY DEF Owned
<1>3. Staffed'
  BY DEF Owned, Staffed
<1>4. Flagged'
  BY DEF Owned, Staffed, Flagged
<1>5. Attended'
  BY DEF Owned, Staffed, Attended
<1> QED BY <1>1, <1>2, <1>3, <1>4, <1>5

LEMMA WakeIdleInv ==
  ASSUME IInv,
         NEW k \in Keys,
         WakeIdle(k)
  PROVE  IInv'
<1> USE PoolAssumption
    DEF IInv, TypeOK, FiberStates, CallStates, Exited, Outcomes,
        WakeIdle, StartEntry, Forked, FreshEntries, FreshFibers, entryVars, Live
<1>1. TypeOK'
  BY PoolAssumption
<1>2. Owned'
  BY DEF Owned
<1>3. Staffed'
  BY DEF Owned, Staffed
<1>4. Flagged'
  BY DEF Owned, Staffed, Flagged
<1>5. Attended'
  BY DEF Owned, Staffed, Attended
<1> QED BY <1>1, <1>2, <1>3, <1>4, <1>5

LEMMA InterruptInv ==
  ASSUME IInv,
         NEW c \in Callers,
         NEW k \in Keys,
         Interrupt(c, k)
  PROVE  IInv'
<1> USE PoolAssumption
    DEF IInv, TypeOK, FiberStates, CallStates, Exited, Outcomes,
        Interrupt, entryVars, Live
<1>1. TypeOK'
  <2>1. fiber[owner[active[k]]] \in [pc: {"queued", "draining"}, key: Keys,
                  entry: Entries, force: BOOLEAN, interrupted: BOOLEAN]
    BY DEF Staffed
  <2>2. fiber' \in [Fibers -> FiberStates]
    BY <2>1
  <2>3. call' \in [Callers -> CallStates]
    BY PoolAssumption
  <2> QED BY <2>2, <2>3
<1>2. Owned'
  BY DEF Owned
<1>3. Staffed'
  BY DEF Owned, Staffed
<1>4. Flagged'
  BY DEF Owned, Staffed, Flagged
<1>5. Attended'
  BY DEF Owned, Staffed, Attended
<1> QED BY <1>1, <1>2, <1>3, <1>4, <1>5

LEMMA BeginDrainInv ==
  ASSUME IInv,
         NEW f \in Fibers,
         BeginDrain(f)
  PROVE  IInv'
<1> USE PoolAssumption
    DEF IInv, TypeOK, FiberStates, CallStates, Exited, Outcomes,
        BeginDrain, entryVars, Live
<1>1. TypeOK'
  BY PoolAssumption
<1>2. Owned'
  BY DEF Owned
<1>3. Staffed'
  BY DEF Owned, Staffed
<1>4. Flagged'
  BY DEF Owned, Staffed, Flagged
<1>5. Attended'
  BY DEF Owned, Staffed, Attended
<1> QED BY <1>1, <1>2, <1>3, <1>4, <1>5

LEMMA ContinueInv ==
  ASSUME IInv,
         NEW f \in Fibers,
         Live(f),
         ~stopping[fiber[f].entry],
         Continue(f, fiber[f].key, fiber[f].entry)
  PROVE  IInv'
<1> USE PoolAssumption
    DEF IInv, TypeOK, FiberStates, CallStates, Exited, Outcomes,
        Continue, Joined, IdleCall, Forked, FreshFibers, entryVars, Live
<1>1. TypeOK'
  <2>1. fiber[f].key \in Keys /\ fiber[f].entry \in Entries
    BY PoolAssumption
  <2>2. call' \in [Callers -> CallStates]
    BY PoolAssumption
  <2>3. fiber' \in [Fibers -> FiberStates]
    BY <2>1
  <2>4. /\ owner' \in [Entries -> Fibers \cup {NoFiber}]
        /\ pendingWake' \in [Entries -> BOOLEAN]
    BY <2>1
  <2> QED BY <2>2, <2>3, <2>4
<1>2. Owned'
  BY DEF Owned
<1>3. Staffed'
  BY DEF Owned, Staffed
<1>4. Flagged'
  BY DEF Owned, Staffed, Flagged
<1>5. Attended'
  BY DEF Owned, Staffed, Attended
<1> QED BY <1>1, <1>2, <1>3, <1>4, <1>5

LEMMA SucceedInv ==
  ASSUME IInv,
         NEW f \in Fibers,
         NEW x \in Outcomes,
         Live(f),
         Succeed(f, fiber[f].key, fiber[f].entry, x)
  PROVE  IInv'
<1> USE PoolAssumption
    DEF IInv, TypeOK, FiberStates, CallStates, Exited, Outcomes,
        Succeed, Resumed, IdleCall, Forked, FreshEntries, FreshFibers, entryVars, Live
<1>1. TypeOK'
  BY PoolAssumption
<1>2. Owned'
  BY DEF Owned
<1>3. Staffed'
  BY DEF Owned, Staffed
<1>4. Flagged'
  BY DEF Owned, Staffed, Flagged
<1>5. Attended'
  BY DEF Owned, Staffed, Attended
<1> QED BY <1>1, <1>2, <1>3, <1>4, <1>5

LEMMA ReleaseInv ==
  ASSUME IInv,
         NEW f \in Fibers,
         NEW x \in Outcomes,
         Live(f),
         Release(f, fiber[f].key, fiber[f].entry, x)
  PROVE  IInv'
<1> USE PoolAssumption
    DEF IInv, TypeOK, FiberStates, CallStates, Exited, Outcomes,
        Release, Resumed, IdleCall, entryVars, Live
<1>1. TypeOK'
  BY PoolAssumption
<1>2. Owned'
  BY DEF Owned
<1>3. Staffed'
  BY DEF Owned, Staffed
<1>4. Flagged'
  BY DEF Owned, Staffed, Flagged
<1>5. Attended'
  BY DEF Owned, Staffed, Attended
<1> QED BY <1>1, <1>2, <1>3, <1>4, <1>5

LEMMA InitInv == ASSUME Init PROVE IInv
BY PoolAssumption DEF Init, IInv, TypeOK, Owned, Staffed, Flagged, Attended,
   FiberStates, CallStates, Exited, IdleCall, Live

LEMMA NextInv == ASSUME IInv, Next PROVE IInv'
<1>1. ASSUME NEW c \in Callers, NEW k \in Keys, Run(c, k) \/ Interrupt(c, k)
      PROVE  IInv'
  BY <1>1, RunJoinInv, RunStartInv, InterruptInv DEF Run
<1>2. ASSUME NEW c \in Callers, Abandon(c) PROVE IInv'
  BY <1>2, AbandonInv
<1>3. ASSUME NEW k \in Keys, Wake(k) PROVE IInv'
  BY <1>3, WakeActiveInv, WakeIdleInv DEF Wake
<1>4. ASSUME NEW f \in Fibers, BeginDrain(f) PROVE IInv'
  BY <1>4, BeginDrainInv
<1>5. ASSUME NEW f \in Fibers, Exit(f) PROVE IInv'
  <2>1. PICK x \in Outcomes :
          Live(f) /\ Settle(f, fiber[f].key, fiber[f].entry, x)
    BY <1>5 DEF Exit, Live
  <2> QED BY <2>1, ContinueInv, SucceedInv, ReleaseInv DEF Settle
<1> QED BY <1>1, <1>2, <1>3, <1>4, <1>5 DEF Next

LEMMA StutterInv == ASSUME IInv, UNCHANGED vars PROVE IInv'
BY DEF IInv, TypeOK, Owned, Staffed, Flagged, Attended, Live, vars, entryVars

\* The coordinator's data keep their types.
THEOREM TypeCorrect == Spec => []TypeOK
<1>1. Init => IInv BY InitInv
<1>2. IInv /\ [Next]_vars => IInv' BY NextInv, StutterInv
<1>3. IInv => TypeOK BY DEF IInv
<1> QED BY <1>1, <1>2, <1>3, PTL DEF Spec

\* The inductive invariant holds in every reachable state.
THEOREM Inductive == Spec => []IInv
<1>1. Init => IInv BY InitInv
<1>2. IInv /\ [Next]_vars => IInv' BY NextInv, StutterInv
<1> QED BY <1>1, <1>2, PTL DEF Spec

\* No key ever has two owner fibers: two live fibers of one key own the same
\* entry, the active one, and an entry has one owner.
THEOREM SerialPerKey == Spec => []OneOwner
<1>1. IInv => OneOwner BY DEF IInv, Owned, OneOwner
<1> QED BY <1>1, Inductive, PTL

\* No run and no interrupt ever waits for an entry or a fiber that is gone.
THEOREM NoOrphans == Spec => []NobodyOrphaned
<1>1. IInv => NobodyOrphaned
  <2> SUFFICES ASSUME IInv, NEW c \in Callers
               PROVE  /\ call[c].pc = "waiting" =>
                           /\ active[call[c].key] = call[c].entry
                           /\ owner[call[c].entry] \in Fibers
                           /\ Live(owner[call[c].entry])
                      /\ call[c].pc = "interrupting" => Live(call[c].target)
    BY DEF NobodyOrphaned
  <2>1. call[c].pc = "waiting" => call[c].key \in Keys /\ call[c].entry \in Entries
    BY DEF IInv, TypeOK, CallStates
  <2> QED BY <2>1, PoolAssumption DEF IInv, Staffed, Attended
<1> QED BY <1>1, Inductive, PTL

-----------------------------------------------------------------------------
(***************************************************************************)
(* RunCoordinator implements SerialExecution.  The mapping (Phase, Owed)   *)
(* quantifies over fibers; under the invariant it is a function of the     *)
(* key's entry and its owner, PhaseOf and OwedOf, and each action is       *)
(* followed through those.                                                 *)
(***************************************************************************)

PhaseOf(k) ==
  IF active[k] = NoEntry THEN "idle"
  ELSE IF fiber[owner[active[k]]].interrupted THEN "stopping"
  ELSE IF fiber[owner[active[k]]].pc = "draining" THEN "running" ELSE "idle"

OwedOf(k) ==
  /\ active[k] # NoEntry
  /\ \/ pendingWake[active[k]]
     \/ /\ fiber[owner[active[k]]].pc = "queued"
        /\ ~fiber[owner[active[k]]].interrupted

LEMMA Mapping ==
  ASSUME IInv, NEW k \in Keys
  PROVE  Phase(k) = PhaseOf(k) /\ Owed(k) = OwedOf(k)
<1> USE PoolAssumption DEF IInv, Live
<1>1. ASSUME NEW f \in Fibers, Live(f), fiber[f].key = k
      PROVE  active[k] # NoEntry /\ owner[active[k]] = f
  BY <1>1 DEF Owned, TypeOK, FiberStates, Exited
<1>2. CASE active[k] = NoEntry
  <2>1. \A f \in Fibers : Live(f) => fiber[f].key # k
    BY <1>1, <1>2
  <2> QED BY <1>2, <2>1 DEF Phase, PhaseOf, Owed, OwedOf
<1>3. CASE active[k] # NoEntry
  <2> DEFINE g == owner[active[k]]
  <2>1. g \in Fibers /\ Live(g) /\ fiber[g].key = k
    BY <1>3 DEF Staffed
  <2>2. fiber[g].interrupted \in BOOLEAN /\ fiber[g].pc \in {"queued", "draining"}
    BY <2>1 DEF TypeOK, FiberStates, Exited
  <2>3. \A f \in Fibers : Live(f) /\ fiber[f].key = k => f = g
    BY <1>1
  <2> QED BY <1>3, <2>1, <2>2, <2>3 DEF Phase, PhaseOf, Owed, OwedOf
<1> QED BY <1>2, <1>3

Mapped == \A k \in Keys : Phase(k) = PhaseOf(k) /\ Owed(k) = OwedOf(k)

LEMMA MappedBoth == IInv /\ IInv' => Mapped /\ Mapped'
<1>1. IInv => Mapped
  BY Mapping DEF Mapped
<1>2. IInv' => Mapped'
  BY <1>1, PTL
<1> QED BY <1>1, <1>2

\* How a step that touches only key k looks through the mapping.
LEMMA Focus ==
  ASSUME IInv, IInv', NEW k \in Keys, NEW p, NEW o,
         PhaseOf(k)' = p, OwedOf(k)' = o,
         \A j \in Keys \ {k} : PhaseOf(j)' = PhaseOf(j) /\ OwedOf(j)' = OwedOf(j)
  PROVE  /\ [j \in Keys |-> Phase(j)]' = [[j \in Keys |-> Phase(j)] EXCEPT ![k] = p]
         /\ [j \in Keys |-> Owed(j)]' = [[j \in Keys |-> Owed(j)] EXCEPT ![k] = o]
<1>1. \A j \in Keys : Phase(j)' = PhaseOf(j)' /\ Owed(j)' = OwedOf(j)'
  BY MappedBoth DEF Mapped
<1>2. \A j \in Keys : Phase(j) = PhaseOf(j) /\ Owed(j) = OwedOf(j)
  BY MappedBoth DEF Mapped
<1> QED BY <1>1, <1>2

\* A step of key k that leaves its phase alone and makes it owe work.
LEMMA Requested ==
  ASSUME IInv, IInv', NEW k \in Keys, PhaseOf(k)' = PhaseOf(k), OwedOf(k)' = TRUE,
         \A j \in Keys \ {k} : PhaseOf(j)' = PhaseOf(j) /\ OwedOf(j)' = OwedOf(j)
  PROVE  Serial!Request(k)
<1>1. [j \in Keys |-> Owed(j)]' = [[j \in Keys |-> Owed(j)] EXCEPT ![k] = TRUE]
  BY Focus
<1>2. \A j \in Keys : Phase(j)' = Phase(j)
  BY MappedBoth DEF Mapped
<1> QED BY <1>1, <1>2 DEF Serial!Request

LEMMA Starts ==
  ASSUME IInv, IInv', NEW k \in Keys, active[k] = NoEntry,
         NEW e \in FreshEntries, NEW f \in FreshFibers, NEW b \in BOOLEAN,
         StartEntry(k, e, f, b)
  PROVE  Serial!Request(k)
<1> USE PoolAssumption DEF IInv, TypeOK, FreshEntries, FreshFibers, StartEntry, Forked
<1>1. PhaseOf(k)' = PhaseOf(k) /\ OwedOf(k)' = TRUE
  BY DEF PhaseOf, OwedOf
<1>2. \A j \in Keys \ {k} : PhaseOf(j)' = PhaseOf(j) /\ OwedOf(j)' = OwedOf(j)
  BY DEF PhaseOf, OwedOf, Staffed, Live
<1> QED BY <1>1, <1>2, Requested

LEMMA WakeActiveSerial ==
  ASSUME IInv, IInv', NEW k \in Keys, WakeActive(k)
  PROVE  Serial!Request(k)
<1> USE PoolAssumption DEF IInv, TypeOK, WakeActive
<1>1. PhaseOf(k)' = PhaseOf(k) /\ OwedOf(k)' = TRUE
  BY DEF PhaseOf, OwedOf
<1>2. \A j \in Keys \ {k} : PhaseOf(j)' = PhaseOf(j) /\ OwedOf(j)' = OwedOf(j)
  BY DEF PhaseOf, OwedOf, Staffed
<1> QED BY <1>1, <1>2, Requested

LEMMA InterruptSerial ==
  ASSUME IInv, IInv', NEW c \in Callers, NEW k \in Keys, Interrupt(c, k)
  PROVE  Serial!Stop(k)
<1> USE PoolAssumption DEF IInv, TypeOK, Interrupt
<1> DEFINE g == owner[active[k]]
<1>1. /\ g \in Fibers /\ fiber[g].key = k /\ fiber[g].entry = active[k]
      /\ fiber[g].pc \in {"queued", "draining"}
      /\ fiber[g] \in [pc: {"queued", "draining"}, key: Keys, entry: Entries,
                       force: BOOLEAN, interrupted: BOOLEAN]
  BY DEF Staffed, Live, FiberStates, Exited
<1>2. PhaseOf(k)' = "stopping" /\ OwedOf(k)' = FALSE
  BY <1>1 DEF PhaseOf, OwedOf
<1>3. \A j \in Keys \ {k} : PhaseOf(j)' = PhaseOf(j) /\ OwedOf(j)' = OwedOf(j)
  BY <1>1 DEF PhaseOf, OwedOf, Staffed
<1>4. Phase(k) # "idle" \/ Owed(k)
  <2>1. PhaseOf(k) # "idle" \/ OwedOf(k)
    BY <1>1 DEF PhaseOf, OwedOf
  <2> QED BY <2>1, MappedBoth DEF Mapped
<1> QED BY <1>2, <1>3, <1>4, Focus DEF Serial!Stop

LEMMA BeginSerial ==
  ASSUME IInv, IInv', NEW f \in Fibers, BeginDrain(f)
  PROVE  Serial!Begin(fiber[f].key)
<1> USE PoolAssumption DEF IInv, TypeOK, BeginDrain
<1> DEFINE k == fiber[f].key
<1>1. /\ k \in Keys /\ active[k] = fiber[f].entry /\ active[k] # NoEntry
      /\ owner[active[k]] = f
      /\ fiber[f] \in [pc: {"queued", "draining"}, key: Keys, entry: Entries,
                       force: BOOLEAN, interrupted: BOOLEAN]
  BY DEF Owned, Live, FiberStates, Exited
<1>2. PhaseOf(k) = "idle" /\ OwedOf(k)
  BY <1>1 DEF PhaseOf, OwedOf
<1>3. PhaseOf(k)' = "running" /\ OwedOf(k)' = pendingWake[active[k]]
  BY <1>1 DEF PhaseOf, OwedOf, entryVars
<1>4. \A j \in Keys \ {k} : PhaseOf(j)' = PhaseOf(j) /\ OwedOf(j)' = OwedOf(j)
  BY <1>1 DEF PhaseOf, OwedOf, Staffed, entryVars
<1>5. Phase(k) = "idle" /\ Owed(k)
  BY <1>1, <1>2, MappedBoth DEF Mapped
<1>6. pendingWake[active[k]] \in BOOLEAN
  BY <1>1
<1> HIDE DEF k
<1> QED BY <1>1, <1>3, <1>4, <1>5, <1>6, Focus DEF Serial!Begin, k
\* A step of key k that ends its phase and leaves alone what it owes.
LEMMA Ended ==
  ASSUME IInv, IInv', NEW k \in Keys, PhaseOf(k) # "idle", PhaseOf(k)' = "idle",
         OwedOf(k)' = OwedOf(k),
         \A j \in Keys \ {k} : PhaseOf(j)' = PhaseOf(j) /\ OwedOf(j)' = OwedOf(j)
  PROVE  Serial!End(k)
<1>1. [j \in Keys |-> Phase(j)]' = [[j \in Keys |-> Phase(j)] EXCEPT ![k] = "idle"]
  BY Focus
<1>2. Phase(k) # "idle" /\ \A j \in Keys : Owed(j)' = Owed(j)
  BY MappedBoth DEF Mapped
<1> QED BY <1>1, <1>2 DEF Serial!End

\* What an exiting owner is: its drain ran, or an interrupt caught it queued.
MayExit(f, k, e, x) ==
  /\ f \in Fibers /\ x \in Outcomes
  /\ fiber[f].key = k /\ fiber[f].entry = e
  /\ \/ fiber[f].pc = "draining"
     \/ fiber[f].pc = "queued" /\ fiber[f].interrupted /\ x = "interrupted"

LEMMA ContinueSerial ==
  ASSUME IInv, IInv', NEW f, NEW k, NEW e, NEW x, MayExit(f, k, e, x),
         x = "success",
         ~stopping[e],
         pendingWake[e],
         Continue(f, k, e)
  PROVE  Serial!End(k)
<1> USE PoolAssumption DEF IInv, TypeOK, Live, FreshFibers, Forked, MayExit, Continue
<1>1. /\ k \in Keys /\ e \in Entries /\ active[k] = e /\ owner[e] = f
      /\ fiber[f].pc \in {"queued", "draining"}
  BY DEF Owned, FiberStates, Exited
<1>2. PhaseOf(k) # "idle" /\ OwedOf(k) = TRUE
  BY <1>1 DEF PhaseOf, OwedOf
<1>3. PhaseOf(k)' = "idle" /\ OwedOf(k)' = TRUE
  BY <1>1 DEF PhaseOf, OwedOf
<1>4. \A j \in Keys \ {k} : PhaseOf(j)' = PhaseOf(j) /\ OwedOf(j)' = OwedOf(j)
  BY <1>1 DEF PhaseOf, OwedOf, Staffed
<1> QED BY <1>1, <1>2, <1>3, <1>4, Ended

LEMMA SucceedSerial ==
  ASSUME IInv, IInv', NEW f, NEW k, NEW e, NEW x, MayExit(f, k, e, x),
         pendingWake[e],
         Succeed(f, k, e, x)
  PROVE  Serial!End(k)
<1> USE PoolAssumption DEF IInv, TypeOK, Live, FreshFibers, Forked, MayExit, Succeed, FreshEntries
<1>1. /\ k \in Keys /\ e \in Entries /\ active[k] = e /\ owner[e] = f
      /\ fiber[f].pc \in {"queued", "draining"}
  BY DEF Owned, FiberStates, Exited
<1>2. PhaseOf(k) # "idle" /\ OwedOf(k) = TRUE
  BY <1>1 DEF PhaseOf, OwedOf
<1>3. PhaseOf(k)' = "idle" /\ OwedOf(k)' = TRUE
  BY <1>1 DEF PhaseOf, OwedOf
<1>4. \A j \in Keys \ {k} : PhaseOf(j)' = PhaseOf(j) /\ OwedOf(j)' = OwedOf(j)
  BY <1>1 DEF PhaseOf, OwedOf, Staffed
<1> QED BY <1>1, <1>2, <1>3, <1>4, Ended

LEMMA ReleaseSerial ==
  ASSUME IInv, IInv', NEW f, NEW k, NEW e, NEW x, MayExit(f, k, e, x),
         ~pendingWake[e],
         Release(f, k, e, x)
  PROVE  Serial!End(k)
<1> USE PoolAssumption DEF IInv, TypeOK, Live, FreshFibers, Forked, MayExit, Release, entryVars
<1>1. /\ k \in Keys /\ e \in Entries /\ active[k] = e /\ owner[e] = f
      /\ fiber[f].pc \in {"queued", "draining"}
  BY DEF Owned, FiberStates, Exited
<1>2. PhaseOf(k) # "idle" /\ OwedOf(k) = FALSE
  BY <1>1 DEF PhaseOf, OwedOf
<1>3. PhaseOf(k)' = "idle" /\ OwedOf(k)' = FALSE
  BY <1>1 DEF PhaseOf, OwedOf
<1>4. \A j \in Keys \ {k} : PhaseOf(j)' = PhaseOf(j) /\ OwedOf(j)' = OwedOf(j)
  BY <1>1 DEF PhaseOf, OwedOf, Staffed
<1> QED BY <1>1, <1>2, <1>3, <1>4, Ended

LEMMA ExitSerial ==
  ASSUME IInv, IInv', NEW f \in Fibers, Exit(f)
  PROVE  \E k \in Keys : Serial!End(k)
<1>1. PICK x \in Outcomes :
        /\ MayExit(f, fiber[f].key, fiber[f].entry, x)
        /\ Settle(f, fiber[f].key, fiber[f].entry, x)
  BY DEF Exit, MayExit
<1>2. fiber[f].key \in Keys
  BY <1>1 DEF MayExit, IInv, TypeOK, FiberStates, Exited
<1> QED BY <1>1, <1>2, ContinueSerial, SucceedSerial, ReleaseSerial DEF Settle

\* Steps that touch only the callers leave the mapping alone.
LEMMA CallsOnly ==
  ASSUME UNCHANGED <<active, entryVars, fiber>>
  PROVE  UNCHANGED Serial!vars
BY DEF Serial!vars, Phase, Owed, Live, entryVars

LEMMA StepSerial ==
  ASSUME IInv, IInv', Next PROVE Serial!Next \/ UNCHANGED Serial!vars
<1>1. ASSUME NEW c \in Callers, NEW k \in Keys, RunStart(c, k) PROVE Serial!Request(k)
  BY <1>1, Starts DEF RunStart
<1>2. ASSUME NEW k \in Keys, WakeIdle(k) PROVE Serial!Request(k)
  BY <1>2, Starts DEF WakeIdle
<1>3. ASSUME NEW f \in Fibers, BeginDrain(f) PROVE \E k \in Keys : Serial!Begin(k)
  <2>1. fiber[f].key \in Keys
    BY <1>3 DEF BeginDrain, IInv, TypeOK, FiberStates, Exited
  <2> QED BY <1>3, <2>1, BeginSerial
<1>4. ASSUME NEW c \in Callers, NEW k \in Keys, RunJoin(c, k) \/ Abandon(c)
      PROVE  UNCHANGED Serial!vars
  BY <1>4, CallsOnly DEF RunJoin, Abandon
<1>5. ASSUME NEW c \in Callers, Abandon(c) PROVE UNCHANGED Serial!vars
  BY <1>5, CallsOnly DEF Abandon
<1> QED
  BY <1>1, <1>2, <1>3, <1>4, <1>5, WakeActiveSerial, InterruptSerial, ExitSerial
  DEF Next, Run, Wake, Serial!Next

\* The coordinator implements the serial executor: whatever the callers do and
\* however drains end, recorded work is withdrawn by nothing but an interrupt.
THEOREM Implements == Spec => ImplementsSerial
<1>1. Init => Serial!Init
  BY DEF Init, Serial!Init, Phase, Owed, Live, Exited
<1>2. IInv /\ IInv' /\ [Next]_vars => [Serial!Next]_(Serial!vars)
  <2>1. ASSUME UNCHANGED vars PROVE UNCHANGED Serial!vars
    BY <2>1, CallsOnly DEF vars, entryVars
  <2> QED BY <2>1, StepSerial
<1> QED BY <1>1, <1>2, Inductive, PTL DEF Spec, ImplementsSerial, Serial!Safety

-----------------------------------------------------------------------------

\* The calls an exiting owner f resumes.
LEMMA ExitsResume ==
  ASSUME IInv, NEW f \in Fibers, Exit(f), NEW c \in Callers,
         call'[c] # call[c]
  PROVE  \/ call[c].pc = "interrupting" /\ call[c].target = f
         \/ call[c].pc = "waiting" /\ call[c].entry = fiber[f].entry
BY DEF Exit, Settle, Continue, Succeed, Release, Joined, Resumed

\* A wait ends when its caller abandons it or an owner exits.
LEMMA WaitEnds ==
  ASSUME IInv, [Next]_vars, NEW c \in Callers,
         call[c].pc = "waiting", call'[c] # call[c]
  PROVE  Abandon(c) \/ \E f \in Fibers : Exit(f)
<1>1. ASSUME NEW d \in Callers, NEW k \in Keys, Run(d, k) \/ Interrupt(d, k) PROVE FALSE
  BY <1>1 DEF Run, RunJoin, RunStart, MayRun, Interrupt, IInv, TypeOK
<1>2. ASSUME NEW d \in Callers, d # c, Abandon(d) PROVE FALSE
  BY <1>2 DEF Abandon, IInv, TypeOK
<1>3. ASSUME NEW k \in Keys, Wake(k) PROVE FALSE
  BY <1>3 DEF Wake, WakeActive, WakeIdle
<1>4. ASSUME NEW f \in Fibers, BeginDrain(f) PROVE FALSE
  BY <1>4 DEF BeginDrain
<1> QED BY <1>1, <1>2, <1>3, <1>4 DEF Next, vars

\* No drain begins in the step in which an owner exits.
LEMMA ExitsBeginNothing ==
  ASSUME IInv, NEW f \in Fibers, Exit(f), NEW g \in Fibers,
         fiber'[g].pc = "draining"
  PROVE  g # f /\ fiber'[g] = fiber[g]
BY DEF Exit, Settle, Continue, Succeed, Release, IInv, TypeOK, FreshFibers,
       Live, Forked, Exited

\* An interrupt returns only when nothing of its key drains any more.
THEOREM InterruptTheorem == Spec => InterruptWaitsForCleanup
<1>1. ASSUME IInv, [Next]_vars, NEW c \in Callers,
             call[c].pc = "interrupting", call'[c].pc # "interrupting",
             NEW g \in Fibers, fiber'[g].pc = "draining"
      PROVE  fiber'[g].key # call[c].key
  <2>1. PICK f \in Fibers : Exit(f)
    BY <1>1 DEF Next, vars, entryVars, Run, RunJoin, RunStart, MayRun, Interrupt,
                Abandon, Wake, WakeActive, WakeIdle, BeginDrain, IInv, TypeOK
  <2>2. call[c].target = f /\ fiber[f].key = call[c].key /\ Live(f)
    BY <1>1, <2>1, ExitsResume DEF IInv, Attended
  <2>3. g # f /\ fiber'[g] = fiber[g]
    BY <1>1, <2>1, ExitsBeginNothing
  <2>4. OneOwner
    BY <1>1 DEF IInv, Owned, OneOwner
  <2> QED BY <1>1, <2>2, <2>3, <2>4 DEF OneOwner, Live
<1>2. IInv /\ [Next]_vars =>
        \A c \in Callers :
          call[c].pc = "interrupting" /\ call'[c].pc # "interrupting"
          => \A f \in Fibers :
               fiber'[f].pc = "draining" => fiber'[f].key # call[c].key
  BY <1>1
<1> QED BY <1>2, Inductive, PTL DEF Spec, InterruptWaitsForCleanup

\* A run that joined an execution nobody stopped and returns success leaves no
\* recorded work behind.
THEOREM JoinTheorem == Spec => JoinCoversWakes
<1>1. ASSUME IInv, [Next]_vars, NEW c \in Callers, NEW k \in Keys,
             call[c].pc = "waiting", call[c].key = k,
             call'[c] = IdleCall("success"), ~stopping[call[c].entry]
      PROVE  ~Owed(k)'
  <2>1. call[c] # call'[c] /\ ~Abandon(c)
    BY <1>1 DEF IdleCall, Abandon, IInv, TypeOK
  <2>2. PICK f \in Fibers : Exit(f)
    BY <1>1, <2>1, WaitEnds
  <2>3. call[c].entry = fiber[f].entry /\ active[k] = fiber[f].entry
    BY <1>1, <2>1, <2>2, ExitsResume DEF IInv, Attended
  <2>4. Live(f) /\ fiber[f].key = k
    <3>1. Live(f) /\ fiber[f].key \in Keys /\ fiber[f].entry \in Entries
      BY <1>1, <2>2 DEF Exit, Live, IInv, TypeOK, FiberStates, Exited
    <3>2. owner[fiber[f].entry] = f /\ active[k] # NoEntry
      BY <1>1, <2>3, <3>1, PoolAssumption DEF IInv, Owned
    <3> QED BY <1>1, <2>3, <3>1, <3>2 DEF IInv, Staffed
  <2>5. active'[k] = NoEntry
    <3>1. PICK x \in Outcomes : Settle(f, k, fiber[f].entry, x)
      BY <2>2, <2>4 DEF Exit
    <3>2. ~Continue(f, k, fiber[f].entry)
      BY <1>1, <2>1 DEF Continue, Joined
    <3>3. ASSUME Succeed(f, k, fiber[f].entry, x) PROVE x = "success"
      <4>1. call'[c] = Resumed(c, f, fiber[f].entry, x)
        BY <3>3 DEF Succeed
      <4> QED BY <1>1, <2>3, <4>1 DEF Resumed, IdleCall
    <3>4. Release(f, k, fiber[f].entry, x)
      BY <1>1, <2>3, <3>1, <3>2, <3>3 DEF Settle
    <3> QED BY <1>1, <3>4 DEF Release, IInv, TypeOK
  <2> QED BY <2>5 DEF Owed
<1>2. IInv /\ [Next]_vars =>
        \A c \in Callers, k \in Keys :
          /\ call[c].pc = "waiting" /\ call[c].key = k
          /\ call'[c] = IdleCall("success")
          /\ ~stopping[call[c].entry]
          => ~Owed(k)'
  BY <1>1
<1> QED BY <1>2, Inductive, PTL DEF Spec, JoinCoversWakes

-----------------------------------------------------------------------------
(***************************************************************************)
(* ProviderTurn.  The publisher keeps flags of its own beside the          *)
(* projection, and between the two lies what it is about to publish.  The  *)
(* inductive invariant says of the queue that each event is due, and none  *)
(* comes twice (Queue); of a call that its flags and its projection agree  *)
(* up to an interrupt (Agrees), and that whoever has run it has settled it *)
(* or broken the turn (Fibered); of the turn that what it has passed is    *)
(* settled or in the queue (Closed), and that the flags decide how the     *)
(* step may end (Ends).                                                    *)
(***************************************************************************)

Turning == run.pc \notin {"off", "recover", "request"}
Streams == run.pc = "stream"

-----------------------------------------------------------------------------
(* The queue *)

Settlements == {"success", "failure"}
OfCalls == {"input", "called", "hosted", "fork"} \cup Settlements
Fails == {"step failed", "step raw"}

\* An event of these about call c.
Is(x, evs, c) == x.ev \in evs /\ x.of = c

Has(s, evs, c) == \E i \in DOMAIN s : Is(s[i], evs, c)
Says(s, evs) == \E i \in DOMAIN s : s[i].ev \in evs

\* The event at i comes when its call is ready for it: what it needs is in the
\* flags m, or is published before it.
Due(s, m, streaming, i) ==
  LET x == s[i] IN
  /\ x.ev \in OfCalls \ {"failure"} => streaming
  /\ x.ev \in Fails => ~m.failed /\ \A j \in DOMAIN s : j > i => s[j].ev # "step started"
  /\ \A c \in Calls :
       LET Sooner(evs) == \E j \in DOMAIN s : j < i /\ Is(s[j], evs, c) IN
       /\ Is(x, {"input"}, c) =>
            /\ ~m.tools[c].known
            /\ m.started \/ \E j \in DOMAIN s : j < i /\ s[j].ev = "step started"
       /\ Is(x, {"called", "hosted"}, c) => ~m.tools[c].called /\ (m.tools[c].known \/ Sooner({"input"}))
       /\ Is(x, {"called"}, c) => m.tools[c].settled \/ Has(s, {"fork", "failure"}, c)
       /\ Is(x, {"fork", "success"}, c) => m.tools[c].called \/ Sooner({"called", "hosted"})
       /\ Is(x, {"failure"}, c) => m.tools[c].known \/ Sooner({"input"})
       /\ Is(x, Settlements, c) => ~m.tools[c].settled

\* Events that come once, or once for each call.
Alike(x, y) ==
  \/ x.ev \in Fails /\ y.ev \in Fails
  \/ \E c \in Calls : \E evs \in {{"input"}, {"called", "hosted"}, Settlements} : Is(x, evs, c) /\ Is(y, evs, c)

Queue(s, m, streaming) ==
  /\ \A i \in DOMAIN s : Due(s, m, streaming, i)
  /\ \A i, j \in DOMAIN s : Alike(s[i], s[j]) => i = j

-----------------------------------------------------------------------------
(* The inductive invariant *)

\* Between the runs and the turns the publisher is not there.
Quiet ==
  /\ ~Turning => mem = NoMemory /\ todo = <<>> /\ \A c \in Calls : ~Alive(c)
  /\ Streams => run.exit = "none"
  /\ run.pc \in {"stream", "ended", "await"} => run.settled = "none"
  /\ "none" \notin behind
  /\ run.pc = "request" => \A c \in Calls : Open(c) => tool[c].mishap # "none"

\* What the projection holds of a call, whoever has settled it.
Past(c) ==
  /\ tool[c].settles <= (IF tool[c].mishap = "revived" THEN 2 ELSE 1)
  /\ tool[c].status # "none" /\ tool[c].mishap # "revived" =>
       (tool[c].status = "done" <=> tool[c].settles = 1)
  /\ Open(c) => tool[c].settles <= 1

\* The publisher's flags of a call and its projection; they part only when the
\* run is interrupted between the two.
Agrees(c) ==
  LET m == mem.tools[c]
      t == tool[c]
  IN /\ m.hosted => m.called
     /\ m.called \/ m.settled => m.known
     /\ t.status # "none" => m.known /\ step.started
     /\ t.status = "running" => m.called
     /\ run.exit # "interrupt" =>
          /\ m.known => t.status # "none"
          /\ m.called => t.status \in {"running", "done"}
     /\ ~m.settled => t.settles = 0 /\ t.status # "done" /\ t.mishap = "none"
     /\ m.settled =>
          \/ t.settles = 1 /\ t.status \in {"none", "done"} /\ t.mishap = "none"
          \/ t.settles = 1 /\ t.status = "running" /\ t.mishap = "revived"
          \/ t.settles = 0 /\ t.status = "running" /\ t.mishap = "lost"
          \/ t.settles = 0 /\ t.status # "done" /\ t.mishap = "none" /\ run.exit = "interrupt"

\* What a call's fiber says of the call, and of the turn.
Fibered(c) ==
  LET m == mem.tools[c] IN
  /\ Alive(c) => tool[c].status \in {"running", "done"}
  /\ toolFiber[c] \in {"failed", "declined"} => run.broke # "none"
  /\ toolFiber[c] = "gone" => m.settled \/ run.settled \in {"interrupt", "declined"} \/ run.exit = "interrupt"
  /\ m.called /\ ~m.hosted /\ ~m.settled =>
       toolFiber[c] # "none" \/ Has(todo, {"fork", "failure"}, c) \/ run.exit = "interrupt"
  /\ run.pc \in {"settled", "close", "leave"} /\ run.settled = "success" => run.broke = "none" /\ ~Alive(c)

\* The turn has passed the point where it fails what is left open.
Failing ==
  \/ run.pc \in {"close", "leave"} /\ run.settled # "success"
  \/ run.pc = "leave" /\ run.exit = "success"

\* What the end of a turn has settled, or is about to.
Closed(c) ==
  LET m == mem.tools[c] IN
  /\ run.exit = "success" /\ ~mem.overflow /\ ~mem.providerFailed /\ m.known => m.called \/ m.settled
  /\ Failing /\ m.known /\ ~m.settled => Has(todo, {"failure"}, c)

\* How a step has ended, or will.
Ends ==
  /\ step.started => mem.started
  /\ run.exit # "interrupt" /\ mem.started => step.started
  /\ {"failed", "raw"} \cap step.ends # {} => mem.failed
  /\ "failed" \in step.ends \/ Says(todo, {"step failed"}) =>
       mem.providerFailed \/ (run.pc \in {"close", "leave"} /\ ~mem.finished)
  /\ "ended" \in step.ends \/ Says(todo, {"step ended"}) =>
       run.pc = "leave" /\ mem.finished /\ ~mem.providerFailed /\ ~Says(todo, Fails)
  /\ run.pc \in {"stream", "ended", "await", "settled"} /\ mem.finished
     /\ (mem.active \/ Says(todo, {"step started"})) => mem.providerFailed \/ Says(todo, Fails)
  /\ run.pc \in {"await", "settled", "close", "leave"} /\ mem.overflow => mem.providerFailed
  /\ run.pc = "stream" => ~Says(todo, {"step raw"})

TurnInv ==
  /\ TurnTypeOK /\ Quiet /\ StepEndsOnce
  /\ \A c \in Calls : Past(c)
  /\ Turning =>
       /\ \A c \in Calls : Agrees(c) /\ Fibered(c) /\ Closed(c)
       /\ Queue(todo, mem, Streams)
       /\ Ends

-----------------------------------------------------------------------------
(* Flags *)

LEMMA TurnFields ==
  ASSUME TurnTypeOK
  PROVE  /\ mem \in Memories /\ run \in Runs /\ step \in Steps /\ todo \in Seq(Events)
         /\ \A c \in Calls : mem.tools[c] \in Marks /\ tool[c] \in ToolStates /\ toolFiber[c] \in ToolFibers
BY DEF TurnTypeOK, Memories

\* What publishing x does to the flags m.
CallFlagsAre(x, m, n, c) ==
  /\ n.tools[c].known <=> m.tools[c].known \/ Is(x, {"input"}, c)
  /\ n.tools[c].called <=> m.tools[c].called \/ Is(x, {"called", "hosted"}, c)
  /\ n.tools[c].hosted <=> m.tools[c].hosted \/ Is(x, {"hosted"}, c)
  /\ n.tools[c].settled <=> m.tools[c].settled \/ Is(x, Settlements, c)

FlagsAre(x, m, n) ==
  /\ n \in Memories
  /\ n.started <=> m.started \/ x.ev = "step started"
  /\ n.failed <=> m.failed \/ x.ev \in Fails
  /\ n.active <=> x.ev = "step started" \/ (m.active /\ x.ev \notin Fails)
  /\ n.providerFailed = m.providerFailed /\ n.finished = m.finished /\ n.overflow = m.overflow
  /\ \A c \in Calls : CallFlagsAre(x, m, n, c)

LEMMA MarkedFlags ==
  ASSUME NEW m \in Memories, NEW x \in Events
  PROVE  FlagsAre(x, m, Marked(m, x))
<1>1. CASE x.ev = "step started"
  BY <1>1 DEF Marked, Memories, Is, Fails, Settlements, FlagsAre, CallFlagsAre
<1>2. CASE x.ev \in Fails
  BY <1>2 DEF Marked, Memories, Is, Fails, Settlements, FlagsAre, CallFlagsAre
<1>3. CASE x.ev \in {"step ended", "fork"}
  BY <1>3 DEF Marked, Memories, Is, Fails, Settlements, FlagsAre, CallFlagsAre
<1>4. CASE x.ev = "input"
  <2>1. x.of \in Calls /\ m.tools \in [Calls -> Marks]
    BY <1>4 DEF Events, Memories
  <2>2. Marked(m, x) = [m EXCEPT !.tools = [m.tools EXCEPT ![x.of] = [m.tools[x.of] EXCEPT !.known = TRUE]]]
    BY <1>4 DEF Marked
  <2>3. FlagsAre(x, m, Marked(m, x))
    <3> DEFINE mark == [m.tools[x.of] EXCEPT !.known = TRUE]
    <3>1. mark \in Marks
      BY <2>1 DEF Marks
    <3>2. /\ Marked(m, x).tools = [m.tools EXCEPT ![x.of] = mark]
          /\ Marked(m, x) = [m EXCEPT !.tools = [m.tools EXCEPT ![x.of] = mark]]
      BY <2>2 DEF Memories
    <3>3. \A c \in Calls : Marked(m, x).tools[c] = IF c = x.of THEN mark ELSE m.tools[c]
      BY <2>1, <3>2
    <3>4. Marked(m, x).tools \in [Calls -> Marks]
      BY <2>1, <3>1, <3>2
    <3>5. \A c \in Calls : CallFlagsAre(x, m, Marked(m, x), c)
      BY <1>4, <2>1, <3>3 DEF CallFlagsAre, Is, Marks, Settlements
    <3> HIDE DEF mark
    <3> QED  BY <1>4, <2>1, <3>2, <3>4, <3>5 DEF FlagsAre, Memories, Fails, Settlements
  <2> QED  BY <2>3
<1>5. CASE x.ev = "called"
  <2>1. x.of \in Calls /\ m.tools \in [Calls -> Marks]
    BY <1>5 DEF Events, Memories
  <2>2. Marked(m, x) = [m EXCEPT !.tools = [m.tools EXCEPT ![x.of] = [m.tools[x.of] EXCEPT !.called = TRUE]]]
    BY <1>5 DEF Marked
  <2>3. FlagsAre(x, m, Marked(m, x))
    <3> DEFINE mark == [m.tools[x.of] EXCEPT !.called = TRUE]
    <3>1. mark \in Marks
      BY <2>1 DEF Marks
    <3>2. /\ Marked(m, x).tools = [m.tools EXCEPT ![x.of] = mark]
          /\ Marked(m, x) = [m EXCEPT !.tools = [m.tools EXCEPT ![x.of] = mark]]
      BY <2>2 DEF Memories
    <3>3. \A c \in Calls : Marked(m, x).tools[c] = IF c = x.of THEN mark ELSE m.tools[c]
      BY <2>1, <3>2
    <3>4. Marked(m, x).tools \in [Calls -> Marks]
      BY <2>1, <3>1, <3>2
    <3>5. \A c \in Calls : CallFlagsAre(x, m, Marked(m, x), c)
      BY <1>5, <2>1, <3>3 DEF CallFlagsAre, Is, Marks, Settlements
    <3> HIDE DEF mark
    <3> QED  BY <1>5, <2>1, <3>2, <3>4, <3>5 DEF FlagsAre, Memories, Fails, Settlements
  <2> QED  BY <2>3
<1>6. CASE x.ev = "hosted"
  <2>1. x.of \in Calls /\ m.tools \in [Calls -> Marks]
    BY <1>6 DEF Events, Memories
  <2>2. Marked(m, x) = [m EXCEPT !.tools = [m.tools EXCEPT ![x.of] = [m.tools[x.of] EXCEPT !.called = TRUE, !.hosted = TRUE]]]
    BY <1>6 DEF Marked
  <2>3. FlagsAre(x, m, Marked(m, x))
    <3> DEFINE mark == [m.tools[x.of] EXCEPT !.called = TRUE, !.hosted = TRUE]
    <3>1. mark \in Marks
      BY <2>1 DEF Marks
    <3>2. /\ Marked(m, x).tools = [m.tools EXCEPT ![x.of] = mark]
          /\ Marked(m, x) = [m EXCEPT !.tools = [m.tools EXCEPT ![x.of] = mark]]
      BY <2>2 DEF Memories
    <3>3. \A c \in Calls : Marked(m, x).tools[c] = IF c = x.of THEN mark ELSE m.tools[c]
      BY <2>1, <3>2
    <3>4. Marked(m, x).tools \in [Calls -> Marks]
      BY <2>1, <3>1, <3>2
    <3>5. \A c \in Calls : CallFlagsAre(x, m, Marked(m, x), c)
      <4> SUFFICES ASSUME NEW c \in Calls
                   PROVE  CallFlagsAre(x, m, Marked(m, x), c)
        OBVIOUS
      <4>0. Marked(m, x).tools[c] = IF c = x.of THEN mark ELSE m.tools[c]
        BY <3>3
      <4>1. CASE c = x.of
        <5>1. /\ Marked(m, x).tools[c].called /\ Marked(m, x).tools[c].hosted
              /\ Marked(m, x).tools[c].known = m.tools[c].known
              /\ Marked(m, x).tools[c].settled = m.tools[c].settled
          BY <2>1, <4>0, <4>1 DEF Marks
        <5> QED  BY <1>6, <4>1, <5>1 DEF CallFlagsAre, Is, Settlements
      <4>2. CASE c # x.of
        BY <4>0, <4>2 DEF CallFlagsAre, Is
      <4> QED  BY <4>1, <4>2
    <3> HIDE DEF mark
    <3> QED  BY <1>6, <2>1, <3>2, <3>4, <3>5 DEF FlagsAre, Memories, Fails, Settlements
  <2> QED  BY <2>3
<1>7. CASE x.ev \in Settlements
  <2>1. x.of \in Calls /\ m.tools \in [Calls -> Marks]
    BY <1>7 DEF Events, Memories, Settlements
  <2>2. Marked(m, x) = [m EXCEPT !.tools = [m.tools EXCEPT ![x.of] = [m.tools[x.of] EXCEPT !.settled = TRUE]]]
    BY <1>7 DEF Marked, Settlements
  <2>3. FlagsAre(x, m, Marked(m, x))
    <3> DEFINE mark == [m.tools[x.of] EXCEPT !.settled = TRUE]
    <3>1. mark \in Marks
      BY <2>1 DEF Marks
    <3>2. /\ Marked(m, x).tools = [m.tools EXCEPT ![x.of] = mark]
          /\ Marked(m, x) = [m EXCEPT !.tools = [m.tools EXCEPT ![x.of] = mark]]
      BY <2>2 DEF Memories
    <3>3. \A c \in Calls : Marked(m, x).tools[c] = IF c = x.of THEN mark ELSE m.tools[c]
      BY <2>1, <3>2
    <3>4. Marked(m, x).tools \in [Calls -> Marks]
      BY <2>1, <3>1, <3>2
    <3>5. \A c \in Calls : CallFlagsAre(x, m, Marked(m, x), c)
      BY <1>7, <2>1, <3>3 DEF CallFlagsAre, Is, Marks, Settlements
    <3> HIDE DEF mark
    <3> QED  BY <1>7, <2>1, <3>2, <3>4, <3>5 DEF FlagsAre, Memories, Fails, Settlements
  <2> QED  BY <2>3
<1> QED  BY <1>1, <1>2, <1>3, <1>4, <1>5, <1>6, <1>7 DEF Events, Fails, Settlements

-----------------------------------------------------------------------------
(* Publishing the head of the queue *)

LEMMA TailAt ==
  ASSUME NEW s \in Seq(Events), s # <<>>
  PROVE  /\ Head(s) \in Events /\ Head(s) = s[1] /\ 1 \in DOMAIN s
         /\ Tail(s) \in Seq(Events)
         /\ \A i \in DOMAIN Tail(s) : i \in Nat /\ i > 0 /\ i + 1 \in DOMAIN s /\ Tail(s)[i] = s[i + 1]
         /\ \A i \in DOMAIN s : i = 1 \/ (i - 1 \in DOMAIN Tail(s) /\ Tail(s)[i - 1] = s[i])
<1>1. /\ Head(s) \in Events /\ Tail(s) \in Seq(Events) /\ Len(Tail(s)) = Len(s) - 1
      /\ \A i \in 1 .. Len(Tail(s)) : Tail(s)[i] = s[i + 1]
  BY HeadTailProperties
<1>2. Len(s) \in Nat /\ Len(s) > 0 /\ DOMAIN s = 1 .. Len(s) /\ Head(s) = s[1]
  OBVIOUS
<1>3. DOMAIN Tail(s) = 1 .. (Len(s) - 1)
  BY <1>1
<1>4. ASSUME NEW i \in DOMAIN s, i # 1
      PROVE  i - 1 \in DOMAIN Tail(s) /\ Tail(s)[i - 1] = s[i]
  <2>1. i - 1 \in 1 .. Len(Tail(s)) /\ (i - 1) + 1 = i
    BY <1>1, <1>2, <1>4
  <2> QED  BY <1>1, <1>3, <2>1
<1>5. ASSUME NEW i \in DOMAIN Tail(s)
      PROVE  i \in Nat /\ i > 0 /\ i + 1 \in DOMAIN s /\ Tail(s)[i] = s[i + 1]
  BY <1>1, <1>2, <1>3
<1> QED  BY <1>1, <1>2, <1>4, <1>5

LEMMA TailHas ==
  ASSUME NEW s \in Seq(Events), s # <<>>
  PROVE  /\ \A evs, c : Has(s, evs, c) <=> Is(Head(s), evs, c) \/ Has(Tail(s), evs, c)
         /\ \A evs : Says(s, evs) <=> Head(s).ev \in evs \/ Says(Tail(s), evs)
<1>1. ASSUME NEW evs, Says(s, evs)
      PROVE  Head(s).ev \in evs \/ Says(Tail(s), evs)
  BY <1>1, TailAt DEF Says
<1>2. ASSUME NEW evs, Head(s).ev \in evs \/ Says(Tail(s), evs)
      PROVE  Says(s, evs)
  <2>1. 1 \in DOMAIN s /\ s[1] = Head(s)
    BY TailAt
  <2>2. CASE Head(s).ev \in evs
    BY <2>1, <2>2 DEF Says
  <2>3. CASE Says(Tail(s), evs)
    <3>1. PICK i \in DOMAIN Tail(s) : Tail(s)[i].ev \in evs
      BY <2>3 DEF Says
    <3> QED  BY <3>1, TailAt DEF Says
  <2> QED  BY <1>2, <2>2, <2>3
<1>3. \A evs, c : Has(s, evs, c) <=> Is(Head(s), evs, c) \/ Has(Tail(s), evs, c)
  BY TailAt DEF Has
<1> QED  BY <1>1, <1>2, <1>3

LEMMA QueueTail ==
  ASSUME NEW s \in Seq(Events), s # <<>>, NEW m \in Memories, NEW n \in Memories,
         FlagsAre(Head(s), m, n), NEW streaming \in BOOLEAN, Queue(s, m, streaming)
  PROVE  Queue(Tail(s), n, streaming)
<1> DEFINE x == Head(s)
<1>0. x \in Events /\ x = s[1] /\ 1 \in DOMAIN s
  BY TailAt
<1>1. ASSUME NEW i \in DOMAIN Tail(s), NEW j \in DOMAIN Tail(s), Alike(Tail(s)[i], Tail(s)[j])
      PROVE  i = j
  <2>1. i + 1 = j + 1
    BY <1>1, TailAt DEF Queue
  <2> QED  BY <2>1, TailAt
<1>2. ASSUME NEW i \in DOMAIN Tail(s)
      PROVE  Due(Tail(s), n, streaming, i)
  <2> DEFINE y == Tail(s)[i]
             k == i + 1
             Sooner(evs, c) == \E j \in DOMAIN Tail(s) : j < i /\ Is(Tail(s)[j], evs, c)
  <2>1. k \in DOMAIN s /\ y = s[k] /\ k # 1 /\ i \in Nat
    BY TailAt
  <2>2. Due(s, m, streaming, k) /\ ~Alike(x, y) /\ Due(s, m, streaming, 1)
    BY <1>0, <2>1 DEF Queue
  <2>3. ASSUME NEW j \in DOMAIN s, j < k
        PROVE  j = 1 \/ (j - 1 \in DOMAIN Tail(s) /\ j - 1 < i /\ Tail(s)[j - 1] = s[j])
    BY <2>1, <2>3, TailAt
  <2>4. ASSUME NEW c \in Calls, NEW evs, \E j \in DOMAIN s : j < k /\ Is(s[j], evs, c)
        PROVE  Is(x, evs, c) \/ Sooner(evs, c)
    BY <1>0, <2>3, <2>4
  <2>5. (\E j \in DOMAIN s : j < k /\ s[j].ev = "step started") =>
          x.ev = "step started" \/ \E j \in DOMAIN Tail(s) : j < i /\ Tail(s)[j].ev = "step started"
    BY <1>0, <2>3
  <2> HIDE DEF y, k, x
  <2>6. /\ y.ev \in OfCalls \ {"failure"} => streaming
        /\ y.ev \in Fails => ~n.failed
    BY <2>1, <2>2 DEF Due, FlagsAre, Alike, x
  <2>8. y.ev \in Fails => \A j \in DOMAIN Tail(s) : j > i => Tail(s)[j].ev # "step started"
    <3>1. \A j \in DOMAIN Tail(s) : j > i => j + 1 \in DOMAIN s /\ j + 1 > k /\ s[j + 1] = Tail(s)[j]
      BY <2>1, TailAt DEF k
    <3> QED  BY <2>1, <2>2, <3>1 DEF Due
  <2>7. ASSUME NEW c \in Calls
        PROVE  /\ Is(y, {"input"}, c) =>
                    /\ ~n.tools[c].known
                    /\ n.started \/ \E j \in DOMAIN Tail(s) : j < i /\ Tail(s)[j].ev = "step started"
               /\ Is(y, {"called", "hosted"}, c) => ~n.tools[c].called /\ (n.tools[c].known \/ Sooner({"input"}, c))
               /\ Is(y, {"called"}, c) => n.tools[c].settled \/ Has(Tail(s), {"fork", "failure"}, c)
               /\ Is(y, {"fork", "success"}, c) => n.tools[c].called \/ Sooner({"called", "hosted"}, c)
               /\ Is(y, {"failure"}, c) => n.tools[c].known \/ Sooner({"input"}, c)
               /\ Is(y, Settlements, c) => ~n.tools[c].settled
    <3>0. CallFlagsAre(x, m, n, c) /\ (n.started <=> m.started \/ x.ev = "step started")
      BY DEF FlagsAre, x
    <3>1. \A evs \in {{"input"}, {"called", "hosted"}, Settlements} : Is(y, evs, c) => ~Is(x, evs, c)
      BY <2>2 DEF Alike
    <3>2. Is(y, {"input"}, c) =>
            ~n.tools[c].known /\ (n.started \/ \E j \in DOMAIN Tail(s) : j < i /\ Tail(s)[j].ev = "step started")
      BY <2>1, <2>2, <2>5, <3>0, <3>1 DEF Due, CallFlagsAre
    <3>3. Is(y, {"called", "hosted"}, c) =>
            ~m.tools[c].called /\ ~n.tools[c].called /\ (n.tools[c].known \/ Sooner({"input"}, c))
      BY <2>1, <2>2, <2>4, <3>0, <3>1 DEF Due, CallFlagsAre
    <3>4. ASSUME Is(y, {"called"}, c)
          PROVE  n.tools[c].settled \/ Has(Tail(s), {"fork", "failure"}, c)
      <4>1. ~m.tools[c].called
        BY <3>3, <3>4 DEF Is
      <4>2. ~Is(x, {"fork"}, c)
        <5>1. ~\E j \in DOMAIN s : j < 1
          OBVIOUS
        <5>2. Is(x, {"fork"}, c) => Is(x, {"fork", "success"}, c)
          BY DEF Is
        <5> QED  BY <1>0, <2>2, <4>1, <5>1, <5>2 DEF Due, x
      <4>3. m.tools[c].settled \/ Is(x, {"fork", "failure"}, c) \/ Has(Tail(s), {"fork", "failure"}, c)
        BY <2>1, <2>2, <3>4, TailHas DEF Due, x
      <4> QED  BY <3>0, <4>2, <4>3 DEF CallFlagsAre, Is, Settlements
    <3>5. Is(y, {"fork", "success"}, c) => n.tools[c].called \/ Sooner({"called", "hosted"}, c)
      BY <2>1, <2>2, <2>4, <3>0 DEF Due, CallFlagsAre
    <3>7. Is(y, {"failure"}, c) => n.tools[c].known \/ Sooner({"input"}, c)
      BY <2>1, <2>2, <2>4, <3>0 DEF Due, CallFlagsAre
    <3>8. Is(y, Settlements, c) => ~n.tools[c].settled
      BY <2>1, <2>2, <3>0, <3>1 DEF Due, CallFlagsAre
    <3> QED  BY <3>2, <3>3, <3>4, <3>5, <3>7, <3>8
  <2> QED  BY <2>6, <2>7, <2>8 DEF Due, y
<1> QED  BY <1>1, <1>2 DEF Queue

\* What Due says of the head of a queue, whose rest is s.
DueNow(x, m, streaming, s) ==
  /\ x.ev \in OfCalls \ {"failure"} => streaming
  /\ x.ev \in Fails => ~m.failed /\ ~Says(s, {"step started"})
  /\ \A c \in Calls :
       /\ Is(x, {"input"}, c) => ~m.tools[c].known /\ m.started
       /\ Is(x, {"called", "hosted"}, c) => ~m.tools[c].called /\ m.tools[c].known
       /\ Is(x, {"called"}, c) => m.tools[c].settled \/ Has(s, {"fork", "failure"}, c)
       /\ Is(x, {"fork", "success"}, c) => m.tools[c].called
       /\ Is(x, {"failure"}, c) => m.tools[c].known
       /\ Is(x, Settlements, c) => ~m.tools[c].settled

LEMMA QueueHead ==
  ASSUME NEW s \in Seq(Events), s # <<>>, NEW m, NEW streaming, Queue(s, m, streaming)
  PROVE  DueNow(Head(s), m, streaming, Tail(s))
<1>1. 1 \in DOMAIN s /\ s[1] = Head(s) /\ DOMAIN s \subseteq Nat \ {0}
  BY TailAt
<1>2. Due(s, m, streaming, 1)
  BY <1>1 DEF Queue
<1>3. \A j \in DOMAIN s : ~(j < 1)
  BY <1>1
<1>4. \A c \in Calls : Is(Head(s), {"called"}, c) =>
                         (Has(s, {"fork", "failure"}, c) <=> Has(Tail(s), {"fork", "failure"}, c))
  BY TailHas DEF Is
<1>5. Head(s).ev \in Fails => ~Says(Tail(s), {"step started"})
  <2>1. \A j \in DOMAIN Tail(s) : j + 1 \in DOMAIN s /\ j + 1 > 1 /\ s[j + 1] = Tail(s)[j]
    BY TailAt
  <2> QED  BY <1>1, <1>2, <2>1 DEF Due, Says
<1> QED  BY <1>1, <1>2, <1>3, <1>4, <1>5 DEF Due, DueNow

LEMMA QueueGrows ==
  ASSUME NEW s \in Seq(Events), s # <<>>, NEW m \in Memories, NEW n \in Memories,
         FlagsAre(Head(s), m, n), NEW streaming \in BOOLEAN, Queue(Tail(s), n, streaming),
         DueNow(Head(s), m, streaming, Tail(s))
  PROVE  Queue(s, m, streaming)
<1> DEFINE x == Head(s)
<1>0. /\ x \in Events /\ x = s[1] /\ 1 \in DOMAIN s
      /\ DOMAIN s \subseteq Nat \ {0} /\ DOMAIN Tail(s) \subseteq Nat \ {0}
  BY TailAt
<1>1. ASSUME NEW i \in DOMAIN s, i # 1
      PROVE  /\ i - 1 \in DOMAIN Tail(s) /\ Tail(s)[i - 1] = s[i]
             /\ Due(Tail(s), n, streaming, i - 1)
  BY <1>1, TailAt DEF Queue
<1>2. ASSUME NEW y \in Events, NEW i \in DOMAIN Tail(s), Tail(s)[i] = y, Alike(x, y)
      PROVE  FALSE
  <2>1. Due(Tail(s), n, streaming, i)
    BY <1>2 DEF Queue
  <2>2. CASE x.ev \in Fails /\ y.ev \in Fails
    BY <1>2, <2>1, <2>2 DEF Due, FlagsAre
  <2>3. ASSUME NEW c \in Calls, Is(x, {"input"}, c), Is(y, {"input"}, c)
        PROVE  FALSE
    BY <1>2, <2>1, <2>3 DEF Due, FlagsAre, CallFlagsAre
  <2>4. ASSUME NEW c \in Calls, Is(x, {"called", "hosted"}, c), Is(y, {"called", "hosted"}, c)
        PROVE  FALSE
    BY <1>2, <2>1, <2>4 DEF Due, FlagsAre, CallFlagsAre
  <2>5. ASSUME NEW c \in Calls, Is(x, Settlements, c), Is(y, Settlements, c)
        PROVE  FALSE
    BY <1>2, <2>1, <2>5 DEF Due, FlagsAre, CallFlagsAre
  <2> QED  BY <1>2, <2>2, <2>3, <2>4, <2>5 DEF Alike
<1>3. ASSUME NEW i \in DOMAIN s, NEW j \in DOMAIN s, Alike(s[i], s[j])
      PROVE  i = j
  <2>0. Alike(s[j], s[i]) /\ s[i] \in Events /\ s[j] \in Events
    BY <1>3 DEF Alike
  <2>1. CASE i = 1
    BY <1>0, <1>1, <1>2, <1>3, <2>0, <2>1
  <2>2. CASE j = 1
    BY <1>0, <1>1, <1>2, <1>3, <2>0, <2>2
  <2>3. CASE i # 1 /\ j # 1
    <3>1. i - 1 = j - 1
      BY <1>1, <1>3, <2>3 DEF Queue
    <3> QED  BY <1>0, <3>1
  <2> QED  BY <2>1, <2>2, <2>3
<1>4. Due(s, m, streaming, 1)
  <2>1. \A c \in Calls : Has(Tail(s), {"fork", "failure"}, c) => Has(s, {"fork", "failure"}, c)
    BY TailHas
  <2>2. x.ev \in Fails => \A j \in DOMAIN s : j > 1 => s[j].ev # "step started"
    <3> SUFFICES ASSUME x.ev \in Fails, NEW j \in DOMAIN s, j > 1
                 PROVE  s[j].ev # "step started"
      OBVIOUS
    <3>1. j - 1 \in DOMAIN Tail(s) /\ Tail(s)[j - 1] = s[j]
      BY TailAt
    <3>2. ~Says(Tail(s), {"step started"})
      BY DEF DueNow
    <3> QED  BY <3>1, <3>2 DEF Says
  <2> QED  BY <1>0, <2>1, <2>2 DEF Due, DueNow
<1>5. ASSUME NEW i \in DOMAIN s, i # 1
      PROVE  Due(s, m, streaming, i)
  <2> DEFINE y == s[i]
             k == i - 1
             Sooner(evs, c) == \E j \in DOMAIN s : j < i /\ Is(s[j], evs, c)
  <2>1. k \in DOMAIN Tail(s) /\ Tail(s)[k] = y /\ Due(Tail(s), n, streaming, k)
    BY <1>1, <1>5
  <2>2. ASSUME NEW j \in DOMAIN Tail(s), j < k
        PROVE  j + 1 \in DOMAIN s /\ j + 1 < i /\ s[j + 1] = Tail(s)[j]
    BY <1>0, <2>2, TailAt
  <2>3. 1 \in DOMAIN s /\ 1 < i
    BY <1>0, <1>5
  <2>4. ASSUME NEW c \in Calls, NEW evs,
               Is(x, evs, c) \/ \E j \in DOMAIN Tail(s) : j < k /\ Is(Tail(s)[j], evs, c)
        PROVE  Sooner(evs, c)
    BY <1>0, <2>2, <2>3, <2>4
  <2>5. (x.ev = "step started" \/ \E j \in DOMAIN Tail(s) : j < k /\ Tail(s)[j].ev = "step started") =>
          \E j \in DOMAIN s : j < i /\ s[j].ev = "step started"
    BY <1>0, <2>2, <2>3
  <2> HIDE DEF y, k, x
  <2>6. /\ y.ev \in OfCalls \ {"failure"} => streaming
        /\ y.ev \in Fails => ~m.failed
    BY <2>1 DEF Due, FlagsAre
  <2>8. y.ev \in Fails => \A j \in DOMAIN s : j > i => s[j].ev # "step started"
    <3>1. \A j \in DOMAIN s : j > i => j - 1 \in DOMAIN Tail(s) /\ j - 1 > k /\ s[j] = Tail(s)[j - 1]
      BY <1>0, <1>5, TailAt DEF k
    <3> QED  BY <2>1, <3>1 DEF Due
  <2>7. ASSUME NEW c \in Calls
        PROVE  /\ Is(y, {"input"}, c) =>
                    /\ ~m.tools[c].known
                    /\ m.started \/ \E j \in DOMAIN s : j < i /\ s[j].ev = "step started"
               /\ Is(y, {"called", "hosted"}, c) => ~m.tools[c].called /\ (m.tools[c].known \/ Sooner({"input"}, c))
               /\ Is(y, {"called"}, c) => m.tools[c].settled \/ Has(s, {"fork", "failure"}, c)
               /\ Is(y, {"fork", "success"}, c) => m.tools[c].called \/ Sooner({"called", "hosted"}, c)
               /\ Is(y, {"failure"}, c) => m.tools[c].known \/ Sooner({"input"}, c)
               /\ Is(y, Settlements, c) => ~m.tools[c].settled
    <3>0. CallFlagsAre(x, m, n, c) /\ (n.started <=> m.started \/ x.ev = "step started")
      BY DEF FlagsAre, x
    <3>1. Is(y, {"input"}, c) =>
            ~m.tools[c].known /\ (m.started \/ \E j \in DOMAIN s : j < i /\ s[j].ev = "step started")
      BY <2>1, <2>5, <3>0 DEF Due, CallFlagsAre
    <3>2. Is(y, {"called", "hosted"}, c) =>
            ~m.tools[c].called /\ ~n.tools[c].called /\ (m.tools[c].known \/ Sooner({"input"}, c))
      BY <2>1, <2>4, <3>0 DEF Due, CallFlagsAre
    <3>3. ASSUME Is(y, {"called"}, c)
          PROVE  m.tools[c].settled \/ Has(s, {"fork", "failure"}, c)
      <4>1. ~n.tools[c].called
        BY <3>2, <3>3 DEF Is
      <4>2. n.tools[c].settled \/ Has(Tail(s), {"fork", "failure"}, c)
        BY <2>1, <3>3 DEF Due
      <4>3. Is(x, {"success"}, c) => m.tools[c].called
        BY DEF DueNow, x, Is
      <4>4. ~Is(x, {"success"}, c)
        BY <3>0, <4>1, <4>3 DEF CallFlagsAre
      <4>5. Is(x, {"fork", "failure"}, c) \/ Has(Tail(s), {"fork", "failure"}, c) => Has(s, {"fork", "failure"}, c)
        BY TailHas DEF x
      <4> QED  BY <3>0, <4>2, <4>4, <4>5 DEF CallFlagsAre, Is, Settlements
    <3>4. Is(y, {"fork", "success"}, c) => m.tools[c].called \/ Sooner({"called", "hosted"}, c)
      BY <2>1, <2>4, <3>0 DEF Due, CallFlagsAre
    <3>6. Is(y, {"failure"}, c) => m.tools[c].known \/ Sooner({"input"}, c)
      BY <2>1, <2>4, <3>0 DEF Due, CallFlagsAre
    <3>7. Is(y, Settlements, c) => ~m.tools[c].settled
      BY <2>1, <3>0 DEF Due, CallFlagsAre
    <3> QED  BY <3>1, <3>2, <3>3, <3>4, <3>6, <3>7
  <2> QED  BY <2>6, <2>7, <2>8 DEF Due, y
<1> QED  BY <1>3, <1>4, <1>5 DEF Queue

-----------------------------------------------------------------------------
(* Building queues *)

LEMMA HeadOfCons ==
  ASSUME NEW x \in Events, NEW s \in Seq(Events)
  PROVE  /\ <<x>> \o s \in Seq(Events) /\ <<x>> \o s # <<>>
         /\ Head(<<x>> \o s) = x /\ Tail(<<x>> \o s) = s
<1> DEFINE t == <<x>> \o s
<1>1. <<x>> \in Seq(Events) /\ Len(<<x>>) = 1 /\ <<x>>[1] = x
  OBVIOUS
<1>2. /\ t \in Seq(Events) /\ Len(t) = 1 + Len(s)
      /\ \A i \in 1 .. 1 + Len(s) : t[i] = IF i <= 1 THEN x ELSE s[i - 1]
  BY <1>1, ConcatProperties
<1>3. Len(s) \in Nat
  OBVIOUS
<1>4. t # <<>> /\ Head(t) = x
  BY <1>2, <1>3
<1>5. /\ Tail(t) \in Seq(Events) /\ Len(Tail(t)) = Len(s)
      /\ \A i \in 1 .. Len(s) : Tail(t)[i] = s[i]
  <2>1. /\ Tail(t) \in Seq(Events) /\ Len(Tail(t)) = Len(t) - 1
        /\ \A i \in 1 .. Len(Tail(t)) : Tail(t)[i] = t[i + 1]
    BY <1>2, <1>4, HeadTailProperties
  <2>2. \A i \in 1 .. Len(s) : i + 1 \in 1 .. 1 + Len(s) /\ ~(i + 1 <= 1) /\ (i + 1) - 1 = i
    BY <1>3
  <2> HIDE DEF t
  <2> QED  BY <1>2, <1>3, <2>1, <2>2
<1>6. Tail(t) = s
  BY <1>5, SeqEqual
<1> QED  BY <1>2, <1>4, <1>6

LEMMA EmptyQueue ==
  ASSUME NEW m, NEW streaming
  PROVE  /\ Queue(<<>>, m, streaming)
         /\ \A evs, c : ~Has(<<>>, evs, c)
         /\ \A evs : ~Says(<<>>, evs)
BY DEF Queue, Has, Says

\* A queue that begins with x.
LEMMA QueueCons ==
  ASSUME NEW x \in Events, NEW s \in Seq(Events), NEW m \in Memories, NEW streaming \in BOOLEAN,
         Queue(s, Marked(m, x), streaming), DueNow(x, m, streaming, s)
  PROVE  /\ <<x>> \o s \in Seq(Events)
         /\ Queue(<<x>> \o s, m, streaming)
         /\ \A evs, c : Has(<<x>> \o s, evs, c) <=> Is(x, evs, c) \/ Has(s, evs, c)
         /\ \A evs : Says(<<x>> \o s, evs) <=> x.ev \in evs \/ Says(s, evs)
<1>1. /\ <<x>> \o s \in Seq(Events) /\ <<x>> \o s # <<>>
      /\ Head(<<x>> \o s) = x /\ Tail(<<x>> \o s) = s
  BY HeadOfCons
<1>2. FlagsAre(x, m, Marked(m, x)) /\ Marked(m, x) \in Memories
  BY MarkedFlags DEF FlagsAre
<1>3. Queue(<<x>> \o s, m, streaming)
  <2>1. PICK t \in Seq(Events) : t = <<x>> \o s
    BY <1>1
  <2>2. t # <<>> /\ Head(t) = x /\ Tail(t) = s
    BY <1>1, <2>1
  <2>3. Queue(t, m, streaming)
    BY <1>2, <2>2, QueueGrows
  <2> QED  BY <2>1, <2>3
<1>4. ASSUME NEW evs, NEW c
      PROVE  Has(<<x>> \o s, evs, c) <=> Is(x, evs, c) \/ Has(s, evs, c)
  <2>1. PICK t \in Seq(Events) : t = <<x>> \o s
    BY <1>1
  <2>2. t # <<>> /\ Head(t) = x /\ Tail(t) = s
    BY <1>1, <2>1
  <2>3. Has(t, evs, c) <=> Is(Head(t), evs, c) \/ Has(Tail(t), evs, c)
    BY <2>2, TailHas
  <2> QED  BY <2>1, <2>2, <2>3
<1>5. ASSUME NEW evs
      PROVE  Says(<<x>> \o s, evs) <=> x.ev \in evs \/ Says(s, evs)
  <2>1. PICK t \in Seq(Events) : t = <<x>> \o s
    BY <1>1
  <2>2. t # <<>> /\ Head(t) = x /\ Tail(t) = s
    BY <1>1, <2>1
  <2>3. Says(t, evs) <=> Head(t).ev \in evs \/ Says(Tail(t), evs)
    BY <2>2, TailHas
  <2> QED  BY <2>1, <2>2, <2>3
<1> QED  BY <1>1, <1>3, <1>4, <1>5

\* Two queues, one after the other.
LEMMA CatHas ==
  ASSUME NEW s \in Seq(Events), NEW t \in Seq(Events)
  PROVE  /\ s \o t \in Seq(Events)
         /\ \A i \in DOMAIN s : i \in DOMAIN (s \o t) /\ (s \o t)[i] = s[i]
         /\ \A i \in DOMAIN t : Len(s) + i \in DOMAIN (s \o t) /\ (s \o t)[Len(s) + i] = t[i]
         /\ \A i \in DOMAIN (s \o t) : i \in DOMAIN s \/ (i - Len(s) \in DOMAIN t /\ i > Len(s))
         /\ \A evs, c : Has(s \o t, evs, c) <=> Has(s, evs, c) \/ Has(t, evs, c)
         /\ \A evs : Says(s \o t, evs) <=> Says(s, evs) \/ Says(t, evs)
<1> DEFINE u == s \o t
<1>1. /\ u \in Seq(Events) /\ Len(u) = Len(s) + Len(t)
      /\ \A i \in 1 .. Len(s) + Len(t) : u[i] = IF i <= Len(s) THEN s[i] ELSE t[i - Len(s)]
  BY ConcatProperties
<1>2. /\ Len(s) \in Nat /\ Len(t) \in Nat
      /\ DOMAIN s = 1 .. Len(s) /\ DOMAIN t = 1 .. Len(t) /\ DOMAIN u = 1 .. Len(s) + Len(t)
  BY <1>1, LenProperties
<1> HIDE DEF u
<1>3. \A i \in DOMAIN s : i \in DOMAIN u /\ u[i] = s[i]
  BY <1>1, <1>2
<1>4. \A i \in DOMAIN t : Len(s) + i \in DOMAIN u /\ u[Len(s) + i] = t[i]
  <2> TAKE i \in DOMAIN t
  <2>1. Len(s) + i \in 1 .. Len(s) + Len(t) /\ ~(Len(s) + i <= Len(s)) /\ (Len(s) + i) - Len(s) = i
    BY <1>2
  <2> QED  BY <1>1, <1>2, <2>1
<1>5. \A i \in DOMAIN u : \/ i \in DOMAIN s /\ u[i] = s[i]
                          \/ i - Len(s) \in DOMAIN t /\ i > Len(s) /\ u[i] = t[i - Len(s)]
  <2> TAKE i \in DOMAIN u
  <2>1. i \in DOMAIN s \/ (i - Len(s) \in DOMAIN t /\ i > Len(s))
    BY <1>2
  <2> QED  BY <1>1, <1>2, <2>1
<1>6. ASSUME NEW evs, NEW c
      PROVE  Has(u, evs, c) <=> Has(s, evs, c) \/ Has(t, evs, c)
  <2>1. Has(u, evs, c) => Has(s, evs, c) \/ Has(t, evs, c)
    BY <1>5 DEF Has
  <2>2. Has(s, evs, c) => Has(u, evs, c)
    BY <1>3 DEF Has
  <2>3. Has(t, evs, c) => Has(u, evs, c)
    BY <1>4 DEF Has
  <2> QED  BY <2>1, <2>2, <2>3
<1>7. ASSUME NEW evs
      PROVE  Says(u, evs) <=> Says(s, evs) \/ Says(t, evs)
  <2>1. ASSUME NEW i \in DOMAIN u, u[i].ev \in evs
        PROVE  Says(s, evs) \/ Says(t, evs)
    BY <1>5, <2>1 DEF Says
  <2>2. ASSUME NEW i \in DOMAIN s, s[i].ev \in evs
        PROVE  Says(u, evs)
    BY <1>3, <2>2 DEF Says
  <2>3. ASSUME NEW i \in DOMAIN t, t[i].ev \in evs
        PROVE  Says(u, evs)
    BY <1>4, <2>3 DEF Says
  <2> QED  BY <2>1, <2>2, <2>3 DEF Says
<1> QED  BY <1>1, <1>3, <1>4, <1>5, <1>6, <1>7 DEF u

LEMMA QueueCat ==
  ASSUME NEW s \in Seq(Events), NEW t \in Seq(Events), NEW m \in Memories, NEW streaming \in BOOLEAN,
         Queue(s, m, streaming), Queue(t, m, streaming),
         \A i \in DOMAIN s : s[i].ev \notin Fails,
         \A i \in DOMAIN s, j \in DOMAIN t : ~Alike(s[i], t[j])
  PROVE  Queue(s \o t, m, streaming)
<1> DEFINE u == s \o t
<1>0. /\ Len(s) \in Nat /\ DOMAIN s \subseteq Nat /\ DOMAIN t \subseteq Nat /\ DOMAIN u \subseteq Nat
      /\ \A i \in DOMAIN s : i <= Len(s)
      /\ \A i \in DOMAIN t : i > 0
  <2>1. u \in Seq(Events)
    BY CatHas
  <2> QED  BY <2>1, LenProperties
<1>1. /\ \A i \in DOMAIN s : i \in DOMAIN u /\ u[i] = s[i]
      /\ \A i \in DOMAIN t : Len(s) + i \in DOMAIN u /\ u[Len(s) + i] = t[i]
      /\ \A evs, c : Has(u, evs, c) <=> Has(s, evs, c) \/ Has(t, evs, c)
  BY CatHas
<1>2. \A i \in DOMAIN u : \/ i \in DOMAIN s /\ u[i] = s[i]
                          \/ /\ i - Len(s) \in DOMAIN t /\ u[i] = t[i - Len(s)] /\ i > Len(s)
  <2> TAKE i \in DOMAIN u
  <2>1. i \in DOMAIN s \/ (i - Len(s) \in DOMAIN t /\ i > Len(s))
    BY CatHas
  <2>2. CASE i \in DOMAIN s
    BY <1>1, <2>2
  <2>3. CASE i - Len(s) \in DOMAIN t /\ i > Len(s)
    <3>1. Len(s) + (i - Len(s)) = i
      BY <1>0
    <3>2. u[Len(s) + (i - Len(s))] = t[i - Len(s)]
      BY <1>1, <2>3
    <3> QED  BY <2>3, <3>1, <3>2
  <2> QED  BY <2>1, <2>2, <2>3
<1> HIDE DEF u
<1>3. ASSUME NEW i \in DOMAIN u, NEW j \in DOMAIN u, Alike(u[i], u[j])
      PROVE  i = j
  <2>0. Alike(u[j], u[i])
    BY <1>3 DEF Alike
  <2>1. CASE i \in DOMAIN s /\ u[i] = s[i] /\ j \in DOMAIN s /\ u[j] = s[j]
    BY <1>3, <2>1 DEF Queue
  <2>2. CASE /\ i - Len(s) \in DOMAIN t /\ u[i] = t[i - Len(s)]
             /\ j - Len(s) \in DOMAIN t /\ u[j] = t[j - Len(s)]
    <3>1. i - Len(s) = j - Len(s)
      BY <1>3, <2>2 DEF Queue
    <3> QED  BY <1>0, <3>1
  <2> QED  BY <1>2, <1>3, <2>0, <2>1, <2>2
<1>4. ASSUME NEW i \in DOMAIN s
      PROVE  Due(u, m, streaming, i)
  <2>1. Due(s, m, streaming, i) /\ u[i] = s[i]
    BY <1>1 DEF Queue
  <2>2. \A j \in DOMAIN s : j \in DOMAIN u /\ u[j] = s[j]
    BY <1>1
  <2> QED  BY <1>1, <2>1, <2>2 DEF Due
<1>5. ASSUME NEW k \in DOMAIN t
      PROVE  Due(u, m, streaming, Len(s) + k)
  <2>1. Due(t, m, streaming, k) /\ u[Len(s) + k] = t[k]
    BY <1>1 DEF Queue
  <2>2. \A j \in DOMAIN t : Len(s) + j \in DOMAIN u /\ u[Len(s) + j] = t[j] /\ (j < k => Len(s) + j < Len(s) + k)
    BY <1>0, <1>1
  <2> HIDE DEF Is
  <2>3. ASSUME NEW c \in Calls, NEW evs, \E j \in DOMAIN t : j < k /\ Is(t[j], evs, c)
        PROVE  \E j \in DOMAIN u : j < Len(s) + k /\ Is(u[j], evs, c)
    BY <2>2, <2>3
  <2>4. (\E j \in DOMAIN t : j < k /\ t[j].ev = "step started") =>
          \E j \in DOMAIN u : j < Len(s) + k /\ u[j].ev = "step started"
    BY <2>2
  <2>5. t[k].ev \in Fails => \A j \in DOMAIN u : j > Len(s) + k => u[j].ev # "step started"
    <3> SUFFICES ASSUME t[k].ev \in Fails, NEW j \in DOMAIN u, j > Len(s) + k
                 PROVE  u[j].ev # "step started"
      OBVIOUS
    <3>1. j - Len(s) \in DOMAIN t /\ u[j] = t[j - Len(s)] /\ j - Len(s) > k
      BY <1>0, <1>2
    <3> QED  BY <2>1, <3>1 DEF Due
  <2> QED  BY <1>1, <2>1, <2>3, <2>4, <2>5 DEF Due
<1>6. ASSUME NEW i \in DOMAIN u
      PROVE  Due(u, m, streaming, i)
  <2>1. CASE i \in DOMAIN s
    BY <1>4, <2>1
  <2>2. CASE i - Len(s) \in DOMAIN t
    <3>1. Len(s) + (i - Len(s)) = i
      BY <1>0
    <3> QED  BY <1>5, <2>2, <3>1
  <2> QED  BY <1>2, <2>1, <2>2
<1> QED  BY <1>3, <1>6 DEF Queue, u

\* A queue that fails the calls of F.
FailuresOf(s, F) ==
  /\ s \in Seq(Events)
  /\ \A i \in DOMAIN s : s[i].ev = "failure" /\ s[i].of \in F
  /\ \A i, j \in DOMAIN s : s[i].of = s[j].of => i = j
  /\ \A c \in F : \E i \in DOMAIN s : s[i].of = c

LEMMA FailuresQueue ==
  ASSUME NEW F \in SUBSET Calls, NEW s, FailuresOf(s, F), NEW m \in Memories, NEW streaming,
         \A c \in F : m.tools[c].known /\ ~m.tools[c].settled
  PROVE  /\ Queue(s, m, streaming)
         /\ \A evs, c : Has(s, evs, c) <=> "failure" \in evs /\ c \in F
         /\ \A evs : Says(s, evs) => "failure" \in evs
         /\ \A i \in DOMAIN s : s[i].ev = "failure"
<1>1. ASSUME NEW i \in DOMAIN s
      PROVE  Due(s, m, streaming, i)
  BY DEF FailuresOf, Due, Is, OfCalls, Settlements, Fails
<1>2. ASSUME NEW i \in DOMAIN s, NEW j \in DOMAIN s, Alike(s[i], s[j])
      PROVE  i = j
  BY <1>2 DEF FailuresOf, Alike, Is, Fails
<1>3. ASSUME NEW evs, NEW c
      PROVE  Has(s, evs, c) <=> "failure" \in evs /\ c \in F
  BY DEF FailuresOf, Has, Is
<1>4. ASSUME NEW evs, Says(s, evs)
      PROVE  "failure" \in evs
  BY <1>4 DEF FailuresOf, Says
<1> QED  BY <1>1, <1>2, <1>3, <1>4 DEF Queue, FailuresOf

\* What FailUnsettled picks.
Unsettled(m, hostedOnly) ==
  {d \in Calls : m.tools[d].known /\ ~m.tools[d].settled /\ (hostedOnly => m.tools[d].hosted)}

LEMMA FailUnsettledIs ==
  ASSUME NEW m, NEW hostedOnly
  PROVE  FailuresOf(FailUnsettled(m, hostedOnly), Unsettled(m, hostedOnly))
<1> DEFINE F == Unsettled(m, hostedOnly)
           E == {[ev |-> "failure", of |-> c] : c \in F}
           g == [c \in F |-> [ev |-> "failure", of |-> c]]
           s == SetToSeq(E)
<1>1. s = FailUnsettled(m, hostedOnly)
  BY DEF FailUnsettled, Unsettled
<1>2. IsFiniteSet(E)
  <2>1. IsFiniteSet(F)
    BY CallAssumption, FS_Subset DEF Unsettled
  <2>2. g \in Surjection(F, E)
    BY DEF Surjection
  <2> QED  BY <2>1, <2>2, FS_Surjection
<1>3. Cardinality(E) \in Nat /\ ExistsBijection(1 .. Cardinality(E), E)
  BY <1>2, FS_CardinalityType
<1>4. s \in [1 .. Cardinality(E) -> E] /\ \A i, j \in DOMAIN s : s[i] = s[j] => i = j
  <2>1. PICK f : f \in Bijection(1 .. Cardinality(E), E)
    BY <1>3 DEF ExistsBijection
  <2>2. f \in [1 .. Cardinality(E) -> E] /\ IsInjective(f)
    BY <2>1 DEF Bijection, Injection, IsInjective
  <2>3. s \in [1 .. Cardinality(E) -> E] /\ IsInjective(s)
    BY <2>2 DEF SetToSeq
  <2> QED  BY <2>3 DEF IsInjective
<1>5. \A e \in E : \E i \in DOMAIN s : s[i] = e
  <2>1. s \in Injection(1 .. Cardinality(E), E)
    BY <1>4 DEF Injection, IsInjective
  <2>2. IsFiniteSet(1 .. Cardinality(E)) /\ Cardinality(1 .. Cardinality(E)) = Cardinality(E)
    BY <1>3, FS_Interval
  <2>3. s \in Surjection(1 .. Cardinality(E), E)
    BY <1>2, <2>1, <2>2, FS_Injection
  <2> QED  BY <1>4, <2>3 DEF Surjection
<1>6. E \subseteq Events
  <2> SUFFICES ASSUME NEW c \in F
               PROVE  [ev |-> "failure", of |-> c] \in Events
    OBVIOUS
  <2>1. c \in Calls
    BY DEF Unsettled
  <2> QED  BY <2>1 DEF Events
<1> HIDE DEF s, E
<1>7. s \in Seq(Events)
  <2>1. s \in [1 .. Cardinality(E) -> Events]
    BY <1>4, <1>6
  <2> QED  BY <1>3, <2>1, SeqDef
<1> USE DEF E
<1>8. /\ \A i \in DOMAIN s : s[i].ev = "failure" /\ s[i].of \in F /\ s[i] = [ev |-> "failure", of |-> s[i].of]
      /\ \A c \in F : \E i \in DOMAIN s : s[i].of = c
  <2>1. \A e \in E : e.ev = "failure" /\ e.of \in F /\ e = [ev |-> "failure", of |-> e.of]
    OBVIOUS
  <2>2. \A i \in DOMAIN s : s[i] \in E
    BY <1>4
  <2>3. ASSUME NEW c \in F
        PROVE  \E i \in DOMAIN s : s[i].of = c
    <3>1. [ev |-> "failure", of |-> c] \in E
      OBVIOUS
    <3>2. PICK i \in DOMAIN s : s[i] = [ev |-> "failure", of |-> c]
      BY <1>5, <3>1
    <3> QED  BY <3>2
  <2> QED  BY <2>1, <2>2, <2>3
<1>9. FailuresOf(s, F)
  BY <1>4, <1>7, <1>8 DEF FailuresOf
<1> QED  BY <1>1, <1>9

-----------------------------------------------------------------------------
(* Publishing an event *)

LEMMA StepPublished ==
  ASSUME TurnTypeOK, NEW x \in Events, Commit(x)
  PROVE  /\ step' \in Steps
         /\ step'.started <=> step.started \/ x.ev = "step started"
         /\ "ended" \in step'.ends <=> "ended" \in step.ends \/ x.ev = "step ended"
         /\ "failed" \in step'.ends <=> "failed" \in step.ends \/ x.ev = "step failed"
         /\ "raw" \in step'.ends <=> "raw" \in step.ends \/ x.ev = "step raw"
<1>1. step \in Steps /\ step' = SteppedBy(step, x)
  BY DEF Commit, TurnTypeOK
<1>2. CASE x.ev = "step started"
  BY <1>1, <1>2 DEF SteppedBy, Steps
<1>3. CASE x.ev = "step ended"
  BY <1>1, <1>3 DEF SteppedBy, Steps
<1>4. CASE x.ev = "step failed"
  BY <1>1, <1>4 DEF SteppedBy, Steps
<1>5. CASE x.ev = "step raw"
  BY <1>1, <1>5 DEF SteppedBy, Steps
<1>6. CASE x.ev \notin {"step started", "step ended", "step failed", "step raw"}
  BY <1>1, <1>6 DEF SteppedBy
<1> QED  BY <1>2, <1>3, <1>4, <1>5, <1>6

\* What an event does to the record of its call.
LEMMA ProjectedIs ==
  ASSUME NEW r \in ToolStates, r.settles <= 1, NEW x, x.ev \in OfCalls \ {"fork"}
  PROVE  /\ Projected(r, x) \in ToolStates
         /\ x.ev = "input" => Projected(r, x).status = "pending" /\ Projected(r, x).settles = r.settles
                              /\ Projected(r, x).mishap = r.mishap
         /\ x.ev \in {"called", "hosted"} /\ r.status # "none" =>
              /\ Projected(r, x).status = "running" /\ Projected(r, x).settles = r.settles
              /\ Projected(r, x).mishap = IF r.status = "done" THEN "revived" ELSE r.mishap
         /\ x.ev \in {"called", "hosted"} /\ r.status = "none" => Projected(r, x) = r
         /\ x.ev \in Settlements =>
              /\ Projected(r, x).settles = r.settles + 1 /\ Projected(r, x).mishap = r.mishap
              /\ r.status \in {"none", "done"} => Projected(r, x).status = r.status
              /\ r.status = "running" => Projected(r, x).status = "done"
         /\ x.ev = "failure" /\ r.status = "pending" => Projected(r, x).status = "done"
<1>0. r.settles \in {0, 1} /\ 1 + 1 \in 0 .. 2 /\ 0 + 1 \in 0 .. 2
  BY DEF ToolStates
<1>1. CASE x.ev = "input"
  BY <1>1 DEF Projected, ToolStates, Settlements
<1>2. CASE x.ev \in {"called", "hosted"}
  BY <1>2 DEF Projected, ToolStates, Settlements, Mishaps
<1>3. CASE x.ev = "success"
  BY <1>0, <1>3 DEF Projected, ToolStates, Settlements
<1>4. CASE x.ev = "failure"
  BY <1>0, <1>4 DEF Projected, ToolStates, Settlements
<1> QED  BY <1>1, <1>2, <1>3, <1>4 DEF OfCalls, Settlements

\* What an event about call c may rely on.
Ready(x, c) ==
  LET m == mem.tools[c] IN
  /\ Is(x, {"input"}, c) => ~m.known /\ mem.started /\ run.exit # "interrupt"
  /\ Is(x, {"called", "hosted"}, c) => ~m.called /\ m.known /\ run.exit # "interrupt"
  /\ Is(x, {"success"}, c) => m.called /\ (run.exit # "interrupt" \/ tool[c].status \in {"running", "done"})
  /\ Is(x, {"failure"}, c) => m.known
  /\ Is(x, Settlements, c) => ~m.settled

LEMMA CallPublished ==
  ASSUME TurnTypeOK, NEW x \in Events, NEW c \in Calls, Ready(x, c),
         FlagsAre(x, mem, mem'), Commit(x), run'.exit = run.exit,
         Past(c), Agrees(c), step.started => mem.started,
         run.exit # "interrupt" /\ mem.started => step.started
  PROVE  /\ tool'[c] \in ToolStates /\ Past(c)' /\ Agrees(c)'
         /\ tool[c].status \in {"running", "done"} => tool'[c].status \in {"running", "done"}
<1> DEFINE m == mem.tools[c]
           n == mem'.tools[c]
           t == tool[c]
           u == tool'[c]
<1>0. /\ m \in Marks /\ t \in ToolStates /\ run.exit = run'.exit
      /\ CallFlagsAre(x, mem, mem', c)
      /\ (step.started => step'.started)
      /\ run'.exit # "interrupt" /\ mem'.started => step'.started
  BY TurnFields, StepPublished DEF FlagsAre
<1>1. CASE ~(Is(x, OfCalls \ {"fork"}, c) /\ step.started)
  <2>1. u = t
    <3>1. CASE x.ev \in {"input", "called", "hosted", "success", "failure"} /\ step.started
      <4>1. x.of \in Calls /\ x.of # c
        BY <1>1, <3>1 DEF Is, OfCalls, Settlements, Events
      <4> QED  BY <3>1, <4>1 DEF Commit, TurnTypeOK
    <3>2. CASE ~(x.ev \in {"input", "called", "hosted", "success", "failure"} /\ step.started)
      BY <3>2 DEF Commit
    <3> QED  BY <3>1, <3>2
  <2>2. Past(c)' /\ u \in ToolStates
    BY <1>0, <2>1 DEF Past, Open
  <2>3. CASE ~Is(x, OfCalls \ {"fork"}, c)
    <3>1. (n.known <=> m.known) /\ (n.called <=> m.called) /\ (n.hosted <=> m.hosted) /\ (n.settled <=> m.settled)
      BY <1>0, <2>3 DEF CallFlagsAre, Is, OfCalls, Settlements
    <3>2. Agrees(c)'
      BY <1>0, <2>1, <3>1 DEF Agrees
    <3> QED  BY <2>1, <2>2, <3>2
  <2>4. CASE Is(x, OfCalls \ {"fork"}, c)
    <3>1. ~step.started
      BY <1>1, <2>4
    <3>2. t.status = "none"
      BY <1>0, <3>1 DEF Agrees, ToolStates
    <3>3. /\ Is(x, {"input"}, c) \/ Is(x, {"called", "hosted"}, c) \/ Is(x, {"success"}, c) => FALSE
          /\ Is(x, {"failure"}, c)
      BY <1>0, <2>4, <3>1, <3>2 DEF Ready, Is, OfCalls, Settlements, Agrees
    <3>4. (n.known <=> m.known) /\ (n.called <=> m.called) /\ (n.hosted <=> m.hosted) /\ n.settled /\ m.known
      BY <1>0, <3>3 DEF CallFlagsAre, Is, Settlements, Ready
    <3>5. run.exit = "interrupt" /\ t.settles = 0 /\ t.mishap = "none"
      BY <3>2, <3>3, <3>4 DEF Agrees, Ready, Is, Settlements
    <3>6. Agrees(c)'
      BY <1>0, <2>1, <3>2, <3>4, <3>5 DEF Agrees
    <3> QED  BY <2>1, <2>2, <3>6
  <2> QED  BY <2>3, <2>4
<1>2. CASE Is(x, OfCalls \ {"fork"}, c) /\ step.started
  <2>0. x.ev \in OfCalls \ {"fork"} /\ x.of = c /\ step'.started
    BY <1>0, <1>2 DEF Is
  <2>1. u = Projected(t, x)
    BY <1>2, <2>0 DEF Commit, TurnTypeOK, OfCalls, Settlements
  <2>2. CASE x.ev = "input"
    <3>1. ~m.known /\ run.exit # "interrupt"
      BY <2>0, <2>2 DEF Ready, Is
    <3>2. t.settles = 0 /\ t.mishap = "none" /\ ~m.settled /\ ~m.called /\ ~m.hosted
      BY <1>0, <3>1 DEF Agrees, Marks
    <3>3. u.status = "pending" /\ u.settles = 0 /\ u.mishap = "none" /\ u \in ToolStates
      BY <1>0, <2>0, <2>1, <2>2, <3>2, ProjectedIs
    <3>4. n.known /\ ~n.called /\ ~n.hosted /\ ~n.settled
      BY <1>0, <2>0, <2>2, <3>2 DEF CallFlagsAre, Is, Settlements
    <3>5. t.status = "none"
      BY <1>0, <3>1 DEF Agrees, ToolStates
    <3> QED  BY <1>0, <2>0, <3>3, <3>4, <3>5 DEF Past, Agrees, Open
  <2>3. CASE x.ev \in {"called", "hosted"}
    <3>1. ~m.called /\ m.known /\ run.exit # "interrupt"
      BY <2>0, <2>3 DEF Ready, Is
    <3>2. t.status \in {"pending", "done"} /\ t.settles <= 1
      BY <1>0, <3>1 DEF Agrees, ToolStates
    <3>3. /\ u.status = "running" /\ u.settles = t.settles /\ u \in ToolStates
          /\ u.mishap = IF t.status = "done" THEN "revived" ELSE t.mishap
      BY <1>0, <2>0, <2>1, <2>3, <3>2, ProjectedIs
    <3>4. n.called /\ n.known /\ (n.settled <=> m.settled)
      BY <1>0, <2>0, <2>3, <3>1 DEF CallFlagsAre, Is, Settlements
    <3>5. Past(c)'
      BY <1>0, <3>1, <3>2, <3>3 DEF Past, Open, Agrees, ToolStates
    <3>6. Agrees(c)'
      BY <1>0, <2>0, <3>1, <3>2, <3>3, <3>4 DEF Agrees
    <3> QED  BY <3>3, <3>5, <3>6
  <2>4. CASE x.ev \in Settlements
    <3>1. ~m.settled /\ m.known
      BY <1>0, <2>0, <2>4 DEF Ready, Is, Agrees, Settlements
    <3>2. t.settles = 0 /\ t.mishap = "none" /\ t.status # "done"
      BY <3>1 DEF Agrees
    <3>3. u.settles = 1 /\ u.mishap = "none" /\ u \in ToolStates
      BY <1>0, <2>0, <2>1, <2>4, <3>2, ProjectedIs
    <3>4. /\ t.status = "none" => u.status = "none"
          /\ t.status # "none" => u.status = "done"
      <4>1. t.status \in {"none", "pending", "running"}
        BY <1>0, <3>2 DEF ToolStates
      <4>2. x.ev = "success" => t.status # "pending"
        BY <1>0, <2>0, <3>2 DEF Ready, Is, Agrees
      <4>3. x.ev \in {"success", "failure"} /\ t.settles <= 1
        BY <2>4, <3>2 DEF Settlements
      <4> QED  BY <1>0, <2>0, <2>1, <2>4, <4>1, <4>2, <4>3, ProjectedIs
    <3>5. n.settled /\ (n.known <=> m.known) /\ (n.called <=> m.called) /\ (n.hosted <=> m.hosted)
      BY <1>0, <2>0, <2>4 DEF CallFlagsAre, Is, Settlements
    <3>6. t.status \in {"none", "pending", "running"}
      BY <1>0, <3>2 DEF ToolStates
    <3>7. Past(c)'
      BY <3>3, <3>4, <3>6 DEF Past, Open
    <3>8. Agrees(c)'
      BY <1>0, <2>0, <3>1, <3>3, <3>4, <3>5, <3>6 DEF Agrees
    <3> QED  BY <3>3, <3>4, <3>6, <3>7, <3>8
  <2> QED  BY <2>0, <2>2, <2>3, <2>4 DEF OfCalls
<1> QED  BY <1>1, <1>2

LEMMA PublishInv ==
  ASSUME TurnInv, Publish
  PROVE  TurnInv'
<1> DEFINE x == Head(todo)
<1>1. /\ todo \in Seq(Events) /\ todo # <<>> /\ mem \in Memories /\ run \in Runs /\ TurnTypeOK
      /\ x \in Events /\ todo' = Tail(todo) /\ todo' \in Seq(Events)
      /\ mem' = Marked(mem, x) /\ mem' \in Memories /\ Commit(x) /\ FlagsAre(x, mem, mem') /\ behind' = behind
  <2>1. todo \in Seq(Events) /\ todo # <<>> /\ mem \in Memories /\ run \in Runs /\ TurnTypeOK
    BY TurnFields DEF TurnInv, Publish
  <2>2. x \in Events /\ Tail(todo) \in Seq(Events)
    BY <2>1, TailAt
  <2>3. todo' = Tail(todo) /\ mem' = Marked(mem, x) /\ Commit(x) /\ behind' = behind
    BY DEF Publish
  <2> QED  BY <2>1, <2>2, <2>3, MarkedFlags DEF FlagsAre
<1>2. /\ Turning /\ \A c \in Calls : Agrees(c) /\ Fibered(c) /\ Closed(c) /\ Past(c)
      /\ Queue(todo, mem, Streams) /\ Ends /\ (Streams => run.exit = "none")
  BY <1>1 DEF TurnInv, Quiet
<1>3. DueNow(x, mem, Streams, todo')
  BY <1>1, <1>2, QueueHead
<1>4. /\ run' \in Runs /\ run'.pc = run.pc /\ run'.exit = run.exit /\ run'.settled = run.settled
      /\ run'.broke = run.broke /\ (Turning' <=> Turning) /\ (Streams' <=> Streams)
      /\ toolFiber' \in [Calls -> ToolFibers]
      /\ \A c \in Calls : toolFiber'[c] = IF Is(x, {"fork"}, c) THEN "running" ELSE toolFiber[c]
  <2>1. toolFiber \in [Calls -> ToolFibers]
    BY <1>1 DEF TurnTypeOK
  <2>2. CASE x.ev = "fork"
    <3>1. toolFiber' = [toolFiber EXCEPT ![x.of] = "running"] /\ run' = [run EXCEPT !.continues = TRUE] /\ x.of \in Calls
      BY <1>1, <2>2 DEF Publish, Events
    <3>2. "running" \in ToolFibers
      BY DEF ToolFibers
    <3> QED  BY <1>1, <2>1, <2>2, <3>1, <3>2 DEF Runs, Turning, Streams, Is
  <2>3. CASE x.ev # "fork"
    <3>1. toolFiber' = toolFiber /\ run' = run
      BY <2>3 DEF Publish
    <3> QED  BY <1>1, <2>1, <2>3, <3>1 DEF Turning, Streams, Is
  <2> QED  BY <2>2, <2>3
<1>5. \A c \in Calls : Ready(x, c)
  BY <1>2, <1>3 DEF DueNow, Ready, Is, OfCalls, Settlements
<1>6. /\ \A c \in Calls : /\ tool'[c] \in ToolStates /\ Past(c)' /\ Agrees(c)'
                          /\ tool[c].status \in {"running", "done"} => tool'[c].status \in {"running", "done"}
      /\ tool' \in [Calls -> ToolStates]
  <2>1. \A c \in Calls : /\ tool'[c] \in ToolStates /\ Past(c)' /\ Agrees(c)'
                         /\ tool[c].status \in {"running", "done"} => tool'[c].status \in {"running", "done"}
    BY <1>1, <1>2, <1>4, <1>5, CallPublished DEF Ends
  <2>2. \E f : tool' = [c \in Calls |-> f[c]]
    <3>1. tool \in [Calls -> ToolStates]
      BY <1>1 DEF TurnTypeOK
    <3>2. tool' = [c \in Calls |-> tool'[c]]
      BY <1>1, <3>1 DEF Commit
    <3> QED  BY <3>2
  <2> QED  BY <2>1, <2>2
<1>7. /\ step' \in Steps
      /\ step'.started <=> step.started \/ x.ev = "step started"
      /\ "ended" \in step'.ends <=> "ended" \in step.ends \/ x.ev = "step ended"
      /\ "failed" \in step'.ends <=> "failed" \in step.ends \/ x.ev = "step failed"
      /\ "raw" \in step'.ends <=> "raw" \in step.ends \/ x.ev = "step raw"
  BY <1>1, StepPublished
<1>8. /\ \A evs, c : Has(todo, evs, c) <=> Is(x, evs, c) \/ Has(todo', evs, c)
      /\ \A evs : Says(todo, evs) <=> x.ev \in evs \/ Says(todo', evs)
  BY <1>1, TailHas, Zenon
<1> HIDE DEF x
<1>9. TurnTypeOK'
  BY <1>1, <1>4, <1>6, <1>7 DEF TurnTypeOK
<1>10. Quiet'
  BY <1>1, <1>2, <1>4 DEF Quiet, TurnInv, Turning
<1>11. ASSUME NEW c \in Calls
       PROVE  Fibered(c)'
  <2>0. CallFlagsAre(x, mem, mem', c) /\ Fibered(c) /\ Agrees(c) /\ mem.tools[c] \in Marks
    BY <1>1, <1>2, TurnFields DEF FlagsAre
  <2>1. CASE Is(x, {"fork"}, c)
    <3>1. Streams /\ mem.tools[c].called
      BY <1>3, <2>1 DEF DueNow, Is, OfCalls
    <3>2. tool[c].status \in {"running", "done"}
      BY <1>2, <2>0, <3>1 DEF Agrees
    <3> QED  BY <1>4, <1>6, <2>1, <3>1, <3>2 DEF Fibered, Alive, Streams
  <2>2. CASE ~Is(x, {"fork"}, c)
    <3>1. toolFiber'[c] = toolFiber[c] /\ (Alive(c)' <=> Alive(c))
      BY <1>4, <2>2 DEF Alive
    <3>2. mem.tools[c].settled => mem'.tools[c].settled
      BY <2>0 DEF CallFlagsAre
    <3>3. ASSUME mem'.tools[c].called, ~mem'.tools[c].hosted, ~mem'.tools[c].settled
          PROVE  toolFiber[c] # "none" \/ Has(todo', {"fork", "failure"}, c) \/ run.exit = "interrupt"
      <4>1. ~Is(x, {"fork", "failure"}, c) /\ ~Is(x, {"hosted"}, c)
        BY <2>0, <2>2, <3>3 DEF CallFlagsAre, Is, Settlements
      <4>2. CASE mem.tools[c].called
        BY <1>8, <2>0, <3>3, <4>1, <4>2 DEF Fibered, CallFlagsAre
      <4>3. CASE Is(x, {"called"}, c)
        BY <1>3, <2>0, <3>3, <4>3 DEF DueNow, CallFlagsAre
      <4> QED  BY <2>0, <3>3, <4>1, <4>2, <4>3 DEF CallFlagsAre, Is
    <3> QED  BY <1>4, <1>6, <2>0, <3>1, <3>2, <3>3 DEF Fibered
  <2> QED  BY <2>1, <2>2
<1>12. ASSUME NEW c \in Calls
       PROVE  Closed(c)'
  <2>0. CallFlagsAre(x, mem, mem', c) /\ Closed(c) /\ mem'.overflow = mem.overflow /\ mem'.providerFailed = mem.providerFailed
    BY <1>1, <1>2 DEF FlagsAre
  <2>1. Is(x, {"input"}, c) => Streams
    BY <1>3 DEF DueNow, Is, OfCalls
  <2>2. Failing' <=> Failing
    BY <1>4 DEF Failing
  <2>3. Failing => ~Streams
    BY DEF Failing, Streams
  <2>4. Is(x, {"failure"}, c) => mem'.tools[c].settled
    BY <2>0 DEF CallFlagsAre, Is, Settlements
  <2> QED  BY <1>2, <1>4, <1>8, <2>0, <2>1, <2>2, <2>3, <2>4 DEF Closed, CallFlagsAre
<1>13. Queue(todo, mem, Streams)'
  <2>1. Queue(Tail(todo), mem', Streams)
    <3>1. Streams \in BOOLEAN /\ FlagsAre(Head(todo), mem, mem')
      BY <1>1 DEF Streams, x
    <3> QED  BY <1>1, <1>2, <3>1, QueueTail
  <2>2. Streams' = Streams
    BY <1>4 DEF Streams
  <2> QED  BY <1>1, <2>1, <2>2
<1>14. Ends'
  <2>1. /\ mem'.started <=> mem.started \/ x.ev = "step started"
        /\ mem'.failed <=> mem.failed \/ x.ev \in Fails
        /\ mem'.active <=> x.ev = "step started" \/ (mem.active /\ x.ev \notin Fails)
        /\ mem'.providerFailed = mem.providerFailed /\ mem'.finished = mem.finished /\ mem'.overflow = mem.overflow
    BY <1>1 DEF FlagsAre
  <2>2. x.ev \in Fails => ~Says(todo', {"step started"})
    BY <1>3 DEF DueNow
  <2>3. /\ Says(todo', {"step failed"}) \/ x.ev = "step failed" <=> Says(todo, {"step failed"})
        /\ Says(todo', {"step ended"}) \/ x.ev = "step ended" <=> Says(todo, {"step ended"})
        /\ Says(todo', {"step started"}) \/ x.ev = "step started" <=> Says(todo, {"step started"})
        /\ Says(todo', Fails) \/ x.ev \in Fails <=> Says(todo, Fails)
    BY <1>8
  <2>4. x.ev \in {"step failed", "step raw"} <=> x.ev \in Fails
    BY DEF Fails
  <2>5. step'.started => mem'.started
    BY <1>2, <1>7, <2>1 DEF Ends
  <2>6. run.exit # "interrupt" /\ mem'.started => step'.started
    BY <1>2, <1>7, <2>1 DEF Ends
  <2>7. {"failed", "raw"} \cap step'.ends # {} => mem'.failed
    BY <1>2, <1>7, <2>1, <2>4 DEF Ends
  <2>8. "failed" \in step'.ends \/ Says(todo', {"step failed"}) =>
          mem'.providerFailed \/ (run.pc \in {"close", "leave"} /\ ~mem'.finished)
    BY <1>2, <1>7, <2>1, <2>3 DEF Ends
  <2>9. "ended" \in step'.ends \/ Says(todo', {"step ended"}) =>
          run.pc = "leave" /\ mem'.finished /\ ~mem'.providerFailed /\ ~Says(todo', Fails)
    BY <1>2, <1>7, <2>1, <2>3 DEF Ends
  <2>10. run.pc \in {"stream", "ended", "await", "settled"} /\ mem'.finished
         /\ (mem'.active \/ Says(todo', {"step started"})) => mem'.providerFailed \/ Says(todo', Fails)
    BY <1>2, <2>1, <2>2, <2>3, <2>4 DEF Ends
  <2>11. run.pc \in {"await", "settled", "close", "leave"} /\ mem'.overflow => mem'.providerFailed
    BY <1>2, <2>1 DEF Ends
  <2>12. run.pc = "stream" => ~Says(todo', {"step raw"})
    BY <1>2, <1>8 DEF Ends
  <2> QED  BY <1>4, <2>5, <2>6, <2>7, <2>8, <2>9, <2>10, <2>11, <2>12 DEF Ends
<1>15. StepEndsOnce'
  <2>1. step.ends \in SUBSET {"ended", "failed", "raw"} /\ step'.ends \in SUBSET {"ended", "failed", "raw"}
    BY <1>1, <1>7 DEF TurnTypeOK, Steps
  <2>2. StepEndsOnce
    BY DEF TurnInv
  <2>3. CASE x.ev \in {"step failed", "step raw"}
    <3>1. ~mem.failed /\ Says(todo, Fails)
      BY <1>3, <1>8, <2>3 DEF DueNow, Fails
    <3>2. step.ends = {}
      BY <1>2, <2>1, <3>1 DEF Ends
    <3> QED  BY <1>7, <2>1, <2>3, <3>2 DEF StepEndsOnce
  <2>4. CASE x.ev = "step ended"
    <3>1. Says(todo, {"step ended"})
      BY <1>8, <2>4
    <3>2. "failed" \notin step.ends
      BY <1>2, <3>1 DEF Ends
    <3> QED  BY <1>7, <2>1, <2>2, <2>4, <3>2 DEF StepEndsOnce
  <2>5. CASE x.ev \notin {"step failed", "step raw", "step ended"}
    <3>1. step'.ends = step.ends
      <4>1. \A e \in {"ended", "failed", "raw"} : e \in step'.ends <=> e \in step.ends
        BY <1>7, <2>5
      <4> QED  BY <2>1, <4>1
    <3> QED  BY <2>2, <3>1 DEF StepEndsOnce
  <2> QED  BY <2>3, <2>4, <2>5
<1> QED  BY <1>6, <1>9, <1>10, <1>11, <1>12, <1>13, <1>14, <1>15 DEF TurnInv

-----------------------------------------------------------------------------
(* The tools *)

LEMMA EndsKept ==
  ASSUME Ends, UNCHANGED <<step, todo>>, run'.pc = run.pc, run'.exit = run.exit,
         mem'.started = mem.started, mem'.failed = mem.failed, mem'.active = mem.active,
         mem'.providerFailed = mem.providerFailed, mem'.finished = mem.finished,
         mem'.overflow = mem.overflow
  PROVE  Ends'
BY DEF Ends

\* What the steps of a tool's fiber leave alone.
ToolStep(c) ==
  /\ UNCHANGED <<step, behind, todo>>
  /\ run' \in Runs /\ run'.pc = run.pc /\ run'.exit = run.exit /\ run'.settled = run.settled
  /\ run.broke # "none" => run'.broke # "none"
  /\ toolFiber' \in [Calls -> ToolFibers] /\ \A d \in Calls : d # c => toolFiber'[d] = toolFiber[d]

LEMMA BreaksIs ==
  ASSUME TurnTypeOK, NEW how \in {"failed", "declined"}, Breaks(how)
  PROVE  /\ run' \in Runs /\ run'.broke # "none" /\ run'.pc = run.pc /\ run'.exit = run.exit
         /\ run'.settled = run.settled
BY DEF Breaks, TurnTypeOK, Runs

LEMMA AliveTurns ==
  ASSUME TurnInv, NEW c \in Calls, Alive(c)
  PROVE  /\ Turning /\ tool[c].status \in {"running", "done"}
         /\ ~(run.pc \in {"settled", "close", "leave"} /\ run.settled = "success")
         /\ \A d \in Calls : Agrees(d) /\ Fibered(d) /\ Closed(d) /\ Past(d)
         /\ Queue(todo, mem, Streams) /\ Ends /\ Quiet /\ TurnTypeOK /\ StepEndsOnce
BY DEF TurnInv, Quiet, Fibered

\* The others' part of a tool's step.
LEMMA OthersFibered ==
  ASSUME TurnInv, NEW c \in Calls, Alive(c), ToolStep(c), NEW d \in Calls,
         d # c, mem'.tools[d] = mem.tools[d], tool'[d] = tool[d]
  PROVE  Past(d)' /\ Agrees(d)' /\ Fibered(d)' /\ Alive(d)' = Alive(d)
<1>1. /\ Fibered(d) /\ Agrees(d) /\ Past(d)
      /\ ~(run.pc \in {"settled", "close", "leave"} /\ run.settled = "success")
      /\ todo' = todo /\ toolFiber'[d] = toolFiber[d] /\ step' = step
      /\ run'.pc = run.pc /\ run'.exit = run.exit /\ run'.settled = run.settled
      /\ run.broke # "none" => run'.broke # "none"
  BY AliveTurns DEF ToolStep
<1>2. Past(d)'
  BY <1>1 DEF Past, Open
<1>3. Agrees(d)'
  BY <1>1 DEF Agrees
<1>4. Alive(d)' = Alive(d)
  BY <1>1 DEF Alive
<1>5. Fibered(d)'
  BY <1>1, <1>4 DEF Fibered
<1> QED  BY <1>2, <1>3, <1>4, <1>5

LEMMA ToolReturnsInv ==
  ASSUME TurnInv, NEW c \in Calls, ToolReturns(c)
  PROVE  TurnInv'
<1>1. Alive(c)
  BY DEF ToolReturns, Alive
<1>2. TurnTypeOK /\ toolFiber \in [Calls -> ToolFibers] /\ UNCHANGED <<step, tool, behind, mem, todo>>
  BY AliveTurns, <1>1 DEF TurnTypeOK, ToolReturns
<1>3. /\ ToolStep(c)
      /\ toolFiber'[c] \in {"publish", "failed", "declined"}
      /\ toolFiber'[c] # "publish" => run'.broke # "none"
  <2>1. CASE toolFiber' = [toolFiber EXCEPT ![c] = "publish"] /\ UNCHANGED run
    BY <1>2, <2>1 DEF ToolStep, ToolFibers, TurnTypeOK
  <2>2. CASE toolFiber' = [toolFiber EXCEPT ![c] = "failed"] /\ Breaks("failed")
    <3>1. run' \in Runs /\ run'.broke # "none" /\ run'.pc = run.pc /\ run'.exit = run.exit /\ run'.settled = run.settled
      BY <1>2, <2>2, BreaksIs
    <3> QED  BY <1>2, <2>2, <3>1 DEF ToolStep, ToolFibers
  <2>3. CASE toolFiber' = [toolFiber EXCEPT ![c] = "declined"] /\ Breaks("declined")
    <3>1. run' \in Runs /\ run'.broke # "none" /\ run'.pc = run.pc /\ run'.exit = run.exit /\ run'.settled = run.settled
      BY <1>2, <2>3, BreaksIs
    <3> QED  BY <1>2, <2>3, <3>1 DEF ToolStep, ToolFibers
  <2> QED  BY <2>1, <2>2, <2>3 DEF ToolReturns
<1>4. TurnTypeOK'
  BY <1>2, <1>3 DEF TurnTypeOK, ToolStep
<1>5. (Turning' <=> Turning) /\ Streams' = Streams /\ (Failing' <=> Failing)
  BY <1>3 DEF ToolStep, Turning, Streams, Failing
<1>6. Quiet'
  BY <1>1, <1>2, <1>3, <1>5, AliveTurns DEF Quiet, ToolStep, Turning
<1>7. StepEndsOnce' /\ Ends'
  BY <1>1, <1>2, <1>3, AliveTurns, EndsKept DEF StepEndsOnce, ToolStep
<1>8. ASSUME NEW d \in Calls
      PROVE  Past(d)' /\ Agrees(d)' /\ Fibered(d)' /\ Closed(d)'
  <2>0. Past(d) /\ Agrees(d) /\ Fibered(d) /\ Closed(d)
    BY <1>1, AliveTurns
  <2>1. Closed(d)'
    BY <1>2, <1>3, <1>5, <2>0 DEF Closed, ToolStep
  <2>2. CASE d # c
    BY <1>1, <1>2, <1>3, <2>1, <2>2, OthersFibered
  <2>3. CASE d = c
    <3>1. Past(c)' /\ Agrees(c)'
      BY <1>2, <1>3, <2>0, <2>3 DEF Past, Agrees, Open, ToolStep
    <3>2. Fibered(c)'
      BY <1>1, <1>2, <1>3, AliveTurns DEF Fibered, ToolStep, Alive
    <3> QED  BY <2>1, <2>3, <3>1, <3>2
  <2> QED  BY <2>2, <2>3
<1>9. Queue(todo, mem, Streams)'
  BY <1>1, <1>2, <1>5, AliveTurns
<1> QED  BY <1>4, <1>6, <1>7, <1>8, <1>9 DEF TurnInv

\* A tool's fiber settles its call in the publisher and is over.
LEMMA ToolSettles ==
  ASSUME TurnInv, NEW c \in Calls, Alive(c), ToolStep(c), todo = <<>>, NEW ev \in Settlements,
         mem' = Marked(mem, [ev |-> ev, of |-> c]), toolFiber'[c] \in {"gone", "failed"},
         toolFiber'[c] = "failed" => run'.broke # "none",
         tool' \in [Calls -> ToolStates], \A d \in Calls : d # c => tool'[d] = tool[d],
         Past(c)', Agrees(c)'
  PROVE  TurnInv'
<1> DEFINE x == [ev |-> ev, of |-> c]
<1>1. x \in Events /\ x.ev = ev /\ x.of = c
  BY DEF Events, Settlements
<1>2. FlagsAre(x, mem, mem') /\ mem' \in Memories /\ mem \in Memories
  BY <1>1, AliveTurns, TurnFields, MarkedFlags DEF FlagsAre
<1>3. /\ mem'.started = mem.started /\ mem'.failed = mem.failed /\ mem'.active = mem.active
      /\ mem'.providerFailed = mem.providerFailed /\ mem'.finished = mem.finished
      /\ mem'.overflow = mem.overflow
  BY <1>1, <1>2 DEF FlagsAre, Memories, Fails, Settlements
<1>4. \A d \in Calls : CallFlagsAre(x, mem, mem', d) /\ mem.tools[d] \in Marks /\ mem'.tools[d] \in Marks
  BY <1>2 DEF FlagsAre, Memories
<1>5. /\ \A d \in Calls : d # c => mem'.tools[d] = mem.tools[d]
      /\ mem'.tools[c].settled
      /\ mem'.tools[c].known = mem.tools[c].known /\ mem'.tools[c].called = mem.tools[c].called
  <2>1. ASSUME NEW d \in Calls, d # c
        PROVE  mem'.tools[d] = mem.tools[d]
    <3>1. ~Is(x, {"input"}, d) /\ ~Is(x, {"called", "hosted"}, d) /\ ~Is(x, {"hosted"}, d) /\ ~Is(x, Settlements, d)
      BY <1>1, <2>1 DEF Is
    <3> QED  BY <1>4, <3>1 DEF CallFlagsAre, Marks
  <2>2. mem'.tools[c].settled
    BY <1>1, <1>4 DEF CallFlagsAre, Is
  <2>3. mem'.tools[c].known = mem.tools[c].known /\ mem'.tools[c].called = mem.tools[c].called
    BY <1>1, <1>4 DEF CallFlagsAre, Is, Settlements, Marks
  <2> QED  BY <2>1, <2>2, <2>3
<1> HIDE DEF x
<1>6. TurnTypeOK'
  BY <1>2, AliveTurns DEF TurnTypeOK, ToolStep
<1>7. (Turning' <=> Turning) /\ Streams' = Streams /\ (Failing' <=> Failing)
  BY DEF ToolStep, Turning, Streams, Failing
<1>8. Quiet'
  BY <1>7, AliveTurns DEF Quiet, ToolStep, Turning
<1>9. StepEndsOnce' /\ Ends'
  BY <1>3, AliveTurns, EndsKept DEF StepEndsOnce, ToolStep
<1>10. ASSUME NEW d \in Calls
       PROVE  Past(d)' /\ Agrees(d)' /\ Fibered(d)' /\ Closed(d)'
  <2>0. Past(d) /\ Agrees(d) /\ Fibered(d) /\ Closed(d)
    BY AliveTurns
  <2>1. CASE d # c
    <3>1. Past(d)' /\ Agrees(d)' /\ Fibered(d)'
      BY <1>5, <2>1, OthersFibered
    <3>2. Closed(d)'
      BY <1>3, <1>5, <1>7, <2>0, <2>1 DEF Closed, ToolStep
    <3> QED  BY <3>1, <3>2
  <2>2. CASE d = c
    <3>1. Fibered(c)'
      BY <1>5, AliveTurns DEF Fibered, ToolStep, Alive
    <3>2. Closed(c)'
      BY <1>5 DEF Closed
    <3> QED  BY <2>2, <3>1, <3>2
  <2> QED  BY <2>1, <2>2
<1>11. Queue(todo, mem, Streams)'
  BY EmptyQueue DEF ToolStep
<1> QED  BY <1>6, <1>7, <1>8, <1>9, <1>10, <1>11 DEF TurnInv

LEMMA ToolPublishesInv ==
  ASSUME TurnInv, NEW c \in Calls, NEW ev \in Settlements, ToolPublishes(c, ev)
  PROVE  TurnInv'
<1>1. Alive(c) /\ todo = <<>> /\ UNCHANGED <<behind, todo>>
  BY DEF ToolPublishes, PermitFree, Alive
<1>2. TurnTypeOK /\ toolFiber \in [Calls -> ToolFibers] /\ run \in Runs
  BY AliveTurns, <1>1 DEF TurnTypeOK
<1>3. CASE mem.tools[c].settled
  <2>1. /\ toolFiber' = [toolFiber EXCEPT ![c] = IF ev = "failure" THEN "gone" ELSE "failed"]
        /\ IF ev = "failure" THEN UNCHANGED run ELSE Breaks("failed")
        /\ UNCHANGED <<step, tool, mem>>
    BY <1>3 DEF ToolPublishes
  <2>2. /\ run' \in Runs /\ run'.pc = run.pc /\ run'.exit = run.exit /\ run'.settled = run.settled
        /\ run.broke # "none" => run'.broke # "none"
        /\ ev # "failure" => run'.broke # "none"
    BY <1>2, <2>1, BreaksIs
  <2>3. /\ ToolStep(c) /\ toolFiber'[c] \in {"gone", "failed"}
        /\ toolFiber'[c] = "failed" => run'.broke # "none"
    BY <1>1, <1>2, <2>1, <2>2 DEF ToolStep, ToolFibers
  <2>4. TurnTypeOK'
    BY <1>1, <1>2, <2>1, <2>3 DEF TurnTypeOK, ToolStep
  <2>5. (Turning' <=> Turning) /\ Streams' = Streams /\ (Failing' <=> Failing)
    BY <2>2 DEF Turning, Streams, Failing
  <2>6. Quiet'
    BY <1>1, <2>1, <2>2, <2>5, AliveTurns DEF Quiet, Turning
  <2>7. StepEndsOnce' /\ Ends'
    BY <1>1, <2>1, <2>2, AliveTurns, EndsKept DEF StepEndsOnce
  <2>8. ASSUME NEW d \in Calls
        PROVE  Past(d)' /\ Agrees(d)' /\ Fibered(d)' /\ Closed(d)'
    <3>0. Past(d) /\ Agrees(d) /\ Fibered(d) /\ Closed(d)
      BY <1>1, AliveTurns
    <3>1. Closed(d)'
      BY <1>1, <2>1, <2>2, <2>5, <3>0 DEF Closed
    <3>2. CASE d # c
      BY <1>1, <2>1, <2>3, <3>1, <3>2, OthersFibered
    <3>3. CASE d = c
      <4>1. Past(c)' /\ Agrees(c)'
        BY <2>1, <2>2, <3>0, <3>3 DEF Past, Agrees, Open
      <4>2. Fibered(c)'
        BY <1>1, <1>3, <2>1, <2>2, <2>3, AliveTurns DEF Fibered, Alive
      <4> QED  BY <3>1, <3>3, <4>1, <4>2
    <3> QED  BY <3>2, <3>3
  <2>9. Queue(todo, mem, Streams)'
    BY <1>1, EmptyQueue
  <2> QED  BY <2>4, <2>6, <2>7, <2>8, <2>9 DEF TurnInv
<1>4. CASE ~mem.tools[c].settled
  <2> DEFINE x == [ev |-> ev, of |-> c]
  <2>1. /\ mem' = Marked(mem, x) /\ Commit(x) /\ toolFiber' = [toolFiber EXCEPT ![c] = "gone"] /\ run' = run
    BY <1>4 DEF ToolPublishes
  <2>2. x \in Events /\ x.ev = ev /\ x.of = c
    BY DEF Events, Settlements
  <2>3. FlagsAre(x, mem, mem') /\ mem.tools[c] \in Marks
    BY <1>2, <2>1, <2>2, MarkedFlags, TurnFields
  <2> HIDE DEF x
  <2>4. tool[c].status = "running" /\ mem.tools[c].called /\ mem.tools[c].known
    BY <1>1, <1>4, AliveTurns DEF Agrees
  <2>5. Ready(x, c)
    BY <1>4, <2>2, <2>4 DEF Ready, Is, Settlements
  <2>6. tool'[c] \in ToolStates /\ Past(c)' /\ Agrees(c)'
    BY <1>1, <1>2, <2>1, <2>2, <2>3, <2>5, AliveTurns, CallPublished DEF Ends
  <2>7. tool' = tool \/ tool' = [tool EXCEPT ![c] = Projected(@, x)]
    BY <2>1, <2>2 DEF Commit
  <2>8. tool' \in [Calls -> ToolStates] /\ \A d \in Calls : d # c => tool'[d] = tool[d]
    BY <1>2, <2>6, <2>7 DEF TurnTypeOK
  <2>9. step' = step
    BY <2>1, <2>2 DEF Commit, SteppedBy, Settlements
  <2>10. ToolStep(c) /\ toolFiber'[c] = "gone"
    BY <1>1, <1>2, <2>1, <2>9 DEF ToolStep, ToolFibers
  <2> QED  BY <1>1, <2>1, <2>6, <2>8, <2>10, ToolSettles DEF x
<1> QED  BY <1>3, <1>4

LEMMA ResultLostInv ==
  ASSUME TurnInv, NEW c \in Calls, ResultLost(c)
  PROVE  TurnInv'
<1>1. Alive(c) /\ todo = <<>> /\ UNCHANGED <<step, behind, todo>> /\ ~mem.tools[c].settled
  BY DEF ResultLost, PermitFree, Alive
<1>2. TurnTypeOK /\ toolFiber \in [Calls -> ToolFibers] /\ run \in Runs /\ tool \in [Calls -> ToolStates]
  BY AliveTurns, <1>1 DEF TurnTypeOK
<1>3. /\ run' \in Runs /\ run'.pc = run.pc /\ run'.exit = run.exit /\ run'.settled = run.settled
      /\ run'.broke # "none"
  BY <1>2, BreaksIs DEF ResultLost
<1>4. /\ ToolStep(c) /\ toolFiber'[c] = "failed"
  BY <1>1, <1>2, <1>3 DEF ResultLost, ToolStep, ToolFibers
<1>5. tool[c].status = "running" /\ mem.tools[c].called /\ mem.tools[c].known
      /\ tool[c].settles = 0 /\ tool[c].mishap = "none" /\ Agrees(c)
  BY <1>1, AliveTurns DEF Agrees
<1>6. /\ tool'[c] = [tool[c] EXCEPT !.mishap = "lost"] /\ tool' \in [Calls -> ToolStates]
      /\ \A d \in Calls : d # c => tool'[d] = tool[d]
  BY <1>2 DEF ResultLost, ToolStates, Mishaps
<1>7. tool'[c].status = "running" /\ tool'[c].settles = 0 /\ tool'[c].mishap = "lost"
  BY <1>2, <1>5, <1>6 DEF ToolStates
<1>8. Past(c)'
  BY <1>7 DEF Past, Open
<1>9. mem' = Marked(mem, [ev |-> "success", of |-> c])
  BY DEF ResultLost
<1>10. Agrees(c)'
  <2> DEFINE x == [ev |-> "success", of |-> c]
  <2>1. x \in Events /\ mem \in Memories
    BY <1>2, TurnFields DEF Events
  <2>2. CallFlagsAre(x, mem, mem', c)
    BY <1>9, <2>1, MarkedFlags DEF FlagsAre
  <2>3. mem'.tools[c].settled /\ mem'.tools[c].known /\ mem'.tools[c].called /\ (mem'.tools[c].hosted <=> mem.tools[c].hosted)
    BY <1>5, <2>2 DEF CallFlagsAre, Is, Settlements
  <2>4. step'.started
    BY <1>1, <1>5 DEF Agrees
  <2> QED  BY <1>7, <2>3, <2>4 DEF Agrees
<1> QED  BY <1>1, <1>3, <1>4, <1>6, <1>8, <1>9, <1>10, ToolSettles DEF Settlements

-----------------------------------------------------------------------------
(* Between the turns *)

LEMMA Nulls == Off \in Runs /\ NoMemory \in Memories /\ NoStep \in Steps /\ NoTool \in ToolStates /\ NoMark \in Marks
<1>1. NoMark \in Marks
  BY DEF NoMark, Marks
<1>2. NoTool \in ToolStates
  BY DEF NoTool, ToolStates, Mishaps
<1>3. [c \in Calls |-> NoMark] \in [Calls -> Marks]
  BY <1>1
<1>4. NoMemory \in Memories
  BY <1>3 DEF NoMemory, Memories
<1> QED  BY <1>1, <1>2, <1>4 DEF Off, Runs, NoStep, Steps

\* The invariant when no turn goes on.
LEMMA QuietInv ==
  ASSUME TurnTypeOK, ~Turning, Quiet, StepEndsOnce, \A c \in Calls : Past(c)
  PROVE  TurnInv
BY DEF TurnInv

LEMMA TurnInitHolds == TurnInit => TurnInv
<1> SUFFICES ASSUME TurnInit
             PROVE  TurnInv
  OBVIOUS
<1>1. TurnTypeOK
  <2>1. <<>> \in Seq(Events)
    BY EmptySeq
  <2> QED  BY Nulls, <2>1 DEF TurnInit, TurnTypeOK, ToolFibers
<1>2. ~Turning
  BY DEF TurnInit, Turning, Off
<1>3. Quiet
  BY <1>2 DEF Quiet, TurnInit, Off, Streams, Alive
<1>4. StepEndsOnce
  BY DEF TurnInit, NoStep, StepEndsOnce
<1>5. \A c \in Calls : Past(c)
  BY DEF TurnInit, NoTool, Past, Open
<1> QED  BY <1>1, <1>2, <1>3, <1>4, <1>5, QuietInv

LEMMA OverInv ==
  ASSUME TurnInv, Over, UNCHANGED <<step, tool, behind>>
  PROVE  TurnInv'
<1>0. TurnTypeOK /\ StepEndsOnce /\ Quiet /\ \A c \in Calls : Past(c)
  BY DEF TurnInv
<1>1. TurnTypeOK'
  <2>1. <<>> \in Seq(Events)
    BY EmptySeq
  <2> QED  BY <1>0, <2>1, Nulls DEF TurnTypeOK, Over, ToolFibers
<1>2. run'.pc = "off" /\ ~Turning'
  BY DEF Over, Turning, Off
<1>3. Quiet'
  BY <1>0, <1>2 DEF Quiet, Over, Streams, Alive
<1>4. StepEndsOnce' /\ \A c \in Calls : Past(c)'
  BY <1>0 DEF StepEndsOnce, Past, Open
<1> QED  BY <1>1, <1>2, <1>3, <1>4, QuietInv DEF TurnInv

LEMMA RunnerIs ==
  ASSUME run \in Runs, NEW pc \in {"off", "recover", "request", "stream", "ended", "await", "settled", "close", "leave"},
         Runner(pc)
  PROVE  /\ run' \in Runs /\ run'.pc = pc /\ run'.exit = run.exit /\ run'.settled = run.settled
         /\ run'.broke = run.broke /\ run'.stopping = run.stopping
BY DEF Runner, Runs

LEMMA StartInv ==
  ASSUME TurnInv, Start
  PROVE  TurnInv'
<1>0. TurnTypeOK /\ run \in Runs /\ StepEndsOnce /\ Quiet /\ \A c \in Calls : Past(c)
  BY DEF TurnInv, TurnTypeOK
<1>1. run' \in Runs /\ run'.pc = "recover" /\ ~Turning /\ ~Turning' /\ UNCHANGED <<step, tool, behind, mem, todo, toolFiber>>
  BY <1>0, RunnerIs DEF Start, Turning
<1>2. TurnTypeOK'
  BY <1>0, <1>1 DEF TurnTypeOK
<1>3. Quiet'
  BY <1>0, <1>1 DEF Quiet, Streams, Alive
<1>4. StepEndsOnce' /\ \A c \in Calls : Past(c)'
  BY <1>0, <1>1 DEF StepEndsOnce, Past, Open
<1> QED  BY <1>1, <1>2, <1>3, <1>4, QuietInv DEF TurnInv

LEMMA RecoverInv ==
  ASSUME TurnInv, NEW c \in Calls, Recover(c)
  PROVE  TurnInv'
<1>0. TurnTypeOK /\ tool \in [Calls -> ToolStates] /\ StepEndsOnce /\ Quiet /\ \A d \in Calls : Past(d)
  BY DEF TurnInv, TurnTypeOK
<1> DEFINE x == [ev |-> "failure", of |-> c]
<1>1. /\ tool' = [tool EXCEPT ![c] = Projected(@, x)] /\ UNCHANGED <<step, behind, mem, todo, toolFiber, run>>
      /\ run.pc = "recover" /\ Open(c)
  BY DEF Recover
<1>2. tool[c] \in ToolStates /\ tool[c].settles <= 1 /\ tool[c].status \in {"pending", "running"} /\ Past(c)
  BY <1>0, <1>1 DEF Past, Open
<1>3. /\ tool'[c] \in ToolStates /\ tool'[c].settles = tool[c].settles + 1 /\ tool'[c].mishap = tool[c].mishap
      /\ tool'[c].status = "done"
  <2>1. x.ev = "failure" /\ x.ev \in OfCalls \ {"fork"} /\ x.ev \in Settlements
    BY DEF OfCalls, Settlements
  <2>2. tool'[c] = Projected(tool[c], x)
    BY <1>0, <1>1
  <2> HIDE DEF x
  <2> QED  BY <1>2, <2>1, <2>2, ProjectedIs
<1>4. \A d \in Calls : d # c => tool'[d] = tool[d]
  BY <1>0, <1>1
<1>5. tool' \in [Calls -> ToolStates]
  BY <1>0, <1>1, <1>3
<1>6. tool[c].settles \in {0, 1}
  BY <1>2 DEF ToolStates
<1>7. Past(c)'
  <2>1. CASE tool[c].mishap = "revived"
    BY <1>3, <1>6, <2>1 DEF Past, Open
  <2>2. CASE tool[c].mishap # "revived"
    <3>1. tool[c].settles = 0
      BY <1>2, <1>6, <2>2 DEF Past
    <3> QED  BY <1>3, <2>2, <3>1 DEF Past, Open
  <2> QED  BY <2>1, <2>2
<1>8. \A d \in Calls : Past(d)'
  <2> TAKE d \in Calls
  <2>1. CASE d = c
    BY <1>7, <2>1
  <2>2. CASE d # c
    BY <1>0, <1>4, <2>2 DEF Past, Open
  <2> QED  BY <2>1, <2>2
<1>9. TurnTypeOK' /\ ~Turning' /\ Quiet' /\ StepEndsOnce'
  BY <1>0, <1>1, <1>5 DEF TurnTypeOK, Turning, Quiet, StepEndsOnce, Streams, Alive
<1> QED  BY <1>8, <1>9, QuietInv DEF TurnInv

LEMMA RecoverBehindInv ==
  ASSUME TurnInv, NEW k, RecoverBehind(k)
  PROVE  TurnInv'
<1>0. TurnTypeOK /\ StepEndsOnce /\ Quiet /\ \A d \in Calls : Past(d)
  BY DEF TurnInv
<1>1. /\ behind' = behind \ {k} /\ UNCHANGED <<step, tool, mem, todo, toolFiber, run>> /\ run.pc = "recover"
  BY DEF RecoverBehind
<1>2. TurnTypeOK' /\ ~Turning' /\ Quiet' /\ StepEndsOnce' /\ \A d \in Calls : Past(d)'
  BY <1>0, <1>1 DEF TurnTypeOK, Turning, Quiet, StepEndsOnce, Streams, Alive, Past, Open
<1> QED  BY <1>2, QuietInv DEF TurnInv

LEMMA RecoveredInv ==
  ASSUME TurnInv, Recovered
  PROVE  TurnInv'
<1>0. TurnTypeOK /\ StepEndsOnce /\ Quiet /\ \A d \in Calls : Past(d)
  BY DEF TurnInv
<1>1. /\ run' = [Off EXCEPT !.pc = "request", !.recover = TRUE] /\ UNCHANGED <<step, tool, behind, mem, todo, toolFiber>>
      /\ run.pc = "recover" /\ \A c \in Calls : ~Open(c)
  BY DEF Recovered
<1>2. run' \in Runs /\ run'.pc = "request"
  BY <1>1 DEF Off, Runs
<1>3. TurnTypeOK' /\ ~Turning' /\ Quiet' /\ StepEndsOnce' /\ \A d \in Calls : Past(d)'
  BY <1>0, <1>1, <1>2 DEF TurnTypeOK, Turning, Quiet, StepEndsOnce, Streams, Alive, Past, Open
<1> QED  BY <1>3, QuietInv DEF TurnInv

LEMMA RequestFailsInv ==
  ASSUME TurnInv, RequestFails \/ Crash
  PROVE  TurnInv'
BY OverInv DEF RequestFails, Crash

LEMMA RequestInv ==
  ASSUME TurnInv, NEW last \in BOOLEAN, Request(last)
  PROVE  TurnInv' /\ "none" \notin behind' /\ \A c \in Calls : ~Alive(c)
<1>0. TurnTypeOK /\ run \in Runs /\ tool \in [Calls -> ToolStates] /\ Quiet /\ ~Turning
  BY DEF TurnInv, TurnTypeOK, Request, Turning
<1>1. /\ step' = NoStep /\ tool' = [c \in Calls |-> NoTool] /\ mem' = NoMemory /\ todo' = todo
      /\ toolFiber' = [c \in Calls |-> "none"]
      /\ behind' = behind \cup {tool[c].mishap : c \in {d \in Calls : Open(d)}}
      /\ run' = [Off EXCEPT !.pc = "stream", !.recover = run.recover, !.disabled = last]
      /\ run.pc = "request"
  BY DEF Request
<1>2. /\ run' \in Runs /\ run'.pc = "stream" /\ run'.exit = "none" /\ run'.settled = "none" /\ run'.broke = "none"
  BY <1>0, <1>1 DEF Off, Runs
<1>3. todo = <<>> /\ \A c \in Calls : ~Alive(c)
  BY <1>0 DEF Quiet
<1>4. behind' \subseteq Mishaps /\ "none" \notin behind'
  <2>1. \A c \in Calls : Open(c) => tool[c].mishap # "none"
    BY <1>0, <1>1 DEF Quiet
  <2>2. \A c \in Calls : tool[c].mishap \in Mishaps
    BY <1>0 DEF ToolStates
  <2> QED  BY <1>0, <1>1, <2>1, <2>2 DEF Quiet, TurnTypeOK
<1>5. TurnTypeOK'
  BY <1>0, <1>1, <1>2, <1>4, Nulls DEF TurnTypeOK, ToolFibers
<1>6. Turning' /\ Streams'
  BY <1>2 DEF Turning, Streams
<1>7. Quiet'
  BY <1>2, <1>4, <1>6 DEF Quiet
<1>8. StepEndsOnce'
  BY <1>1 DEF StepEndsOnce, NoStep
<1>9. ASSUME NEW c \in Calls
      PROVE  Past(c)' /\ Agrees(c)' /\ Fibered(c)' /\ Closed(c)'
  <2>1. /\ tool'[c] = NoTool /\ mem'.tools[c] = NoMark /\ toolFiber'[c] = "none"
    BY <1>1 DEF NoMemory
  <2>2. /\ tool'[c].status = "none" /\ tool'[c].settles = 0 /\ tool'[c].mishap = "none"
        /\ ~mem'.tools[c].known /\ ~mem'.tools[c].called /\ ~mem'.tools[c].settled /\ ~mem'.tools[c].hosted
    BY <2>1 DEF NoTool, NoMark
  <2>3. Past(c)' /\ Agrees(c)'
    BY <2>2 DEF Past, Agrees, Open
  <2>4. Fibered(c)'
    BY <1>2, <2>1, <2>2 DEF Fibered, Alive
  <2>5. Closed(c)'
    BY <2>2 DEF Closed
  <2> QED  BY <2>3, <2>4, <2>5
<1>10. Queue(todo, mem, Streams)'
  BY <1>1, <1>3, EmptyQueue
<1>11. Ends'
  BY <1>1, <1>2, <1>3, EmptyQueue DEF Ends, NoMemory, NoStep
<1> QED  BY <1>3, <1>4, <1>5, <1>7, <1>8, <1>9, <1>10, <1>11 DEF TurnInv

LEMMA CompactInv ==
  ASSUME TurnInv, Compact
  PROVE  TurnInv'
<1>0. TurnTypeOK /\ Turning /\ StepEndsOnce /\ Quiet /\ Ends /\ \A d \in Calls : Past(d) /\ Agrees(d) /\ Fibered(d)
  BY DEF TurnInv, Compact, Ending, Turning
<1>1. UNCHANGED <<step, tool, behind>> /\ todo = <<>> /\ ~mem.started
  BY DEF Compact, Ending, MayCompact
<1>2. CASE run.stopping
  BY <1>1, <1>2, OverInv DEF Compact
<1>3. CASE ~run.stopping
  <2>1. run' = [Off EXCEPT !.pc = "request"] /\ mem' = NoMemory /\ todo' = <<>> /\ toolFiber' = toolFiber
    BY <1>1, <1>3 DEF Compact
  <2>2. run' \in Runs /\ run'.pc = "request"
    BY <2>1 DEF Off, Runs
  <2>3. \A c \in Calls : tool[c].status = "none"
    BY <1>0, <1>1 DEF Ends, Agrees
  <2>4. TurnTypeOK' /\ ~Turning' /\ StepEndsOnce' /\ \A d \in Calls : Past(d)'
    BY <1>0, <1>1, <2>1, <2>2, Nulls DEF TurnTypeOK, Turning, StepEndsOnce, Past, Open
  <2>5. Quiet'
    <3>1. \A c \in Calls : ~Alive(c)' /\ ~Open(c)'
      BY <1>0, <1>1, <2>1, <2>3 DEF Alive, Fibered, Open
    <3> QED  BY <1>0, <1>1, <2>1, <2>2, <2>4, <3>1 DEF Quiet, Streams
  <2> QED  BY <2>4, <2>5, QuietInv DEF TurnInv
<1> QED  BY <1>2, <1>3

LEMMA LeaveInv ==
  ASSUME TurnInv, Leave
  PROVE  TurnInv'
<1>0. TurnTypeOK /\ Turning /\ StepEndsOnce /\ Quiet /\ Ends
      /\ \A d \in Calls : Past(d) /\ Agrees(d) /\ Fibered(d) /\ Closed(d)
  BY DEF TurnInv, Leave, Ending, Turning
<1>1. UNCHANGED <<step, tool, behind>> /\ todo = <<>> /\ run.pc = "leave" /\ ~Publishing
  BY DEF Leave, Ending
<1>2. CASE Over
  BY <1>1, <1>2, OverInv
<1>3. CASE /\ run.exit = "success" /\ run' = [Off EXCEPT !.pc = "request", !.recover = TRUE]
           /\ toolFiber' = Cleared /\ mem' = NoMemory /\ UNCHANGED todo
  <2>1. run' \in Runs /\ run'.pc = "request"
    BY <1>3 DEF Off, Runs
  <2>2. ASSUME NEW c \in Calls
        PROVE  toolFiber'[c] \in ToolFibers /\ ~Alive(c)'
    BY <1>0, <1>1, <1>3 DEF Cleared, Publishing, Alive, ToolFibers, TurnTypeOK
  <2>3. toolFiber' \in [Calls -> ToolFibers]
    BY <1>3, <2>2 DEF Cleared
  <2>4. ASSUME NEW c \in Calls, Open(c)
        PROVE  tool[c].mishap # "none"
    <3>1. ~Has(todo, {"failure"}, c)
      BY <1>1, EmptyQueue
    <3>2. mem.tools[c].known => mem.tools[c].settled
      BY <1>0, <1>1, <1>3, <3>1 DEF Closed, Failing
    <3>3. mem.tools[c].settled
      BY <1>0, <2>4, <3>2 DEF Agrees, Open
    <3>4. mem.tools[c].known /\ run.exit # "interrupt"
      BY <1>0, <1>3, <3>3 DEF Agrees
    <3>5. ~(tool[c].settles = 0 /\ tool[c].status # "done" /\ tool[c].mishap = "none" /\ run.exit = "interrupt")
      BY <3>4
    <3> QED  BY <1>0, <2>4, <3>3, <3>5 DEF Agrees, Open
  <2>5. TurnTypeOK' /\ ~Turning' /\ StepEndsOnce' /\ \A d \in Calls : Past(d)'
    BY <1>0, <1>1, <1>3, <2>1, <2>3, Nulls DEF TurnTypeOK, Turning, StepEndsOnce, Past, Open
  <2>6. Quiet'
    BY <1>0, <1>1, <1>3, <2>1, <2>2, <2>4, <2>5 DEF Quiet, Streams, Open
  <2> QED  BY <2>5, <2>6, QuietInv DEF TurnInv
<1> QED  BY <1>2, <1>3 DEF Leave

LEMMA InterruptTurnInv ==
  ASSUME TurnInv, InterruptTurn
  PROVE  TurnInv'
<1>0. TurnTypeOK /\ run \in Runs /\ mem \in Memories /\ todo \in Seq(Events) /\ StepEndsOnce /\ Quiet
      /\ \A c \in Calls : Past(c)
  BY TurnFields DEF TurnInv
<1>1. UNCHANGED <<step, tool, behind>> /\ run.pc # "off"
  BY DEF InterruptTurn
<1>2. CASE run.pc \in {"recover", "request"}
  BY <1>1, <1>2, OverInv DEF InterruptTurn
<1>3. CASE run.pc = "stream"
  <2>1. /\ UNCHANGED mem \/ (todo # <<>> /\ mem' = Marked(mem, Head(todo)))
        /\ todo' = <<>> /\ toolFiber' = toolFiber
        /\ run' = [run EXCEPT !.pc = "ended", !.exit = "interrupt", !.stopping = TRUE]
    BY <1>3 DEF InterruptTurn
  <2>2. /\ run' \in Runs /\ run'.pc = "ended" /\ run'.exit = "interrupt" /\ run'.broke = run.broke
        /\ run'.settled = run.settled
    BY <1>0, <2>1 DEF Runs
  <2>3. /\ Turning /\ Streams /\ Turning' /\ ~Streams' /\ ~Failing'
        /\ \A c \in Calls : Agrees(c) /\ Fibered(c) /\ Closed(c)
        /\ Queue(todo, mem, Streams) /\ Ends
    BY <1>3, <2>2 DEF TurnInv, Turning, Streams, Failing
  <2>4. /\ mem' \in Memories
        /\ mem.started => mem'.started
        /\ mem.failed => mem'.failed
        /\ mem'.active => mem.active \/ Says(todo, {"step started"})
        /\ mem'.providerFailed = mem.providerFailed /\ mem'.finished = mem.finished /\ mem'.overflow = mem.overflow
        /\ \A c \in Calls :
             LET m == mem.tools[c]
                 n == mem'.tools[c]
             IN /\ m.known => n.known /\ (m.called => n.called) /\ (m.settled => n.settled)
                /\ n.hosted => n.called
                /\ n.called \/ n.settled => n.known
                /\ m.called => n.called
                /\ m.settled => n.settled
    <3>1. CASE UNCHANGED mem
      BY <1>0, <2>3, <3>1 DEF Agrees
    <3>2. CASE todo # <<>> /\ mem' = Marked(mem, Head(todo))
      <4> DEFINE x == Head(todo)
      <4>1. x \in Events /\ FlagsAre(x, mem, mem') /\ DueNow(x, mem, Streams, Tail(todo))
        BY <1>0, <2>3, <3>2, TailAt, MarkedFlags, QueueHead
      <4>2. x.ev = "step started" => Says(todo, {"step started"})
        BY <1>0, <3>2, TailHas
      <4> HIDE DEF x
      <4>3. ASSUME NEW c \in Calls
            PROVE  /\ mem.tools[c].known => mem'.tools[c].known
                   /\ mem'.tools[c].hosted => mem'.tools[c].called
                   /\ mem'.tools[c].called \/ mem'.tools[c].settled => mem'.tools[c].known
                   /\ mem.tools[c].called => mem'.tools[c].called
                   /\ mem.tools[c].settled => mem'.tools[c].settled
        <5>1. CallFlagsAre(x, mem, mem', c) /\ Agrees(c)
          BY <2>3, <4>1 DEF FlagsAre
        <5>2. Is(x, {"hosted"}, c) => Is(x, {"called", "hosted"}, c)
          BY DEF Is
        <5>3. Is(x, {"called", "hosted"}, c) \/ Is(x, Settlements, c) => mem.tools[c].known
          BY <4>1, <5>1 DEF DueNow, Is, Settlements, Agrees
        <5> QED  BY <5>1, <5>2, <5>3 DEF CallFlagsAre, Agrees
      <4> QED  BY <4>1, <4>2, <4>3 DEF FlagsAre
    <3> QED  BY <2>1, <3>1, <3>2
  <2>5. TurnTypeOK'
    BY <1>0, <1>1, <2>1, <2>2, <2>4, EmptySeq DEF TurnTypeOK
  <2>6. Quiet'
    BY <1>0, <1>1, <1>3, <2>2, <2>3 DEF Quiet
  <2>7. StepEndsOnce'
    BY <1>0, <1>1 DEF StepEndsOnce
  <2>8. ASSUME NEW c \in Calls
        PROVE  Past(c)' /\ Agrees(c)' /\ Fibered(c)' /\ Closed(c)'
    <3>1. Past(c)'
      BY <1>0, <1>1 DEF Past, Open
    <3>2. Agrees(c)'
      BY <1>1, <2>2, <2>3, <2>4 DEF Agrees
    <3>3. Fibered(c)'
      BY <1>1, <2>1, <2>2, <2>3, <2>4 DEF Fibered, Alive
    <3>4. Closed(c)'
      BY <2>2, <2>3 DEF Closed
    <3> QED  BY <3>1, <3>2, <3>3, <3>4
  <2>9. Queue(todo, mem, Streams)'
    BY <2>1, EmptyQueue
  <2>10. Ends'
    <3>1. ~Says(todo', {"step failed"}) /\ ~Says(todo', {"step ended"}) /\ ~Says(todo', {"step started"})
          /\ ~Says(todo', Fails) /\ ~Says(todo', {"step raw"})
      BY <2>1, EmptyQueue
    <3>2. mem.finished /\ (mem.active \/ Says(todo, {"step started"})) => mem.providerFailed
      <4>1. Says(todo, Fails) => Says(todo, {"step failed"}) \/ Says(todo, {"step raw"})
        BY DEF Says, Fails
      <4> QED  BY <1>3, <2>3, <4>1 DEF Ends
    <3> QED  BY <1>1, <1>3, <2>2, <2>3, <2>4, <3>1, <3>2 DEF Ends
  <2> QED  BY <2>5, <2>6, <2>7, <2>8, <2>9, <2>10 DEF TurnInv
<1>4. CASE run.pc \notin {"recover", "request", "stream"}
  <2>1. run' = [run EXCEPT !.stopping = TRUE] /\ UNCHANGED <<mem, todo, toolFiber>>
    BY <1>4 DEF InterruptTurn
  <2>2. /\ run' \in Runs /\ run'.pc = run.pc /\ run'.exit = run.exit /\ run'.broke = run.broke
        /\ run'.settled = run.settled
    BY <1>0, <2>1 DEF Runs
  <2>3. /\ Turning /\ Turning' /\ Streams' = Streams /\ (Failing' <=> Failing)
        /\ \A c \in Calls : Agrees(c) /\ Fibered(c) /\ Closed(c)
        /\ Queue(todo, mem, Streams) /\ Ends
    BY <1>1, <1>4, <2>2 DEF TurnInv, Turning, Streams, Failing
  <2>4. TurnTypeOK' /\ Quiet' /\ StepEndsOnce'
    <3>1. run'.pc # "stream" /\ run'.pc # "request" /\ ~Streams'
      BY <1>4, <2>2 DEF Streams
    <3>2. TurnTypeOK'
      BY <1>0, <1>1, <2>1, <2>2 DEF TurnTypeOK
    <3>3. Quiet'
      BY <1>0, <1>1, <2>2, <2>3, <3>1 DEF Quiet
    <3>4. StepEndsOnce'
      BY <1>0, <1>1 DEF StepEndsOnce
    <3> QED  BY <3>2, <3>3, <3>4
  <2>5. ASSUME NEW c \in Calls
        PROVE  Past(c)' /\ Agrees(c)' /\ Fibered(c)' /\ Closed(c)'
    <3>1. Past(c)'
      BY <1>0, <1>1 DEF Past, Open
    <3>2. Agrees(c)'
      BY <1>1, <2>1, <2>2, <2>3 DEF Agrees
    <3>3. Fibered(c)'
      BY <1>1, <2>1, <2>2, <2>3 DEF Fibered, Alive
    <3>4. Closed(c)'
      BY <2>1, <2>2, <2>3 DEF Closed
    <3> QED  BY <3>1, <3>2, <3>3, <3>4
  <2>6. Queue(todo, mem, Streams)'
    BY <2>1, <2>3
  <2>7. Ends'
    BY <1>1, <2>1, <2>2, <2>3, EndsKept
  <2> QED  BY <2>3, <2>4, <2>5, <2>6, <2>7 DEF TurnInv
<1> QED  BY <1>2, <1>3, <1>4

-----------------------------------------------------------------------------
(* The provider's stream *)

\* A step of a turn that changes nothing that is recorded.
TurnStep ==
  /\ Turning /\ Turning' /\ UNCHANGED <<step, tool, behind>>
  /\ mem' \in Memories /\ mem'.tools = mem.tools /\ todo' \in Seq(Events)
  /\ toolFiber' \in [Calls -> ToolFibers] /\ run' \in Runs
  /\ Streams' => run'.exit = "none"
  /\ run'.pc \in {"stream", "ended", "await"} => run'.settled = "none"
  /\ run.exit = "interrupt" => run'.exit = "interrupt"

LEMMA TurnKept ==
  ASSUME TurnInv, TurnStep
  PROVE  TurnTypeOK' /\ Quiet' /\ StepEndsOnce' /\ \A c \in Calls : Past(c)' /\ Agrees(c)'
<1>0. TurnTypeOK /\ Quiet /\ StepEndsOnce /\ \A c \in Calls : Past(c) /\ Agrees(c)
  BY DEF TurnInv, TurnStep
<1>1. TurnTypeOK'
  BY <1>0 DEF TurnTypeOK, TurnStep
<1>2. Quiet'
  <2>1. run'.pc # "request"
    BY DEF TurnStep, Turning
  <2> QED  BY <1>0, <2>1 DEF Quiet, TurnStep
<1>3. StepEndsOnce'
  BY <1>0 DEF StepEndsOnce, TurnStep
<1>4. ASSUME NEW c \in Calls
      PROVE  Past(c)' /\ Agrees(c)'
  BY <1>0 DEF Past, Agrees, Open, TurnStep
<1> QED  BY <1>1, <1>2, <1>3, <1>4

\* With nothing to publish, a call's fiber has been forked if it ever will.
LEMMA FiberedKept ==
  ASSUME TurnInv, TurnStep, todo = <<>>, run'.broke = run.broke, NEW c \in Calls,
         \/ toolFiber'[c] = toolFiber[c]
         \/ /\ toolFiber[c] = "running" /\ toolFiber'[c] = "gone"
            /\ run'.settled \in {"interrupt", "declined"} \/ run'.exit = "interrupt",
         run.settled \in {"interrupt", "declined"} => run'.settled = run.settled,
         run'.pc \in {"settled", "close", "leave"} /\ run'.settled = "success" => run.broke = "none" /\ ~Alive(c)
  PROVE  Fibered(c)'
<1>1. Fibered(c) /\ ~Has(todo, {"fork", "failure"}, c)
  BY EmptyQueue DEF TurnInv, TurnStep
<1>2. /\ tool' = tool /\ mem'.tools = mem.tools /\ (run.exit = "interrupt" => run'.exit = "interrupt")
  BY DEF TurnStep
<1>3. Alive(c)' => Alive(c)
  BY DEF Alive
<1> QED  BY <1>1, <1>2, <1>3 DEF Fibered

\* What the stream hands to the publisher.
LEMMA StreamPublishes ==
  ASSUME TurnInv, Streaming, UNCHANGED <<step, tool, behind, toolFiber, run>>,
         mem' \in Memories, mem'.tools = mem.tools, mem'.started = mem.started, mem'.failed = mem.failed,
         mem.providerFailed => mem'.providerFailed,
         todo' \in Seq(Events), Queue(todo', mem', TRUE),
         ~Says(todo', {"step ended"}), ~Says(todo', {"step raw"}),
         Says(todo', {"step failed"}) => mem'.providerFailed,
         mem'.finished /\ (mem'.active \/ Says(todo', {"step started"})) =>
           mem'.providerFailed \/ Says(todo', Fails)
  PROVE  TurnInv'
<1>0. /\ Turning /\ Turning' /\ Streams /\ Streams' /\ todo = <<>> /\ run.pc = "stream" /\ run' = run
      /\ ~Failing' /\ TurnTypeOK /\ Quiet /\ Ends
  BY DEF TurnInv, Streaming, Turning, Streams, Failing
<1>1. run.exit = "none" /\ run.settled = "none"
  BY <1>0 DEF Quiet
<1>2. TurnStep
  BY <1>0, <1>1 DEF TurnStep, TurnTypeOK
<1>3. TurnTypeOK' /\ Quiet' /\ StepEndsOnce' /\ \A c \in Calls : Past(c)' /\ Agrees(c)'
  BY <1>2, TurnKept
<1>4. ASSUME NEW c \in Calls
      PROVE  Fibered(c)' /\ Closed(c)'
  <2>1. Fibered(c)'
    BY <1>0, <1>2, FiberedKept
  <2>2. Closed(c)'
    BY <1>0, <1>1 DEF Closed
  <2> QED  BY <2>1, <2>2
<1>5. Queue(todo, mem, Streams)'
  <2>1. Streams' = TRUE
    BY <1>0 DEF Streams
  <2> QED  BY <2>1
<1>6. Ends'
  BY <1>0, <1>1 DEF Ends
<1> QED  BY <1>3, <1>4, <1>5, <1>6 DEF TurnInv

LEMMA QueueOne ==
  ASSUME NEW x \in Events, NEW m \in Memories, NEW streaming \in BOOLEAN, DueNow(x, m, streaming, <<>>)
  PROVE  /\ <<x>> \in Seq(Events)
         /\ Queue(<<x>>, m, streaming)
         /\ \A evs, c : Has(<<x>>, evs, c) <=> Is(x, evs, c)
         /\ \A evs : Says(<<x>>, evs) <=> x.ev \in evs
<1>1. <<>> \in Seq(Events) /\ <<x>> \in Seq(Events) /\ <<x>> \o <<>> = <<x>>
  BY EmptySeq, ConcatEmptySeq
<1>2. Queue(<<>>, Marked(m, x), streaming)
  BY EmptyQueue
<1>3. PICK s \in Seq(Events) : s = <<>>
  BY <1>1
<1>4. /\ Queue(<<x>> \o s, m, streaming)
      /\ \A evs, c : Has(<<x>> \o s, evs, c) <=> Is(x, evs, c) \/ Has(s, evs, c)
      /\ \A evs : Says(<<x>> \o s, evs) <=> x.ev \in evs \/ Says(s, evs)
  <2>1. DueNow(x, m, streaming, s) /\ Queue(s, Marked(m, x), streaming)
    BY <1>2, <1>3
  <2> QED  BY <2>1, QueueCons
<1>5. <<x>> \o s = <<x>> /\ (\A evs, c : ~Has(s, evs, c)) /\ \A evs : ~Says(s, evs)
  <2>1. (\A evs, c : ~Has(<<>>, evs, c)) /\ \A evs : ~Says(<<>>, evs)
    BY EmptyQueue
  <2> QED  BY <1>1, <1>3, <2>1
<1> QED  BY <1>1, <1>4, <1>5

\* The flags after startAssistant.
Assisted == IF mem.started THEN mem ELSE Marked(mem, [ev |-> "step started"])

LEMMA AssistedFlags ==
  ASSUME TurnTypeOK
  PROVE  /\ Assisted \in Memories /\ Assisted.started /\ Assisted.tools = mem.tools
         /\ Assisted.failed = mem.failed
<1> DEFINE x == [ev |-> "step started"]
<1>1. x \in Events /\ mem \in Memories
  BY TurnFields DEF Events
<1>2. Marked(mem, x) = [mem EXCEPT !.started = TRUE, !.active = TRUE]
  BY DEF Marked
<1> QED  BY <1>1, <1>2 DEF Assisted, Memories

LEMMA StartsWith ==
  ASSUME TurnTypeOK, NEW s \in Seq(Events), NEW streaming \in BOOLEAN, Queue(s, Assisted, streaming)
  PROVE  /\ StartAssistant \in Seq(Events)
         /\ StartAssistant \o s \in Seq(Events)
         /\ Queue(StartAssistant \o s, mem, streaming)
         /\ \A evs \in SUBSET OfCalls : \A c : Has(StartAssistant \o s, evs, c) <=> Has(s, evs, c)
         /\ \A evs : Says(StartAssistant \o s, evs) <=> (~mem.started /\ "step started" \in evs) \/ Says(s, evs)
<1> DEFINE x == [ev |-> "step started"]
<1>0. mem \in Memories
  BY TurnFields
<1>1. CASE mem.started
  <2>1. StartAssistant = <<>> /\ Assisted = mem /\ <<>> \o s = s /\ <<>> \in Seq(Events)
    BY <1>1, ConcatEmptySeq, EmptySeq DEF StartAssistant, Assisted
  <2> QED  BY <1>1, <2>1
<1>2. CASE ~mem.started
  <2>1. StartAssistant = <<x>> /\ Assisted = Marked(mem, x)
    BY <1>2 DEF StartAssistant, Assisted
  <2>2. x \in Events /\ x.ev = "step started"
    BY DEF Events
  <2>3. \A evs \in SUBSET OfCalls : \A c : ~Is(x, evs, c)
    BY <2>2 DEF Is, OfCalls, Settlements
  <2>4. DueNow(x, mem, streaming, s)
    BY <2>2 DEF DueNow, Is, OfCalls, Settlements, Fails
  <2> HIDE DEF x
  <2>5. <<x>> \in Seq(Events)
    <3>1. \A y \in Events : <<y>> \in Seq(Events)
      OBVIOUS
    <3> QED  BY <2>2, <3>1
  <2>6. /\ <<x>> \o s \in Seq(Events) /\ Queue(<<x>> \o s, mem, streaming)
        /\ \A evs, c : Has(<<x>> \o s, evs, c) <=> Is(x, evs, c) \/ Has(s, evs, c)
        /\ \A evs : Says(<<x>> \o s, evs) <=> x.ev \in evs \/ Says(s, evs)
    BY <1>0, <2>1, <2>2, <2>4, QueueCons
  <2>7. \A evs \in SUBSET OfCalls : \A c : Has(<<x>> \o s, evs, c) <=> Has(s, evs, c)
    BY <2>3, <2>6
  <2>8. \A evs : Says(<<x>> \o s, evs) <=> (~mem.started /\ "step started" \in evs) \/ Says(s, evs)
    BY <1>2, <2>2, <2>6
  <2> QED  BY <2>1, <2>5, <2>6, <2>7, <2>8
<1> QED  BY <1>1, <1>2

\* The provider delivers something, and s is published for it.
LEMMA DeliverInv ==
  ASSUME TurnInv, Delivering, NEW s \in Seq(Events), Publishes(s), Queue(s, mem, TRUE),
         ~Says(s, {"step ended"} \cup Fails)
  PROVE  TurnInv'
<1>1. Streaming /\ mem \in Memories /\ ~mem.finished
  BY TurnFields DEF TurnInv, Delivering, Listening
<1>2. UNCHANGED <<step, tool, behind, toolFiber, run, mem>> /\ todo' = s
  BY DEF Publishes
<1>3. ~Says(s, {"step ended"}) /\ ~Says(s, {"step raw"}) /\ ~Says(s, {"step failed"})
  BY DEF Says, Fails
<1>4. Queue(todo', mem', TRUE)
  BY <1>2
<1> QED  BY <1>1, <1>2, <1>3, <1>4, StreamPublishes

LEMMA ContentInv ==
  ASSUME TurnInv, Content
  PROVE  TurnInv'
<1>0. TurnTypeOK /\ Delivering /\ Publishes(StartAssistant)
  BY DEF TurnInv, Content
<1>1. PICK s \in Seq(Events) : s = <<>>
  BY EmptySeq
<1>2. Queue(s, Assisted, TRUE) /\ \A evs : ~Says(s, evs)
  BY <1>1, EmptyQueue
<1>3. /\ StartAssistant \in Seq(Events) /\ Queue(StartAssistant \o s, mem, TRUE)
      /\ \A evs : Says(StartAssistant \o s, evs) <=> (~mem.started /\ "step started" \in evs) \/ Says(s, evs)
  BY <1>0, <1>2, StartsWith
<1>4. StartAssistant \o s = StartAssistant
  BY <1>1, <1>3, ConcatEmptySeq
<1>5. ~Says(StartAssistant, {"step ended"} \cup Fails)
  BY <1>2, <1>3, <1>4 DEF Fails
<1> QED  BY <1>0, <1>3, <1>4, <1>5, DeliverInv

LEMMA ToolInputInv ==
  ASSUME TurnInv, NEW c \in Calls, ToolInput(c)
  PROVE  TurnInv'
<1> DEFINE x == [ev |-> "input", of |-> c]
<1>0. TurnTypeOK /\ Delivering /\ ~mem.tools[c].known /\ Publishes(Append(StartAssistant, x))
  BY DEF TurnInv, ToolInput
<1>1. x \in Events /\ x.ev = "input" /\ x.of = c
  BY DEF Events
<1>2. Assisted \in Memories /\ Assisted.started /\ Assisted.tools = mem.tools
  BY <1>0, AssistedFlags
<1>3. DueNow(x, Assisted, TRUE, <<>>)
  BY <1>0, <1>1, <1>2 DEF DueNow, Is, OfCalls, Fails, Settlements
<1> HIDE DEF x
<1>4. /\ <<x>> \in Seq(Events) /\ Queue(<<x>>, Assisted, TRUE)
      /\ \A evs : Says(<<x>>, evs) <=> x.ev \in evs
  BY <1>1, <1>2, <1>3, QueueOne
<1>5. /\ StartAssistant \in Seq(Events) /\ StartAssistant \o <<x>> \in Seq(Events)
      /\ Queue(StartAssistant \o <<x>>, mem, TRUE)
      /\ \A evs : Says(StartAssistant \o <<x>>, evs) <=>
                    (~mem.started /\ "step started" \in evs) \/ Says(<<x>>, evs)
  BY <1>0, <1>4, StartsWith
<1>6. Append(StartAssistant, x) = StartAssistant \o <<x>>
  BY <1>1, <1>5, AppendIsConcat
<1>7. ~Says(StartAssistant \o <<x>>, {"step ended"} \cup Fails)
  BY <1>1, <1>4, <1>5 DEF Fails
<1> QED  BY <1>0, <1>5, <1>6, <1>7, DeliverInv

LEMMA HostedResultInv ==
  ASSUME TurnInv, NEW c \in Calls, NEW ev \in Settlements, HostedResult(c, ev)
  PROVE  TurnInv'
<1> DEFINE x == [ev |-> ev, of |-> c]
<1>0. /\ TurnTypeOK /\ Delivering /\ mem.tools[c].hosted /\ ~mem.tools[c].settled /\ Publishes(<<x>>)
      /\ mem \in Memories
  BY TurnFields DEF TurnInv, HostedResult
<1>1. x \in Events /\ x.ev = ev /\ x.of = c
  BY DEF Events, Settlements
<1>2. mem.tools[c].called /\ mem.tools[c].known
  BY <1>0 DEF TurnInv, Agrees, Delivering, Listening, Streaming, Turning
<1>3. DueNow(x, mem, TRUE, <<>>)
  BY <1>0, <1>1, <1>2 DEF DueNow, Is, OfCalls, Fails, Settlements
<1> HIDE DEF x
<1>4. /\ <<x>> \in Seq(Events) /\ Queue(<<x>>, mem, TRUE)
      /\ \A evs : Says(<<x>>, evs) <=> x.ev \in evs
  BY <1>0, <1>1, <1>3, QueueOne
<1>5. ~Says(<<x>>, {"step ended"} \cup Fails)
  BY <1>1, <1>4 DEF Fails, Settlements
<1> QED  BY <1>0, <1>4, <1>5, DeliverInv

LEMMA StepFinishInv ==
  ASSUME TurnInv, StepFinish
  PROVE  TurnInv'
<1>0. /\ mem \in Memories /\ Streaming /\ todo = <<>> /\ todo \in Seq(Events)
      /\ mem' = [mem EXCEPT !.active = FALSE, !.finished = TRUE]
      /\ UNCHANGED <<step, tool, behind, todo, toolFiber, run>>
  BY TurnFields DEF TurnInv, StepFinish, Delivering, Listening, Streaming
<1>1. /\ mem' \in Memories /\ mem'.tools = mem.tools /\ mem'.started = mem.started /\ mem'.failed = mem.failed
      /\ mem'.providerFailed = mem.providerFailed /\ ~mem'.active
  BY <1>0 DEF Memories
<1>2. Queue(todo', mem', TRUE) /\ \A evs : ~Says(todo', evs)
  BY <1>0, EmptyQueue
<1> QED  BY <1>0, <1>1, <1>2, StreamPublishes

\* failAssistant
LEMMA FailsQueue ==
  ASSUME TurnTypeOK, NEW ev \in Fails, NEW streaming \in BOOLEAN
  PROVE  /\ FailAssistant(ev) \in Seq(Events)
         /\ Queue(FailAssistant(ev), mem, streaming)
         /\ \A evs \in SUBSET OfCalls : \A c : ~Has(FailAssistant(ev), evs, c)
         /\ \A evs : Says(FailAssistant(ev), evs) <=>
                       ~mem.failed /\ (ev \in evs \/ (~mem.started /\ "step started" \in evs))
<1> DEFINE x == [ev |-> ev]
<1>1. CASE mem.failed
  <2>1. FailAssistant(ev) = <<>>
    BY <1>1 DEF FailAssistant
  <2>2. /\ Queue(<<>>, mem, streaming) /\ (\A evs, c : ~Has(<<>>, evs, c)) /\ (\A evs : ~Says(<<>>, evs))
        /\ <<>> \in Seq(Events)
    BY EmptyQueue, EmptySeq
  <2> QED  BY <1>1, <2>1, <2>2
<1>2. CASE ~mem.failed
  <2>1. x \in Events /\ x.ev = ev
    BY DEF Events, Fails
  <2>2. \A evs \in SUBSET OfCalls : \A c : ~Is(x, evs, c)
    BY <2>1 DEF Is, OfCalls, Settlements, Fails
  <2>3. Assisted \in Memories /\ ~Assisted.failed
    BY <1>2, AssistedFlags
  <2>4. DueNow(x, Assisted, streaming, <<>>)
    <3>1. ~Says(<<>>, {"step started"})
      BY EmptyQueue
    <3> QED  BY <2>1, <2>3, <3>1 DEF DueNow, Is, OfCalls, Fails, Settlements
  <2>5. FailAssistant(ev) = Append(StartAssistant, x)
    BY <1>2 DEF FailAssistant
  <2> HIDE DEF x
  <2>6. /\ <<x>> \in Seq(Events) /\ Queue(<<x>>, Assisted, streaming)
        /\ \A evs, c : Has(<<x>>, evs, c) <=> Is(x, evs, c)
        /\ \A evs : Says(<<x>>, evs) <=> x.ev \in evs
    BY <2>1, <2>3, <2>4, QueueOne
  <2>7. /\ StartAssistant \in Seq(Events) /\ StartAssistant \o <<x>> \in Seq(Events)
        /\ Queue(StartAssistant \o <<x>>, mem, streaming)
        /\ \A evs \in SUBSET OfCalls : \A c : Has(StartAssistant \o <<x>>, evs, c) <=> Has(<<x>>, evs, c)
        /\ \A evs : Says(StartAssistant \o <<x>>, evs) <=>
                      (~mem.started /\ "step started" \in evs) \/ Says(<<x>>, evs)
    BY <2>6, StartsWith
  <2>8. FailAssistant(ev) = StartAssistant \o <<x>>
    BY <2>1, <2>5, <2>7, AppendIsConcat
  <2>9. ASSUME NEW evs \in SUBSET OfCalls, NEW c
        PROVE  ~Has(StartAssistant \o <<x>>, evs, c)
    <3>1. ~Is(x, evs, c)
      BY <2>2
    <3> QED  BY <2>6, <2>7, <3>1
  <2>10. ASSUME NEW evs
         PROVE  Says(StartAssistant \o <<x>>, evs) <=>
                  ~mem.failed /\ (ev \in evs \/ (~mem.started /\ "step started" \in evs))
    BY <1>2, <2>1, <2>6, <2>7
  <2> QED  BY <2>7, <2>8, <2>9, <2>10
<1> QED  BY <1>1, <1>2

\* A queue depends on these of the flags only.
LEMMA QueueSame ==
  ASSUME NEW s, NEW m, NEW n, NEW streaming, Queue(s, m, streaming),
         n.tools = m.tools, n.started = m.started, n.failed = m.failed
  PROVE  Queue(s, n, streaming)
BY DEF Queue, Due

LEMMA ProviderErrorInv ==
  ASSUME TurnInv, ProviderError
  PROVE  TurnInv'
<1>0. /\ mem \in Memories /\ Streaming /\ todo = <<>> /\ todo \in Seq(Events) /\ TurnTypeOK
      /\ UNCHANGED <<step, tool, behind, toolFiber, run>> /\ run.pc = "stream" /\ Ends
  BY TurnFields DEF TurnInv, ProviderError, Listening, Streaming, Turning
<1>1. CASE mem' = [mem EXCEPT !.overflow = TRUE] /\ UNCHANGED todo
  <2>1. /\ mem' \in Memories /\ mem'.tools = mem.tools /\ mem'.started = mem.started /\ mem'.failed = mem.failed
        /\ mem'.providerFailed = mem.providerFailed /\ mem'.active = mem.active /\ mem'.finished = mem.finished
    BY <1>0, <1>1 DEF Memories
  <2>2. Queue(todo', mem', TRUE) /\ \A evs : ~Says(todo', evs) /\ ~Says(todo, evs)
    BY <1>0, <1>1, EmptyQueue
  <2>3. mem'.finished /\ mem'.active => mem'.providerFailed
    BY <1>0, <2>1, <2>2 DEF Ends
  <2> QED  BY <1>0, <1>1, <2>1, <2>2, <2>3, StreamPublishes
<1>2. CASE mem' = [mem EXCEPT !.providerFailed = TRUE] /\ todo' = FailAssistant("step failed")
  <2>1. /\ mem' \in Memories /\ mem'.tools = mem.tools /\ mem'.started = mem.started /\ mem'.failed = mem.failed
        /\ mem'.providerFailed
    BY <1>0, <1>2 DEF Memories
  <2>2. /\ todo' \in Seq(Events) /\ Queue(todo', mem, TRUE)
        /\ \A evs : Says(todo', evs) <=>
                      ~mem.failed /\ ("step failed" \in evs \/ (~mem.started /\ "step started" \in evs))
    BY <1>0, <1>2, FailsQueue DEF Fails
  <2>3. Queue(todo', mem', TRUE)
    BY <2>1, <2>2, QueueSame
  <2>4. ASSUME NEW evs, "step failed" \notin evs, "step started" \notin evs
        PROVE  ~Says(todo', evs)
    BY <2>2, <2>4
  <2>5. ~Says(todo', {"step ended"}) /\ ~Says(todo', {"step raw"})
    BY <2>4
  <2> QED  BY <2>5, <1>0, <2>1, <2>2, <2>3, <2>4, StreamPublishes
<1> QED  BY <1>1, <1>2 DEF ProviderError

LEMMA OneSeq ==
  ASSUME NEW x \in Events
  PROVE  <<x>> \in Seq(Events)
OBVIOUS

LEMMA Regrouped ==
  ASSUME NEW s \in Seq(Events), NEW x \in Events, NEW y \in Events, NEW t \in Seq(Events)
  PROVE  (Append(s, x) \o <<y>>) \o t = s \o (<<x>> \o (<<y>> \o t))
<1>1. PICK xs \in Seq(Events), ys \in Seq(Events) : xs = <<x>> /\ ys = <<y>>
  BY OneSeq
<1>2. Append(s, x) = s \o xs
  BY <1>1, AppendIsConcat
<1>3. s \o xs \in Seq(Events) /\ ys \o t \in Seq(Events)
  BY ConcatProperties
<1>4. ((s \o xs) \o ys) \o t = (s \o xs) \o (ys \o t)
  BY <1>3, ConcatAssociative
<1>5. (s \o xs) \o (ys \o t) = s \o (xs \o (ys \o t))
  BY <1>3, ConcatAssociative
<1> QED  BY <1>1, <1>2, <1>4, <1>5

\* A call is recorded before what follows in s: its input, unless that has
\* begun, and the call.
LEMMA CallRecorded ==
  ASSUME TurnTypeOK, NEW c \in Calls, NEW ev \in {"called", "hosted"}, ~mem.tools[c].called,
         NEW s \in Seq(Events),
         \A m \in Memories :
           /\ m.tools[c].called
           /\ \A d \in Calls : /\ m.tools[d].known <=> mem.tools[d].known \/ d = c
                               /\ m.tools[d].settled = mem.tools[d].settled
           => Queue(s, m, TRUE),
         ev = "called" => mem.tools[c].settled \/ Has(s, {"fork", "failure"}, c),
         ~Says(s, {"step ended"} \cup Fails)
  PROVE  LET recorded ==
               (IF mem.tools[c].known THEN <<>>
                ELSE Append(StartAssistant, [ev |-> "input", of |-> c])) \o <<[ev |-> ev, of |-> c]>>
         IN /\ recorded \o s \in Seq(Events)
            /\ Queue(recorded \o s, mem, TRUE)
            /\ ~Says(recorded \o s, {"step ended"} \cup Fails)
<1> DEFINE x == [ev |-> ev, of |-> c]
           i == [ev |-> "input", of |-> c]
           m == IF mem.tools[c].known THEN mem ELSE Marked(Assisted, i)
           t == <<x>> \o s
           ends == {"step ended"} \cup Fails
<1>0. /\ x \in Events /\ x.ev = ev /\ x.of = c
      /\ i \in Events /\ i.ev = "input" /\ i.of = c
  BY DEF Events
<1>1. mem \in Memories /\ Assisted \in Memories /\ Assisted.started /\ Assisted.tools = mem.tools
  BY TurnFields, AssistedFlags
<1>2. FlagsAre(i, Assisted, Marked(Assisted, i))
  BY <1>0, <1>1, MarkedFlags
<1> HIDE DEF x, i
<1>3. /\ m \in Memories
      /\ \A d \in Calls : /\ m.tools[d].known <=> mem.tools[d].known \/ d = c
                          /\ m.tools[d].called = mem.tools[d].called
                          /\ m.tools[d].settled = mem.tools[d].settled
  <2>1. CASE mem.tools[c].known
    BY <1>1, <2>1
  <2>2. CASE ~mem.tools[c].known
    <3>1. m = Marked(Assisted, i) /\ m \in Memories
      BY <1>2, <2>2 DEF FlagsAre
    <3>2. ASSUME NEW d \in Calls
          PROVE  /\ m.tools[d].known <=> mem.tools[d].known \/ d = c
                 /\ m.tools[d].called = mem.tools[d].called
                 /\ m.tools[d].settled = mem.tools[d].settled
      <4>1. CallFlagsAre(i, Assisted, m, d)
        BY <1>2, <3>1 DEF FlagsAre
      <4>2. Is(i, {"input"}, d) <=> d = c
        BY <1>0 DEF Is
      <4>3. ~Is(i, {"called", "hosted"}, d) /\ ~Is(i, Settlements, d)
        BY <1>0 DEF Is, Settlements
      <4>4. m.tools[d] \in Marks /\ mem.tools[d] \in Marks
        BY <1>1, <3>1 DEF Memories
      <4> HIDE DEF m
      <4> QED  BY <1>1, <4>1, <4>2, <4>3, <4>4 DEF CallFlagsAre, Marks
    <3> QED  BY <3>1, <3>2
  <2> QED  BY <2>1, <2>2
<1>4. Queue(s, Marked(m, x), TRUE)
  <2>1. FlagsAre(x, m, Marked(m, x))
    BY <1>0, <1>3, MarkedFlags
  <2> DEFINE n == Marked(m, x)
  <2> HIDE DEF m
  <2>2. n \in Memories /\ \A d \in Calls : CallFlagsAre(x, m, n, d)
    BY <2>1 DEF FlagsAre
  <2>3. n.tools[c].called
    BY <1>0, <2>2 DEF CallFlagsAre, Is
  <2>4. ASSUME NEW d \in Calls
        PROVE  /\ n.tools[d].known <=> mem.tools[d].known \/ d = c
               /\ n.tools[d].settled = mem.tools[d].settled
    <3>1. ~Is(x, {"input"}, d) /\ ~Is(x, Settlements, d)
      BY <1>0 DEF Is, Settlements
    <3>2. n.tools[d] \in Marks /\ m.tools[d] \in Marks
      BY <1>3, <2>2 DEF Memories
    <3> QED  BY <1>3, <2>2, <3>1, <3>2 DEF CallFlagsAre, Marks
  <2> HIDE DEF n
  <2>5. Queue(s, n, TRUE)
    BY <2>2, <2>3, <2>4
  <2> QED  BY <2>5 DEF n
<1>5. DueNow(x, m, TRUE, s)
  <2> HIDE DEF m
  <2>1. x.ev \notin Fails
    BY <1>0 DEF Fails
  <2>2. ASSUME NEW d \in Calls
        PROVE  /\ Is(x, {"called", "hosted"}, d) => ~m.tools[d].called /\ m.tools[d].known
               /\ Is(x, {"called"}, d) => m.tools[d].settled \/ Has(s, {"fork", "failure"}, d)
               /\ ~Is(x, {"input"}, d) /\ ~Is(x, {"fork", "success"}, d) /\ ~Is(x, {"failure"}, d)
               /\ ~Is(x, Settlements, d)
    BY <1>0, <1>3 DEF Is, Settlements
  <2> QED  BY <2>1, <2>2 DEF DueNow
<1>6. /\ t \in Seq(Events) /\ Queue(t, m, TRUE)
      /\ \A evs : Says(t, evs) <=> x.ev \in evs \/ Says(s, evs)
  <2> HIDE DEF m
  <2> QED  BY <1>0, <1>3, <1>4, <1>5, QueueCons
<1>7. ~Says(t, ends)
  BY <1>0, <1>6 DEF Fails
<1>8. <<x>> \in Seq(Events) /\ <<i>> \in Seq(Events)
  BY <1>0, OneSeq
<1>9. CASE mem.tools[c].known
  <2>1. <<>> \o <<x>> = <<x>>
    BY <1>8, ConcatEmptySeq
  <2> QED  BY <1>6, <1>7, <1>9, <2>1 DEF x
<1>10. CASE ~mem.tools[c].known
  <2>1. m = Marked(Assisted, i)
    BY <1>10
  <2> HIDE DEF t, m
  <2>2. DueNow(i, Assisted, TRUE, t)
    <3>1. i.ev \notin Fails
      BY <1>0 DEF Fails
    <3>2. ASSUME NEW d \in Calls
          PROVE  /\ Is(i, {"input"}, d) => ~Assisted.tools[d].known /\ Assisted.started
                 /\ ~Is(i, {"called", "hosted"}, d) /\ ~Is(i, {"called"}, d)
                 /\ ~Is(i, {"fork", "success"}, d) /\ ~Is(i, {"failure"}, d) /\ ~Is(i, Settlements, d)
      BY <1>0, <1>1, <1>10 DEF Is, Settlements
    <3> QED  BY <3>1, <3>2 DEF DueNow
  <2>3. PICK u \in Seq(Events) : u = <<i>> \o t
    BY <1>0, <1>6, HeadOfCons
  <2>4. Queue(u, Assisted, TRUE) /\ \A evs : Says(u, evs) <=> i.ev \in evs \/ Says(t, evs)
    BY <1>0, <1>1, <1>6, <2>1, <2>2, <2>3, QueueCons
  <2>5. ~Says(u, ends)
    BY <1>0, <1>7, <2>4 DEF Fails
  <2>6. /\ StartAssistant \in Seq(Events) /\ StartAssistant \o u \in Seq(Events)
        /\ Queue(StartAssistant \o u, mem, TRUE)
        /\ \A evs : Says(StartAssistant \o u, evs) <=> (~mem.started /\ "step started" \in evs) \/ Says(u, evs)
    BY <2>4, StartsWith
  <2>7. ~Says(StartAssistant \o u, ends)
    <3>1. "step started" \notin ends
      BY DEF Fails
    <3> HIDE DEF ends
    <3> QED  BY <2>5, <2>6, <3>1
  <2>8. (Append(StartAssistant, i) \o <<x>>) \o s = StartAssistant \o u
    <3>1. StartAssistant \in Seq(Events)
      BY <2>6
    <3>2. (Append(StartAssistant, i) \o <<x>>) \o s = StartAssistant \o (<<i>> \o (<<x>> \o s))
      BY <1>0, <3>1, Regrouped
    <3> QED  BY <2>3, <3>2 DEF t
  <2> QED  BY <1>10, <2>6, <2>7, <2>8 DEF x, i
<1> QED  BY <1>9, <1>10

LEMMA ToolCallInv ==
  ASSUME TurnInv, NEW c \in Calls, NEW ev \in {"called", "hosted"}, ToolCall(c, ev)
  PROVE  TurnInv'
<1> DEFINE recorded == (IF mem.tools[c].known THEN <<>>
                        ELSE Append(StartAssistant, [ev |-> "input", of |-> c])) \o <<[ev |-> ev, of |-> c]>>
           known == [mem EXCEPT !.tools[c].known = TRUE]
           s == CASE ev = "hosted" -> <<>>
                  [] ev = "called" /\ run.disabled -> FailUnsettled(known, FALSE)
                  [] OTHER -> <<[ev |-> "fork", of |-> c]>>
<1>0. /\ TurnTypeOK /\ mem \in Memories /\ Delivering /\ ~mem.tools[c].called
      /\ Publishes(recorded \o s)
  BY TurnFields DEF TurnInv, ToolCall
<1> HIDE DEF recorded
<1>1. /\ s \in Seq(Events)
      /\ \A m \in Memories :
           /\ m.tools[c].called
           /\ \A d \in Calls : /\ m.tools[d].known <=> mem.tools[d].known \/ d = c
                               /\ m.tools[d].settled = mem.tools[d].settled
           => Queue(s, m, TRUE)
      /\ ev = "called" => mem.tools[c].settled \/ Has(s, {"fork", "failure"}, c)
      /\ ~Says(s, {"step ended"} \cup Fails)
  <2>1. CASE ev = "hosted"
    <3>1. s = <<>>
      BY <2>1
    <3> HIDE DEF s
    <3> QED  BY <2>1, <3>1, EmptyQueue, EmptySeq
  <2>2. CASE ev = "called" /\ run.disabled
    <3> DEFINE F == Unsettled(known, FALSE)
    <3>1. s = FailUnsettled(known, FALSE)
      BY <2>2
    <3>2. /\ \A d \in Calls : known.tools[d].known <=> mem.tools[d].known \/ d = c
          /\ \A d \in Calls : known.tools[d].settled = mem.tools[d].settled
      <4>1. known.tools = [mem.tools EXCEPT ![c] = [mem.tools[c] EXCEPT !.known = TRUE]]
            /\ mem.tools \in [Calls -> Marks]
        BY <1>0 DEF Memories
      <4> QED  BY <4>1 DEF Marks
    <3> HIDE DEF s, known
    <3>3. FailuresOf(s, F) /\ F \in SUBSET Calls
      BY <3>1, FailUnsettledIs DEF Unsettled
    <3>4. \A d \in F : (mem.tools[d].known \/ d = c) /\ ~mem.tools[d].settled
      BY <3>2 DEF Unsettled
    <3>5. ~mem.tools[c].settled => c \in F
      BY <3>2 DEF Unsettled
    <3> HIDE DEF F
    <3>6. s \in Seq(Events)
      BY <3>3 DEF FailuresOf
    <3>7. ASSUME NEW m \in Memories, m.tools[c].called,
                 \A d \in Calls : /\ m.tools[d].known <=> mem.tools[d].known \/ d = c
                                  /\ m.tools[d].settled = mem.tools[d].settled
          PROVE  /\ Queue(s, m, TRUE)
                 /\ \A evs, d : Has(s, evs, d) <=> "failure" \in evs /\ d \in F
                 /\ \A evs : Says(s, evs) => "failure" \in evs
      <4>1. \A d \in F : m.tools[d].known /\ ~m.tools[d].settled
        BY <3>3, <3>4, <3>7
      <4> QED  BY <3>3, <4>1, FailuresQueue
    <3>8. ev = "called" => mem.tools[c].settled \/ Has(s, {"fork", "failure"}, c)
      <4>1. ~mem.tools[c].settled => \E i \in DOMAIN s : s[i].ev = "failure" /\ s[i].of = c
        BY <3>3, <3>5 DEF FailuresOf
      <4> QED  BY <4>1 DEF Has, Is
    <3>9. ~Says(s, {"step ended"} \cup Fails)
      BY <3>3 DEF FailuresOf, Says, Fails
    <3> QED  BY <3>6, <3>7, <3>8, <3>9
  <2>3. CASE ev = "called" /\ ~run.disabled
    <3> DEFINE f == [ev |-> "fork", of |-> c]
    <3>1. s = <<f>>
      BY <2>3
    <3>2. f \in Events /\ f.ev = "fork" /\ f.of = c
      BY DEF Events
    <3> HIDE DEF s, f
    <3>3. ASSUME NEW m \in Memories, m.tools[c].called
          PROVE  /\ <<f>> \in Seq(Events) /\ Queue(<<f>>, m, TRUE)
                 /\ Has(<<f>>, {"fork", "failure"}, c)
                 /\ ~Says(<<f>>, {"step ended"} \cup Fails)
      <4>1. DueNow(f, m, TRUE, <<>>)
        BY <3>2, <3>3 DEF DueNow, Is, OfCalls, Fails, Settlements
      <4>2. /\ <<f>> \in Seq(Events) /\ Queue(<<f>>, m, TRUE)
            /\ \A evs, d : Has(<<f>>, evs, d) <=> Is(f, evs, d)
            /\ \A evs : Says(<<f>>, evs) <=> f.ev \in evs
        BY <3>2, <4>1, QueueOne
      <4>3. Is(f, {"fork", "failure"}, c) /\ f.ev \notin {"step ended"} \cup Fails
        BY <3>2 DEF Is, Fails
      <4> QED  BY <4>2, <4>3
    <3>4. <<f>> \in Seq(Events) /\ Has(<<f>>, {"fork", "failure"}, c) /\ ~Says(<<f>>, {"step ended"} \cup Fails)
      <4>1. \A y \in Events : <<y>> \in Seq(Events)
        OBVIOUS
      <4>2. 1 \in DOMAIN <<f>> /\ <<f>>[1] = f /\ \A j \in DOMAIN <<f>> : <<f>>[j] = f
        OBVIOUS
      <4> QED  BY <3>2, <4>1, <4>2 DEF Has, Is, Says, Fails
    <3> QED  BY <3>1, <3>3, <3>4
  <2> QED  BY <2>1, <2>2, <2>3
<1> HIDE DEF s
<1>2. /\ recorded \o s \in Seq(Events) /\ Queue(recorded \o s, mem, TRUE)
      /\ ~Says(recorded \o s, {"step ended"} \cup Fails)
  BY <1>0, <1>1, CallRecorded DEF recorded
<1> QED  BY <1>0, <1>2, DeliverInv

LEMMA StreamEndsInv ==
  ASSUME TurnInv, NEW exit \in {"success", "llm", "overflow", "defect"}, StreamEnds(exit)
  PROVE  TurnInv'
<1>0. /\ TurnTypeOK /\ run \in Runs /\ mem \in Memories /\ todo = <<>> /\ run.pc = "stream" /\ Quiet
      /\ Turning /\ Ends /\ \A c \in Calls : Closed(c)
      /\ UNCHANGED <<step, tool, behind, mem, todo, toolFiber>>
  BY TurnFields DEF TurnInv, StreamEnds, Streaming, Turning
<1>1. /\ run' \in Runs /\ run'.pc = "ended" /\ run'.exit = exit /\ run'.broke = run.broke
      /\ run'.settled = run.settled /\ run.exit = "none" /\ run.settled = "none"
  BY <1>0 DEF Runs, StreamEnds, Quiet, Streams
<1>2. TurnStep /\ ~Streams' /\ ~Failing'
  BY <1>0, <1>1 DEF TurnStep, Turning, Streams, Failing, TurnTypeOK
<1>3. ASSUME NEW c \in Calls
      PROVE  Fibered(c)' /\ Closed(c)'
  <2>1. Fibered(c)'
    BY <1>0, <1>1, <1>2, FiberedKept
  <2>2. Closed(c)'
    BY <1>0, <1>1, <1>2 DEF Closed, StreamEnds
  <2> QED  BY <2>1, <2>2
<1>4. Queue(todo, mem, Streams)'
  BY <1>0, EmptyQueue
<1>5. Ends'
  <2>1. \A evs : ~Says(todo, evs)
    BY <1>0, EmptyQueue
  <2> QED  BY <1>0, <1>1, <2>1 DEF Ends
<1> QED  BY <1>2, <1>3, <1>4, <1>5, TurnKept DEF TurnInv

-----------------------------------------------------------------------------
(* The end of a turn *)

\* Failing calls, and then the step.
LEMMA FailsAll ==
  ASSUME TurnTypeOK, NEW ev \in Fails, NEW hostedOnly \in BOOLEAN, NEW streaming \in BOOLEAN
  PROVE  LET s == FailUnsettled(mem, hostedOnly) \o FailAssistant(ev)
         IN /\ s \in Seq(Events)
            /\ Queue(s, mem, streaming)
            /\ \A evs \in SUBSET OfCalls : \A c : Has(s, evs, c) <=> "failure" \in evs /\ c \in Unsettled(mem, hostedOnly)
            /\ \A evs \in SUBSET ({"step started", "step ended"} \cup Fails) :
                 Says(s, evs) <=> ~mem.failed /\ (ev \in evs \/ (~mem.started /\ "step started" \in evs))
<1> DEFINE F == Unsettled(mem, hostedOnly)
           f == FailUnsettled(mem, hostedOnly)
           t == FailAssistant(ev)
<1>0. mem \in Memories
  BY TurnFields
<1>1. FailuresOf(f, F) /\ F \in SUBSET Calls /\ \A c \in F : mem.tools[c].known /\ ~mem.tools[c].settled
  BY FailUnsettledIs DEF Unsettled
<1>2. /\ t \in Seq(Events) /\ Queue(t, mem, streaming)
      /\ \A evs \in SUBSET OfCalls : \A c : ~Has(t, evs, c)
      /\ \A evs : Says(t, evs) <=> ~mem.failed /\ (ev \in evs \/ (~mem.started /\ "step started" \in evs))
  BY FailsQueue
<1> HIDE DEF F, f, t
<1>3. /\ f \in Seq(Events) /\ Queue(f, mem, streaming)
      /\ \A evs, c : Has(f, evs, c) <=> "failure" \in evs /\ c \in F
      /\ \A evs : Says(f, evs) => "failure" \in evs
      /\ \A i \in DOMAIN f : f[i].ev = "failure"
  BY <1>0, <1>1, FailuresQueue DEF FailuresOf
<1>4. ASSUME NEW i \in DOMAIN f, NEW j \in DOMAIN t, Alike(f[i], t[j])
      PROVE  FALSE
  <2>1. f[i].ev = "failure"
    BY <1>3
  <2>2. PICK c \in Calls : Is(t[j], Settlements, c)
    BY <1>4, <2>1 DEF Alike, Fails, Is
  <2>3. Has(t, Settlements, c) /\ Settlements \in SUBSET OfCalls
    BY <2>2 DEF Has, OfCalls
  <2> QED  BY <1>2, <2>3
<1>5. Queue(f \o t, mem, streaming)
  <2>1. \A i \in DOMAIN f : f[i].ev \notin Fails
    BY <1>3 DEF Fails
  <2> QED  BY <1>0, <1>2, <1>3, <1>4, <2>1, QueueCat
<1>6. /\ f \o t \in Seq(Events)
      /\ \A evs, c : Has(f \o t, evs, c) <=> Has(f, evs, c) \/ Has(t, evs, c)
      /\ \A evs : Says(f \o t, evs) <=> Says(f, evs) \/ Says(t, evs)
  BY <1>2, <1>3, CatHas
<1>7. ASSUME NEW evs \in SUBSET OfCalls, NEW c
      PROVE  Has(f \o t, evs, c) <=> "failure" \in evs /\ c \in F
  <2>1. ~Has(t, evs, c)
    BY <1>2
  <2> QED  BY <1>3, <1>6, <2>1
<1>8. ASSUME NEW evs \in SUBSET ({"step started", "step ended"} \cup Fails)
      PROVE  Says(f \o t, evs) <=> ~mem.failed /\ (ev \in evs \/ (~mem.started /\ "step started" \in evs))
  <2>1. "failure" \notin evs
    BY DEF Fails
  <2>2. ~Says(f, evs)
    BY <1>3, <2>1
  <2> QED  BY <1>2, <1>6, <2>2
<1> QED  BY <1>5, <1>6, <1>7, <1>8 DEF F, f, t

LEMMA ClearedIs ==
  ASSUME TurnTypeOK
  PROVE  /\ Cleared \in [Calls -> ToolFibers]
         /\ \A c \in Calls : Cleared[c] = toolFiber[c] \/ (toolFiber[c] = "running" /\ Cleared[c] = "gone")
<1>1. ASSUME NEW c \in Calls
      PROVE  Cleared[c] = toolFiber[c] \/ (toolFiber[c] = "running" /\ Cleared[c] = "gone")
  BY DEF Cleared
<1>2. ASSUME NEW c \in Calls
      PROVE  (IF toolFiber[c] = "running" THEN "gone" ELSE toolFiber[c]) \in ToolFibers
  BY DEF TurnTypeOK, ToolFibers
<1>3. Cleared \in [Calls -> ToolFibers]
  BY <1>2 DEF Cleared
<1> QED  BY <1>1, <1>3

LEMMA FailStepInv ==
  ASSUME TurnInv, FailStep
  PROVE  TurnInv'
<1>0. /\ TurnTypeOK /\ run \in Runs /\ mem \in Memories /\ todo = <<>> /\ run.pc = "ended" /\ Quiet
      /\ Turning /\ Ends /\ (\A c \in Calls : Closed(c))
      /\ UNCHANGED <<step, tool, behind>> /\ Runner("await")
      /\ mem' = [mem EXCEPT !.providerFailed = @ \/ mem.overflow]
      /\ toolFiber' = IF run.exit = "interrupt" THEN Cleared ELSE toolFiber
  BY TurnFields DEF TurnInv, FailStep, Ending, Turning
<1>1. /\ run' \in Runs /\ run'.pc = "await" /\ run'.exit = run.exit /\ run'.broke = run.broke
      /\ run'.settled = run.settled /\ run.settled = "none"
  BY <1>0, RunnerIs DEF Quiet
<1>2. /\ mem' \in Memories /\ mem'.tools = mem.tools /\ mem'.started = mem.started /\ mem'.failed = mem.failed
      /\ mem'.active = mem.active /\ mem'.finished = mem.finished /\ mem'.overflow = mem.overflow
      /\ mem'.providerFailed <=> mem.providerFailed \/ mem.overflow
  BY <1>0 DEF Memories
<1>3. /\ todo' \in Seq(Events) /\ Queue(todo', mem, FALSE)
      /\ ~Says(todo', {"step ended"})
      /\ Says(todo', {"step started"}) => Says(todo', Fails)
      /\ Says(todo', {"step failed"}) => mem.overflow
  <2>1. CASE mem.overflow
    <3>1. todo' = FailAssistant("step failed")
      BY <2>1 DEF FailStep
    <3>2. /\ todo' \in Seq(Events) /\ Queue(todo', mem, FALSE)
          /\ \A evs : Says(todo', evs) <=>
                        ~mem.failed /\ ("step failed" \in evs \/ (~mem.started /\ "step started" \in evs))
      BY <1>0, <3>1, FailsQueue DEF Fails
    <3>3. ASSUME NEW evs
          PROVE  Says(todo', evs) <=>
                   ~mem.failed /\ ("step failed" \in evs \/ (~mem.started /\ "step started" \in evs))
      BY <3>2
    <3>4. ~Says(todo', {"step ended"})
      <4>1. ASSUME NEW evs, "step failed" \notin evs, "step started" \notin evs
            PROVE  ~Says(todo', evs)
        BY <3>3, <4>1
      <4> QED  BY <4>1
    <3>5. Says(todo', {"step started"}) => Says(todo', Fails)
      <4>1. "step failed" \in Fails
        BY DEF Fails
      <4> QED  BY <3>3, <4>1
    <3> QED  BY <2>1, <3>2, <3>4, <3>5
  <2>2. CASE run.exit \in {"llm", "overflow"} /\ ~mem.overflow /\ ~mem.providerFailed
    <3>1. todo' = FailUnsettled(mem, TRUE) \o FailAssistant("step raw")
      BY <2>2 DEF FailStep
    <3>2. /\ todo' \in Seq(Events) /\ Queue(todo', mem, FALSE)
          /\ \A evs \in SUBSET ({"step started", "step ended"} \cup Fails) :
               Says(todo', evs) <=> ~mem.failed /\ ("step raw" \in evs \/ (~mem.started /\ "step started" \in evs))
      BY <1>0, <3>1, FailsAll DEF Fails
    <3>3. ASSUME NEW evs \in SUBSET ({"step started", "step ended"} \cup Fails)
          PROVE  Says(todo', evs) <=>
                   ~mem.failed /\ ("step raw" \in evs \/ (~mem.started /\ "step started" \in evs))
      BY <3>2
    <3>4. /\ {"step ended"} \in SUBSET ({"step started", "step ended"} \cup Fails)
          /\ {"step started"} \in SUBSET ({"step started", "step ended"} \cup Fails)
          /\ {"step failed"} \in SUBSET ({"step started", "step ended"} \cup Fails)
          /\ Fails \in SUBSET ({"step started", "step ended"} \cup Fails)
          /\ "step raw" \in Fails
      BY DEF Fails
    <3>5. ~Says(todo', {"step ended"}) /\ ~Says(todo', {"step failed"})
      BY <3>3, <3>4
    <3>6. Says(todo', {"step started"}) => Says(todo', Fails)
      BY <3>3, <3>4
    <3> QED  BY <3>2, <3>5, <3>6
  <2>3. CASE ~mem.overflow /\ ~(run.exit \in {"llm", "overflow"} /\ ~mem.overflow /\ ~mem.providerFailed)
    <3>1. todo' = <<>>
      BY <2>3 DEF FailStep
    <3>2. todo' \in Seq(Events) /\ Queue(todo', mem, FALSE) /\ \A evs : ~Says(todo', evs)
      BY <3>1, EmptyQueue, EmptySeq
    <3> QED  BY <3>2
  <2> QED  BY <2>1, <2>2, <2>3
<1>4. toolFiber' \in [Calls -> ToolFibers]
  BY <1>0, ClearedIs DEF TurnTypeOK
<1>5. TurnStep /\ ~Streams' /\ ~Failing'
  BY <1>0, <1>1, <1>2, <1>3, <1>4 DEF TurnStep, Turning, Streams, Failing
<1>6. ASSUME NEW c \in Calls
      PROVE  Fibered(c)' /\ Closed(c)'
  <2>1. \/ toolFiber'[c] = toolFiber[c]
        \/ toolFiber[c] = "running" /\ toolFiber'[c] = "gone" /\ run'.exit = "interrupt"
    BY <1>0, <1>1, ClearedIs
  <2>2. Fibered(c)'
    BY <1>0, <1>1, <1>5, <2>1, FiberedKept
  <2>3. Closed(c)'
    BY <1>0, <1>1, <1>2, <1>5 DEF Closed
  <2> QED  BY <2>2, <2>3
<1>7. Queue(todo, mem, Streams)'
  <2>1. Queue(todo', mem', FALSE) /\ Streams' = FALSE
    BY <1>1, <1>2, <1>3, QueueSame DEF Streams
  <2> QED  BY <2>1
<1>8. Ends'
  <2>1. \A evs : ~Says(todo, evs)
    BY <1>0, EmptyQueue
  <2> QED  BY <1>0, <1>1, <1>2, <1>3, <2>1 DEF Ends
<1> QED  BY <1>5, <1>6, <1>7, <1>8, TurnKept DEF TurnInv

LEMMA AwaitToolsInv ==
  ASSUME TurnInv, AwaitTools
  PROVE  TurnInv'
<1> DEFINE exit == CASE run.stopping -> "interrupt"
                     [] ~run.stopping /\ run.broke # "none" -> run.broke
                     [] OTHER -> "success"
<1>0. /\ TurnTypeOK /\ run \in Runs /\ mem \in Memories /\ todo = <<>> /\ run.pc = "await" /\ Quiet
      /\ Turning /\ Ends /\ (\A c \in Calls : Closed(c))
      /\ UNCHANGED <<step, tool, behind, mem, todo>>
      /\ run.stopping \/ run.broke # "none" \/ \A c \in Calls : ~Alive(c)
      /\ run' = [run EXCEPT !.pc = "settled", !.settled = exit]
      /\ toolFiber' = IF exit \in {"interrupt", "declined"} THEN Cleared ELSE toolFiber
  BY TurnFields DEF TurnInv, AwaitTools, Ending, Turning
<1>1. /\ exit \in {"success", "failed", "declined", "interrupt"}
      /\ exit = "success" => run.broke = "none" /\ \A c \in Calls : ~Alive(c)
  BY <1>0 DEF Runs
<1> HIDE DEF exit
<1>2. /\ run' \in Runs /\ run'.pc = "settled" /\ run'.exit = run.exit /\ run'.broke = run.broke
      /\ run'.settled = exit /\ run.settled = "none"
  BY <1>0, <1>1 DEF Runs, Quiet
<1>3. toolFiber' \in [Calls -> ToolFibers]
  BY <1>0, ClearedIs DEF TurnTypeOK
<1>4. TurnStep /\ ~Streams' /\ ~Failing'
  BY <1>0, <1>2, <1>3 DEF TurnStep, Turning, Streams, Failing, TurnTypeOK
<1>5. ASSUME NEW c \in Calls
      PROVE  Fibered(c)' /\ Closed(c)'
  <2>1. \/ toolFiber'[c] = toolFiber[c]
        \/ toolFiber[c] = "running" /\ toolFiber'[c] = "gone" /\ run'.settled \in {"interrupt", "declined"}
    BY <1>0, <1>2, ClearedIs
  <2>2. Fibered(c)'
    BY <1>0, <1>1, <1>2, <1>4, <2>1, FiberedKept
  <2>3. Closed(c)'
    BY <1>0, <1>2, <1>4 DEF Closed
  <2> QED  BY <2>2, <2>3
<1>6. Queue(todo, mem, Streams)'
  BY <1>0, EmptyQueue
<1>7. Ends'
  BY <1>0, <1>2 DEF Ends
<1> QED  BY <1>4, <1>5, <1>6, <1>7, TurnKept DEF TurnInv

LEMMA SettleToolsInv ==
  ASSUME TurnInv, SettleTools
  PROVE  TurnInv'
<1> DEFINE f == IF run.settled = "success" THEN <<>> ELSE FailUnsettled(mem, FALSE)
           t == IF run.settled = "interrupt" /\ mem.active THEN FailAssistant("step failed") ELSE <<>>
           Stepped == {"step started", "step ended"} \cup Fails
<1>0. /\ TurnTypeOK /\ run \in Runs /\ mem \in Memories /\ todo = <<>> /\ run.pc = "settled" /\ Quiet
      /\ Turning /\ Ends /\ (\A c \in Calls : Closed(c) /\ Fibered(c))
      /\ UNCHANGED <<step, tool, behind, mem, toolFiber>>
      /\ todo' = f \o t
      /\ Runner(IF run.settled = "declined" THEN "leave" ELSE "close")
  BY TurnFields DEF TurnInv, SettleTools, Ending, Turning
<1>1. /\ run' \in Runs /\ run'.exit = run.exit /\ run'.broke = run.broke
      /\ run'.settled = run.settled
      /\ run'.pc = IF run.settled = "declined" THEN "leave" ELSE "close"
  BY <1>0, RunnerIs
<1>2. /\ todo' \in Seq(Events) /\ Queue(todo', mem, FALSE)
      /\ \A c \in Calls : run.settled # "success" /\ mem.tools[c].known /\ ~mem.tools[c].settled =>
                            Has(todo', {"failure"}, c)
      /\ ~Says(todo', {"step ended"})
      /\ Says(todo', {"step failed"}) => mem.active
  <2>0. \A evs : ~Says(<<>>, evs)
    BY EmptyQueue
  <2>1. CASE run.settled = "success"
    <3>1. f = <<>> /\ t = <<>> /\ todo' = <<>> \o <<>>
      BY <1>0, <2>1
    <3>2. <<>> \o <<>> = <<>> /\ <<>> \in Seq(Events)
      BY EmptySeq, ConcatEmptySeq
    <3>3. todo' = <<>> /\ Queue(<<>>, mem, FALSE)
      BY <3>1, <3>2, EmptyQueue
    <3> HIDE DEF f, t
    <3> QED  BY <2>0, <2>1, <3>2, <3>3
  <2>2. CASE run.settled # "success" /\ ~(run.settled = "interrupt" /\ mem.active)
    <3> DEFINE F == Unsettled(mem, FALSE)
               s == FailUnsettled(mem, FALSE)
    <3>1. FailuresOf(s, F) /\ F \in SUBSET Calls /\ \A c \in F : mem.tools[c].known /\ ~mem.tools[c].settled
      BY FailUnsettledIs DEF Unsettled
    <3>2. \A c \in Calls : mem.tools[c].known /\ ~mem.tools[c].settled => c \in F
      BY DEF Unsettled
    <3>3. f = s /\ t = <<>>
      BY <2>2
    <3> HIDE DEF F, s, f, t
    <3>4. /\ s \in Seq(Events) /\ Queue(s, mem, FALSE)
          /\ \A evs, c : Has(s, evs, c) <=> "failure" \in evs /\ c \in F
          /\ \A evs : Says(s, evs) => "failure" \in evs
      BY <1>0, <3>1, FailuresQueue DEF FailuresOf
    <3>5. todo' = s
      BY <1>0, <3>3, <3>4, ConcatEmptySeq
    <3> QED  BY <3>2, <3>4, <3>5
  <2>3. CASE run.settled = "interrupt" /\ mem.active
    <3>1. todo' = FailUnsettled(mem, FALSE) \o FailAssistant("step failed")
      BY <1>0, <2>3
    <3>2. /\ todo' \in Seq(Events) /\ Queue(todo', mem, FALSE)
          /\ \A evs \in SUBSET OfCalls : \A c : Has(todo', evs, c) <=> "failure" \in evs /\ c \in Unsettled(mem, FALSE)
          /\ \A evs \in SUBSET Stepped :
               Says(todo', evs) <=> ~mem.failed /\ ("step failed" \in evs \/ (~mem.started /\ "step started" \in evs))
      BY <1>0, <3>1, FailsAll DEF Fails
    <3>3. ~Says(todo', {"step ended"})
      <4>1. {"step ended"} \in SUBSET Stepped
        OBVIOUS
      <4> HIDE DEF Stepped
      <4> QED  BY <3>2, <4>1
    <3>4. ASSUME NEW c \in Calls, mem.tools[c].known /\ ~mem.tools[c].settled
          PROVE  Has(todo', {"failure"}, c)
      <4>1. {"failure"} \in SUBSET OfCalls
        BY DEF OfCalls, Settlements
      <4>2. c \in Unsettled(mem, FALSE)
        BY <3>4 DEF Unsettled
      <4> QED  BY <3>2, <4>1, <4>2
    <3> QED  BY <2>3, <3>2, <3>3, <3>4
  <2> QED  BY <2>1, <2>2, <2>3
<1> HIDE DEF f, t
<1>3. TurnStep /\ ~Streams' /\ (Failing' => run.settled # "success")
  BY <1>0, <1>1, <1>2 DEF TurnStep, Turning, Streams, Failing, TurnTypeOK
<1>4. ASSUME NEW c \in Calls
      PROVE  Fibered(c)' /\ Closed(c)'
  <2>1. Fibered(c)'
    <3>1. run.settled = "success" => run.broke = "none" /\ ~Alive(c)
      BY <1>0 DEF Fibered
    <3> QED  BY <1>0, <1>1, <1>3, <3>1, FiberedKept
  <2>2. Closed(c)'
    BY <1>0, <1>1, <1>2, <1>3 DEF Closed
  <2> QED  BY <2>1, <2>2
<1>5. Queue(todo, mem, Streams)'
  <2>1. Streams' = FALSE
    BY <1>1 DEF Streams
  <2> QED  BY <1>0, <1>2, <2>1
<1>6. Ends'
  <2>1. \A evs : ~Says(todo, evs)
    BY <1>0, EmptyQueue
  <2> QED  BY <1>0, <1>1, <1>2, <2>1 DEF Ends
<1> QED  BY <1>3, <1>4, <1>5, <1>6, TurnKept DEF TurnInv

\* The step's end comes first, and then what is failed.
LEMMA EndStepQueue ==
  ASSUME TurnTypeOK, NEW streaming \in BOOLEAN
  PROVE  /\ EndStep \in Seq(Events)
         /\ Queue(EndStep, mem, streaming)
         /\ \A i \in DOMAIN EndStep : EndStep[i].ev \in {"step started", "step ended"}
         /\ Says(EndStep, {"step ended"}) => mem.finished
<1> DEFINE x == [ev |-> "step ended"]
<1>0. Assisted \in Memories
  BY AssistedFlags
<1>1. CASE ~mem.finished
  <2>1. EndStep = <<>>
    BY <1>1 DEF EndStep
  <2>2. Queue(<<>>, mem, streaming) /\ (\A evs : ~Says(<<>>, evs)) /\ <<>> \in Seq(Events)
    BY EmptyQueue, EmptySeq
  <2>3. \A i \in DOMAIN <<>> : FALSE
    OBVIOUS
  <2> QED  BY <2>1, <2>2, <2>3
<1>2. CASE mem.finished
  <2>1. x \in Events /\ x.ev = "step ended"
    BY DEF Events
  <2>2. EndStep = Append(StartAssistant, x)
    BY <1>2 DEF EndStep
  <2>3. DueNow(x, Assisted, streaming, <<>>)
    BY <2>1 DEF DueNow, Is, OfCalls, Fails, Settlements
  <2> HIDE DEF x
  <2>4. /\ <<x>> \in Seq(Events) /\ Queue(<<x>>, Assisted, streaming)
        /\ \A evs : Says(<<x>>, evs) <=> x.ev \in evs
    BY <1>0, <2>1, <2>3, QueueOne
  <2>5. /\ StartAssistant \in Seq(Events) /\ StartAssistant \o <<x>> \in Seq(Events)
        /\ Queue(StartAssistant \o <<x>>, mem, streaming)
        /\ \A evs : Says(StartAssistant \o <<x>>, evs) <=>
                      (~mem.started /\ "step started" \in evs) \/ Says(<<x>>, evs)
    BY <2>4, StartsWith
  <2>6. Append(StartAssistant, x) = StartAssistant \o <<x>>
    BY <2>1, <2>5, AppendIsConcat
  <2> DEFINE others == {e.ev : e \in Events} \ {"step started", "step ended"}
  <2>7. ~Says(StartAssistant \o <<x>>, others)
    <3>1. x.ev \notin others /\ "step started" \notin others
      BY <2>1
    <3> HIDE DEF others
    <3> QED  BY <2>4, <2>5, <3>1
  <2>8. ASSUME NEW i \in DOMAIN EndStep
        PROVE  EndStep[i].ev \in {"step started", "step ended"}
    <3>1. EndStep \in Seq(Events)
      BY <2>2, <2>5, <2>6
    <3>2. EndStep[i] \in Events
      BY <3>1
    <3> QED  BY <2>2, <2>6, <2>7, <3>2 DEF Says
  <2> QED  BY <1>2, <2>2, <2>5, <2>6, <2>8
<1> QED  BY <1>1, <1>2

LEMMA CloseStepInv ==
  ASSUME TurnInv, CloseStep
  PROVE  TurnInv'
<1> DEFINE f == IF run.exit = "success" THEN FailUnsettled(mem, TRUE) ELSE <<>>
<1>0. /\ TurnTypeOK /\ run \in Runs /\ mem \in Memories /\ todo = <<>> /\ run.pc = "close" /\ Quiet
      /\ Turning /\ Ends /\ (\A c \in Calls : Closed(c) /\ Fibered(c) /\ Agrees(c))
      /\ UNCHANGED <<step, tool, behind, mem, toolFiber>>
      /\ todo' = IF mem.providerFailed THEN FailUnsettled(mem, FALSE) ELSE EndStep \o f
      /\ Runner("leave")
  BY TurnFields DEF TurnInv, CloseStep, Closes, Ending, Turning
<1>1. /\ run' \in Runs /\ run'.exit = run.exit /\ run'.broke = run.broke
      /\ run'.settled = run.settled /\ run'.pc = "leave"
  BY <1>0, RunnerIs
<1>2. ASSUME NEW hostedOnly \in BOOLEAN
      PROVE  LET s == FailUnsettled(mem, hostedOnly)
             IN /\ s \in Seq(Events) /\ Queue(s, mem, FALSE)
                /\ \A evs, c : Has(s, evs, c) <=> "failure" \in evs /\ c \in Unsettled(mem, hostedOnly)
                /\ \A evs : Says(s, evs) => "failure" \in evs
                /\ \A i \in DOMAIN s : s[i].ev = "failure"
  <2> DEFINE s == FailUnsettled(mem, hostedOnly)
             F == Unsettled(mem, hostedOnly)
  <2>1. /\ FailuresOf(s, F) /\ F \in SUBSET Calls
        /\ \A c \in F : mem.tools[c].known /\ ~mem.tools[c].settled
    BY FailUnsettledIs DEF Unsettled
  <2> HIDE DEF s, F
  <2>2. s \in Seq(Events)
    BY <2>1 DEF FailuresOf
  <2>3. /\ Queue(s, mem, FALSE)
        /\ \A evs, c : Has(s, evs, c) <=> "failure" \in evs /\ c \in F
        /\ \A evs : Says(s, evs) => "failure" \in evs
        /\ \A i \in DOMAIN s : s[i].ev = "failure"
    BY <1>0, <2>1, FailuresQueue
  <2> QED  BY <2>2, <2>3 DEF s, F
<1>3. /\ todo' \in Seq(Events) /\ Queue(todo', mem, FALSE)
      /\ \A c \in Calls : c \in Unsettled(mem, TRUE) /\ run.exit = "success" => Has(todo', {"failure"}, c)
      /\ \A c \in Calls : c \in Unsettled(mem, FALSE) /\ mem.providerFailed => Has(todo', {"failure"}, c)
      /\ ~Says(todo', Fails)
      /\ Says(todo', {"step ended"}) => mem.finished /\ ~mem.providerFailed
  <2>1. CASE mem.providerFailed
    <3> DEFINE s == FailUnsettled(mem, FALSE)
    <3>1. todo' = s
      BY <1>0, <2>1
    <3>2. /\ s \in Seq(Events) /\ Queue(s, mem, FALSE)
          /\ \A evs, c : Has(s, evs, c) <=> "failure" \in evs /\ c \in Unsettled(mem, FALSE)
          /\ \A evs : Says(s, evs) => "failure" \in evs
      BY <1>2
    <3> HIDE DEF s
    <3>3. Unsettled(mem, TRUE) \subseteq Unsettled(mem, FALSE)
      BY DEF Unsettled
    <3>4. ~Says(s, Fails) /\ ~Says(s, {"step ended"})
      BY <3>2 DEF Fails
    <3> QED  BY <3>1, <3>2, <3>3, <3>4
  <2>2. CASE ~mem.providerFailed
    <3> DEFINE e == EndStep
    <3>1. todo' = e \o f
      BY <1>0, <2>2
    <3>2. /\ f \in Seq(Events) /\ Queue(f, mem, FALSE)
          /\ \A c : c \in Unsettled(mem, TRUE) /\ run.exit = "success" => Has(f, {"failure"}, c)
          /\ \A evs : Says(f, evs) => "failure" \in evs
          /\ \A i \in DOMAIN f : f[i].ev = "failure"
      <4>1. CASE run.exit = "success"
        <5>1. f = FailUnsettled(mem, TRUE)
          BY <4>1
        <5> HIDE DEF f
        <5> QED  BY <1>2, <5>1
      <4>2. CASE run.exit # "success"
        <5>1. f = <<>>
          BY <4>2
        <5>2. Queue(<<>>, mem, FALSE) /\ (\A evs : ~Says(<<>>, evs)) /\ <<>> \in Seq(Events)
          BY EmptyQueue, EmptySeq
        <5>3. \A i \in DOMAIN <<>> : FALSE
          OBVIOUS
        <5> HIDE DEF f
        <5> QED  BY <4>2, <5>1, <5>2, <5>3
      <4> QED  BY <4>1, <4>2
    <3> HIDE DEF f
    <3>3. /\ e \in Seq(Events) /\ Queue(e, mem, FALSE)
          /\ \A i \in DOMAIN e : e[i].ev \in {"step started", "step ended"}
          /\ Says(e, {"step ended"}) => mem.finished
      BY <1>0, EndStepQueue
    <3> HIDE DEF e
    <3>4. ASSUME NEW i \in DOMAIN e, NEW j \in DOMAIN f, Alike(e[i], f[j])
          PROVE  FALSE
      BY <3>2, <3>3, <3>4 DEF Alike, Fails, Settlements, Is
    <3>5. Queue(e \o f, mem, FALSE)
      <4>1. \A i \in DOMAIN e : e[i].ev \notin Fails
        BY <3>3 DEF Fails
      <4> QED  BY <1>0, <3>2, <3>3, <3>4, <4>1, QueueCat
    <3>6. /\ e \o f \in Seq(Events)
          /\ \A evs, c : Has(e \o f, evs, c) <=> Has(e, evs, c) \/ Has(f, evs, c)
          /\ \A evs : Says(e \o f, evs) <=> Says(e, evs) \/ Says(f, evs)
      BY <3>2, <3>3, CatHas
    <3>7. ~Says(e, Fails) /\ ~Says(f, Fails) /\ ~Says(f, {"step ended"})
      BY <3>2, <3>3 DEF Says, Fails
    <3> QED  BY <2>2, <3>1, <3>2, <3>3, <3>5, <3>6, <3>7
  <2> QED  BY <2>1, <2>2
<1> HIDE DEF f
<1>4. TurnStep /\ ~Streams'
  BY <1>0, <1>1, <1>3 DEF TurnStep, Turning, Streams, TurnTypeOK
<1>5. ASSUME NEW c \in Calls
      PROVE  Fibered(c)' /\ Closed(c)'
  <2>0. run.settled = "success" => run.broke = "none" /\ ~Alive(c)
    BY <1>0 DEF Fibered
  <2>1. Fibered(c)'
    BY <1>0, <1>1, <1>4, <2>0, FiberedKept
  <2>2. \A evs : ~Has(todo, evs, c)
    BY <1>0, EmptyQueue
  <2>3. run.settled # "success" => (mem.tools[c].known => mem.tools[c].settled)
    BY <1>0, <2>2 DEF Closed, Failing
  <2>4. ASSUME run.exit = "success", mem.tools[c].known, ~mem.tools[c].settled
        PROVE  Has(todo', {"failure"}, c)
    <3>1. CASE mem.providerFailed
      BY <1>3, <2>4, <3>1 DEF Unsettled
    <3>2. CASE ~mem.providerFailed
      <4>1. ~mem.overflow
        BY <1>0, <3>2 DEF Ends
      <4>2. mem.tools[c].called /\ run.settled = "success"
        BY <1>0, <2>3, <2>4, <3>2, <4>1 DEF Closed
      <4>3. toolFiber[c] \in ToolFibers
        BY <1>0, TurnFields
      <4>4. mem.tools[c].hosted
        BY <1>0, <2>0, <2>2, <2>4, <4>2, <4>3 DEF Fibered, Alive, ToolFibers
      <4> QED  BY <1>3, <2>4, <4>4 DEF Unsettled
    <3> QED  BY <3>1, <3>2
  <2>5. Closed(c)'
    BY <1>0, <1>1, <2>3, <2>4 DEF Closed, Failing
  <2> QED  BY <2>1, <2>5
<1>6. Queue(todo, mem, Streams)'
  <2>1. Streams' = FALSE
    BY <1>1 DEF Streams
  <2> QED  BY <1>0, <1>3, <2>1
<1>7. Ends'
  <2>1. \A evs : ~Says(todo, evs)
    BY <1>0, EmptyQueue
  <2>2. ~Says(todo', {"step failed"})
    BY <1>3 DEF Says, Fails
  <2> QED  BY <1>0, <1>1, <1>3, <2>1, <2>2 DEF Ends
<1> QED  BY <1>4, <1>5, <1>6, <1>7, TurnKept DEF TurnInv

-----------------------------------------------------------------------------
(* Every step *)

LEMMA StreamInv ==
  ASSUME TurnInv, Stream
  PROVE  TurnInv'
<1>1. CASE Content
  BY <1>1, ContentInv
<1>2. CASE StepFinish
  BY <1>2, StepFinishInv
<1>3. CASE ProviderError
  BY <1>3, ProviderErrorInv
<1>4. ASSUME NEW c \in Calls, ToolInput(c)
      PROVE  TurnInv'
  BY <1>4, ToolInputInv
<1>5. ASSUME NEW c \in Calls, NEW ev \in {"called", "hosted"}, ToolCall(c, ev)
      PROVE  TurnInv'
  BY <1>5, ToolCallInv
<1>6. ASSUME NEW c \in Calls, NEW ev \in {"success", "failure"}, HostedResult(c, ev)
      PROVE  TurnInv'
  BY <1>6, HostedResultInv DEF Settlements
<1>7. ASSUME NEW exit \in {"success", "llm", "overflow", "defect"}, StreamEnds(exit)
      PROVE  TurnInv'
  BY <1>7, StreamEndsInv
<1> QED  BY <1>1, <1>2, <1>3, <1>4, <1>5, <1>6, <1>7 DEF Stream

LEMMA ToolsInv ==
  ASSUME TurnInv, Tools
  PROVE  TurnInv'
<1>1. ASSUME NEW c \in Calls, ToolReturns(c)
      PROVE  TurnInv'
  BY <1>1, ToolReturnsInv
<1>2. ASSUME NEW c \in Calls, NEW ev \in {"success", "failure"}, ToolPublishes(c, ev)
      PROVE  TurnInv'
  BY <1>2, ToolPublishesInv DEF Settlements
<1>3. ASSUME NEW c \in Calls, ResultLost(c)
      PROVE  TurnInv'
  BY <1>3, ResultLostInv
<1> QED  BY <1>1, <1>2, <1>3 DEF Tools

LEMMA RunnerInv ==
  ASSUME TurnInv, Turn
  PROVE  TurnInv'
<1>1. CASE Publish
  BY <1>1, PublishInv
<1>2. CASE Recovered
  BY <1>2, RecoveredInv
<1>3. CASE RequestFails
  BY <1>3, RequestFailsInv
<1>4. ASSUME NEW last \in BOOLEAN, Request(last)
      PROVE  TurnInv'
  BY <1>4, RequestInv
<1>5. ASSUME NEW c \in Calls, Recover(c)
      PROVE  TurnInv'
  BY <1>5, RecoverInv
<1>6. ASSUME NEW k \in Mishaps, RecoverBehind(k)
      PROVE  TurnInv'
  BY <1>6, RecoverBehindInv
<1>7. CASE Compact
  BY <1>7, CompactInv
<1>8. CASE FailStep
  BY <1>8, FailStepInv
<1>9. CASE AwaitTools
  BY <1>9, AwaitToolsInv
<1>10. CASE SettleTools
  BY <1>10, SettleToolsInv
<1>11. CASE CloseStep
  BY <1>11, CloseStepInv
<1>12. CASE Leave
  BY <1>12, LeaveInv
<1> QED  BY <1>1, <1>2, <1>3, <1>4, <1>5, <1>6, <1>7, <1>8, <1>9, <1>10, <1>11, <1>12 DEF Turn

LEMMA TurnNextInv == TurnInv /\ [TurnNext]_turnVars => TurnInv'
<1> SUFFICES ASSUME TurnInv, [TurnNext]_turnVars
             PROVE  TurnInv'
  OBVIOUS
<1>1. CASE Start
  BY <1>1, StartInv
<1>2. CASE Turn
  BY <1>2, RunnerInv
<1>3. CASE Stream
  BY <1>3, StreamInv
<1>4. CASE Tools
  BY <1>4, ToolsInv
<1>5. CASE InterruptTurn
  BY <1>5, InterruptTurnInv
<1>6. CASE Crash
  BY <1>6, RequestFailsInv
<1>7. CASE UNCHANGED turnVars
  <2>1. UNCHANGED <<step, tool, behind, mem, todo, toolFiber, run>>
    BY <1>7 DEF turnVars
  <2>2. TurnTypeOK' /\ Quiet' /\ StepEndsOnce' /\ \A c \in Calls : Past(c)'
    BY <2>1 DEF TurnInv, TurnTypeOK, Quiet, StepEndsOnce, Past, Turning, Streams, Open, Alive
  <2>3. CASE Turning
    <3>1. ASSUME NEW c \in Calls
          PROVE  Agrees(c)' /\ Fibered(c)' /\ Closed(c)'
      BY <2>1, <2>3 DEF TurnInv, Agrees, Fibered, Closed, Failing, Alive
    <3>2. Queue(todo, mem, Streams)'
      <4>1. Streams' = Streams
        BY <2>1 DEF Streams
      <4> QED  BY <2>1, <2>3, <4>1 DEF TurnInv
    <3>3. Ends'
      BY <2>1, <2>3, EndsKept DEF TurnInv
    <3> QED  BY <2>2, <3>1, <3>2, <3>3 DEF TurnInv
  <2>4. CASE ~Turning
    <3>1. ~Turning'
      BY <2>1, <2>4 DEF Turning
    <3> QED  BY <2>2, <3>1 DEF TurnInv
  <2> QED  BY <2>3, <2>4
<1> QED  BY <1>1, <1>2, <1>3, <1>4, <1>5, <1>6, <1>7 DEF TurnNext

\* The inductive invariant: each event that waits for the publisher is due, the
\* flags and the projection of a call agree, whoever has run a call settles it
\* or breaks the turn, and what a turn has passed is settled or in the queue.
THEOREM TurnInductive == TurnSpec => []TurnInv
<1>1. TurnInit => TurnInv
  BY TurnInitHolds
<1>2. TurnInv /\ [TurnNext]_turnVars => TurnInv'
  BY TurnNextInv
<1> QED  BY <1>1, <1>2, PTL DEF TurnSpec

\* A recorded call is done exactly when one settlement was published for it,
\* whatever the order of the stream, the call's own fiber, an interrupt, the end
\* of the turn and the recovery of a later run; with the exceptions of a call
\* that was failed before it was called.  What runs was recorded before.
THEOREM CallsSettleOnce == TurnSpec => []SettledOnce
<1>1. TurnInv => SettledOnce
  <2> SUFFICES ASSUME TurnInv
               PROVE  SettledOnce
    OBVIOUS
  <2>1. TurnTypeOK
    BY DEF TurnInv
  <2>2. ASSUME NEW c \in Calls
        PROVE  /\ Past(c)
               /\ Alive(c) => tool[c].status \in {"running", "done"}
    BY AliveTurns DEF TurnInv
  <2> QED  BY <2>1, <2>2 DEF SettledOnce, Past
<1> QED  BY <1>1, TurnInductive, PTL

\* A step is published as ended or as failed, once, unless the stream failed by
\* itself after the step's finish.
THEOREM StepsEndOnce == TurnSpec => []StepEndsOnce
<1>1. TurnInv => StepEndsOnce
  BY DEF TurnInv
<1> QED  BY <1>1, TurnInductive, PTL

\* No provider is asked about a history with an open call, nor while a tool of
\* an earlier turn still runs; but for the calls that were lost or revived.
THEOREM RequestsAreAnswered == TurnSpec => RequestIsAnswered
<1>1. ASSUME TurnInv, [TurnNext]_turnVars, run.pc = "request", run'.pc = "stream"
      PROVE  "none" \notin behind' /\ \A c \in Calls : ~Alive(c)
  <2>1. ~Turning /\ todo = <<>> /\ \A c \in Calls : ~Alive(c)
    BY <1>1 DEF TurnInv, Quiet, Turning
  <2>2. ~Over /\ ~UNCHANGED run
    BY <1>1 DEF Over, Off
  <2>3. ~Start /\ ~Publish /\ ~Recovered /\ ~RequestFails /\ ~Crash /\ ~InterruptTurn
    BY <1>1, <2>1, <2>2 DEF Start, Publish, Recovered, RequestFails, Crash, InterruptTurn
  <2>4. ~Compact /\ ~FailStep /\ ~AwaitTools /\ ~SettleTools /\ ~CloseStep /\ ~Leave
    BY <1>1 DEF Compact, FailStep, AwaitTools, SettleTools, CloseStep, Closes, Leave, Ending
  <2>5. ~Stream
    BY <1>1 DEF Stream, Content, StepFinish, ProviderError, ToolInput, ToolCall, HostedResult, StreamEnds,
                Delivering, Listening, Streaming
  <2>6. ~Tools
    BY <2>1 DEF Tools, ToolReturns, ToolPublishes, ResultLost, Alive
  <2>7. (\A c \in Calls : ~Recover(c)) /\ \A k \in Mishaps : ~RecoverBehind(k)
    BY <1>1 DEF Recover, RecoverBehind
  <2>8. ~UNCHANGED turnVars
    BY <2>2 DEF turnVars
  <2>9. PICK last \in BOOLEAN : Request(last)
    BY <1>1, <2>3, <2>4, <2>5, <2>6, <2>7, <2>8 DEF TurnNext, Turn
  <2> QED  BY <1>1, <2>9, RequestInv
<1> QED  BY <1>1, TurnInductive, PTL DEF TurnSpec, RequestIsAnswered
=============================================================================
