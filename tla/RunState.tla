------------------------------ MODULE RunState ------------------------------
(***************************************************************************)
(* One session of the CLI's run state: session/run-state.ts keeps a runner *)
(* per session, effect/runner.ts lets that runner execute one run or one   *)
(* shell at a time, queue one run behind a shell and be cancelled, and     *)
(* sonderr/effect/runner.ts starts a run only when it has been recorded.   *)
(*                                                                         *)
(* Fibers switch where the code can suspend: on a runner's lock, on the    *)
(* status published as work begins (with the lock held) or ends, on a      *)
(* deferred, on another fiber, on a latch.  A step is what runs between    *)
(* two such points.  A call of the service is identified with the work it  *)
(* brings and with the runner it creates when it finds none.               *)
(***************************************************************************)
EXTENDS Naturals, FiniteSets

CONSTANTS Calls,    \* calls of ensureRunning, startShell and cancel
          None      \* no call: no runner, no work

ASSUME CallsAssumption == IsFiniteSet(Calls) /\ None \notin Calls

VARIABLES registered,  \* data.runners.get(sessionID): a runner, or None
          runner,      \* the state each runner's ref holds
          holder,      \* the call holding each runner's lock across a suspension
          call,        \* where each call is
          work,        \* where the fiber of each work is
          home,        \* the runner each work was handed to
          stopping,    \* works whose fiber was asked to interrupt
          answered,    \* works whose `done` is completed
          mishaps      \* history: what went wrong that the code does not handle

vars == <<registered, runner, holder, call, work, home, stopping, answered, mishaps>>

-----------------------------------------------------------------------------
(* Shapes *)

Idle == [tag |-> "Idle", shell |-> None, run |-> None]
Running(w) == [tag |-> "Running", shell |-> None, run |-> w]
Shell(s) == [tag |-> "Shell", shell |-> s, run |-> None]
ShellThenRun(s, w) == [tag |-> "ShellThenRun", shell |-> s, run |-> w]

RunnerStates ==
    {Idle} \cup {Running(w) : w \in Calls} \cup {Shell(s) : s \in Calls}
           \cup {ShellThenRun(s, w) : s \in Calls, w \in Calls}

(* A call: where it is, on which runner, for which work, and the queued run *)
(* a cancel has still to fail.                                              *)
CallStates ==
    [at : {"ready", "lock", "busy", "await", "shell", "stopShell", "stop", "idle", "returned"},
     op : {"none", "run", "shell", "cancel"},
     obj : Calls \cup {None}, of : Calls \cup {None}, queued : Calls \cup {None}]
At(place) == [at |-> place, op |-> "none", obj |-> None, of |-> None, queued |-> None]
Locking(op, r) == [At("lock") EXCEPT !.op = op, !.obj = r]
Awaiting(w) == [At("await") EXCEPT !.of = w]

(* Mutant: a cancel leaves it to the interrupted fiber to tell the callers. *)
StoppingUntold(place, r, w, q) == [At(place) EXCEPT !.obj = r, !.of = w]

Stopping(place, r, w, q) == [At(place) EXCEPT !.obj = r, !.of = w, !.queued = q]

Over == {"gone", "stillborn"}

-----------------------------------------------------------------------------
(* Pieces the operations share *)

(* Fiber.interrupt: a fiber that has not started ends without running any   *)
(* of its finalizers; one that has started is told.                         *)
Interrupted(w) ==
    IF work[w] = "forked"
    THEN work' = [work EXCEPT ![w] = "stillborn"] /\ UNCHANGED stopping
    ELSE /\ stopping' = stopping \cup ({w} \cap {x \in Calls : work[x] \in {"opening", "live"}})
         /\ UNCHANGED work

(* onIdle: the registration is removed by session, whichever runner it is.  *)
(* Removing one that is not, or is about to be, this runner's is the mishap *)
(* "unregistered".                                                          *)
Deregister(r) ==
    /\ registered' = None
    /\ mishaps' = mishaps \cup
         (IF \/ registered \notin {r, None}
             \/ \E c \in Calls : call[c].at = "lock" /\ call[c].obj = r /\ call[c].op # "cancel"
          THEN {"unregistered"} ELSE {})

-----------------------------------------------------------------------------
(* ensureRunning *)

(* With the lock: join the run there is, queue behind a shell, or start.    *)
EnsureOn(c, r) ==
    LET st == runner[r] IN
    \/ /\ st.tag \in {"Running", "ShellThenRun"}
       /\ call' = [call EXCEPT ![c] = Awaiting(st.run)]
       /\ UNCHANGED <<runner, work, home>>
    \/ /\ st.tag = "Shell"
       /\ runner' = [runner EXCEPT ![r] = ShellThenRun(st.shell, c)]
       /\ work' = [work EXCEPT ![c] = "queued"] /\ home' = [home EXCEPT ![c] = r]
       /\ call' = [call EXCEPT ![c] = Awaiting(c)]
    \/ /\ st.tag = "Idle"
       /\ runner' = [runner EXCEPT ![r] = Running(c)]
       /\ work' = [work EXCEPT ![c] = "forked"] /\ home' = [home EXCEPT ![c] = r]
       /\ call' = [call EXCEPT ![c] = Awaiting(c)]

-----------------------------------------------------------------------------
(* startShell *)

(* With the lock: refused unless idle; otherwise the busy status is         *)
(* published with the lock held.                                            *)
ShellOn(c, r) ==
    IF runner[r].tag # "Idle"
    THEN call' = [call EXCEPT ![c] = At("returned")] /\ UNCHANGED holder
    ELSE /\ holder' = [holder EXCEPT ![r] = c]
         /\ call' = [call EXCEPT ![c] = [At("busy") EXCEPT !.obj = r]]

(* The status is out: the shell's fiber is forked as a child of the call,   *)
(* recorded, and the lock released.                                         *)
ForkShell(c) ==
    LET r == call[c].obj IN
    /\ call[c].at = "busy"
    /\ work' = [work EXCEPT ![c] = "forked"] /\ home' = [home EXCEPT ![c] = r]
    /\ runner' = [runner EXCEPT ![r] = Shell(c)]
    /\ holder' = [holder EXCEPT ![r] = None]
    /\ call' = [call EXCEPT ![c] = At("shell")]
    /\ UNCHANGED <<registered, stopping, answered, mishaps>>

(* The caller of a shell has its fiber's exit.                              *)
ShellReturns(c) ==
    /\ call[c].at = "shell" /\ work[c] \in Over
    /\ call' = [call EXCEPT ![c] = At("returned")]
    /\ UNCHANGED <<registered, runner, holder, work, home, stopping, answered, mishaps>>

-----------------------------------------------------------------------------
(* cancel *)

(* With the lock: whatever is in progress is dropped from the state first;  *)
(* a run's fiber is interrupted at once, a shell's once its latch is open.  *)
CancelOn(c, r) ==
    LET st == runner[r] IN
    \/ /\ st.tag = "Idle"
       /\ call' = [call EXCEPT ![c] = At("returned")]
       /\ UNCHANGED <<runner, work, stopping>>
    \/ /\ st.tag = "Running"
       /\ runner' = [runner EXCEPT ![r] = Idle]
       /\ Interrupted(st.run)
       /\ call' = [call EXCEPT ![c] = Stopping("stop", r, st.run, st.run)]
    \/ /\ st.tag \in {"Shell", "ShellThenRun"}
       /\ runner' = [runner EXCEPT ![r] = Idle]
       /\ call' = [call EXCEPT ![c] = Stopping("stopShell", r, st.shell, st.run)]
       /\ UNCHANGED <<work, stopping>>

(* stopShell: the latch of a shell opens as its prologue ends.              *)
StopShell(c) ==
    /\ call[c].at = "stopShell"
    /\ work[call[c].of] \notin {"forked", "opening", "stillborn"}
    /\ Interrupted(call[c].of)
    /\ call' = [call EXCEPT ![c].at = "stop"]
    /\ UNCHANGED <<registered, runner, holder, home, answered, mishaps>>

(* Mutant: the runner is deregistered whatever it does by now.              *)
IdleIfCurrentBlind(c) ==
    /\ call' = [call EXCEPT ![c] = At("returned")]
    /\ registered' = None /\ UNCHANGED mishaps

(* idleIfCurrent: with the lock, a runner that is idle is deregistered.     *)
IdleIfCurrent(c) ==
    LET r == call[c].obj IN
    IF holder[r] # None
    THEN call' = [call EXCEPT ![c] = [At("idle") EXCEPT !.obj = r]] /\ UNCHANGED <<registered, mishaps>>
    ELSE /\ call' = [call EXCEPT ![c] = At("returned")]
         /\ IF runner[r].tag = "Idle" THEN Deregister(r) ELSE UNCHANGED <<registered, mishaps>>

(* The interrupted fiber is gone: whoever waits for the cancelled run is    *)
(* told, whether or not the fiber's own finish got to it.                   *)
Stopped(c) ==
    /\ call[c].at = "stop" /\ work[call[c].of] \in Over
    /\ answered' = answered \cup ({call[c].queued} \ {None})
    /\ IdleIfCurrent(c)
    /\ UNCHANGED <<runner, holder, work, home, stopping>>

IdleAtLast(c) ==
    /\ call[c].at = "idle" /\ holder[call[c].obj] = None
    /\ IdleIfCurrent(c)
    /\ UNCHANGED <<runner, holder, work, home, stopping, answered>>

-----------------------------------------------------------------------------
(* The service's entry points: find or create the runner, then take its     *)
(* lock or wait for it.                                                     *)

On(c, op, r) ==
    IF holder[r] # None
    THEN call' = [call EXCEPT ![c] = Locking(op, r)] /\ UNCHANGED <<runner, holder, work, home, stopping>>
    ELSE \/ op = "run" /\ EnsureOn(c, r) /\ UNCHANGED <<holder, stopping>>
         \/ op = "shell" /\ ShellOn(c, r) /\ UNCHANGED <<runner, work, home, stopping>>
         \/ op = "cancel" /\ CancelOn(c, r) /\ UNCHANGED <<holder, home>>

Enter(c, op) ==
    /\ call[c].at = "ready" /\ op \in {"run", "shell"}
    /\ registered' = (IF registered = None THEN c ELSE registered)
    /\ On(c, op, registered')
    /\ UNCHANGED <<answered, mishaps>>

Cancel(c) ==
    /\ call[c].at = "ready"
    /\ IF registered = None
       THEN call' = [call EXCEPT ![c] = At("returned")] /\ UNCHANGED <<runner, holder, work, home, stopping>>
       ELSE On(c, "cancel", registered)
    /\ UNCHANGED <<registered, answered, mishaps>>

LockTaken(c) ==
    /\ call[c].at = "lock" /\ holder[call[c].obj] = None
    /\ On(c, call[c].op, call[c].obj)
    /\ UNCHANGED <<registered, answered, mishaps>>

(* awaitDone: joined callers share the run's result, or the fallback.       *)
Answered(c) ==
    /\ call[c].at = "await" /\ call[c].of \in answered
    /\ call' = [call EXCEPT ![c] = At("returned")]
    /\ UNCHANGED <<registered, runner, holder, work, home, stopping, answered, mishaps>>

(* The calling fiber is interrupted.  A shell is the caller's child and     *)
(* goes with it; a run belongs to the service's scope and goes on.          *)
Abandon(c) ==
    /\ call[c].at \in {"lock", "busy", "await", "shell", "stopShell", "stop", "idle"}
    /\ call' = [call EXCEPT ![c] = At("returned")]
    /\ holder' = [r \in Calls |-> IF holder[r] = c THEN None ELSE holder[r]]
    /\ IF call[c].at = "shell" /\ work[c] \notin Over THEN Interrupted(c) ELSE UNCHANGED <<work, stopping>>
    /\ mishaps' = mishaps
         \cup (IF call[c].at \in {"stopShell", "stop"} THEN {"stop abandoned"} ELSE {})
         \cup (IF call[c].at = "shell" /\ work[c] = "forked" THEN {"shell stillborn"} ELSE {})
    /\ UNCHANGED <<registered, runner, home, answered>>

-----------------------------------------------------------------------------
(* The fiber of a work *)

(* A run is live when it starts; a shell first writes its messages, which   *)
(* cannot be interrupted and opens its latch.                               *)
Start(w) ==
    /\ work[w] = "forked"
    /\ \/ call[w].at = "shell" /\ work' = [work EXCEPT ![w] = "opening"]
       \/ call[w].at # "shell" /\ work' = [work EXCEPT ![w] = "live"]
    /\ UNCHANGED <<registered, runner, holder, call, home, stopping, answered, mishaps>>

Opened(w) ==
    /\ work[w] = "opening"
    /\ work' = [work EXCEPT ![w] = "live"]
    /\ UNCHANGED <<registered, runner, holder, call, home, stopping, answered, mishaps>>

(* The work returned, failed or was interrupted and has cleaned up.         *)
End(w) ==
    /\ work[w] = "live"
    /\ work' = [work EXCEPT ![w] = "ending"]
    /\ UNCHANGED <<registered, runner, holder, call, home, stopping, answered, mishaps>>

(* A shell hands its runner over to the run queued behind it.               *)
HandOver(w, r) ==
    /\ runner[r].tag = "ShellThenRun" /\ runner[r].shell = w
    /\ runner' = [runner EXCEPT ![r] = Running(runner[r].run)]
    /\ work' = [work EXCEPT ![w] = "gone", ![runner[r].run] = "forked"]
    /\ UNCHANGED <<registered, answered, mishaps>>

(* finishRun, finishShell of the runner w was handed to: the work that      *)
(* runner still records makes it idle, or hands over to the queued run; one *)
(* cancelled meanwhile changes nothing.                                     *)
Finish(w) ==
    LET r == home[w] IN
    /\ work[w] = "ending" /\ holder[r] = None
    /\ \/ /\ runner[r] \in {Running(w), Shell(w)}
          /\ runner' = [runner EXCEPT ![r] = Idle]
          /\ Deregister(r)
          /\ work' = [work EXCEPT ![w] = "publishing"]
          /\ UNCHANGED answered
       \/ HandOver(w, r)
       \/ /\ runner[r].run # w /\ runner[r].shell # w
          /\ work' = [work EXCEPT ![w] = "gone"]
          /\ answered' = answered \cup {w}
          /\ UNCHANGED <<registered, runner, mishaps>>
    /\ UNCHANGED <<holder, call, home, stopping>>

(* The idle status is out: the run's callers are told.                      *)
Published(w) ==
    /\ work[w] = "publishing"
    /\ work' = [work EXCEPT ![w] = "gone"]
    /\ answered' = answered \cup {w}
    /\ UNCHANGED <<registered, runner, holder, call, home, stopping, mishaps>>
-----------------------------------------------------------------------------
(* The specification *)

Init ==
    /\ registered = None
    /\ runner = [r \in Calls |-> Idle]
    /\ holder = [r \in Calls |-> None]
    /\ call = [c \in Calls |-> At("ready")]
    /\ work = [w \in Calls |-> "none"]
    /\ home = [w \in Calls |-> None]
    /\ stopping = {}
    /\ answered = {}
    /\ mishaps = {}

CallStep(c) ==
    \/ \E op \in {"run", "shell"} : Enter(c, op)
    \/ Cancel(c) \/ LockTaken(c)
    \/ ForkShell(c) \/ ShellReturns(c) \/ Answered(c)
    \/ StopShell(c) \/ Stopped(c) \/ IdleAtLast(c)
    \/ Abandon(c)

WorkStep(w) == Start(w) \/ Opened(w) \/ End(w) \/ Finish(w) \/ Published(w)

(* Every call has returned and every fiber is gone; or, after a mishap,     *)
(* whoever is left waits for good.                                          *)
Settled ==
    /\ mishaps = {} => \A c \in Calls : call[c].at = "returned"
    /\ \A w \in Calls : work[w] \in Over \cup {"none", "queued"}
    /\ UNCHANGED vars

Next ==
    \/ \E c \in Calls : CallStep(c) \/ WorkStep(c)
    \/ Settled

Spec == Init /\ [][Next]_vars

-----------------------------------------------------------------------------
(* Properties *)

(* Every variable stays within the values the code gives it.                *)
TypeOK ==
    /\ registered \in Calls \cup {None}
    /\ runner \in [Calls -> RunnerStates]
    /\ holder \in [Calls -> Calls \cup {None}]
    /\ call \in [Calls -> CallStates]
    /\ work \in [Calls -> Over \cup {"none", "queued", "forked", "opening", "live", "ending", "publishing"}]
    /\ home \in [Calls -> Calls \cup {None}]
    /\ stopping \subseteq Calls
    /\ answered \subseteq Calls
    /\ mishaps \subseteq {"unregistered", "stop abandoned", "shell stillborn"}

(* Work nobody has asked to stop: what it does to the session is meant.     *)
InProgress ==
    {w \in Calls \ stopping :
        /\ work[w] \in {"forked", "opening", "live"}
        /\ \A c \in Calls : call[c].at = "stopShell" => call[c].of # w}

(* One work at a time acts on a session (effect/runner.ts:34-38), and it is *)
(* the work that the registered runner records: assertNotBusy refuses a     *)
(* revert meanwhile and a cancel reaches it (run-state.ts:72-87).  This     *)
(* fails only after a registration was removed under a newer runner or a    *)
(* cancel was abandoned between dropping a shell and interrupting it.       *)
WorkIsReachable ==
    /\ TypeOK
    /\ mishaps \subseteq {"shell stillborn"} =>
         /\ Cardinality(InProgress) <= 1
         /\ \A w \in InProgress :
              /\ registered # None
              /\ w \in {runner[registered].run, runner[registered].shell}

(* Whoever waits for a run will be answered: its done is completed, its     *)
(* fiber is still to finish, it is queued behind a shell whose fiber is     *)
(* still to finish, or a cancel holds it and has still to fail it.          *)
WaitersAnswered ==
    mishaps \subseteq {"unregistered"} =>
        \A c \in Calls : call[c].at = "await" =>
            LET w == call[c].of IN
            \/ w \in answered
            \/ work[w] \in {"forked", "opening", "live", "ending", "publishing"}
            \/ \E r \in Calls :
                 /\ runner[r].tag = "ShellThenRun" /\ runner[r].run = w
                 /\ work[runner[r].shell] \notin Over
            \/ \E x \in Calls : call[x].at \in {"stopShell", "stop"} /\ call[x].queued = w
=============================================================================
