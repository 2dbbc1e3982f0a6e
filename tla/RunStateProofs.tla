--------------------------- MODULE RunStateProofs ---------------------------
(***************************************************************************)
(* Proofs about the runners of one session of the CLI.                     *)
(*                                                                         *)
(* The inductive invariant ties the records of the runners to the fibers   *)
(* (Recorded): a work is recorded by the runner it was handed to, and a    *)
(* recorded work is still to finish.  A fiber that acts on the session     *)
(* and is not recorded is being stopped (Dropped); a runner that records   *)
(* something, or is about to, is the registered one (Registered).  The     *)
(* last two hold until the mishap that breaks them, which the properties   *)
(* exempt by name.                                                         *)
(***************************************************************************)
EXTENDS RunState, FiniteSetTheorems, TLAPS

\* What the place of a call says of its other fields.
Places ==
  \A c \in Calls :
    /\ call[c].at \in {"lock", "busy", "stopShell", "stop", "idle"} => call[c].obj # None
    /\ call[c].at \in {"await", "stopShell", "stop"} => call[c].of # None
    /\ call[c].at = "lock" => call[c].op # "none"

\* A call has no work before it has the lock of its runner.
Unborn ==
  \A c \in Calls :
    \/ call[c].at \in {"ready", "busy"}
    \/ call[c].at = "lock" /\ call[c].op # "cancel"
    => work[c] = "none"

Awaits(c, w) == call[c].at = "await" /\ call[c].of = w

\* What a runner records of a work.
RecordOf(r, w) ==
  /\ runner[r].run = w =>
       /\ home[w] = r
       /\ work[w] \in IF runner[r].tag = "Running" THEN {"forked", "live", "ending"} ELSE {"queued"}
       /\ call[w].at \in {"await", "returned"}
  /\ runner[r].shell = w =>
       /\ home[w] = r
       /\ work[w] \in {"forked", "opening", "live", "ending", "stillborn"}
       /\ work[w] = "stillborn" => "shell stillborn" \in mishaps
       /\ \A c \in Calls : ~Awaits(c, w)

Recorded == \A r, w \in Calls : RecordOf(r, w)

\* The lock of a runner is held across the status of a shell that starts on it.
Held ==
  \A r \in Calls, c \in Calls :
    /\ holder[r] = c <=> call[c].at = "busy" /\ call[c].obj = r
    /\ holder[r] = c => runner[r] = Idle

Registered ==
  "unregistered" \notin mishaps =>
    /\ \A r \in Calls : runner[r] # Idle => registered = r
    /\ \A c \in Calls : \/ call[c].at = "busy"
                        \/ call[c].at = "lock" /\ call[c].op # "cancel"
                        => registered = call[c].obj

Acts(w) == work[w] \in {"forked", "opening", "live"}

\* A fiber that acts is recorded or being stopped.
Reached(w) ==
  \/ home[w] # None /\ w \in {runner[home[w]].run, runner[home[w]].shell}
  \/ w \in stopping
  \/ \E c \in Calls : call[c].at = "stopShell" /\ call[c].of = w

Dropped == "stop abandoned" \notin mishaps => \A w \in Calls : Acts(w) => Reached(w)

\* A work that is waited for was begun, and one that was begun has its runner.
Born ==
  /\ \A c, w \in Calls : Awaits(c, w) => work[w] # "none"
  /\ \A w \in Calls : work[w] # "none" => home[w] # None

IInv == /\ TypeOK /\ Places /\ Unborn /\ Recorded /\ Held /\ Registered /\ Dropped
        /\ Born /\ WaitersAnswered

-----------------------------------------------------------------------------
(* Fields *)

\* What each state of a runner records.
LEMMA AtMostOne ==
  /\ Cardinality({}) <= 1
  /\ \A w : Cardinality({w}) <= 1
<1>1. \A n \in {0, 1} : n <= 1
  OBVIOUS
<1>2. Cardinality({}) \in {0, 1} /\ \A w : Cardinality({w}) \in {0, 1}
  BY FS_EmptySet, FS_Singleton
<1> QED  BY <1>1, <1>2

LEMMA Tags ==
  /\ Idle.tag = "Idle" /\ Idle.shell = None /\ Idle.run = None
  /\ \A w : /\ Running(w).tag = "Running" /\ Running(w).shell = None /\ Running(w).run = w
            /\ Shell(w).tag = "Shell" /\ Shell(w).shell = w /\ Shell(w).run = None
  /\ \A s, w : /\ ShellThenRun(s, w).tag = "ShellThenRun"
               /\ ShellThenRun(s, w).shell = s /\ ShellThenRun(s, w).run = w
BY DEF Idle, Running, Shell, ShellThenRun

LEMMA Fields ==
  ASSUME TypeOK
  PROVE  /\ \A c \in Calls :
              /\ call[c] \in CallStates
              /\ call[c].at \in {"ready", "lock", "busy", "await", "shell", "stopShell", "stop",
                                 "idle", "returned"}
              /\ call[c].op \in {"none", "run", "shell", "cancel"}
              /\ call[c].obj \in Calls \cup {None}
              /\ call[c].of \in Calls \cup {None}
              /\ call[c].queued \in Calls \cup {None}
         /\ \A r \in Calls :
              /\ runner[r] \in RunnerStates
              /\ runner[r].shell \in Calls \cup {None} /\ runner[r].run \in Calls \cup {None}
              /\ \/ runner[r] = Idle
                 \/ runner[r].run # None /\ runner[r] = Running(runner[r].run)
                 \/ runner[r].shell # None /\ runner[r] = Shell(runner[r].shell)
                 \/ /\ runner[r].shell # None /\ runner[r].run # None
                    /\ runner[r] = ShellThenRun(runner[r].shell, runner[r].run)
<1>1. \A c \in Calls :
        /\ call[c] \in CallStates
        /\ call[c].at \in {"ready", "lock", "busy", "await", "shell", "stopShell", "stop",
                           "idle", "returned"}
        /\ call[c].op \in {"none", "run", "shell", "cancel"}
        /\ call[c].obj \in Calls \cup {None}
        /\ call[c].of \in Calls \cup {None}
        /\ call[c].queued \in Calls \cup {None}
  BY DEF TypeOK, CallStates
<1>2. ASSUME NEW r \in Calls
      PROVE  /\ runner[r] \in RunnerStates
             /\ runner[r].shell \in Calls \cup {None} /\ runner[r].run \in Calls \cup {None}
             /\ \/ runner[r] = Idle
                \/ runner[r].run # None /\ runner[r] = Running(runner[r].run)
                \/ runner[r].shell # None /\ runner[r] = Shell(runner[r].shell)
                \/ /\ runner[r].shell # None /\ runner[r].run # None
                   /\ runner[r] = ShellThenRun(runner[r].shell, runner[r].run)
  <2>1. runner[r] \in RunnerStates
    BY DEF TypeOK
  <2>2. CASE runner[r] = Idle
    BY <2>1, <2>2, Tags
  <2>3. ASSUME NEW w \in Calls, runner[r] = Running(w)
        PROVE  runner[r].shell = None /\ runner[r].run \in Calls /\ runner[r] = Running(runner[r].run)
    BY <2>3, Tags
  <2>4. ASSUME NEW s \in Calls, runner[r] = Shell(s)
        PROVE  runner[r].run = None /\ runner[r].shell \in Calls /\ runner[r] = Shell(runner[r].shell)
    BY <2>4, Tags
  <2>5. ASSUME NEW s \in Calls, NEW w \in Calls, runner[r] = ShellThenRun(s, w)
        PROVE  /\ runner[r].run \in Calls /\ runner[r].shell \in Calls
               /\ runner[r] = ShellThenRun(runner[r].shell, runner[r].run)
    BY <2>5, Tags
  <2> QED  BY <2>1, <2>2, <2>3, <2>4, <2>5, CallsAssumption DEF RunnerStates
<1> QED  BY <1>1, <1>2

\* The places a call goes to.
LEMMA Going ==
  /\ \A p : /\ At(p).at = p /\ At(p).op = "none" /\ At(p).obj = None
            /\ At(p).of = None /\ At(p).queued = None
  /\ \A p, r : LET m == [At(p) EXCEPT !.obj = r] IN
       m.at = p /\ m.op = "none" /\ m.obj = r /\ m.of = None /\ m.queued = None
  /\ \A op, r : LET m == Locking(op, r) IN
       m.at = "lock" /\ m.op = op /\ m.obj = r /\ m.of = None /\ m.queued = None
  /\ \A w : LET m == Awaiting(w) IN
       m.at = "await" /\ m.op = "none" /\ m.obj = None /\ m.of = w /\ m.queued = None
  /\ \A p, r, w, q : LET m == Stopping(p, r, w, q) IN
       m.at = p /\ m.op = "none" /\ m.obj = r /\ m.of = w /\ m.queued = q
BY DEF At, Locking, Awaiting, Stopping

LEMMA PlacesTyped ==
  /\ \A p \in {"ready", "lock", "busy", "await", "shell", "stopShell", "stop", "idle", "returned"} :
       /\ At(p) \in CallStates
       /\ \A r \in Calls : [At(p) EXCEPT !.obj = r] \in CallStates
       /\ \A r, w \in Calls, q \in Calls \cup {None} : Stopping(p, r, w, q) \in CallStates
  /\ \A op \in {"run", "shell", "cancel"}, r \in Calls : Locking(op, r) \in CallStates
  /\ \A w \in Calls : Awaiting(w) \in CallStates
<1>1. \A p \in {"ready", "lock", "busy", "await", "shell", "stopShell", "stop", "idle", "returned"} :
        At(p) \in CallStates /\ \A r \in Calls : [At(p) EXCEPT !.obj = r] \in CallStates
  BY DEF At, CallStates
<1>2. \A p \in {"ready", "lock", "busy", "await", "shell", "stopShell", "stop", "idle", "returned"} :
        \A r, w \in Calls, q \in Calls \cup {None} : Stopping(p, r, w, q) \in CallStates
  <2> TAKE p \in {"ready", "lock", "busy", "await", "shell", "stopShell", "stop", "idle", "returned"}
  <2> TAKE r, w \in Calls, q \in Calls \cup {None}
  <2> QED  BY DEF At, Stopping, CallStates
<1>3. \A op \in {"run", "shell", "cancel"}, r \in Calls : Locking(op, r) \in CallStates
  <2> TAKE op \in {"run", "shell", "cancel"}, r \in Calls
  <2> QED  BY DEF At, Locking, CallStates
<1>4. \A w \in Calls : Awaiting(w) \in CallStates
  BY DEF At, Awaiting, CallStates
<1> QED  BY <1>1, <1>2, <1>3, <1>4

\* A work that has not begun is on no record.
LEMMA UnrecordedWork ==
  ASSUME IInv, NEW c \in Calls, work[c] = "none"
  PROVE  \A x \in Calls : runner[x].shell # c /\ runner[x].run # c
<1> TAKE x \in Calls
<1>1. RecordOf(x, c)
  BY DEF IInv, Recorded
<1> QED  BY <1>1 DEF RecordOf

LEMMA RunnersTyped ==
  /\ Idle \in RunnerStates
  /\ \A w \in Calls : Running(w) \in RunnerStates /\ Shell(w) \in RunnerStates
  /\ \A s, w \in Calls : ShellThenRun(s, w) \in RunnerStates
BY DEF RunnerStates

\* The fiber of a work is asked to stop.
LEMMA Interrupts ==
  ASSUME TypeOK, NEW w \in Calls, Interrupted(w)
  PROVE  /\ work' \in [Calls -> Over \cup {"none", "queued", "forked", "opening", "live",
                                           "ending", "publishing"}]
         /\ stopping' \subseteq Calls /\ stopping \subseteq stopping'
         /\ \A v \in Calls : v # w => work'[v] = work[v]
         /\ IF work[w] = "forked" THEN work'[w] = "stillborn"
            ELSE work'[w] = work[w] /\ (work[w] \in {"opening", "live"} => w \in stopping')
BY DEF Interrupted, TypeOK, Over

-----------------------------------------------------------------------------
(* A call that has found its runner *)

\* What is known when a call of the service goes on to the runner r.
Called(c, op, r) ==
  /\ op \in {"run", "shell", "cancel"}
  /\ call[c].at \in {"ready", "lock"}
  /\ op # "cancel" => work[c] = "none"
  /\ registered' \in Calls \cup {None}
  /\ mishaps' = mishaps /\ answered' = answered
  /\ "unregistered" \notin mishaps =>
       /\ \A x \in Calls : runner[x] # Idle => registered' = x
       /\ \A d \in Calls : \/ call[d].at = "busy"
                           \/ d # c /\ call[d].at = "lock" /\ call[d].op # "cancel"
                           => registered' = call[d].obj
       /\ op # "cancel" => registered' = r

LEMMA EnterCalls ==
  ASSUME IInv, NEW c \in Calls, NEW op, Enter(c, op)
  PROVE  registered' \in Calls /\ Called(c, op, registered') /\ On(c, op, registered')
<1>1. registered' \in Calls /\ (registered # None => registered' = registered)
  BY CallsAssumption DEF Enter, IInv, TypeOK
<1>2. \A x \in Calls : registered # x => registered = None \/ registered \in Calls
  BY DEF IInv, TypeOK
<1>3. \A d \in Calls : call[d].at \in {"busy", "lock"} => call[d].obj \in Calls
  BY Fields DEF IInv, Places
<1>4. "unregistered" \notin mishaps =>
        /\ \A x \in Calls : runner[x] # Idle => registered' = x
        /\ \A d \in Calls : \/ call[d].at = "busy"
                            \/ d # c /\ call[d].at = "lock" /\ call[d].op # "cancel"
                            => registered' = call[d].obj
  BY <1>1, <1>3, CallsAssumption DEF IInv, Registered
<1>5. work[c] = "none"
  BY DEF Enter, IInv, Unborn
<1> QED  BY <1>1, <1>4, <1>5 DEF Called, Enter

LEMMA CancelCalls ==
  ASSUME IInv, NEW c \in Calls, Cancel(c), registered # None
  PROVE  registered \in Calls /\ Called(c, "cancel", registered) /\ On(c, "cancel", registered)
BY DEF Cancel, IInv, TypeOK, Registered, Called

LEMMA LockCalls ==
  ASSUME IInv, NEW c \in Calls, LockTaken(c)
  PROVE  /\ call[c].obj \in Calls
         /\ Called(c, call[c].op, call[c].obj) /\ On(c, call[c].op, call[c].obj)
<1>1. call[c].obj \in Calls /\ call[c].op \in {"run", "shell", "cancel"}
  BY Fields DEF LockTaken, IInv, Places
<1> QED  BY <1>1 DEF LockTaken, IInv, TypeOK, Registered, Called, Unborn


\* WaitersAnswered, of one work.
Pursued(w) ==
  \/ w \in answered
  \/ work[w] \in {"forked", "opening", "live", "ending", "publishing"}
  \/ \E r \in Calls :
       /\ runner[r].tag = "ShellThenRun" /\ runner[r].run = w
       /\ work[runner[r].shell] \notin Over
  \/ \E x \in Calls : call[x].at \in {"stopShell", "stop"} /\ call[x].queued = w

LEMMA PursuedNow ==
  ASSUME WaitersAnswered, mishaps \subseteq {"unregistered"},
         NEW c \in Calls, NEW w, Awaits(c, w)
  PROVE  Pursued(w)
BY DEF WaitersAnswered, Awaits, Pursued

LEMMA PursuedNext ==
  ASSUME TypeOK', Places',
         mishaps' \subseteq {"unregistered"} =>
           \A c, w \in Calls : Awaits(c, w)' => Pursued(w)'
  PROVE  WaitersAnswered'
<1>1. \A c \in Calls : call'[c].at = "await" => call'[c].of \in Calls
  BY DEF TypeOK, CallStates, Places
<1> QED  BY <1>1 DEF WaitersAnswered, Awaits, Pursued

Others(c) == \A d \in Calls : d # c => call'[d] = call[d]

LEMMA CalledRegisters ==
  ASSUME IInv, NEW c \in Calls, NEW r \in Calls, NEW op, Called(c, op, r), Others(c),
         \A x \in Calls : runner'[x] # Idle => runner[x] # Idle \/ (x = r /\ op # "cancel"),
         \/ call'[c].at = "busy"
         \/ call'[c].at = "lock" /\ call'[c].op # "cancel"
         => op # "cancel" /\ call'[c].obj = r
  PROVE  Registered'
BY DEF Called, Others, Registered

\* A call that neither holds a lock nor has a shell to stop goes on or returns.
LEMMA QuietHolds ==
  ASSUME IInv, TypeOK', Registered', NEW c \in Calls, Others(c),
         UNCHANGED <<runner, holder, work, home, stopping>>,
         mishaps \subseteq mishaps', mishaps' \subseteq mishaps \cup {"unregistered"},
         answered \subseteq answered',
         call[c].at \notin {"busy", "stopShell"},
         call[c].at = "stop" => call[c].queued \in answered' \cup {None},
         call'[c].at \in {"lock", "idle", "returned"},
         call[c].at = "await" => call'[c].at = "returned",
         call[c].at = "returned" => call'[c].at = "returned",
         call'[c].at \in {"lock", "idle"} => call'[c].obj # None,
         call'[c].at = "lock" => call'[c].op # "none",
         call'[c].at = "lock" /\ call'[c].op # "cancel" => work[c] = "none"
  PROVE  IInv'
<1> USE DEF IInv, Others
<1>1. Places'
  BY DEF Places
<1>2. Unborn'
  BY DEF Unborn
<1>3. Recorded'
  <2> SUFFICES ASSUME NEW r \in Calls, NEW w \in Calls PROVE RecordOf(r, w)'
    BY DEF Recorded
  <2>1. RecordOf(r, w)
    BY DEF Recorded
  <2>2. ASSUME NEW d \in Calls, Awaits(d, w)' PROVE Awaits(d, w)
    BY <2>2 DEF Awaits
  <2> QED  BY <2>1, <2>2 DEF RecordOf
<1>4. Held'
  BY DEF Held
<1>5. Dropped'
  <2> SUFFICES ASSUME "stop abandoned" \notin mishaps, NEW w \in Calls, Acts(w)
               PROVE  Reached(w)'
    BY DEF Dropped, Acts
  <2>1. Reached(w)
    BY DEF Dropped
  <2> QED  BY <2>1 DEF Reached
<1>6. Born'
  BY DEF Born, Awaits
<1>7. WaitersAnswered'
  <2> SUFFICES ASSUME mishaps \subseteq {"unregistered"},
                      NEW d \in Calls, NEW w \in Calls, Awaits(d, w)'
               PROVE  Pursued(w)'
    BY <1>1, PursuedNext
  <2>1. Awaits(d, w)
    BY DEF Awaits
  <2>2. Pursued(w)
    BY <2>1, PursuedNow
  <2>3. \A x \in Calls : call[x].at \in {"stopShell", "stop"} /\ call[x].queued = w =>
          w \in answered' \/ call'[x] = call[x]
    BY CallsAssumption
  <2> QED  BY <2>2, <2>3 DEF Pursued
<1> QED  BY <1>1, <1>2, <1>3, <1>4, <1>5, <1>6, <1>7

\* A call that joins the run there is.
LEMMA JoinHolds ==
  ASSUME IInv, TypeOK', NEW c \in Calls, NEW r \in Calls, Called(c, "run", r),
         runner[r].tag \in {"Running", "ShellThenRun"},
         call' = [call EXCEPT ![c] = Awaiting(runner[r].run)],
         UNCHANGED <<runner, holder, work, home, stopping>>
  PROVE  IInv'
<1> USE DEF IInv
<1> DEFINE v == runner[r].run
<1>1. /\ v \in Calls /\ runner[r] # Idle
      /\ runner[r].tag = "Running" => runner[r] = Running(v)
      /\ runner[r].tag = "ShellThenRun" => runner[r].shell \in Calls
  BY Fields, Tags
<1>2. /\ call'[c].at = "await" /\ call'[c].of = v /\ call'[c].queued = None
      /\ Others(c)
      /\ call[c].at \in {"ready", "lock"} /\ work[c] = "none"
      /\ mishaps' = mishaps /\ answered' = answered
  <2>1. call'[c] = Awaiting(v) /\ Others(c)
    BY DEF TypeOK, Others
  <2>2. call[c].at \in {"ready", "lock"} /\ work[c] = "none" /\ mishaps' = mishaps
        /\ answered' = answered
    BY DEF Called
  <2> QED  BY <2>1, <2>2, Going
<1> HIDE DEF v
<1>3. /\ RecordOf(r, v) /\ home[v] = r
      /\ runner[r].run = v /\ work[v] # "none"
      /\ \A x \in Calls : runner[x].shell # v
  <2>1. RecordOf(r, v) /\ runner[r].run = v
    BY <1>1 DEF Recorded, v
  <2>2. home[v] = r /\ work[v] \in {"forked", "live", "ending", "queued"}
    BY <2>1 DEF RecordOf
  <2>3. ASSUME NEW x \in Calls, runner[x].shell = v PROVE FALSE
    <3>1. RecordOf(x, v)
      BY <1>1 DEF Recorded
    <3>2. x = r /\ work[v] # "queued"
      BY <2>2, <2>3, <3>1 DEF RecordOf
    <3>3. runner[r].tag = "Running"
      BY <2>1, <3>2 DEF RecordOf
    <3> QED  BY <1>1, <2>3, <3>2, <3>3, Tags, CallsAssumption
  <2> QED  BY <2>1, <2>2, <2>3
<1>4. Places'
  BY <1>1, <1>2, CallsAssumption DEF Places, Others
<1>5. Unborn'
  BY <1>2 DEF Unborn, Others
<1>6. Recorded'
  <2> SUFFICES ASSUME NEW x \in Calls, NEW w \in Calls PROVE RecordOf(x, w)'
    BY DEF Recorded
  <2>1. RecordOf(x, w)
    BY DEF Recorded
  <2>2. runner[x].shell = w => w # v
    BY <1>3
  <2>3. ASSUME NEW d \in Calls, Awaits(d, w)' PROVE Awaits(d, w) \/ w = v
    BY <1>2, <2>3 DEF Awaits, Others
  <2>4. call[w].at \in {"await", "returned"} => call'[w].at \in {"await", "returned"}
    BY <1>2 DEF Others
  <2> QED  BY <1>2, <2>1, <2>2, <2>3, <2>4 DEF RecordOf
<1>7. Held'
  BY <1>2 DEF Held, Others
<1>8. Registered'
  BY <1>2, CalledRegisters
<1>9. Dropped'
  <2> SUFFICES ASSUME "stop abandoned" \notin mishaps, NEW w \in Calls, Acts(w)
               PROVE  Reached(w)'
    BY <1>2 DEF Dropped, Acts
  <2>1. Reached(w)
    BY DEF Dropped
  <2> QED  BY <1>2, <2>1 DEF Reached, Others
<1>10. Born'
  <2> SUFFICES ASSUME NEW d \in Calls, NEW w \in Calls, Awaits(d, w)' PROVE work[w] # "none"
    BY DEF Born, Awaits
  <2>1. w = v \/ Awaits(d, w)
    BY <1>2 DEF Awaits, Others
  <2> QED  BY <1>3, <2>1 DEF Born
<1>11. WaitersAnswered'
  <2> SUFFICES ASSUME mishaps \subseteq {"unregistered"},
                      NEW d \in Calls, NEW w \in Calls, Awaits(d, w)'
               PROVE  Pursued(w)'
    BY <1>2, <1>4, PursuedNext
  <2>1. CASE d = c
    <3>1. w = v
      BY <1>2, <2>1 DEF Awaits
    <3>2. CASE runner[r].tag = "Running"
      <4>1. work[v] \in {"forked", "live", "ending"}
        BY <1>1, <1>3, <3>2 DEF RecordOf, v
      <4> QED  BY <3>1, <4>1 DEF Pursued
    <3>3. CASE runner[r].tag = "ShellThenRun"
      <4>1. RecordOf(r, runner[r].shell)
        BY <1>1, <3>3 DEF Recorded
      <4>2. work[runner[r].shell] \notin Over
        BY <1>1, <3>3, <4>1 DEF RecordOf, Over
      <4> QED  BY <3>1, <3>3, <4>2 DEF Pursued, v
    <3> QED  BY <3>2, <3>3
  <2>2. CASE d # c
    <3>1. Awaits(d, w)
      BY <1>2, <2>2 DEF Awaits, Others
    <3>2. Pursued(w)
      BY <3>1, PursuedNow
    <3> QED  BY <1>2, <3>2 DEF Pursued, Others
  <2> QED  BY <2>1, <2>2
<1> QED  BY <1>4, <1>5, <1>6, <1>7, <1>8, <1>9, <1>10, <1>11

\* A call that brings its own work: the runner is idle, or a shell runs.
LEMMA WorkHolds ==
  ASSUME IInv, TypeOK', NEW c \in Calls, NEW r \in Calls, Called(c, "run", r),
         holder[r] = None,
         \/ /\ runner[r].tag = "Shell"
            /\ runner' = [runner EXCEPT ![r] = ShellThenRun(runner[r].shell, c)]
            /\ work' = [work EXCEPT ![c] = "queued"]
         \/ /\ runner[r].tag = "Idle"
            /\ runner' = [runner EXCEPT ![r] = Running(c)]
            /\ work' = [work EXCEPT ![c] = "forked"],
         home' = [home EXCEPT ![c] = r],
         call' = [call EXCEPT ![c] = Awaiting(c)],
         UNCHANGED <<holder, stopping>>
  PROVE  IInv'
<1> USE DEF IInv
<1>1. /\ call'[c].at = "await" /\ call'[c].of = c /\ call'[c].queued = None
      /\ Others(c)
      /\ call[c].at \in {"ready", "lock"} /\ work[c] = "none"
      /\ mishaps' = mishaps /\ answered' = answered
      /\ home'[c] = r
      /\ \A w \in Calls : w # c => home'[w] = home[w] /\ work'[w] = work[w]
      /\ \A x \in Calls : x # r => runner'[x] = runner[x]
  <2>1. call' = [call EXCEPT ![c] = Awaiting(c)] /\ home' = [home EXCEPT ![c] = r]
    OBVIOUS
  <2>2. /\ \A w \in Calls : w # c => work'[w] = work[w] /\ home'[w] = home[w]
        /\ \A x \in Calls : x # r => runner'[x] = runner[x]
    <3>1. /\ DOMAIN work = Calls /\ DOMAIN home = Calls /\ DOMAIN runner = Calls
          /\ DOMAIN work' = Calls /\ DOMAIN runner' = Calls
      BY DEF TypeOK
    <3> QED  BY <2>1, <3>1
  <2>3. call'[c] = Awaiting(c) /\ Others(c) /\ home'[c] = r
    <3>1. DOMAIN call = Calls /\ DOMAIN home = Calls
      BY DEF TypeOK
    <3> QED  BY <2>1, <3>1 DEF Others
  <2>4. call'[c].at = "await" /\ call'[c].of = c /\ call'[c].queued = None
    BY <2>3, Going
  <2> QED  BY <2>2, <2>3, <2>4 DEF Called
<1>2. \/ /\ runner[r].tag = "Shell" /\ runner[r].shell \in Calls /\ runner[r] # Idle
         /\ work'[c] = "queued" /\ runner'[r].tag = "ShellThenRun" /\ runner[r].run = None
         /\ runner'[r].run = c /\ runner'[r].shell = runner[r].shell
      \/ /\ runner[r].tag = "Idle" /\ runner[r].shell = None /\ runner[r].run = None
         /\ work'[c] = "forked" /\ runner'[r].tag = "Running" /\ runner[r] = Idle
         /\ runner'[r].run = c /\ runner'[r].shell = None
  <2>1. CASE runner[r].tag = "Shell"
    <3>1. runner'[r] = ShellThenRun(runner[r].shell, c) /\ work'[c] = "queued"
      BY <2>1 DEF TypeOK
    <3>2. runner[r].shell \in Calls /\ runner[r] # Idle /\ runner[r].run = None
      BY <2>1, Tags, Fields
    <3> QED  BY <2>1, <3>1, <3>2, Tags
  <2>2. CASE runner[r].tag = "Idle"
    <3>1. runner'[r] = Running(c) /\ work'[c] = "forked"
      BY <2>2 DEF TypeOK
    <3>2. runner[r] = Idle
      BY <2>2, Tags, Fields
    <3> QED  BY <2>2, <3>1, <3>2, Tags
  <2> QED  BY <2>1, <2>2
<1>3. \A x \in Calls : runner[x].shell # c /\ runner[x].run # c
  BY <1>1, UnrecordedWork
<1>4. Places'
  BY <1>1, CallsAssumption DEF Places, Others
<1>5. Unborn'
  BY <1>1 DEF Unborn, Others
<1>6. Recorded'
  <2> SUFFICES ASSUME NEW x \in Calls, NEW w \in Calls PROVE RecordOf(x, w)'
    BY DEF Recorded
  <2>1. RecordOf(x, w)
    BY DEF Recorded
  <2>2. w # c => \A d \in Calls : Awaits(d, w)' => Awaits(d, w)
    BY <1>1 DEF Awaits, Others
  <2>3. w # c => call'[w] = call[w]
    BY <1>1 DEF Others
  <2>4. CASE w # c
    <3>1. runner'[x].run = w => runner'[x] = runner[x]
      BY <1>1, <1>2, <2>4
    <3>2. runner'[x].shell = w => runner[x].shell = w
      BY <1>1, <1>2, CallsAssumption
    <3> QED  BY <1>1, <2>1, <2>2, <2>3, <2>4, <3>1, <3>2 DEF RecordOf
  <2>5. CASE w = c
    <3>1. runner'[x].shell # c /\ (runner'[x].run = c => x = r)
      BY <1>1, <1>2, <1>3, CallsAssumption
    <3>2. work'[c] = IF runner'[r].tag = "Running" THEN "forked" ELSE "queued"
      BY <1>2
    <3> QED  BY <1>1, <2>5, <3>1, <3>2 DEF RecordOf
  <2> QED  BY <2>4, <2>5
<1>7. Held'
  BY <1>1, CallsAssumption DEF Held, Others
<1>8. Registered'
  BY <1>1, CalledRegisters
<1>9. Dropped'
  <2> SUFFICES ASSUME "stop abandoned" \notin mishaps, NEW w \in Calls, Acts(w)'
               PROVE  Reached(w)'
    BY <1>1 DEF Dropped, Acts
  <2>1. CASE w = c
    <3>1. home'[c] # None /\ runner'[home'[c]].run = c
      BY <1>1, <1>2, CallsAssumption
    <3> QED  BY <2>1, <3>1 DEF Reached
  <2>2. CASE w # c
    <3>1. Reached(w)
      BY <1>1, <2>2 DEF Dropped, Acts
    <3>2. home'[w] = home[w] /\ (home[w] # None => home[w] \in Calls)
      <4>1. home[w] \in Calls \cup {None}
        BY DEF TypeOK
      <4> QED  BY <1>1, <2>2, <4>1
    <3>3. \A x \in Calls : w \in {runner[x].run, runner[x].shell} =>
                             w \in {runner'[x].run, runner'[x].shell}
      <4> TAKE x \in Calls
      <4>1. CASE x = r
        BY <1>2, <4>1, CallsAssumption
      <4>2. CASE x # r
        BY <1>1, <4>2
      <4> QED  BY <4>1, <4>2
    <3>4. \A d \in Calls : call[d].at = "stopShell" => call'[d] = call[d]
      BY <1>1 DEF Others
    <3> QED  BY <3>1, <3>2, <3>3, <3>4 DEF Reached
  <2> QED  BY <2>1, <2>2
<1>10. Born'
  BY <1>1, <1>2, CallsAssumption DEF Born, Awaits, Others
<1>11. WaitersAnswered'
  <2> SUFFICES ASSUME mishaps \subseteq {"unregistered"},
                      NEW d \in Calls, NEW w \in Calls, Awaits(d, w)'
               PROVE  Pursued(w)'
    BY <1>1, <1>4, PursuedNext
  <2>1. CASE w = c
    <3>1. CASE runner[r].tag = "Shell"
      <4>1. RecordOf(r, runner[r].shell)
        BY <1>2, <3>1 DEF Recorded
      <4>2. work'[runner[r].shell] \notin Over
        BY <1>1, <1>2, <1>3, <3>1, <4>1 DEF RecordOf, Over
      <4> QED  BY <1>1, <1>2, <2>1, <3>1, <4>2 DEF Pursued
    <3>2. CASE work'[c] = "forked"
      BY <2>1, <3>2 DEF Pursued
    <3> QED  BY <1>2, <3>1, <3>2
  <2>2. CASE w # c
    <3>1. Awaits(d, w)
      BY <1>1, <2>2 DEF Awaits, Others
    <3>2. Pursued(w)
      BY <3>1, PursuedNow
    <3>3. \A x \in Calls : runner[x].tag = "ShellThenRun" /\ runner[x].run = w =>
            runner'[x] = runner[x] /\ runner[x].shell # c
      BY <1>1, <1>2, <1>3
    <3>4. \A x \in Calls : runner[x].tag = "ShellThenRun" => runner[x].shell \in Calls
      BY Fields, Tags
    <3>5. \A x \in Calls : call[x].at \in {"stopShell", "stop"} => call'[x] = call[x]
      BY <1>1 DEF Others
    <3> QED  BY <1>1, <2>2, <3>2, <3>3, <3>4, <3>5 DEF Pursued
  <2> QED  BY <2>1, <2>2
<1> QED  BY <1>4, <1>5, <1>6, <1>7, <1>8, <1>9, <1>10, <1>11

\* A shell takes the lock of an idle runner while its status is published.
LEMMA HoldHolds ==
  ASSUME IInv, TypeOK', NEW c \in Calls, NEW r \in Calls, Called(c, "shell", r),
         holder[r] = None, runner[r] = Idle,
         holder' = [holder EXCEPT ![r] = c],
         call' = [call EXCEPT ![c] = [At("busy") EXCEPT !.obj = r]],
         UNCHANGED <<runner, work, home, stopping>>
  PROVE  IInv'
<1> USE DEF IInv
<1>1. /\ call'[c].at = "busy" /\ call'[c].obj = r /\ Others(c)
      /\ call[c].at \in {"ready", "lock"} /\ work[c] = "none"
      /\ mishaps' = mishaps /\ answered' = answered
      /\ holder'[r] = c /\ \A x \in Calls : x # r => holder'[x] = holder[x]
  <2>1. /\ call'[c] = [At("busy") EXCEPT !.obj = r] /\ Others(c)
        /\ holder'[r] = c /\ \A x \in Calls : x # r => holder'[x] = holder[x]
    BY DEF TypeOK, Others
  <2>2. call'[c].at = "busy" /\ call'[c].obj = r
    BY <2>1, Going DEF At
  <2> QED  BY <2>1, <2>2 DEF Called
<1>2. \A d \in Calls, w \in Calls : Awaits(d, w)' <=> Awaits(d, w)
  BY <1>1 DEF Awaits, Others
<1>3. Places'
  BY <1>1, CallsAssumption DEF Places, Others
<1>4. Unborn'
  BY <1>1 DEF Unborn, Others
<1>5. Recorded'
  <2> SUFFICES ASSUME NEW x \in Calls, NEW w \in Calls PROVE RecordOf(x, w)'
    BY DEF Recorded
  <2>1. RecordOf(x, w)
    BY DEF Recorded
  <2> QED  BY <1>1, <1>2, <2>1 DEF RecordOf, Others
<1>6. Held'
  BY <1>1, CallsAssumption DEF Held, Others
<1>7. Registered'
  BY <1>1, CalledRegisters
<1>8. Dropped'
  <2> SUFFICES ASSUME "stop abandoned" \notin mishaps, NEW w \in Calls, Acts(w)
               PROVE  Reached(w)'
    BY <1>1 DEF Dropped, Acts
  <2>1. Reached(w)
    BY DEF Dropped
  <2> QED  BY <1>1, <2>1 DEF Reached, Others
<1>9. Born'
  BY <1>2 DEF Born
<1>10. WaitersAnswered'
  <2> SUFFICES ASSUME mishaps \subseteq {"unregistered"},
                      NEW d \in Calls, NEW w \in Calls, Awaits(d, w)'
               PROVE  Pursued(w)'
    BY <1>1, <1>3, PursuedNext
  <2>1. Pursued(w)
    BY <1>2, PursuedNow
  <2> QED  BY <1>1, <2>1 DEF Pursued, Others
<1> QED  BY <1>3, <1>4, <1>5, <1>6, <1>7, <1>8, <1>9, <1>10

\* Its fiber is forked and recorded, and the lock released.
LEMMA ForkHolds ==
  ASSUME IInv, TypeOK', NEW c \in Calls, ForkShell(c)
  PROVE  IInv'
<1> USE DEF IInv
<1> DEFINE r == call[c].obj
<1>1. r \in Calls /\ holder[r] = c /\ runner[r] = Idle /\ work[c] = "none"
  BY Fields DEF ForkShell, Places, Held, Unborn
<1>2. /\ call[c].at = "busy"
      /\ call' = [call EXCEPT ![c] = At("shell")]
      /\ work' = [work EXCEPT ![c] = "forked"] /\ home' = [home EXCEPT ![c] = r]
      /\ runner' = [runner EXCEPT ![r] = Shell(c)]
      /\ holder' = [holder EXCEPT ![r] = None]
      /\ UNCHANGED <<registered, stopping, answered, mishaps>>
  BY DEF ForkShell
<1>3. call[c].obj = r
  OBVIOUS
<1> HIDE DEF r
<1>4. /\ call'[c] = At("shell") /\ Others(c)
      /\ work'[c] = "forked" /\ home'[c] = r
      /\ \A w \in Calls : w # c => work'[w] = work[w] /\ home'[w] = home[w]
      /\ runner'[r] = Shell(c) /\ \A x \in Calls : x # r => runner'[x] = runner[x]
      /\ holder'[r] = None /\ \A x \in Calls : x # r => holder'[x] = holder[x]
  BY <1>1, <1>2 DEF TypeOK, Others
<1>5. /\ call'[c].at = "shell" /\ runner[r].run = None /\ runner[r].shell = None
      /\ runner'[r].run = None /\ runner'[r].shell = c /\ runner'[r].tag = "Shell"
  BY <1>1, <1>4, Going, Tags
<1>6. \A d \in Calls, w \in Calls : (Awaits(d, w)' <=> Awaits(d, w)) /\ ~Awaits(d, c)
  BY <1>1, <1>2, <1>4, <1>5 DEF Awaits, Others, Born
<1>7. \A x \in Calls : runner[x].shell # c /\ runner[x].run # c
  BY <1>1, UnrecordedWork
<1>8. Places'
  BY <1>4, <1>5 DEF Places, Others
<1>9. Unborn'
  BY <1>4, <1>5 DEF Unborn, Others
<1>10. Recorded'
  <2> SUFFICES ASSUME NEW x \in Calls, NEW w \in Calls PROVE RecordOf(x, w)'
    BY DEF Recorded
  <2>1. RecordOf(x, w)
    BY DEF Recorded
  <2>2. CASE w # c
    <3>1. runner'[x].run = w \/ runner'[x].shell = w => runner'[x] = runner[x]
      BY <1>4, <1>5, <2>2, CallsAssumption
    <3> QED  BY <1>2, <1>4, <1>6, <2>1, <2>2, <3>1 DEF RecordOf, Others
  <2>3. CASE w = c
    <3>1. runner'[x].run # c /\ (runner'[x].shell = c => x = r)
      BY <1>4, <1>5, <1>7, CallsAssumption
    <3> QED  BY <1>4, <1>6, <2>3, <3>1 DEF RecordOf
  <2> QED  BY <2>2, <2>3
<1>11. Held'
  BY <1>1, <1>4, <1>5, CallsAssumption DEF Held, Others
<1>12. Registered'
  BY <1>1, <1>2, <1>3, <1>4, <1>5 DEF Registered, Others
<1>13. Dropped'
  <2> SUFFICES ASSUME "stop abandoned" \notin mishaps, NEW w \in Calls, Acts(w)'
               PROVE  Reached(w)'
    BY <1>2 DEF Dropped, Acts
  <2>1. CASE w = c
    <3>1. home'[c] # None /\ runner'[home'[c]].shell = c
      BY <1>1, <1>4, <1>5, CallsAssumption
    <3> QED  BY <2>1, <3>1 DEF Reached
  <2>2. CASE w # c
    <3>1. Reached(w)
      BY <1>4, <2>2 DEF Dropped, Acts
    <3>2. home'[w] = home[w] /\ (home[w] # None => home[w] \in Calls)
      BY <1>4, <2>2 DEF TypeOK
    <3>3. \A x \in Calls : w \in {runner[x].run, runner[x].shell} =>
                             w \in {runner'[x].run, runner'[x].shell}
      <4> TAKE x \in Calls
      <4>1. CASE x = r
        BY <1>5, <4>1, CallsAssumption
      <4>2. CASE x # r
        BY <1>4, <4>2
      <4> QED  BY <4>1, <4>2
    <3>4. \A d \in Calls : call[d].at = "stopShell" => call'[d] = call[d]
      BY <1>2, <1>4 DEF Others
    <3> QED  BY <1>2, <3>1, <3>2, <3>3, <3>4 DEF Reached
  <2> QED  BY <2>1, <2>2
<1>14. Born'
  BY <1>1, <1>4, <1>6, CallsAssumption DEF Born
<1>15. WaitersAnswered'
  <2> SUFFICES ASSUME mishaps \subseteq {"unregistered"},
                      NEW d \in Calls, NEW w \in Calls, Awaits(d, w)'
               PROVE  Pursued(w)'
    BY <1>2, <1>8, PursuedNext
  <2>1. Pursued(w) /\ w # c
    BY <1>6, PursuedNow
  <2>2. \A x \in Calls : runner[x].tag = "ShellThenRun" =>
          runner'[x] = runner[x] /\ runner[x].shell # c /\ runner[x].shell \in Calls
    BY <1>1, <1>4, <1>7, Fields, Tags
  <2>3. \A x \in Calls : call[x].at \in {"stopShell", "stop"} => call'[x] = call[x]
    BY <1>2, <1>4 DEF Others
  <2> QED  BY <1>2, <1>4, <2>1, <2>2, <2>3 DEF Pursued
<1> QED  BY <1>8, <1>9, <1>10, <1>11, <1>12, <1>13, <1>14, <1>15

-----------------------------------------------------------------------------
(* cancel *)

\* The run is dropped from its runner and interrupted; the cancel will answer.
LEMMA CancelRunHolds ==
  ASSUME IInv, TypeOK', NEW c \in Calls, NEW r \in Calls, Called(c, "cancel", r),
         runner[r].tag = "Running", Interrupted(runner[r].run),
         runner' = [runner EXCEPT ![r] = Idle],
         call' = [call EXCEPT ![c] = Stopping("stop", r, runner[r].run, runner[r].run)],
         UNCHANGED <<holder, home>>
  PROVE  IInv'
<1> USE DEF IInv
<1> DEFINE v == runner[r].run
<1>1. /\ v \in Calls /\ runner[r] = Running(v) /\ runner[r] # Idle
      /\ runner[r].run = v /\ runner[r].shell = None
  BY Fields, Tags
<1>2. /\ call' = [call EXCEPT ![c] = Stopping("stop", r, v, v)] /\ Interrupted(v)
      /\ call[c].at \in {"ready", "lock"} /\ mishaps' = mishaps /\ answered' = answered
  BY DEF Called
<1> HIDE DEF v
<1>3. /\ call'[c] = Stopping("stop", r, v, v) /\ Others(c)
      /\ runner'[r] = Idle /\ \A x \in Calls : x # r => runner'[x] = runner[x]
  <2>1. DOMAIN call = Calls /\ DOMAIN runner = Calls
    BY DEF TypeOK
  <2> QED  BY <1>2, <2>1 DEF Others
<1>4. /\ call'[c].at = "stop" /\ call'[c].obj = r /\ call'[c].of = v /\ call'[c].queued = v
      /\ runner'[r].run = None /\ runner'[r].shell = None
  BY <1>3, Going, Tags
<1>5. /\ \A w \in Calls : w # v => work'[w] = work[w]
      /\ stopping \subseteq stopping'
      /\ IF work[v] = "forked" THEN work'[v] = "stillborn"
         ELSE work'[v] = work[v] /\ (work[v] \in {"opening", "live"} => v \in stopping')
  BY <1>1, <1>2, Interrupts
<1>6. work[v] \in {"forked", "live", "ending"} /\ home[v] = r
      /\ \A x \in Calls : x # r => runner[x].run # v /\ runner[x].shell # v
  <2>1. RecordOf(r, v) /\ runner[r].tag = "Running"
    BY <1>1, Tags DEF Recorded
  <2>2. home[v] = r
    BY <1>1, <2>1 DEF RecordOf
  <2>3. ASSUME NEW x \in Calls, x # r PROVE runner[x].run # v /\ runner[x].shell # v
    <3>1. RecordOf(x, v)
      BY <1>1 DEF Recorded
    <3> QED  BY <2>2, <2>3, <3>1 DEF RecordOf
  <2> QED  BY <1>1, <2>1, <2>2, <2>3 DEF RecordOf
<1>7. \A d \in Calls, w \in Calls : Awaits(d, w)' <=> Awaits(d, w)
  BY <1>2, <1>3, <1>4 DEF Awaits, Others
<1>8. Places'
  BY <1>1, <1>3, <1>4, CallsAssumption DEF Places, Others
<1>9. Unborn'
  <2>1. work[v] # "none"
    BY <1>6
  <2> QED  BY <1>3, <1>4, <1>5, <2>1 DEF Unborn, Others
<1>10. Recorded'
  <2> SUFFICES ASSUME NEW x \in Calls, NEW w \in Calls PROVE RecordOf(x, w)'
    BY DEF Recorded
  <2>1. RecordOf(x, w)
    BY DEF Recorded
  <2>2. CASE x = r
    BY <1>4, <2>2, CallsAssumption DEF RecordOf
  <2>3. CASE x # r
    <3>1. runner'[x] = runner[x] /\ (runner[x].run = w \/ runner[x].shell = w => work'[w] = work[w])
      BY <1>3, <1>5, <1>6, <2>3
    <3>2. call[w].at \in {"await", "returned"} => call'[w] = call[w]
      BY <1>2, <1>3 DEF Others
    <3> QED  BY <1>2, <1>7, <2>1, <3>1, <3>2 DEF RecordOf
  <2> QED  BY <2>2, <2>3
<1>11. Held'
  BY <1>2, <1>3, <1>4 DEF Held, Others
<1>12. Registered'
  <2>1. \A x \in Calls : runner'[x] # Idle => runner[x] # Idle
    BY <1>3
  <2> QED  BY <1>3, <1>4, <2>1, CalledRegisters
<1>13. Dropped'
  <2> SUFFICES ASSUME "stop abandoned" \notin mishaps, NEW w \in Calls, Acts(w)'
               PROVE  Reached(w)'
    BY <1>2 DEF Dropped, Acts
  <2>1. CASE w = v
    BY <1>5, <2>1 DEF Acts, Reached
  <2>2. CASE w # v
    <3>1. Reached(w)
      BY <1>5, <2>2 DEF Dropped, Acts
    <3>2. home[w] # None => home[w] \in Calls
      BY DEF TypeOK
    <3>3. \A x \in Calls : w \in {runner[x].run, runner[x].shell} => x # r
      BY <1>1, <2>2, CallsAssumption
    <3>4. \A d \in Calls : call[d].at = "stopShell" => call'[d] = call[d]
      BY <1>2, <1>3 DEF Others
    <3>5. \A x \in Calls : w \in {runner[x].run, runner[x].shell} => runner'[x] = runner[x]
      BY <1>3, <3>3
    <3>6. CASE home[w] # None /\ w \in {runner[home[w]].run, runner[home[w]].shell}
      <4>1. runner'[home[w]] = runner[home[w]] /\ home'[w] = home[w]
        BY <1>5, <3>2, <3>5, <3>6
      <4> QED  BY <3>6, <4>1 DEF Reached
    <3>7. CASE w \in stopping \/ \E d \in Calls : call[d].at = "stopShell" /\ call[d].of = w
      BY <1>5, <3>4, <3>7 DEF Reached
    <3> QED  BY <3>1, <3>6, <3>7 DEF Reached
  <2> QED  BY <2>1, <2>2
<1>14. Born'
  BY <1>5, <1>6, <1>7 DEF Born
<1>15. WaitersAnswered'
  <2> SUFFICES ASSUME mishaps \subseteq {"unregistered"},
                      NEW d \in Calls, NEW w \in Calls, Awaits(d, w)'
               PROVE  Pursued(w)'
    BY <1>2, <1>8, PursuedNext
  <2>1. CASE w = v
    BY <1>4, <2>1 DEF Pursued
  <2>2. CASE w # v
    <3>1. Pursued(w)
      BY <1>7, PursuedNow
    <3>2. \A x \in Calls : runner[x].tag = "ShellThenRun" =>
            /\ runner'[x] = runner[x] /\ runner[x].shell \in Calls
            /\ work'[runner[x].shell] = work[runner[x].shell]
      BY <1>1, <1>3, <1>5, <1>6, Fields, Tags
    <3>3. \A x \in Calls : call[x].at \in {"stopShell", "stop"} => call'[x] = call[x]
      BY <1>2, <1>3 DEF Others
    <3> QED  BY <1>2, <1>5, <2>2, <3>1, <3>2, <3>3 DEF Pursued
  <2> QED  BY <2>1, <2>2
<1> QED  BY <1>8, <1>9, <1>10, <1>11, <1>12, <1>13, <1>14, <1>15

\* A shell is dropped, with the run behind it: the cancel will stop the one and
\* answer for the other.
LEMMA CancelShellHolds ==
  ASSUME IInv, TypeOK', NEW c \in Calls, NEW r \in Calls, Called(c, "cancel", r),
         runner[r].tag \in {"Shell", "ShellThenRun"},
         runner' = [runner EXCEPT ![r] = Idle],
         call' = [call EXCEPT ![c] = Stopping("stopShell", r, runner[r].shell, runner[r].run)],
         UNCHANGED <<holder, home, work, stopping>>
  PROVE  IInv'
<1> USE DEF IInv
<1> DEFINE s == runner[r].shell
           v == runner[r].run
<1>1. /\ s \in Calls /\ runner[r] # Idle
      /\ runner[r].shell = s /\ runner[r].run = v
  BY Fields, Tags
<1>2. /\ call' = [call EXCEPT ![c] = Stopping("stopShell", r, s, v)]
      /\ call[c].at \in {"ready", "lock"} /\ mishaps' = mishaps /\ answered' = answered
  BY DEF Called
<1> HIDE DEF s, v
<1>3. /\ call'[c] = Stopping("stopShell", r, s, v) /\ Others(c)
      /\ runner'[r] = Idle /\ \A x \in Calls : x # r => runner'[x] = runner[x]
  <2>1. DOMAIN call = Calls /\ DOMAIN runner = Calls
    BY DEF TypeOK
  <2> QED  BY <1>2, <2>1 DEF Others
<1>4. /\ call'[c].at = "stopShell" /\ call'[c].obj = r /\ call'[c].of = s /\ call'[c].queued = v
      /\ runner'[r].run = None /\ runner'[r].shell = None
  BY <1>3, Going, Tags
<1>5. v # None => work[v] = "queued"
  <2>1. v # None => v \in Calls /\ runner[r].tag # "Running"
    BY <1>1, Fields
  <2> QED  BY <1>1, <2>1 DEF Recorded, RecordOf
<1>6. \A d \in Calls, w \in Calls : Awaits(d, w)' <=> Awaits(d, w)
  BY <1>2, <1>3, <1>4 DEF Awaits, Others
<1>7. Places'
  BY <1>1, <1>3, <1>4, CallsAssumption DEF Places, Others
<1>8. Unborn'
  BY <1>3, <1>4 DEF Unborn, Others
<1>9. Recorded'
  <2> SUFFICES ASSUME NEW x \in Calls, NEW w \in Calls PROVE RecordOf(x, w)'
    BY DEF Recorded
  <2>1. RecordOf(x, w)
    BY DEF Recorded
  <2>2. CASE x = r
    BY <1>4, <2>2, CallsAssumption DEF RecordOf
  <2>3. CASE x # r
    <3>1. call[w].at \in {"await", "returned"} => call'[w] = call[w]
      BY <1>2, <1>3 DEF Others
    <3> QED  BY <1>2, <1>3, <1>6, <2>1, <2>3, <3>1 DEF RecordOf
  <2> QED  BY <2>2, <2>3
<1>10. Held'
  BY <1>2, <1>3, <1>4 DEF Held, Others
<1>11. Registered'
  <2>1. \A x \in Calls : runner'[x] # Idle => runner[x] # Idle
    BY <1>3
  <2> QED  BY <1>3, <1>4, <2>1, CalledRegisters
<1>12. Dropped'
  <2> SUFFICES ASSUME "stop abandoned" \notin mishaps, NEW w \in Calls, Acts(w)
               PROVE  Reached(w)'
    BY <1>2 DEF Dropped, Acts
  <2>1. CASE w = s
    BY <1>4, <2>1 DEF Reached
  <2>2. CASE w # s
    <3>1. Reached(w)
      BY DEF Dropped
    <3>2. home[w] # None => home[w] \in Calls
      BY DEF TypeOK
    <3>3. \A x \in Calls : w \in {runner[x].run, runner[x].shell} => x # r
      BY <1>1, <1>5, <2>2, CallsAssumption DEF Acts
    <3>4. \A d \in Calls : call[d].at = "stopShell" => call'[d] = call[d]
      BY <1>2, <1>3 DEF Others
    <3>5. CASE home[w] # None /\ w \in {runner[home[w]].run, runner[home[w]].shell}
      <4>1. runner'[home[w]] = runner[home[w]] /\ home' = home
        BY <1>3, <3>2, <3>3, <3>5
      <4> QED  BY <3>5, <4>1 DEF Reached
    <3>6. CASE w \in stopping \/ \E d \in Calls : call[d].at = "stopShell" /\ call[d].of = w
      BY <1>3, <3>4, <3>6 DEF Reached
    <3> QED  BY <3>1, <3>5, <3>6 DEF Reached
  <2> QED  BY <2>1, <2>2
<1>13. Born'
  BY <1>6 DEF Born
<1>14. WaitersAnswered'
  <2> SUFFICES ASSUME mishaps \subseteq {"unregistered"},
                      NEW d \in Calls, NEW w \in Calls, Awaits(d, w)'
               PROVE  Pursued(w)'
    BY <1>2, <1>7, PursuedNext
  <2>1. CASE w = v
    BY <1>4, <2>1 DEF Pursued
  <2>2. CASE w # v
    <3>1. Pursued(w)
      BY <1>6, PursuedNow
    <3>2. \A x \in Calls : runner[x].run = w => runner'[x] = runner[x]
      BY <1>1, <1>3, <2>2
    <3>3. \A x \in Calls : call[x].at \in {"stopShell", "stop"} => call'[x] = call[x]
      BY <1>2, <1>3 DEF Others
    <3> QED  BY <1>2, <3>1, <3>2, <3>3 DEF Pursued
  <2> QED  BY <2>1, <2>2
<1> QED  BY <1>7, <1>8, <1>9, <1>10, <1>11, <1>12, <1>13, <1>14

\* The shell's latch is open: it is interrupted.
LEMMA StopHolds ==
  ASSUME IInv, TypeOK', NEW c \in Calls, StopShell(c)
  PROVE  IInv'
<1> USE DEF IInv
<1> DEFINE s == call[c].of
<1>1. /\ s \in Calls /\ call[c].at = "stopShell" /\ call[c].of = s
      /\ call' = [call EXCEPT ![c].at = "stop"] /\ Interrupted(s)
      /\ work[s] \notin {"forked", "opening", "stillborn"}
      /\ UNCHANGED <<registered, runner, holder, home, answered, mishaps>>
  BY Fields DEF StopShell, Places
<1> HIDE DEF s
<1>2. /\ call'[c].at = "stop" /\ call'[c].obj = call[c].obj /\ call'[c].op = call[c].op
      /\ call'[c].of = s /\ call'[c].queued = call[c].queued /\ Others(c)
  <2>1. call'[c] = [call[c] EXCEPT !.at = "stop"] /\ Others(c) /\ call[c] \in CallStates
    BY <1>1, Fields DEF TypeOK, Others
  <2> QED  BY <1>1, <2>1 DEF CallStates
<1>3. \A w \in Calls : work'[w] = work[w]
  BY <1>1, Interrupts
<1>4. stopping \subseteq stopping' /\ (work[s] = "live" => s \in stopping')
  BY <1>1, Interrupts
<1>5. \A d \in Calls, w \in Calls : Awaits(d, w)' <=> Awaits(d, w)
  BY <1>1, <1>2 DEF Awaits, Others
<1>6. Places'
  BY <1>1, <1>2, CallsAssumption DEF Places, Others
<1>7. Unborn'
  BY <1>2, <1>3 DEF Unborn, Others
<1>8. Recorded'
  <2> SUFFICES ASSUME NEW x \in Calls, NEW w \in Calls PROVE RecordOf(x, w)'
    BY DEF Recorded
  <2>1. RecordOf(x, w)
    BY DEF Recorded
  <2>2. call[w].at \in {"await", "returned"} => call'[w] = call[w]
    BY <1>1, <1>2 DEF Others
  <2> QED  BY <1>1, <1>3, <1>5, <2>1, <2>2 DEF RecordOf
<1>9. Held'
  BY <1>1, <1>2 DEF Held, Others
<1>10. Registered'
  BY <1>1, <1>2 DEF Registered, Others
<1>11. Dropped'
  <2> SUFFICES ASSUME "stop abandoned" \notin mishaps, NEW w \in Calls, Acts(w)
               PROVE  Reached(w)'
    BY <1>1, <1>3 DEF Dropped, Acts
  <2>1. CASE w = s
    BY <1>1, <1>4, <2>1 DEF Acts, Reached
  <2>2. CASE w # s
    <3>1. Reached(w)
      BY DEF Dropped
    <3>2. \A d \in Calls : call[d].at = "stopShell" /\ call[d].of = w => call'[d] = call[d]
      BY <1>1, <1>2, <2>2 DEF Others
    <3> QED  BY <1>1, <1>4, <3>1, <3>2 DEF Reached
  <2> QED  BY <2>1, <2>2
<1>12. Born'
  BY <1>1, <1>3, <1>5 DEF Born
<1>13. WaitersAnswered'
  <2> SUFFICES ASSUME mishaps \subseteq {"unregistered"},
                      NEW d \in Calls, NEW w \in Calls, Awaits(d, w)'
               PROVE  Pursued(w)'
    BY <1>1, <1>6, PursuedNext
  <2>1. Pursued(w)
    BY <1>5, PursuedNow
  <2>2. \A x \in Calls : call[x].at \in {"stopShell", "stop"} =>
          call'[x].at \in {"stopShell", "stop"} /\ call'[x].queued = call[x].queued
    BY <1>1, <1>2 DEF Others
  <2>3. \A x \in Calls : runner[x].tag = "ShellThenRun" => runner[x].shell \in Calls
    BY Fields, Tags
  <2> QED  BY <1>1, <1>3, <2>1, <2>2, <2>3 DEF Pursued
<1> QED  BY <1>6, <1>7, <1>8, <1>9, <1>10, <1>11, <1>12, <1>13

\* A runner whose lock is free and that is idle, or becomes it, is deregistered.
LEMMA DeregisterHolds ==
  ASSUME IInv, NEW r \in Calls, holder[r] = None, Deregister(r), runner'[r] = Idle,
         \A x \in Calls : x # r => runner'[x] = runner[x],
         \A d \in Calls :
           \/ call'[d] = call[d]
           \/ /\ call[d].at \notin {"busy", "lock"}
              /\ call'[d].at \notin {"busy", "lock"}
  PROVE  Registered'
<1> USE DEF IInv
<1> SUFFICES ASSUME "unregistered" \notin mishaps'
             PROVE  /\ \A x \in Calls : runner'[x] = Idle
                    /\ \A d \in Calls : ~ \/ call'[d].at = "busy"
                                          \/ call'[d].at = "lock" /\ call'[d].op # "cancel"
  BY DEF Registered
<1>1. /\ registered \in {r, None} /\ "unregistered" \notin mishaps
      /\ \A d \in Calls : ~(call[d].at = "lock" /\ call[d].obj = r /\ call[d].op # "cancel")
  BY DEF Deregister
<1>2. ASSUME NEW x \in Calls, x # r PROVE runner'[x] = Idle
  BY <1>1, <1>2, CallsAssumption DEF Registered
<1>3. ASSUME NEW d \in Calls, \/ call'[d].at = "busy"
                              \/ call'[d].at = "lock" /\ call'[d].op # "cancel"
      PROVE  FALSE
  <2>1. call'[d] = call[d]
    BY <1>3
  <2>2. registered = call[d].obj /\ call[d].obj \in Calls
    BY <1>1, <1>3, <2>1, Fields DEF Registered, Places
  <2>3. call[d].obj = r
    BY <1>1, <2>2, CallsAssumption
  <2>4. call[d].at # "busy"
    BY <2>3, CallsAssumption DEF Held
  <2> QED  BY <1>1, <1>3, <2>1, <2>3, <2>4
<1> QED  BY <1>2, <1>3

\* The end of a cancel.
LEMMA IdleHolds ==
  ASSUME IInv, TypeOK', NEW c \in Calls, IdleIfCurrent(c),
         call[c].at \in {"stop", "idle"},
         answered \subseteq answered',
         call[c].at = "stop" => call[c].queued \in answered' \cup {None},
         UNCHANGED <<runner, holder, work, home, stopping>>
  PROVE  IInv'
<1> USE DEF IInv
<1> DEFINE r == call[c].obj
<1>1. r \in Calls
  BY Fields DEF Places
<1>2. CASE holder[r] # None
  <2>1. /\ call' = [call EXCEPT ![c] = [At("idle") EXCEPT !.obj = r]]
        /\ UNCHANGED <<registered, mishaps>>
    BY <1>2 DEF IdleIfCurrent
  <2>2. call'[c] = [At("idle") EXCEPT !.obj = r] /\ Others(c)
    BY <2>1 DEF TypeOK, Others
  <2>3. call'[c].at = "idle" /\ call'[c].obj = r
    BY <2>2, Going DEF At
  <2>4. Registered'
    BY <2>1, <2>2, <2>3 DEF Registered, Others
  <2> QED  BY <1>1, <2>1, <2>2, <2>3, <2>4, QuietHolds, CallsAssumption
<1>3. CASE holder[r] = None
  <2>1. /\ call' = [call EXCEPT ![c] = At("returned")]
        /\ IF runner[r].tag = "Idle" THEN Deregister(r) ELSE UNCHANGED <<registered, mishaps>>
    BY <1>3 DEF IdleIfCurrent
  <2>2. call'[c] = At("returned") /\ Others(c)
    BY <2>1 DEF TypeOK, Others
  <2>3. call'[c].at = "returned"
    BY <2>2, Going
  <2>4. CASE runner[r].tag = "Idle"
    <3>1. runner'[r] = Idle /\ Deregister(r)
      BY <1>1, <2>1, <2>4, Fields, Tags
    <3>2. Registered'
      BY <1>1, <1>3, <2>2, <2>3, <3>1, DeregisterHolds DEF Others
    <3>3. mishaps \subseteq mishaps' /\ mishaps' \subseteq mishaps \cup {"unregistered"}
      BY <3>1 DEF Deregister
    <3> QED  BY <2>2, <2>3, <3>2, <3>3, QuietHolds
  <2>5. CASE runner[r].tag # "Idle"
    <3>1. UNCHANGED <<registered, mishaps>>
      BY <2>1, <2>5
    <3>2. Registered'
      BY <2>2, <2>3, <3>1 DEF Registered, Others
    <3> QED  BY <2>2, <2>3, <3>1, <3>2, QuietHolds
  <2> QED  BY <2>4, <2>5
<1> QED  BY <1>2, <1>3

\* A call is interrupted where it waits.  A shell's fiber goes with its call.
LEMMA AbandonHolds ==
  ASSUME IInv, TypeOK', NEW c \in Calls, Abandon(c)
  PROVE  IInv'
<1> USE DEF IInv
<1>1. /\ call[c].at \in {"lock", "busy", "await", "shell", "stopShell", "stop", "idle"}
      /\ call' = [call EXCEPT ![c] = At("returned")]
      /\ \A r \in Calls : holder'[r] = IF holder[r] = c THEN None ELSE holder[r]
      /\ IF call[c].at = "shell" /\ work[c] \notin Over THEN Interrupted(c) ELSE UNCHANGED <<work, stopping>>
      /\ mishaps \subseteq mishaps'
      /\ "unregistered" \in mishaps' => "unregistered" \in mishaps
      /\ call[c].at \in {"stopShell", "stop"} => "stop abandoned" \in mishaps'
      /\ "stop abandoned" \in mishaps => "stop abandoned" \in mishaps'
      /\ call[c].at = "shell" /\ work[c] = "forked" => "shell stillborn" \in mishaps'
      /\ UNCHANGED <<registered, runner, home, answered>>
  BY DEF Abandon
<1>2. call'[c] = At("returned") /\ Others(c)
  BY <1>1 DEF TypeOK, Others
<1>3. call'[c].at = "returned"
  BY <1>2, Going
<1>4. /\ \A w \in Calls : w # c => work'[w] = work[w]
      /\ stopping \subseteq stopping'
      /\ \/ work'[c] = work[c]
         \/ work[c] = "forked" /\ work'[c] = "stillborn" /\ call[c].at = "shell"
  BY <1>1, Interrupts
<1>5. \A d \in Calls, w \in Calls : Awaits(d, w)' => Awaits(d, w)
  BY <1>2, <1>3 DEF Awaits, Others
<1>6. Places'
  BY <1>2, <1>3 DEF Places, Others
<1>7. Unborn'
  BY <1>2, <1>3, <1>4 DEF Unborn, Others
<1>8. Recorded'
  <2> SUFFICES ASSUME NEW x \in Calls, NEW w \in Calls PROVE RecordOf(x, w)'
    BY DEF Recorded
  <2>1. RecordOf(x, w)
    BY DEF Recorded
  <2>2. call[w].at \in {"await", "returned"} => call'[w].at \in {"await", "returned"}
    BY <1>2, <1>3 DEF Others
  <2>3. CASE work'[w] = work[w]
    BY <1>1, <1>5, <2>1, <2>2, <2>3 DEF RecordOf
  <2>4. CASE work'[w] # work[w]
    <3>1. w = c /\ work'[c] = "stillborn" /\ call[c].at = "shell" /\ "shell stillborn" \in mishaps'
      BY <1>1, <1>4, <2>4
    <3> QED  BY <1>1, <1>5, <2>1, <3>1 DEF RecordOf
  <2> QED  BY <2>3, <2>4
<1>9. Held'
  <2> SUFFICES ASSUME NEW r \in Calls, NEW d \in Calls
               PROVE  /\ holder'[r] = d <=> call'[d].at = "busy" /\ call'[d].obj = r
                      /\ holder'[r] = d => runner'[r] = Idle
    BY DEF Held
  <2>1. /\ holder[r] = d <=> call[d].at = "busy" /\ call[d].obj = r
        /\ holder[r] = d => runner[r] = Idle
    BY DEF Held
  <2>2. holder'[r] = d <=> holder[r] = d /\ d # c
    BY <1>1, CallsAssumption
  <2> QED  BY <1>1, <1>2, <1>3, <2>1, <2>2 DEF Others
<1>10. Registered'
  BY <1>1, <1>2, <1>3 DEF Registered, Others
<1>11. Dropped'
  <2> SUFFICES ASSUME "stop abandoned" \notin mishaps', NEW w \in Calls, Acts(w)'
               PROVE  Reached(w)'
    BY DEF Dropped
  <2>1. Acts(w)
    BY <1>4 DEF Acts
  <2>2. Reached(w)
    BY <1>1, <2>1 DEF Dropped
  <2>3. \A d \in Calls : call[d].at = "stopShell" => call'[d] = call[d]
    BY <1>1, <1>2 DEF Others
  <2> QED  BY <1>1, <1>4, <2>2, <2>3 DEF Reached
<1>12. Born'
  BY <1>1, <1>4, <1>5 DEF Born
<1>13. WaitersAnswered'
  <2> SUFFICES ASSUME mishaps' \subseteq {"unregistered"},
                      NEW d \in Calls, NEW w \in Calls, Awaits(d, w)'
               PROVE  Pursued(w)'
    BY <1>6, PursuedNext
  <2>1. Pursued(w)
    BY <1>1, <1>5, PursuedNow
  <2>2. \A x \in Calls : call[x].at \in {"stopShell", "stop"} => call'[x] = call[x]
    BY <1>1, <1>2 DEF Others
  <2>3. \A x \in Calls : work'[x] = work[x]
    BY <1>1, <1>4
  <2>4. \A x \in Calls : runner[x].tag = "ShellThenRun" => runner[x].shell \in Calls
    BY Fields, Tags
  <2> QED  BY <1>1, <2>1, <2>2, <2>3, <2>4 DEF Pursued
<1> QED  BY <1>6, <1>7, <1>8, <1>9, <1>10, <1>11, <1>12, <1>13

-----------------------------------------------------------------------------
(* The fiber of a work *)

\* A fiber that goes on and is not done yet, or whose work was not recorded.
LEMMA FiberHolds ==
  ASSUME IInv, TypeOK', Registered', NEW w \in Calls,
         \A v \in Calls : v # w => work'[v] = work[v],
         UNCHANGED <<holder, call, home, stopping>>,
         mishaps \subseteq mishaps', mishaps' \subseteq mishaps \cup {"unregistered"},
         answered \subseteq answered',
         \A r \in Calls : runner'[r] # runner[r] =>
           runner'[r] = Idle /\ runner[r] \in {Running(w), Shell(w)},
         work[w] \notin {"none", "queued"}, work'[w] \notin {"none", "queued"},
         Acts(w)' => Acts(w) /\ runner' = runner,
         \/ runner' = runner /\ work'[w] \in {"opening", "live", "ending"}
         \/ work'[w] = "publishing"
         \/ work'[w] = "gone" /\ w \in answered',
         \A r \in Calls :
           /\ runner'[r].run = w => work'[w] \in {"live", "ending"}
           /\ runner'[r].shell = w => work'[w] \in {"opening", "live", "ending"}
  PROVE  IInv'
<1> USE DEF IInv
<1>1. \A d \in Calls, v \in Calls : Awaits(d, v)' <=> Awaits(d, v)
  BY DEF Awaits
<1>2. /\ Idle.run = None /\ Idle.shell = None
      /\ Running(w).shell = None /\ Running(w).run = w /\ Running(w).tag = "Running"
      /\ Shell(w).run = None /\ Shell(w).shell = w /\ Shell(w).tag = "Shell"
  BY Tags
<1>3. Places'
  BY DEF Places
<1>4. Unborn'
  BY DEF Unborn
<1>5. Recorded'
  <2> SUFFICES ASSUME NEW x \in Calls, NEW v \in Calls PROVE RecordOf(x, v)'
    BY DEF Recorded
  <2>1. RecordOf(x, v)
    BY DEF Recorded
  <2>2. CASE runner'[x] # runner[x]
    <3>1. runner'[x] = Idle
      BY <2>2
    <3>2. runner'[x].run # v /\ runner'[x].shell # v
      BY <1>2, <3>1, CallsAssumption
    <3> QED  BY <3>2 DEF RecordOf
  <2>3. CASE runner'[x] = runner[x] /\ v # w
    BY <1>1, <2>1, <2>3 DEF RecordOf
  <2>4. CASE runner'[x] = runner[x] /\ v = w
    BY <1>1, <2>1, <2>4 DEF RecordOf
  <2> QED  BY <2>2, <2>3, <2>4
<1>6. Held'
  <2>1. \A r \in Calls : runner[r] = Idle => runner'[r] = Idle
    OBVIOUS
  <2> QED  BY <2>1 DEF Held
<1>7. Dropped'
  <2> SUFFICES ASSUME "stop abandoned" \notin mishaps', NEW v \in Calls, Acts(v)'
               PROVE  Reached(v)'
    BY DEF Dropped
  <2>1. Acts(v)
    BY DEF Acts
  <2>2. Reached(v)
    BY <2>1 DEF Dropped
  <2>3. ASSUME NEW x \in Calls, v \in {runner[x].run, runner[x].shell}
        PROVE  runner'[x] = runner[x]
    <3>1. CASE v = w
      BY <3>1
    <3>2. CASE v # w
      <4>1. v # w /\ v # None
        BY <3>2, CallsAssumption
      <4>2. runner[x] # Running(w)
        BY <1>2, <2>3, <4>1
      <4>3. runner[x] # Shell(w)
        BY <1>2, <2>3, <4>1
      <4> QED  BY <4>2, <4>3
    <3> QED  BY <3>1, <3>2
  <2>4. home[v] # None => home[v] \in Calls
    BY DEF TypeOK
  <2> QED  BY <2>2, <2>3, <2>4 DEF Reached
<1>8. Born'
  BY <1>1 DEF Born
<1>9. WaitersAnswered'
  <2> SUFFICES ASSUME mishaps' \subseteq {"unregistered"},
                      NEW d \in Calls, NEW v \in Calls, Awaits(d, v)'
               PROVE  Pursued(v)'
    BY <1>3, PursuedNext
  <2>1. Pursued(v)
    BY <1>1, PursuedNow
  <2>2. \A x \in Calls : runner[x].tag = "ShellThenRun" =>
          runner'[x] = runner[x] /\ runner[x].shell \in Calls
    BY <1>2, Fields, Tags
  <2>3. ASSUME NEW x \in Calls, runner[x].tag = "ShellThenRun", work[runner[x].shell] \notin Over
        PROVE  work'[runner[x].shell] \notin Over
    BY <2>2, <2>3 DEF Over
  <2>4. CASE v = w
    BY <2>4 DEF Pursued
  <2>5. CASE v # w
    BY <2>1, <2>2, <2>3, <2>5 DEF Pursued
  <2> QED  BY <2>4, <2>5
<1> QED  BY <1>3, <1>4, <1>5, <1>6, <1>7, <1>8, <1>9

LEMMA StartHolds ==
  ASSUME IInv, TypeOK', NEW w \in Calls, Start(w) \/ Opened(w) \/ End(w)
  PROVE  IInv'
<1> USE DEF IInv
<1>1. UNCHANGED <<registered, runner, holder, call, home, stopping, answered, mishaps>>
  BY DEF Start, Opened, End
<1>2. \A v \in Calls : v # w => work'[v] = work[v]
  BY DEF Start, Opened, End, TypeOK
<1>3. \/ work[w] = "forked" /\ call[w].at = "shell" /\ work'[w] = "opening"
      \/ work[w] = "forked" /\ work'[w] = "live"
      \/ work[w] = "opening" /\ work'[w] = "live"
      \/ work[w] = "live" /\ work'[w] = "ending"
  BY DEF Start, Opened, End, TypeOK
<1>4. ASSUME NEW r \in Calls
      PROVE  /\ runner[r].run = w => work'[w] \in {"live", "ending"}
             /\ runner[r].shell = w => work'[w] \in {"opening", "live", "ending"}
  <2>1. RecordOf(r, w)
    BY DEF Recorded
  <2> QED  BY <1>3, <2>1 DEF RecordOf
<1>5. Registered'
  BY <1>1 DEF Registered
<1> QED  BY <1>1, <1>2, <1>3, <1>4, <1>5, FiberHolds DEF Acts

LEMMA PublishedHolds ==
  ASSUME IInv, TypeOK', NEW w \in Calls, Published(w)
  PROVE  IInv'
<1> USE DEF IInv
<1>1. /\ UNCHANGED <<registered, runner, holder, call, home, stopping, mishaps>>
      /\ work[w] = "publishing" /\ work'[w] = "gone" /\ answered' = answered \cup {w}
      /\ \A v \in Calls : v # w => work'[v] = work[v]
  BY DEF Published, TypeOK
<1>2. ASSUME NEW r \in Calls PROVE runner[r].run # w /\ runner[r].shell # w
  <2>1. RecordOf(r, w)
    BY DEF Recorded
  <2> QED  BY <1>1, <2>1 DEF RecordOf
<1>3. Registered'
  BY <1>1 DEF Registered
<1> QED  BY <1>1, <1>2, <1>3, FiberHolds DEF Acts

\* A shell hands its runner over to the run behind it.
LEMMA HandOverHolds ==
  ASSUME IInv, TypeOK', NEW w \in Calls, NEW r \in Calls, HandOver(w, r),
         home[w] = r, work[w] = "ending", holder[r] = None,
         UNCHANGED <<holder, call, home, stopping>>
  PROVE  IInv'
<1> USE DEF IInv
<1> DEFINE v == runner[r].run
<1>1. /\ runner[r].tag = "ShellThenRun" /\ runner[r].shell = w /\ runner[r].run = v
      /\ v \in Calls /\ runner[r] # Idle
  BY Fields, Tags DEF HandOver
<1>2. /\ runner' = [runner EXCEPT ![r] = Running(v)]
      /\ work' = [work EXCEPT ![w] = "gone", ![v] = "forked"]
      /\ UNCHANGED <<registered, answered, mishaps>>
  BY DEF HandOver
<1> HIDE DEF v
<1>3. /\ work[v] = "queued" /\ home[v] = r /\ call[v].at \in {"await", "returned"}
      /\ \A d \in Calls : ~Awaits(d, w)
      /\ \A x \in Calls : x # r => /\ runner[x].run \notin {v, w}
                                   /\ runner[x].shell \notin {v, w}
  <2>1. RecordOf(r, v) /\ RecordOf(r, w)
    BY <1>1 DEF Recorded
  <2>2. ASSUME NEW x \in Calls, x # r
        PROVE  runner[x].run \notin {v, w} /\ runner[x].shell \notin {v, w}
    <3>1. RecordOf(x, v) /\ RecordOf(x, w)
      BY <1>1 DEF Recorded
    <3> QED  BY <1>1, <2>1, <2>2, <3>1 DEF RecordOf
  <2> QED  BY <1>1, <2>1, <2>2 DEF RecordOf
<1>4. /\ v # w /\ work'[w] = "gone" /\ work'[v] = "forked"
      /\ \A x \in Calls : x \notin {v, w} => work'[x] = work[x]
      /\ runner'[r] = Running(v) /\ \A x \in Calls : x # r => runner'[x] = runner[x]
  <2>1. DOMAIN work = Calls /\ DOMAIN runner = Calls
    BY DEF TypeOK
  <2>2. v # w
    BY <1>1, <1>3
  <2> QED  BY <1>1, <1>2, <2>1, <2>2
<1>5. runner'[r].tag = "Running" /\ runner'[r].run = v /\ runner'[r].shell = None
  BY <1>4, Tags
<1>6. \A d \in Calls, x \in Calls : Awaits(d, x)' <=> Awaits(d, x)
  BY DEF Awaits
<1>7. Places'
  BY DEF Places
<1>8. Unborn'
  BY <1>3, <1>4 DEF Unborn
<1>9. Recorded'
  <2> SUFFICES ASSUME NEW x \in Calls, NEW u \in Calls PROVE RecordOf(x, u)'
    BY DEF Recorded
  <2>1. RecordOf(x, u)
    BY DEF Recorded
  <2>2. CASE x = r
    BY <1>3, <1>4, <1>5, <2>2, CallsAssumption DEF RecordOf
  <2>3. CASE x # r
    <3>1. runner'[x] = runner[x] /\ (runner[x].run = u \/ runner[x].shell = u => work'[u] = work[u])
      BY <1>3, <1>4, <2>3
    <3> QED  BY <1>2, <1>6, <2>1, <3>1 DEF RecordOf
  <2> QED  BY <2>2, <2>3
<1>10. Held'
  <2>1. \A x \in Calls : runner[x] = Idle => runner'[x] = Idle
    BY <1>1, <1>4
  <2> QED  BY <2>1 DEF Held
<1>11. Registered'
  <2>1. \A x \in Calls : runner'[x] # Idle => runner[x] # Idle
    BY <1>1, <1>4
  <2> QED  BY <1>2, <2>1 DEF Registered
<1>12. Dropped'
  <2> SUFFICES ASSUME "stop abandoned" \notin mishaps', NEW u \in Calls, Acts(u)'
               PROVE  Reached(u)'
    BY DEF Dropped
  <2>1. CASE u = v
    <3>1. home'[v] # None /\ runner'[home'[v]].run = v
      BY <1>3, <1>5, CallsAssumption
    <3> QED  BY <2>1, <3>1 DEF Reached
  <2>2. CASE u # v
    <3>1. u # w
      BY <1>4 DEF Acts
    <3>2. Reached(u)
      BY <1>2, <1>4, <2>2, <3>1 DEF Dropped, Acts
    <3>3. home[u] # None => home[u] \in Calls
      BY DEF TypeOK
    <3>4. \A x \in Calls : u \in {runner[x].run, runner[x].shell} => x # r
      BY <1>1, <2>2, <3>1
    <3> QED  BY <1>4, <3>2, <3>3, <3>4 DEF Reached
  <2> QED  BY <2>1, <2>2
<1>13. Born'
  BY <1>3, <1>4, <1>6, CallsAssumption DEF Born
<1>14. WaitersAnswered'
  <2> SUFFICES ASSUME mishaps' \subseteq {"unregistered"},
                      NEW d \in Calls, NEW u \in Calls, Awaits(d, u)'
               PROVE  Pursued(u)'
    BY <1>7, PursuedNext
  <2>1. Pursued(u) /\ u # w
    BY <1>2, <1>3, <1>6, PursuedNow
  <2>2. CASE u = v
    BY <1>4, <2>2 DEF Pursued
  <2>3. CASE u # v
    <3>1. ASSUME NEW x \in Calls, runner[x].tag = "ShellThenRun", runner[x].run = u,
                 work[runner[x].shell] \notin Over
          PROVE  /\ runner'[x].tag = "ShellThenRun" /\ runner'[x].run = u
                 /\ work'[runner'[x].shell] \notin Over
      <4>1. x # r /\ runner[x].shell \in Calls
        BY <1>1, <2>3, <3>1, Fields, Tags
      <4> QED  BY <1>3, <1>4, <3>1, <4>1
    <3> QED  BY <1>2, <1>4, <2>1, <2>3, <3>1 DEF Pursued
  <2> QED  BY <2>2, <2>3
<1> QED  BY <1>7, <1>8, <1>9, <1>10, <1>11, <1>12, <1>13, <1>14

LEMMA FinishHolds ==
  ASSUME IInv, TypeOK', NEW w \in Calls, Finish(w)
  PROVE  IInv'
<1> USE DEF IInv
<1> DEFINE r == home[w]
<1>1. work[w] = "ending" /\ holder[r] = None /\ UNCHANGED <<holder, call, home, stopping>>
  BY DEF Finish
<1>2. r \in Calls /\ home[w] = r
  BY <1>1 DEF Born, TypeOK
<1> HIDE DEF r
<1>3. CASE /\ runner[r] \in {Running(w), Shell(w)}
           /\ runner' = [runner EXCEPT ![r] = Idle]
           /\ Deregister(r)
           /\ work' = [work EXCEPT ![w] = "publishing"]
           /\ UNCHANGED answered
  <2>1. /\ runner'[r] = Idle /\ \A x \in Calls : x # r => runner'[x] = runner[x]
        /\ work'[w] = "publishing" /\ \A v \in Calls : v # w => work'[v] = work[v]
    BY <1>2, <1>3 DEF TypeOK
  <2>2. Registered'
    BY <1>1, <1>2, <1>3, <2>1, DeregisterHolds
  <2>3. ASSUME NEW x \in Calls PROVE runner'[x].run # w /\ runner'[x].shell # w
    <3>1. RecordOf(x, w)
      BY DEF Recorded
    <3>2. CASE x = r
      BY <2>1, <3>2, Tags, CallsAssumption
    <3>3. CASE x # r
      BY <1>2, <2>1, <3>1, <3>3 DEF RecordOf
    <3> QED  BY <3>2, <3>3
  <2>4. mishaps \subseteq mishaps' /\ mishaps' \subseteq mishaps \cup {"unregistered"}
    BY <1>3 DEF Deregister
  <2> QED  BY <1>1, <1>3, <2>1, <2>2, <2>3, <2>4, FiberHolds DEF Acts
<1>4. CASE HandOver(w, r)
  BY <1>1, <1>2, <1>4, HandOverHolds
<1>5. CASE /\ runner[r].run # w /\ runner[r].shell # w
           /\ work' = [work EXCEPT ![w] = "gone"]
           /\ answered' = answered \cup {w}
           /\ UNCHANGED <<registered, runner, mishaps>>
  <2>1. work'[w] = "gone" /\ \A v \in Calls : v # w => work'[v] = work[v]
    BY <1>5 DEF TypeOK
  <2>2. Registered'
    BY <1>1, <1>5 DEF Registered
  <2>3. ASSUME NEW x \in Calls PROVE runner[x].run # w /\ runner[x].shell # w
    <3>1. RecordOf(x, w)
      BY DEF Recorded
    <3> QED  BY <1>2, <1>5, <3>1 DEF RecordOf
  <2> QED  BY <1>1, <1>5, <2>1, <2>2, <2>3, FiberHolds DEF Acts
<1> QED  BY <1>3, <1>4, <1>5 DEF Finish, r

-----------------------------------------------------------------------------
(* All steps *)

LEMMA OnTyped ==
  ASSUME IInv, NEW c \in Calls, NEW r \in Calls, NEW op, Called(c, op, r), On(c, op, r)
  PROVE  TypeOK'
<1> USE DEF IInv
<1>1. registered' \in Calls \cup {None} /\ answered' = answered /\ mishaps' = mishaps
  BY DEF Called
<1> SUFFICES /\ runner' \in [Calls -> RunnerStates]
             /\ holder' \in [Calls -> Calls \cup {None}]
             /\ call' \in [Calls -> CallStates]
             /\ work' \in [Calls -> Over \cup {"none", "queued", "forked", "opening", "live",
                                               "ending", "publishing"}]
             /\ home' \in [Calls -> Calls \cup {None}]
             /\ stopping' \subseteq Calls
  BY <1>1 DEF TypeOK
<1>2. /\ At("returned") \in CallStates /\ [At("busy") EXCEPT !.obj = r] \in CallStates
      /\ Locking(op, r) \in CallStates /\ Awaiting(c) \in CallStates
  BY PlacesTyped DEF Called
<1>3. CASE holder[r] # None
  BY <1>2, <1>3 DEF On, TypeOK
<1>4. CASE holder[r] = None /\ op = "run"
  <2>1. EnsureOn(c, r) /\ UNCHANGED <<holder, stopping>>
    BY <1>4 DEF On
  <2>2. CASE runner[r].tag \in {"Running", "ShellThenRun"}
    <3>1. runner[r].run \in Calls
      BY <2>2, Fields, Tags
    <3>2. Awaiting(runner[r].run) \in CallStates
      BY <3>1, PlacesTyped
    <3>3. call' = [call EXCEPT ![c] = Awaiting(runner[r].run)] /\ UNCHANGED <<runner, work, home>>
      BY <2>1, <2>2 DEF EnsureOn
    <3> QED  BY <2>1, <3>2, <3>3 DEF TypeOK
  <2>3. CASE runner[r].tag = "Shell"
    <3>1. runner[r].shell \in Calls
      BY <2>3, Fields, Tags
    <3>2. ShellThenRun(runner[r].shell, c) \in RunnerStates
      BY <3>1, RunnersTyped
    <3>3. /\ runner' = [runner EXCEPT ![r] = ShellThenRun(runner[r].shell, c)]
          /\ work' = [work EXCEPT ![c] = "queued"] /\ home' = [home EXCEPT ![c] = r]
          /\ call' = [call EXCEPT ![c] = Awaiting(c)]
      BY <2>1, <2>3 DEF EnsureOn
    <3> QED  BY <1>2, <2>1, <3>2, <3>3 DEF TypeOK
  <2>4. CASE runner[r].tag = "Idle"
    <3>1. Running(c) \in RunnerStates
      BY RunnersTyped
    <3>2. /\ runner' = [runner EXCEPT ![r] = Running(c)]
          /\ work' = [work EXCEPT ![c] = "forked"] /\ home' = [home EXCEPT ![c] = r]
          /\ call' = [call EXCEPT ![c] = Awaiting(c)]
      BY <2>1, <2>4 DEF EnsureOn
    <3> QED  BY <1>2, <2>1, <3>1, <3>2 DEF TypeOK
  <2> QED  BY <2>1, <2>2, <2>3, <2>4 DEF EnsureOn
<1>5. CASE holder[r] = None /\ op = "shell"
  <2>1. /\ holder' = holder \/ holder' = [holder EXCEPT ![r] = c]
        /\ \/ call' = [call EXCEPT ![c] = At("returned")]
           \/ call' = [call EXCEPT ![c] = [At("busy") EXCEPT !.obj = r]]
        /\ UNCHANGED <<runner, work, home, stopping>>
    BY <1>5 DEF On, ShellOn
  <2>2. holder' \in [Calls -> Calls \cup {None}]
    <3>1. holder \in [Calls -> Calls \cup {None}] /\ c \in Calls \cup {None}
      BY DEF TypeOK
    <3> QED  BY <2>1, <3>1
  <2>3. call' \in [Calls -> CallStates]
    BY <1>2, <2>1 DEF TypeOK
  <2> QED  BY <2>1, <2>2, <2>3 DEF TypeOK
<1>6. CASE holder[r] = None /\ op = "cancel"
  <2>1. CancelOn(c, r) /\ UNCHANGED <<holder, home>>
    BY <1>6 DEF On
  <2>2. CASE runner[r].tag = "Idle"
    <3>1. call' = [call EXCEPT ![c] = At("returned")] /\ UNCHANGED <<runner, work, stopping>>
      BY <2>1, <2>2 DEF CancelOn
    <3> QED  BY <1>2, <2>1, <3>1 DEF TypeOK
  <2>3. CASE runner[r].tag = "Running"
    <3>1. runner[r].run \in Calls
      BY <2>3, Fields, Tags
    <3>2. /\ Interrupted(runner[r].run) /\ runner' = [runner EXCEPT ![r] = Idle]
          /\ call' = [call EXCEPT ![c] = Stopping("stop", r, runner[r].run, runner[r].run)]
      BY <2>1, <2>3 DEF CancelOn
    <3>3. Stopping("stop", r, runner[r].run, runner[r].run) \in CallStates
      BY <3>1, PlacesTyped
    <3> QED  BY <2>1, <3>1, <3>2, <3>3, Interrupts, RunnersTyped DEF TypeOK
  <2>4. CASE runner[r].tag \in {"Shell", "ShellThenRun"}
    <3>1. runner[r].shell \in Calls /\ runner[r].run \in Calls \cup {None}
      BY <2>4, Fields, Tags
    <3>2. Stopping("stopShell", r, runner[r].shell, runner[r].run) \in CallStates
      BY <3>1, PlacesTyped
    <3>3. /\ runner' = [runner EXCEPT ![r] = Idle] /\ UNCHANGED <<work, stopping>>
          /\ call' = [call EXCEPT ![c] = Stopping("stopShell", r, runner[r].shell, runner[r].run)]
      BY <2>1, <2>4 DEF CancelOn
    <3> QED  BY <2>1, <3>2, <3>3, RunnersTyped DEF TypeOK
  <2> QED  BY <2>1, <2>2, <2>3, <2>4 DEF CancelOn
<1> QED  BY <1>3, <1>4, <1>5, <1>6 DEF Called

LEMMA OnHolds ==
  ASSUME IInv, NEW c \in Calls, NEW r \in Calls, NEW op, Called(c, op, r), On(c, op, r)
  PROVE  IInv'
<1> USE DEF IInv
<1>1. TypeOK'
  BY OnTyped
<1>2. /\ op \in {"run", "shell", "cancel"} /\ call[c].at \in {"ready", "lock"}
      /\ op # "cancel" => work[c] = "none"
      /\ answered' = answered /\ mishaps' = mishaps
  BY DEF Called
<1>3. ASSUME NEW m, call' = [call EXCEPT ![c] = m], m.at \in {"lock", "returned"},
             UNCHANGED <<runner, holder, work, home, stopping>>,
             m.at = "lock" => m.op = op /\ m.obj = r
      PROVE  IInv'
  <2>1. call'[c] = m /\ Others(c)
    BY <1>3 DEF TypeOK, Others
  <2>2. Registered'
    BY <1>3, <2>1, CalledRegisters
  <2>3. call[c].at \notin {"busy", "stopShell", "stop", "await", "returned"}
    BY <1>2
  <2>4. /\ call'[c].at \in {"lock", "idle", "returned"}
        /\ call'[c].at \in {"lock", "idle"} => call'[c].obj # None
        /\ call'[c].at = "lock" => call'[c].op # "none"
        /\ call'[c].at = "lock" /\ call'[c].op # "cancel" => work[c] = "none"
    BY <1>2, <1>3, <2>1, CallsAssumption
  <2> QED  BY <1>1, <1>2, <1>3, <2>1, <2>2, <2>3, <2>4, QuietHolds
<1>4. Locking(op, r).at = "lock" /\ Locking(op, r).op = op /\ Locking(op, r).obj = r
  BY Going
<1>5. At("returned").at = "returned"
  BY Going
<1>6. CASE holder[r] # None
  BY <1>3, <1>4, <1>6 DEF On
<1>7. CASE holder[r] = None /\ op = "run"
  <2>1. EnsureOn(c, r) /\ UNCHANGED <<holder, stopping>> /\ Called(c, "run", r)
    BY <1>7 DEF On
  <2>2. CASE runner[r].tag \in {"Running", "ShellThenRun"}
    BY <1>1, <2>1, <2>2, JoinHolds DEF EnsureOn
  <2>3. CASE runner[r].tag \in {"Shell", "Idle"}
    BY <1>1, <1>7, <2>1, <2>3, WorkHolds DEF EnsureOn
  <2> QED  BY <2>1, <2>2, <2>3 DEF EnsureOn
<1>8. CASE holder[r] = None /\ op = "shell"
  <2>1. ShellOn(c, r) /\ UNCHANGED <<runner, work, home, stopping>> /\ Called(c, "shell", r)
    BY <1>8 DEF On
  <2>2. CASE runner[r].tag # "Idle"
    BY <1>3, <1>5, <2>1, <2>2 DEF ShellOn
  <2>3. CASE runner[r].tag = "Idle"
    <3>1. runner[r] = Idle
      BY <2>3, Fields, Tags
    <3> QED  BY <1>1, <1>8, <2>1, <2>3, <3>1, HoldHolds DEF ShellOn
  <2> QED  BY <2>2, <2>3
<1>9. CASE holder[r] = None /\ op = "cancel"
  <2>1. CancelOn(c, r) /\ UNCHANGED <<holder, home>> /\ Called(c, "cancel", r)
    BY <1>9 DEF On
  <2>2. CASE runner[r].tag = "Idle"
    BY <1>3, <1>5, <2>1, <2>2 DEF CancelOn
  <2>3. CASE runner[r].tag = "Running"
    BY <1>1, <2>1, <2>3, CancelRunHolds DEF CancelOn
  <2>4. CASE runner[r].tag \in {"Shell", "ShellThenRun"}
    BY <1>1, <2>1, <2>4, CancelShellHolds DEF CancelOn
  <2> QED  BY <2>1, <2>2, <2>3, <2>4 DEF CancelOn
<1> QED  BY <1>2, <1>6, <1>7, <1>8, <1>9

\* A call returns: it had its answer, or there is nothing to cancel.
LEMMA ReturnHolds ==
  ASSUME IInv, NEW c \in Calls, call' = [call EXCEPT ![c] = At("returned")],
         call[c].at \in {"ready", "shell", "await"},
         UNCHANGED <<registered, runner, holder, work, home, stopping, answered, mishaps>>
  PROVE  IInv'
<1> USE DEF IInv
<1>1. TypeOK'
  BY PlacesTyped DEF TypeOK
<1>2. call'[c] = At("returned") /\ Others(c)
  BY DEF TypeOK, Others
<1>3. call'[c].at = "returned"
  BY <1>2, Going
<1>4. Registered'
  BY <1>2, <1>3 DEF Registered, Others
<1> QED  BY <1>1, <1>2, <1>3, <1>4, QuietHolds

LEMMA CallStepHolds ==
  ASSUME IInv, NEW c \in Calls, CallStep(c)
  PROVE  IInv'
<1> USE DEF IInv
<1>0. At("returned") \in CallStates
  BY PlacesTyped
<1>1. ASSUME NEW op, Enter(c, op) PROVE IInv'
  <2>1. PICK r \in Calls : r = registered'
    BY <1>1, EnterCalls
  <2> QED  BY <1>1, <2>1, EnterCalls, OnHolds
<1>2. CASE Cancel(c)
  <2>1. CASE registered = None
    BY <1>2, <2>1, ReturnHolds DEF Cancel
  <2>2. CASE registered # None
    BY <1>2, <2>2, CancelCalls, OnHolds
  <2> QED  BY <2>1, <2>2
<1>3. CASE LockTaken(c)
  BY <1>3, LockCalls, OnHolds
<1>4. CASE ForkShell(c)
  <2>1. call[c].obj \in Calls
    BY <1>4, Fields DEF ForkShell, Places
  <2>2. Shell(c) \in RunnerStates /\ At("shell") \in CallStates
    BY RunnersTyped, PlacesTyped
  <2>3. TypeOK'
    BY <1>4, <2>1, <2>2 DEF ForkShell, TypeOK
  <2> QED  BY <1>4, <2>3, ForkHolds
<1>5. CASE ShellReturns(c) \/ Answered(c)
  BY <1>5, ReturnHolds DEF ShellReturns, Answered
<1>6. CASE StopShell(c)
  <2>1. call[c].of \in Calls
    BY <1>6, Fields DEF StopShell, Places
  <2>2. call' \in [Calls -> CallStates]
    <3>1. call' = [call EXCEPT ![c].at = "stop"] /\ call[c] \in CallStates
      BY <1>6, Fields DEF StopShell
    <3>2. [call[c] EXCEPT !.at = "stop"] \in CallStates
      BY <3>1 DEF CallStates
    <3> QED  BY <3>1, <3>2 DEF TypeOK
  <2>3. TypeOK'
    BY <1>6, <2>1, <2>2, Interrupts DEF StopShell, TypeOK
  <2> QED  BY <1>6, <2>3, StopHolds
<1>7. CASE Stopped(c) \/ IdleAtLast(c)
  <2>1. /\ IdleIfCurrent(c) /\ call[c].at \in {"stop", "idle"}
        /\ UNCHANGED <<runner, holder, work, home, stopping>>
        /\ answered \subseteq answered' /\ answered' \subseteq Calls
        /\ call[c].at = "stop" => call[c].queued \in answered' \cup {None}
    <3>1. CASE Stopped(c)
      <4>1. call[c].queued \in Calls \cup {None} /\ answered \subseteq Calls
        BY Fields DEF TypeOK
      <4> QED  BY <3>1, <4>1 DEF Stopped
    <3>2. CASE IdleAtLast(c)
      BY <3>2, Fields DEF IdleAtLast, TypeOK
    <3> QED  BY <1>7, <3>1, <3>2
  <2>2. call[c].obj \in Calls
    BY <2>1, Fields DEF Places
  <2>3. [At("idle") EXCEPT !.obj = call[c].obj] \in CallStates
    BY <2>2, PlacesTyped
  <2>4. TypeOK'
    <3>1. call' \in [Calls -> CallStates]
      <4>1. \/ call' = [call EXCEPT ![c] = [At("idle") EXCEPT !.obj = call[c].obj]]
            \/ call' = [call EXCEPT ![c] = At("returned")]
        BY <2>1 DEF IdleIfCurrent
      <4>2. call \in [Calls -> CallStates] /\ At("returned") \in CallStates
        BY PlacesTyped DEF TypeOK
      <4> QED  BY <2>3, <4>1, <4>2
    <3>2. /\ registered' \in Calls \cup {None}
          /\ mishaps' \subseteq {"unregistered", "stop abandoned", "shell stillborn"}
      BY <2>1 DEF IdleIfCurrent, Deregister, TypeOK
    <3> QED  BY <2>1, <3>1, <3>2 DEF TypeOK
  <2> QED  BY <2>1, <2>4, IdleHolds
<1>8. CASE Abandon(c)
  <2>1. /\ work' \in [Calls -> Over \cup {"none", "queued", "forked", "opening", "live",
                                          "ending", "publishing"}]
        /\ stopping' \subseteq Calls
    BY <1>8, Interrupts DEF Abandon, TypeOK
  <2>2. TypeOK'
    BY <1>0, <1>8, <2>1 DEF Abandon, TypeOK
  <2> QED  BY <1>8, <2>2, AbandonHolds
<1> QED  BY <1>1, <1>2, <1>3, <1>4, <1>5, <1>6, <1>7, <1>8 DEF CallStep

LEMMA WorkStepHolds ==
  ASSUME IInv, NEW w \in Calls, WorkStep(w)
  PROVE  IInv'
<1> USE DEF IInv
<1>1. CASE Start(w) \/ Opened(w) \/ End(w)
  BY <1>1, StartHolds DEF Start, Opened, End, TypeOK
<1>2. CASE Published(w)
  BY <1>2, PublishedHolds DEF Published, TypeOK, Over
<1>3. CASE Finish(w)
  <2>1. home[w] \in Calls
    BY <1>3 DEF Finish, Born, TypeOK
  <2>2. runner' \in [Calls -> RunnerStates]
    <3>1. CASE HandOver(w, home[w])
      <4>1. runner[home[w]].run \in Calls
        BY <2>1, <3>1, Fields, Tags DEF HandOver
      <4> QED  BY <3>1, <4>1, RunnersTyped DEF HandOver, TypeOK
    <3>2. CASE runner' = [runner EXCEPT ![home[w]] = Idle] \/ runner' = runner
      BY <3>2, RunnersTyped DEF TypeOK
    <3> QED  BY <1>3, <3>1, <3>2 DEF Finish
  <2>3. TypeOK'
    BY <1>3, <2>2 DEF Finish, HandOver, Deregister, TypeOK, Over
  <2> QED  BY <1>3, <2>3, FinishHolds
<1> QED  BY <1>1, <1>2, <1>3 DEF WorkStep

LEMMA InitHolds == ASSUME Init PROVE IInv
<1> USE DEF Init
<1>1. At("ready") \in CallStates /\ Idle \in RunnerStates /\ At("ready").at = "ready"
  BY PlacesTyped, RunnersTyped, Going
<1>2. TypeOK
  BY <1>1 DEF TypeOK
<1>3. Places /\ Unborn /\ Held /\ Registered /\ Dropped /\ Born /\ WaitersAnswered
  BY <1>1, CallsAssumption
     DEF Places, Unborn, Held, Registered, Dropped, Acts, Born, Awaits, WaitersAnswered
<1>4. Recorded
  BY Tags, CallsAssumption DEF Recorded, RecordOf
<1> QED  BY <1>2, <1>3, <1>4 DEF IInv

\* The inductive invariant, of which the theorems below are consequences.
THEOREM RunnersInductive == Spec => []IInv
<1>1. ASSUME IInv, [Next]_vars PROVE IInv'
  <2>1. ASSUME NEW c \in Calls, CallStep(c) \/ WorkStep(c) PROVE IInv'
    BY <1>1, <2>1, CallStepHolds, WorkStepHolds
  <2>2. CASE UNCHANGED vars
    <3>1. /\ registered' = registered /\ runner' = runner /\ holder' = holder /\ call' = call
          /\ work' = work /\ home' = home /\ stopping' = stopping /\ answered' = answered
          /\ mishaps' = mishaps
      BY <2>2 DEF vars
    <3>2. TypeOK' /\ Places' /\ Unborn' /\ Registered'
      BY <1>1, <3>1 DEF IInv, TypeOK, Places, Unborn, Registered
    <3>3. ASSUME NEW r \in Calls, NEW w \in Calls PROVE RecordOf(r, w)'
      <4>1. RecordOf(r, w)
        BY <1>1 DEF IInv, Recorded
      <4>2. \A c \in Calls : Awaits(c, w)' <=> Awaits(c, w)
        BY <3>1 DEF Awaits
      <4> QED  BY <3>1, <4>1, <4>2 DEF RecordOf
    <3>4. Dropped' /\ Born'
      BY <1>1, <3>1 DEF IInv, Dropped, Acts, Reached, Born, Awaits
    <3>5. WaitersAnswered'
      BY <1>1, <3>1 DEF IInv, WaitersAnswered
    <3>6. Held'
      BY <1>1, <3>1 DEF IInv, Held
    <3> QED  BY <1>1, <3>1, <3>2, <3>3, <3>4, <3>5, <3>6 DEF IInv, Recorded
  <2> QED  BY <1>1, <2>1, <2>2 DEF Next, Settled
<1> QED  BY InitHolds, <1>1, PTL DEF Spec

\* One work at a time acts on the session, and it is the one that the registered
\* runner records, so that a cancel reaches it and a revert is refused meanwhile
\* (effect/runner.ts, run-state.ts): until a registration was removed under a
\* newer runner or a cancel was abandoned.
THEOREM WorkReachable == Spec => []WorkIsReachable
<1>1. ASSUME IInv PROVE WorkIsReachable
  <2> USE DEF IInv
  <2> SUFFICES ASSUME mishaps \subseteq {"shell stillborn"}
               PROVE  /\ Cardinality(InProgress) <= 1
                      /\ \A w \in InProgress :
                           /\ registered # None
                           /\ w \in {runner[registered].run, runner[registered].shell}
    BY <1>1 DEF WorkIsReachable
  <2>1. ASSUME NEW w \in InProgress
        PROVE  /\ registered \in Calls
               /\ w \in {runner[registered].run, runner[registered].shell}
    <3>1. w \in Calls /\ Acts(w) /\ w \notin stopping
          /\ \A c \in Calls : call[c].at = "stopShell" => call[c].of # w
      BY DEF InProgress, Acts
    <3>2. home[w] # None /\ w \in {runner[home[w]].run, runner[home[w]].shell}
      BY <1>1, <3>1 DEF Dropped, Reached
    <3>3. home[w] \in Calls /\ runner[home[w]] # Idle
      <4>1. home[w] \in Calls
        BY <1>1, <3>1, <3>2 DEF TypeOK
      <4>2. Idle.run = None /\ Idle.shell = None /\ w # None
        BY <3>1, Tags, CallsAssumption
      <4> QED  BY <3>2, <4>1, <4>2
    <3>4. registered = home[w]
      BY <1>1, <3>3 DEF Registered
    <3> QED  BY <3>2, <3>3, <3>4
  <2>2. ASSUME NEW v \in InProgress, NEW w \in InProgress PROVE v = w
    <3>1. v \in Calls /\ w \in Calls /\ Acts(v) /\ Acts(w)
      BY DEF InProgress, Acts
    <3>2. ASSUME NEW s \in Calls, NEW q \in Calls, runner[registered].shell = s,
                 runner[registered].run = q
          PROVE  work[q] = "queued"
      <4>1. registered \in Calls
        BY <2>1
      <4>2. runner[registered].tag # "Running"
        <5>1. runner[registered].shell # None
          BY <3>2, CallsAssumption
        <5>2. \/ runner[registered] = Idle
              \/ runner[registered] = Running(runner[registered].run)
              \/ runner[registered] = Shell(runner[registered].shell)
              \/ runner[registered] = ShellThenRun(runner[registered].shell, runner[registered].run)
          BY <1>1, <4>1, Fields
        <5>3. CASE runner[registered] = Running(runner[registered].run)
          <6>1. Running(runner[registered].run).shell = None
            BY Tags
          <6> QED  BY <5>1, <5>3, <6>1
        <5>4. /\ Idle.tag # "Running"
              /\ Shell(runner[registered].shell).tag # "Running"
              /\ ShellThenRun(runner[registered].shell, runner[registered].run).tag # "Running"
          BY Tags
        <5> QED  BY <5>2, <5>3, <5>4
      <4> QED  BY <1>1, <3>2, <4>1, <4>2 DEF Recorded, RecordOf
    <3>3. /\ v \in {runner[registered].run, runner[registered].shell}
          /\ w \in {runner[registered].run, runner[registered].shell}
      BY <2>1
    <3> QED  BY <3>1, <3>2, <3>3 DEF Acts
  <2>3. Cardinality(InProgress) <= 1
    <3>1. CASE InProgress = {}
      BY <3>1, AtMostOne
    <3>2. CASE InProgress # {}
      <4>1. PICK w : w \in InProgress
        BY <3>2
      <4>2. InProgress = {w}
        BY <2>2, <4>1
      <4> QED  BY <4>2, AtMostOne
    <3> QED  BY <3>1, <3>2
  <2> QED  BY <2>1, <2>3, CallsAssumption
<1> QED  BY <1>1, RunnersInductive, PTL

\* Whoever waits for a run will be answered: by its fiber, by the shell it is
\* queued behind or by a cancel that holds it (ensureRunning, cancel, finishRun):
\* until a cancel was abandoned or a shell ended before it began.
THEOREM WaitersPursued == Spec => []WaitersAnswered
<1>1. IInv => WaitersAnswered
  BY DEF IInv
<1> QED  BY <1>1, RunnersInductive, PTL

=============================================================================
