---------------------------- MODULE ProviderTurn ----------------------------
(***************************************************************************)
(* The provider turns of one session: the runner streams a provider's      *)
(* events into a publisher, which keeps flags of its own and publishes     *)
(* durable events one by one; each local tool call is forked once it is    *)
(* recorded and publishes its result by itself, under the same semaphore.  *)
(* After the stream the runner waits for the tools, settles what they left *)
(* open and ends the step.  A run begins by failing the calls that an      *)
(* earlier one has left open.                                              *)
(*                                                                         *)
(* The run may be interrupted, also between a flag and its event, and the  *)
(* process may crash.  Of the provider's stream it is assumed that its step *)
(* finish comes after its content and calls, and that one that ends        *)
(* normally has called every tool whose input it began; it may fail or     *)
(* break off at any time.  Text, reasoning and the pieces of inputs are    *)
(* left out: they have no effect on the rest.                              *)
(***************************************************************************)
EXTENDS Naturals, Sequences, SequencesExt

CONSTANT Calls  \* call ids within a turn

ASSUME CallAssumption == IsFiniteSet(Calls)

VARIABLES step,   \* the latest turn's assistant message: its Step events
          tool,   \* its tool calls, as projected, and settlements published
          behind, \* the mishaps of calls that earlier messages have open
          mem,    \* the publisher
          todo,   \* what it is publishing, under its semaphore
          toolFiber,  \* toolFibers
          run     \* the runner's fiber

turnVars == <<step, tool, behind, mem, todo, toolFiber, run>>

-----------------------------------------------------------------------------
(* Data *)

\* "raw": a Step.Failed after a failure of the stream itself.
Steps == [started: BOOLEAN, ends: SUBSET {"ended", "failed", "raw"}]
NoStep == [started |-> FALSE, ends |-> {}]

\* mishap: its result could not be published; or it was failed before it was
\* called, which makes it run again in the projection.
Mishaps == {"none", "lost", "revived"}
ToolStates == [status: {"none", "pending", "running", "done"}, settles: 0 .. 2, mishap: Mishaps]
NoTool == [status |-> "none", settles |-> 0, mishap |-> "none"]

\* The flags of a call in the publisher's map.
Marks == [known: BOOLEAN, called: BOOLEAN, settled: BOOLEAN, hosted: BOOLEAN]
NoMark == [known |-> FALSE, called |-> FALSE, settled |-> FALSE, hosted |-> FALSE]

\* overflow: overflowFailure, of the runner.
Memories == [started: BOOLEAN, active: BOOLEAN, failed: BOOLEAN, providerFailed: BOOLEAN,
             finished: BOOLEAN, overflow: BOOLEAN, tools: [Calls -> Marks]]
NoMemory == [started |-> FALSE, active |-> FALSE, failed |-> FALSE, providerFailed |-> FALSE,
             finished |-> FALSE, overflow |-> FALSE, tools |-> [c \in Calls |-> NoMark]]

\* "called" and "hosted": Tool.Called of a local and of a provider's tool; "fork"
\* is no event, and comes after "called".
Events == [ev: {"step started", "step ended", "step failed", "step raw"}] \cup
          [ev: {"input", "called", "hosted", "fork", "success", "failure"}, of: Calls]

\* "publish": the tool has returned and its result waits for the semaphore.
ToolFibers == {"none", "running", "publish", "gone", "failed", "declined"}

\* exit: of the stream; settled: of awaitToolFibers; broke: the first failure
\* of a tool's fiber; disabled: the last step, without tools.
Runs == [pc: {"off", "recover", "request", "stream", "ended", "await", "settled", "close", "leave"},
         exit: {"none", "success", "llm", "overflow", "defect", "interrupt"},
         settled: {"none", "success", "failed", "declined", "interrupt"},
         broke: {"none", "failed", "declined"},
         disabled: BOOLEAN, recover: BOOLEAN, continues: BOOLEAN, stopping: BOOLEAN]
Off == [pc |-> "off", exit |-> "none", settled |-> "none", broke |-> "none", disabled |-> FALSE,
        recover |-> FALSE, continues |-> FALSE, stopping |-> FALSE]

TurnTypeOK ==
  /\ step \in Steps
  /\ tool \in [Calls -> ToolStates]
  /\ behind \subseteq Mishaps
  /\ mem \in Memories
  /\ todo \in Seq(Events)
  /\ toolFiber \in [Calls -> ToolFibers]
  /\ run \in Runs

TurnInit ==
  /\ step = NoStep
  /\ tool = [c \in Calls |-> NoTool]
  /\ behind = {}
  /\ mem = NoMemory
  /\ todo = <<>>
  /\ toolFiber = [c \in Calls |-> "none"]
  /\ run = Off

Runner(pc) == run' = [run EXCEPT !.pc = pc]
Alive(c) == toolFiber[c] \in {"running", "publish"}
Open(c) == tool[c].status \in {"pending", "running"}

\* The run's fiber ends: its memory goes with it.
Over ==
  /\ run' = Off
  /\ mem' = NoMemory
  /\ todo' = <<>>
  /\ toolFiber' = [c \in Calls |-> "none"]

-----------------------------------------------------------------------------
(* The publisher *)

\* What publishing an event does to the publisher's own flags, first ...
Marked(m, x) ==
  CASE x.ev = "step started" -> [m EXCEPT !.started = TRUE, !.active = TRUE]
    [] x.ev \in {"step failed", "step raw"} -> [m EXCEPT !.active = FALSE, !.failed = TRUE]
    [] x.ev \in {"step ended", "fork"} -> m
    [] x.ev = "input" -> [m EXCEPT !.tools[x.of].known = TRUE]
    [] x.ev = "called" -> [m EXCEPT !.tools[x.of].called = TRUE]
    [] x.ev = "hosted" -> [m EXCEPT !.tools[x.of].called = TRUE, !.tools[x.of].hosted = TRUE]
    [] x.ev \in {"success", "failure"} -> [m EXCEPT !.tools[x.of].settled = TRUE]

\* ... and then to the tables.  The projection only changes a message and a
\* call that are there, and settles a call once.
SteppedBy(s, x) ==
  CASE x.ev = "step started" -> [s EXCEPT !.started = TRUE]
    [] x.ev = "step ended" -> [s EXCEPT !.ends = @ \cup {"ended"}]
    [] x.ev = "step failed" -> [s EXCEPT !.ends = @ \cup {"failed"}]
    [] x.ev = "step raw" -> [s EXCEPT !.ends = @ \cup {"raw"}]
    [] OTHER -> s

Projected(r, x) ==
  CASE x.ev = "input" -> [r EXCEPT !.status = "pending"]
    [] x.ev \in {"called", "hosted"} /\ r.status # "none" -> [r EXCEPT !.status = "running", !.mishap = IF r.status = "done" THEN "revived" ELSE @]
    [] x.ev = "success" ->
         [r EXCEPT !.settles = @ + 1, !.status = IF @ = "running" THEN "done" ELSE @]
    [] x.ev = "failure" ->
         [r EXCEPT !.settles = @ + 1, !.status = IF @ \in {"pending", "running"} THEN "done" ELSE @]
    [] OTHER -> r

Commit(x) ==
  /\ step' = SteppedBy(step, x)
  /\ tool' = IF x.ev \in {"input", "called", "hosted", "success", "failure"} /\ step.started
             THEN [tool EXCEPT ![x.of] = Projected(@, x)] ELSE tool

StartAssistant == IF mem.started THEN <<>> ELSE <<[ev |-> "step started"]>>

FailAssistant(ev) == IF mem.failed THEN <<>> ELSE Append(StartAssistant, [ev |-> ev])

\* Mutant: calls that have been settled are failed, too.
FailUnsettledAny(m, hostedOnly) ==
  SetToSeq({[ev |-> "failure", of |-> c] :
              c \in {d \in Calls : m.tools[d].known /\ (hostedOnly => m.tools[d].hosted)}})

\* failUnsettledTools
FailUnsettled(m, hostedOnly) ==
  SetToSeq({[ev |-> "failure", of |-> c] :
              c \in {d \in Calls : /\ m.tools[d].known
                                   /\ ~m.tools[d].settled
                                   /\ hostedOnly => m.tools[d].hosted}})

\* The next thing the runner's fiber has to publish, or the fork of a tool.
Publish ==
  /\ todo # <<>>
  /\ todo' = Tail(todo)
  /\ LET x == Head(todo) IN
     /\ mem' = Marked(mem, x)
     /\ Commit(x)
     /\ IF x.ev = "fork"
        THEN /\ toolFiber' = [toolFiber EXCEPT ![x.of] = "running"]
             /\ run' = [run EXCEPT !.continues = TRUE]
        ELSE UNCHANGED <<toolFiber, run>>
  /\ UNCHANGED behind

-----------------------------------------------------------------------------
(* run: recovery, and the request of a turn *)

Start ==
  /\ run.pc = "off"
  /\ Runner("recover")
  /\ UNCHANGED <<step, tool, behind, mem, todo, toolFiber>>

\* failInterruptedTools, of the latest message and of earlier ones
Recover(c) ==
  /\ run.pc = "recover"
  /\ Open(c)
  /\ tool' = [tool EXCEPT ![c] = Projected(@, [ev |-> "failure", of |-> c])]
  /\ UNCHANGED <<step, behind, mem, todo, toolFiber, run>>

RecoverBehind(k) ==
  /\ run.pc = "recover"
  /\ k \in behind
  /\ behind' = behind \ {k}
  /\ UNCHANGED <<step, tool, mem, todo, toolFiber, run>>

Recovered ==
  /\ run.pc = "recover"
  /\ behind = {} /\ \A c \in Calls : ~Open(c)
  /\ run' = [Off EXCEPT !.pc = "request", !.recover = TRUE]
  /\ UNCHANGED <<step, tool, behind, mem, todo, toolFiber>>

\* The history is read and the request built.
Request(last) ==
  /\ run.pc = "request"
  /\ step' = NoStep
  /\ tool' = [c \in Calls |-> NoTool]
  /\ behind' = behind \cup {tool[c].mishap : c \in {d \in Calls : Open(d)}}
  /\ run' = [Off EXCEPT !.pc = "stream", !.recover = run.recover, !.disabled = last]
  /\ mem' = NoMemory
  /\ toolFiber' = [c \in Calls |-> "none"]
  /\ UNCHANGED todo

\* The model cannot be resolved, the session has moved, ...
RequestFails ==
  /\ run.pc = "request"
  /\ Over
  /\ UNCHANGED <<step, tool, behind>>

-----------------------------------------------------------------------------
(* The provider's stream *)

Streaming == run.pc = "stream" /\ todo = <<>>

\* Nothing is published any more after an error of the provider.
Listening == Streaming /\ ~mem.overflow /\ ~mem.providerFailed
Delivering == Listening /\ ~mem.finished

Publishes(events) ==
  /\ todo' = events
  /\ UNCHANGED <<step, tool, behind, mem, toolFiber, run>>

Content == Delivering /\ ~mem.started /\ Publishes(StartAssistant)

ToolInput(c) ==
  /\ Delivering
  /\ ~mem.tools[c].known
  /\ Publishes(Append(StartAssistant, [ev |-> "input", of |-> c]))

\* A local call is forked once it is recorded; on the last step, without tools,
\* it is failed, as it is known by then, with whatever else is open.
ToolCall(c, ev) ==
  LET recorded ==
        (IF mem.tools[c].known THEN <<>>
         ELSE Append(StartAssistant, [ev |-> "input", of |-> c])) \o <<[ev |-> ev, of |-> c]>> IN
  /\ Delivering
  /\ ~mem.tools[c].called
  /\ Publishes(recorded \o
       CASE ev = "hosted" -> <<>>
         [] ev = "called" /\ run.disabled -> FailUnsettled([mem EXCEPT !.tools[c].known = TRUE], FALSE)
         [] OTHER -> <<[ev |-> "fork", of |-> c]>>)

HostedResult(c, ev) ==
  /\ Delivering
  /\ mem.tools[c].hosted /\ ~mem.tools[c].settled
  /\ Publishes(<<[ev |-> ev, of |-> c]>>)

StepFinish ==
  /\ Delivering
  /\ mem' = [mem EXCEPT !.active = FALSE, !.finished = TRUE]
  /\ UNCHANGED <<step, tool, behind, todo, toolFiber, run>>

\* An overflow is kept for the end unless the assistant has started.
ProviderError ==
  /\ Listening
  /\ \/ /\ ~mem.started
        /\ mem' = [mem EXCEPT !.overflow = TRUE]
        /\ UNCHANGED todo
     \/ /\ mem' = [mem EXCEPT !.providerFailed = TRUE]
        /\ todo' = FailAssistant("step failed")
  /\ UNCHANGED <<step, tool, behind, toolFiber, run>>

\* An event that the publisher refuses (a duplicate, a result without a call)
\* ends the stream as a defect.
StreamEnds(exit) ==
  /\ Streaming
  /\ exit = "success" /\ ~mem.overflow /\ ~mem.providerFailed =>
       \A c \in Calls : mem.tools[c].known => mem.tools[c].called \/ mem.tools[c].settled
  /\ run' = [run EXCEPT !.pc = "ended", !.exit = exit]
  /\ UNCHANGED <<step, tool, behind, mem, todo, toolFiber>>

-----------------------------------------------------------------------------
(* The tools *)

\* Mutant: the runner waits for the tools under the semaphore.
PermitFreeNotAwaiting == todo = <<>> /\ run.pc # "await"

PermitFree == todo = <<>>

Breaks(how) == run' = [run EXCEPT !.broke = IF @ = "none" THEN how ELSE @]

\* A tool returns a result, fails, or its user declines.
ToolReturns(c) ==
  /\ toolFiber[c] = "running"
  /\ \/ toolFiber' = [toolFiber EXCEPT ![c] = "publish"] /\ UNCHANGED run
     \/ toolFiber' = [toolFiber EXCEPT ![c] = "failed"] /\ Breaks("failed")
     \/ toolFiber' = [toolFiber EXCEPT ![c] = "declined"] /\ Breaks("declined")
  /\ UNCHANGED <<step, tool, behind, mem, todo>>

\* A result that comes after its call was settled is dropped if an error, and
\* otherwise a defect.
ToolPublishes(c, ev) ==
  /\ toolFiber[c] = "publish"
  /\ PermitFree
  /\ IF mem.tools[c].settled
     THEN /\ toolFiber' = [toolFiber EXCEPT ![c] = IF ev = "failure" THEN "gone" ELSE "failed"]
          /\ IF ev = "failure" THEN UNCHANGED run ELSE Breaks("failed")
          /\ UNCHANGED <<step, tool, mem>>
     ELSE /\ mem' = Marked(mem, [ev |-> ev, of |-> c])
          /\ Commit([ev |-> ev, of |-> c])
          /\ toolFiber' = [toolFiber EXCEPT ![c] = "gone"]
          /\ UNCHANGED run
  /\ UNCHANGED <<behind, todo>>

\* The flag is set, and then the result cannot be encoded or stored.
ResultLost(c) ==
  /\ toolFiber[c] = "publish"
  /\ PermitFree
  /\ ~mem.tools[c].settled
  /\ mem' = Marked(mem, [ev |-> "success", of |-> c])
  /\ tool' = [tool EXCEPT ![c].mishap = "lost"]
  /\ toolFiber' = [toolFiber EXCEPT ![c] = "failed"]
  /\ Breaks("failed")
  /\ UNCHANGED <<step, behind, todo>>

-----------------------------------------------------------------------------
(* The end of a turn, which an interrupt does not cut short *)

\* FiberSet.clear; a fiber that publishes already is waited for.
Cleared == [c \in Calls |-> IF toolFiber[c] = "running" THEN "gone" ELSE toolFiber[c]]
Publishing == \E c \in Calls : toolFiber[c] = "publish"

Ending(pc) == run.pc = pc /\ todo = <<>>

\* An overflow before anything was published may be answered by a compaction
\* and another attempt, once.
MayCompact == run.recover /\ ~mem.started /\ (mem.overflow \/ run.exit = "overflow")

Compact ==
  /\ Ending("ended")
  /\ MayCompact
  /\ IF run.stopping
     THEN Over
     ELSE /\ run' = [Off EXCEPT !.pc = "request"]
          /\ mem' = NoMemory
          /\ UNCHANGED <<todo, toolFiber>>
  /\ UNCHANGED <<step, tool, behind>>

FailStep ==
  /\ Ending("ended")
  /\ ~(MayCompact /\ run.stopping)
  /\ mem' = [mem EXCEPT !.providerFailed = @ \/ mem.overflow]
  /\ todo' = CASE mem.overflow -> FailAssistant("step failed")
               [] run.exit \in {"llm", "overflow"} /\ ~mem.overflow /\ ~mem.providerFailed ->
                    FailUnsettled(mem, TRUE) \o FailAssistant("step raw")
               [] OTHER -> <<>>
  /\ toolFiber' = IF run.exit = "interrupt" THEN Cleared ELSE toolFiber
  /\ Runner("await")
  /\ UNCHANGED <<step, tool, behind>>

AwaitTools ==
  /\ Ending("await")
  /\ run.stopping \/ run.broke # "none" \/ \A c \in Calls : ~Alive(c)
  /\ LET exit == CASE run.stopping -> "interrupt"
                   [] ~run.stopping /\ run.broke # "none" -> run.broke
                   [] OTHER -> "success" IN
     /\ run' = [run EXCEPT !.pc = "settled", !.settled = exit]
     /\ toolFiber' = IF exit \in {"interrupt", "declined"} THEN Cleared ELSE toolFiber
  /\ UNCHANGED <<step, tool, behind, mem, todo>>

SettleTools ==
  /\ Ending("settled")
  /\ run.settled \in {"interrupt", "declined"} => ~Publishing
  /\ todo' = (IF run.settled = "success" THEN <<>> ELSE FailUnsettled(mem, FALSE)) \o
             (IF run.settled = "interrupt" /\ mem.active THEN FailAssistant("step failed") ELSE <<>>)
  /\ Runner(IF run.settled = "declined" THEN "leave" ELSE "close")
  /\ UNCHANGED <<step, tool, behind, mem, toolFiber>>

EndStep == IF mem.finished THEN Append(StartAssistant, [ev |-> "step ended"]) ELSE <<>>

Closes(events) ==
  /\ Ending("close")
  /\ todo' = events
  /\ Runner("leave")
  /\ UNCHANGED <<step, tool, behind, mem, toolFiber>>

\* Mutant: the provider's own calls are taken for answered.
CloseStepKeepsHosted ==
  Closes(IF mem.providerFailed THEN FailUnsettled(mem, FALSE) ELSE EndStep)

\* Mutant: a step that failed is ended, too.
CloseStepAlways ==
  Closes(EndStep \o FailUnsettled(mem, ~mem.providerFailed))

CloseStep ==
  Closes(IF mem.providerFailed THEN FailUnsettled(mem, FALSE)
         ELSE EndStep \o (IF run.exit = "success" THEN FailUnsettled(mem, TRUE) ELSE <<>>))

\* The scope of the turn ends, and with it the fibers that are left; then the
\* next turn, if a tool has run or a steer has come, or the end.
Leave ==
  LET goesOn == run.exit = "success" /\ run.settled \in {"success", "failed"} /\ ~run.stopping IN
  /\ Ending("leave")
  /\ ~Publishing
  /\ \/ /\ ~(goesOn /\ run.continues /\ ~mem.providerFailed)
        /\ Over
     \/ /\ goesOn
        /\ run' = [Off EXCEPT !.pc = "request", !.recover = TRUE]
        /\ toolFiber' = Cleared
        /\ mem' = NoMemory
        /\ UNCHANGED todo
  /\ UNCHANGED <<step, tool, behind>>

-----------------------------------------------------------------------------

\* The fiber is interrupted wherever it waits, in the stream perhaps between a
\* flag and its event; at its end once that is done.
InterruptTurn ==
  /\ run.pc # "off" /\ ~run.stopping
  /\ CASE run.pc \in {"recover", "request"} -> Over
       [] run.pc = "stream" ->
            /\ UNCHANGED mem \/ (todo # <<>> /\ mem' = Marked(mem, Head(todo)))
            /\ todo' = <<>>
            /\ run' = [run EXCEPT !.pc = "ended", !.exit = "interrupt", !.stopping = TRUE]
            /\ UNCHANGED toolFiber
       [] OTHER -> run' = [run EXCEPT !.stopping = TRUE] /\ UNCHANGED <<mem, todo, toolFiber>>
  /\ UNCHANGED <<step, tool, behind>>

Crash ==
  /\ run.pc # "off"
  /\ Over
  /\ UNCHANGED <<step, tool, behind>>

Stream ==
  \/ Content \/ StepFinish \/ ProviderError
  \/ \E c \in Calls :
       \/ ToolInput(c)
       \/ \E ev \in {"called", "hosted"} : ToolCall(c, ev)
       \/ \E ev \in {"success", "failure"} : HostedResult(c, ev)
  \/ \E exit \in {"success", "llm", "overflow", "defect"} : StreamEnds(exit)

Tools == \E c \in Calls : ToolReturns(c) \/ (\E ev \in {"success", "failure"} : ToolPublishes(c, ev))
                            \/ ResultLost(c)

Turn == \/ Publish \/ Recovered \/ RequestFails \/ (\E last \in BOOLEAN : Request(last))
        \/ (\E c \in Calls : Recover(c)) \/ (\E k \in Mishaps : RecoverBehind(k))
        \/ Compact \/ FailStep \/ AwaitTools \/ SettleTools \/ CloseStep \/ Leave

TurnNext == Start \/ Turn \/ Stream \/ Tools \/ InterruptTurn \/ Crash

TurnSpec == TurnInit /\ [][TurnNext]_turnVars

\* Fibers run, and whoever has the semaphore gives it back.
FairTurns ==
  /\ TurnSpec
  /\ WF_turnVars(Turn)
  /\ \A c \in Calls : WF_turnVars(\E ev \in {"success", "failure"} : ToolPublishes(c, ev))

-----------------------------------------------------------------------------
(* Properties *)

\* A provider is never asked about a history with an open call, nor while a tool
\* of an earlier turn still runs: whatever was interrupted, crashed, declined or
\* left open by the provider.  Calls that the publisher takes for settled are the
\* exceptions, until the next run: one whose result could not be published, and
\* one of several calls of a last step, whose input had begun when the first of
\* them was refused and failed it too.
RequestIsAnswered ==
  [][run.pc = "request" /\ run'.pc = "stream" =>
       /\ "none" \notin behind'
       /\ \A c \in Calls : ~Alive(c)]_turnVars

\* A recorded call is done exactly when one settlement was published for it: the
\* stream, its own fiber, the end of the turn and the recovery of a later run
\* never settle it twice, and none settles it in vain, with the same exceptions.
\* What runs is recorded before.
SettledOnce ==
  /\ TurnTypeOK
  /\ \A c \in Calls :
       /\ tool[c].settles <= (IF tool[c].mishap = "revived" THEN 2 ELSE 1)
       /\ tool[c].status # "none" /\ tool[c].mishap # "revived" =>
            (tool[c].status = "done" <=> tool[c].settles = 1)
       /\ Alive(c) => tool[c].status \in {"running", "done"}

\* A step ends once, as ended or as failed.  The exception is a stream that
\* failed by itself after the step's finish: that step is failed, then ended.
StepEndsOnce ==
  step.ends \in {{}, {"ended"}, {"failed"}, {"raw"}, {"raw", "ended"}}

\* While a run goes on its open calls do not stay open, provided that the
\* provider's streams and the tools, which may wait for a user, come to an end.
CallsSettle ==
  (/\ []<>(run.pc # "stream")
   /\ \A c \in Calls : []<>(toolFiber[c] # "running"))
  => \A c \in Calls : Open(c) ~> ~Open(c) \/ run.pc = "off"
=============================================================================
