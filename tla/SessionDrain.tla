---------------------------- MODULE SessionDrain ----------------------------
(***************************************************************************)
(* SessionRunner.run: the drain that promotes a session's waiting inputs   *)
(* and runs provider turns until none is left, under the execution that    *)
(* the run coordinator serializes (SerialExecution is what RunCoordinator  *)
(* is proved to implement).                                                *)
(*                                                                         *)
(* Steers are promoted before every provider turn, one queued input when   *)
(* the session would otherwise go idle.  The loop reads the inbox in steps *)
(* that clients' publications interleave with.                             *)
(***************************************************************************)
EXTENDS SessionInbox

CONSTANT Steps  \* the largest agent.info.steps: the turn that is given no tools

ASSUME StepsAssumption == Steps \in Nat /\ Steps > 0 /\ Steps # None

VARIABLES phase,   \* the coordinator, as SerialExecution has it
          owed,
          forced,  \* the execution to begin was asked for by resume()
          drain,   \* the runner's loop, by session
          due,     \* ghost: accepted inputs whose wake nothing has voided
          unasked, \* ghost: ids this drain promoted that no request has held
          voided   \* ghost: inputs promoted from a row that a revert had deleted

Execution == INSTANCE SerialExecution WITH Keys <- Sessions

inboxVars == <<latest, input, message, revert, client, undone>>
execVars == <<phase, owed, forced>>
allVars == <<latest, input, message, revert, client, undone,
             phase, owed, forced, drain, due, unasked, voided>>

\* pc: "start", "start-queue": the two reads before the loop; "cutoff",
\* "queued", "steers": the parts of runTurnAttempt that promote; "publish":
\* before a publication of SessionInput.publish; "recheck": before the find of
\* its defect; "ask": before reading history; "turn": the provider's turn;
\* "after", "after-turns": the reads of the inner and the outer loop.
Off == [pc |-> "off"]
PromotionRows == [id: Ids, delivery: Deliveries, time: Times, admitted: Seqs]
Drains ==
  [pc: {"start", "start-queue", "cutoff", "queued", "steers", "publish", "recheck",
        "ask", "turn", "after", "after-turns"},
   force: BOOLEAN,
   promotion: {"steer", "queue", None},
   cutoff: Seqs,
   rows: Seq(PromotionRows),
   promoted: BOOLEAN,
   step: 1 .. Steps]
DrainStates == Drains \cup {Off}

TypeOK ==
  /\ InboxTypeOK
  /\ Execution!TypeOK
  /\ forced \in [Sessions -> BOOLEAN]
  /\ drain \in [Sessions -> DrainStates]
  /\ due \subseteq Ids
  /\ unasked \in [Sessions -> SUBSET Ids]
  /\ voided \subseteq Ids

Init ==
  /\ InboxInit
  /\ Execution!Init
  /\ forced = [s \in Sessions |-> FALSE]
  /\ drain = [s \in Sessions |-> Off]
  /\ due = {}
  /\ unasked = [s \in Sessions |-> {}]
  /\ voided = {}

-----------------------------------------------------------------------------
(* The execution *)

\* A wake of s, if one is asked for: the input it is for is now due.
WakeFor(c) ==
  LET r == client[c].req IN
  \E wakes \in BOOLEAN :
    /\ Answer(c, wakes)
    /\ IF wakes
       THEN /\ Execution!Request(r.session)
            /\ due' = IF IsPending(r.id, r.session, r.delivery) THEN due \cup {r.id} ELSE due
       ELSE UNCHANGED <<phase, owed, due>>
    /\ UNCHANGED <<forced, drain, unasked, voided>>

\* resume() of an idle session; of an active one it only joins.
Resume(s) ==
  /\ phase[s] = "idle" /\ ~owed[s]
  /\ Execution!Request(s)
  /\ forced' = [forced EXCEPT ![s] = TRUE]
  /\ UNCHANGED <<drain, due, unasked, voided>> /\ UNCHANGED inboxVars

Begin(s) ==
  /\ Execution!Begin(s)
  /\ ~owed'[s]
  /\ drain' = [drain EXCEPT ![s] =
                 [pc |-> "start", force |-> forced[s], promotion |-> None, cutoff |-> 0,
                  rows |-> <<>>, promoted |-> FALSE, step |-> 1]]
  /\ forced' = [forced EXCEPT ![s] = FALSE]
  /\ UNCHANGED <<due, unasked, voided>> /\ UNCHANGED inboxVars

\* An interruption withdraws what is owed and is noticed at the next step.
Stop(s) ==
  /\ Execution!Stop(s)
  /\ due' = {i \in due : input[i] # None /\ input[i].session # s}
  /\ forced' = [forced EXCEPT ![s] = FALSE]
  /\ drain' = [drain EXCEPT ![s] = Off]
  /\ unasked' = [unasked EXCEPT ![s] = {}]
  /\ UNCHANGED voided /\ UNCHANGED inboxVars

\* The process ends: only the tables are left.
Crash ==
  /\ phase' = [s \in Sessions |-> "idle"]
  /\ owed' = [s \in Sessions |-> FALSE]
  /\ forced' = [s \in Sessions |-> FALSE]
  /\ drain' = [s \in Sessions |-> Off]
  /\ client' = [c \in Clients |-> [pc |-> "idle"]]
  /\ due' = {}
  /\ undone' = {}
  /\ unasked' = [s \in Sessions |-> {}]
  /\ UNCHANGED <<latest, input, message, revert, voided>>

Wound(s) ==
  /\ phase[s] = "stopping"
  /\ Execution!End(s)
  /\ UNCHANGED <<forced, drain, due, unasked, voided>> /\ UNCHANGED inboxVars

\* The drain ends with an error or a defect; what is owed is kept.
Fails(s) ==
  /\ Execution!End(s)
  /\ due' = IF owed[s] THEN due ELSE {i \in due : input[i] # None /\ input[i].session # s}
  /\ drain' = [drain EXCEPT ![s] = Off]
  /\ unasked' = [unasked EXCEPT ![s] = {}]
  /\ UNCHANGED <<forced, voided>>

Finish(s) ==
  /\ Execution!End(s)
  /\ drain' = [drain EXCEPT ![s] = Off]
  /\ UNCHANGED <<forced, due, unasked, voided>> /\ UNCHANGED inboxVars

-----------------------------------------------------------------------------
(* run *)

At(s, pc) == drain[s].pc = pc
Moves(s, d) == /\ drain' = [drain EXCEPT ![s] = d]
               /\ UNCHANGED execVars /\ UNCHANGED <<due, unasked, voided>>
               /\ UNCHANGED inboxVars

Promote(s, d, step) ==
  Moves(s, [drain[s] EXCEPT !.pc = "cutoff", !.promotion = d, !.force = FALSE, !.step = step])

StartSteer(s) ==
  /\ At(s, "start")
  /\ IF HasPending(s, "steer") THEN Promote(s, "steer", 1)
     ELSE Moves(s, [drain[s] EXCEPT !.pc = "start-queue"])

StartQueue(s) ==
  /\ At(s, "start-queue")
  /\ \/ HasPending(s, "queue") /\ Promote(s, "queue", 1)
     \/ ~HasPending(s, "queue") /\ drain[s].force /\ Promote(s, None, 1)
     \/ ~HasPending(s, "queue") /\ ~drain[s].force /\ Finish(s)

\* cutoff = latestSequence, and then the promotions it bounds.
Cutoff(s) ==
  /\ At(s, "cutoff")
  /\ Moves(s, [drain[s] EXCEPT !.cutoff = IF drain[s].promotion = None THEN 0 ELSE latest[s],
                               !.pc = CASE drain[s].promotion = "steer" -> "steers"
                                        [] drain[s].promotion = "queue" -> "queued"
                                        [] OTHER -> "ask"])

RowOf(i) == [id |-> i, delivery |-> input[i].delivery, time |-> input[i].time,
             admitted |-> input[i].admitted]

\* Mutant: newest first.
OrderedBackwards(ids) ==
  CHOOSE r \in [1 .. Cardinality(ids) -> ids] :
    \A j, k \in DOMAIN r : j < k => input[r[j]].admitted > input[r[k]].admitted

\* ORDER BY admitted_seq
Ordered(ids) ==
  CHOOSE r \in [1 .. Cardinality(ids) -> ids] :
    \A j, k \in DOMAIN r : j < k => input[r[j]].admitted < input[r[k]].admitted

Selects(s, ids) ==
  LET order == Ordered(ids) IN
  Moves(s, [drain[s] EXCEPT !.pc = "publish",
                            !.rows = [k \in DOMAIN order |-> RowOf(order[k])],
                            !.promoted = @ \/ ids # {}])

\* promoteNextQueued: the oldest queued input.
SelectQueued(s) ==
  LET queued == {i \in Ids : IsPending(i, s, "queue")} IN
  /\ At(s, "queued")
  /\ Selects(s, {i \in queued : \A j \in queued : input[i].admitted <= input[j].admitted})

\* promoteSteers: every steer up to the cutoff.
SelectSteers(s) ==
  /\ At(s, "steers")
  /\ Selects(s, {i \in Ids : IsPending(i, s, "steer") /\ input[i].admitted <= drain[s].cutoff})

\* Where a promotion goes on once its rows are published: the queued one is
\* followed by the steers, which are followed by the request.
Published(s) ==
  /\ At(s, "publish")
  /\ drain[s].rows = <<>>
  /\ IF drain[s].promotion = "queue"
     THEN Moves(s, [drain[s] EXCEPT !.pc = "steers", !.promotion = "steer"])
     ELSE Moves(s, [drain[s] EXCEPT !.pc = "ask", !.promotion = None, !.cutoff = 0,
                                    !.promoted = FALSE,
                                    !.step = IF drain[s].promoted THEN 1 ELSE @])

NextRow(s) == [drain[s] EXCEPT !.pc = "publish", !.rows = Tail(@)]

\* projectPrompted of the row in hand: it is still waiting, or its admission
\* has been reverted meanwhile and it is inserted anew.
Promotable(s, row) ==
  \/ /\ IsPending(row.id, s, row.delivery)
     /\ input[row.id].time = row.time
  \/ input[row.id] = None

\* Prompted commits with the input's promotion and the user message.
PublishPrompted(s) ==
  LET row == Head(drain[s].rows)
      admitted == IF input[row.id] = None THEN NextSeq(s) ELSE input[row.id].admitted IN
  /\ At(s, "publish")
  /\ drain[s].rows # <<>>
  /\ Promotable(s, row)
  /\ message[row.id] = None
  /\ latest[s] < MaxSeq
  /\ input' = [input EXCEPT ![row.id] =
                 [session |-> s, delivery |-> row.delivery, time |-> row.time,
                  admitted |-> admitted, promoted |-> NextSeq(s)]]
  /\ message' = [message EXCEPT ![row.id] =
                   [session |-> s, seq |-> NextSeq(s), type |-> "user"]]
  /\ Advance(s)
  /\ drain' = [drain EXCEPT ![s] = NextRow(s)]
  /\ due' = due \ {row.id}
  /\ unasked' = [unasked EXCEPT ![s] = @ \cup {row.id}]
  /\ voided' = IF input[row.id] = None \/ input[row.id].admitted # row.admitted
               THEN voided \cup {row.id} ELSE voided
  /\ UNCHANGED <<revert, client, undone>> /\ UNCHANGED execVars

PublishDies(s) ==
  /\ At(s, "publish")
  /\ drain[s].rows # <<>>
  /\ ~Promotable(s, Head(drain[s].rows))
  /\ Moves(s, [drain[s] EXCEPT !.pc = "recheck"])

\* A conflict is harmless when somebody else has promoted the input.
Recheck(s) ==
  LET row == input[Head(drain[s].rows).id] IN
  /\ At(s, "recheck")
  /\ IF row # None /\ row.promoted # Pending
     THEN Moves(s, NextRow(s))
     ELSE Fails(s) /\ UNCHANGED inboxVars

\* Compaction replaces the turn by another attempt that promotes nothing.
Compact(s) ==
  /\ At(s, "ask")
  /\ Room(s)
  /\ Advance(s)
  /\ UNCHANGED <<input, message, revert, client, undone, drain, due, unasked, voided>>
  /\ UNCHANGED execVars

\* Mutant: the request is built from history read before the promotion.
AskStale(s) ==
  /\ At(s, "ask")
  /\ Moves(s, [drain[s] EXCEPT !.pc = "turn"])

\* The request is built from the session's history as it is now.
Ask(s) ==
  /\ At(s, "ask")
  /\ drain' = [drain EXCEPT ![s].pc = "turn"]
  /\ unasked' = [unasked EXCEPT ![s] = {}]
  /\ UNCHANGED <<due, voided>> /\ UNCHANGED execVars /\ UNCHANGED inboxVars

\* The count of turns, which is only compared with limits up to Steps.
NextStep(s) == IF drain[s].step < Steps THEN drain[s].step + 1 ELSE Steps

\* Mutant: no limit withholds tools.
MayContinueAlways(s, limit) == limit \in {None, Steps}

\* Tools are withheld on the last step of the agent's limit, if it has one, so
\* that no call of a tool continues it.
MayContinue(s, limit) == limit # None => drain[s].step < limit

Continues(s) == Promote(s, "steer", NextStep(s))

\* A turn that calls tools is continued; the agent that took it has a limit
\* (a smaller one than Steps is a turn that ends although it might go on) or
\* has none.
Turn(s) ==
  /\ At(s, "turn")
  /\ \/ \E limit \in {Steps, None} : MayContinue(s, limit) /\ Continues(s)
     \/ Moves(s, [drain[s] EXCEPT !.pc = "after"])

\* Mutant: there is no outer loop.
AfterTurnFinishes(s) ==
  /\ At(s, "after")
  /\ IF HasPending(s, "steer") THEN Promote(s, "steer", NextStep(s)) ELSE Finish(s)

\* The inner loop goes on for steers accepted during the turn ...
AfterTurn(s) ==
  /\ At(s, "after")
  /\ IF HasPending(s, "steer")
     THEN Promote(s, "steer", NextStep(s))
     ELSE Moves(s, [drain[s] EXCEPT !.pc = "after-turns"])

\* ... and the outer one for the next queued input.
AfterTurns(s) ==
  /\ At(s, "after-turns")
  /\ IF HasPending(s, "queue") THEN Promote(s, "queue", 1) ELSE Finish(s)

\* Model resolution, the provider or a projector fails.
TurnFails(s) ==
  /\ drain[s].pc \in {"cutoff", "publish", "ask", "turn"}
  /\ Fails(s)
  /\ UNCHANGED inboxVars

Run(s) ==
  \/ StartSteer(s) \/ StartQueue(s) \/ Cutoff(s) \/ SelectQueued(s) \/ SelectSteers(s)
  \/ Published(s) \/ PublishPrompted(s) \/ PublishDies(s) \/ Recheck(s)
  \/ Ask(s) \/ Turn(s) \/ AfterTurn(s) \/ AfterTurns(s)

\* A commit of a revert voids the wakes and the promotions it deletes.
Serve ==
  /\ ClientStep
  /\ due' = {i \in due : input'[i] # None}
  /\ unasked' = [s \in Sessions |-> {i \in unasked[s] : input'[i] # None}]
  /\ voided' = {i \in voided : input'[i] # None}
  /\ UNCHANGED drain /\ UNCHANGED execVars

Next ==
  \/ Serve
  \/ \E c \in Clients : WakeFor(c)
  \/ \E s \in Sessions : \/ Resume(s) \/ Begin(s) \/ Stop(s) \/ Wound(s)
                         \/ Run(s) \/ Compact(s) \/ TurnFails(s)
  \/ Crash

Spec == Init /\ [][Next]_allVars

\* The coordinator begins what is owed and a drain that is not stopped runs; a
\* provider's turn ends, as its stream does or fails.
Fairness == \A s \in Sessions : /\ WF_allVars(Begin(s))
                                /\ WF_allVars(Wound(s))
                                /\ WF_allVars(Run(s))

FairSpec == Spec /\ Fairness

-----------------------------------------------------------------------------
(* Properties *)

\* The two tables agree: a user message stands for exactly the input promoted
\* with its sequence number, in its session, whatever was retried, reverted
\* or inserted anew in between.
TablesAgree ==
  /\ TypeOK
  /\ \A i \in Ids :
       /\ message[i] # None /\ message[i].type = "user" =>
            /\ input[i] # None
            /\ input[i].session = message[i].session
            /\ input[i].promoted = message[i].seq
       /\ input[i] # None /\ input[i].promoted # Pending =>
            message[i] = [session |-> input[i].session, seq |-> input[i].promoted, type |-> "user"]

\* Inputs of one kind enter the history in the order of their admission, but
\* for those a revert deleted between their selection and their promotion:
\* they are inserted anew, or, when their client has sent them again within
\* the same millisecond, promoted in the order of the deleted admissions.
PromotedInOrder ==
  \A i, j \in Ids \ voided :
    /\ input[i] # None /\ input[j] # None
    /\ input[i].session = input[j].session /\ input[i].delivery = input[j].delivery
    /\ input[i].admitted < input[j].admitted
    /\ input[j].promoted # Pending
    => input[i].promoted # Pending /\ input[i].promoted < input[j].promoted

\* An input whose client was told that it was accepted is recorded as asked,
\* until a revert deletes it.
AcceptedIsRecorded ==
  \A c \in Clients :
    client[c].pc = "accepted" =>
      LET r == client[c].req IN
      \/ c \in undone
      \/ /\ input[r.id] # None
         /\ input[r.id].session = r.session
         /\ input[r.id].delivery = r.delivery

\* A drain that runs its course never goes idle on an input it was woken for:
\* whenever the wake arrives between the loop's reads, some read will see the
\* input, or another execution is owed.
NothingStranded ==
  \A i \in due :
    /\ IsPending(i, input[i].session, input[i].delivery)
    /\ owed[input[i].session] \/ drain[input[i].session] # Off

\* What a drain promotes is put to the provider before it ends normally.
AskedBeforeIdle ==
  \A s \in Sessions :
    unasked[s] # {} => drain[s].pc \in {"publish", "recheck", "steers", "ask"}

\* An agent without a limit goes on where every limit would have ended it.
RunsOn(s) == At(s, "turn") /\ ~MayContinue(s, Steps) /\ Continues(s)

\* So an accepted input is promoted, unless its execution is stopped, the
\* process ends or a revert deletes it, as long as drains do not keep failing
\* and, from some time on, no agent without a step limit goes on calling tools
\* beyond every limit: nothing else ends its turns, and what is queued waits
\* for them for ever.
DuePromoted ==
  <>[][~\E s \in Sessions : TurnFails(s) \/ RunsOn(s)]_allVars =>
    \A i \in Ids : i \in due ~> i \notin due
=============================================================================
