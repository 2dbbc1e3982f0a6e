--------------------------- MODULE WorkspaceSync ---------------------------
(***************************************************************************)
(* A session's event log on the machine that lists it (home) and in the    *)
(* remote workspaces that run it.  Home keeps one sync loop per workspace: *)
(* it opens the workspace's live stream, asks for the history it lacks,    *)
(* replays it, then replays live events until the stream ends, and starts  *)
(* again; whatever is not caught inside ends the loop.  A warp moves a     *)
(* session: it fences the workspace left behind, sends the log to the new  *)
(* one and records the move at both ends.                                  *)
(*                                                                         *)
(* The network loses, delays and reorders live events (a stream may break; *)
(* a publisher may be interrupted between its commit and its announcement, *)
(* or overtaken there), any request may fail before or after it took       *)
(* effect, and home may crash.  Local workspaces share home's log: they    *)
(* are the place Nowhere too, but a warp out of one claims the session.    *)
(***************************************************************************)
EXTENDS Naturals, Sequences, FiniteSets, SequencesExt

CONSTANTS Sessions,
          Remotes,   \* remote workspaces, named by their ids
          Home,      \* this machine
          Warps,     \* calls of sessionWarp
          Nowhere,   \* no remote workspace, no owner
          Project,   \* an owner that is none of them: the project, a local workspace
          Origins,   \* bound: nodes where sessions are created
          Patching,  \* bound: nodes where sessions are patched
          MaxLen     \* bound: events of a session in one log

ASSUME SyncAssumption ==
  /\ IsFiniteSet(Sessions) /\ Remotes # {} /\ MaxLen \in Nat
  /\ Home \notin Remotes /\ Nowhere \notin Remotes /\ Project \notin Remotes \cup {Nowhere}
  /\ "keep" \notin Remotes \cup {Nowhere} /\ Remotes \cap Warps = {}
  /\ Origins \subseteq Remotes \cup {Home}

VARIABLES log,     \* each node's EventTable: a session's events in order of seq
          place,   \* home's SessionTable.workspace_id
          owner,   \* home's EventSequenceTable.owner_id
          link,    \* the sync loops
          pull,    \* requests for history, of loops and of warps
          warp     \* the warps

syncVars == <<log, place, owner, link, pull, warp>>

-----------------------------------------------------------------------------
(* Data *)

Nodes == Remotes \cup {Home}
Owners == Remotes \cup {Nowhere, Project}
Places == Remotes \cup {Nowhere}

\* Who published an event, and where, names it: a log only grows.  A session's
\* creation, its moves and its patches carry the workspace the session is in;
\* the events of its turns do not say ("keep").
Events == [sid: Sessions, seq: 1 .. MaxLen, by: Nodes, to: Places \cup {"keep"}]

NewEvent(n, s, to) == [sid |-> s, seq |-> Len(log[n][s]) + 1, by |-> n, to |-> to]

NoPull == [pc |-> "none"]
NoWarp == [pc |-> "ready"]

Pulls ==
  {NoPull} \cup [pc: {"asked"}, of: Remotes, known: [Sessions -> Nat]]
           \cup [pc: {"replaying"}, of: Remotes, batch: Seq(Events)]

WarpStates ==
  {NoWarp} \cup [pc: {"final", "claim", "move", "send", "steal", "set", "over"}, sid: Sessions,
                 from: Places, to: Places, claimed: BOOLEAN, rows: Seq(Events)]

WarpGoes(m, pc) == warp' = [warp EXCEPT ![m].pc = pc]
Ended(m) == [warp[m] EXCEPT !.pc = "over", !.rows = <<>>]
WarpOver(m) == warp' = [warp EXCEPT ![m] = Ended(m)]

SyncTypeOK ==
  /\ log \in [Nodes -> [Sessions -> Seq(Events)]]
  /\ place \in [Sessions -> Places]
  /\ owner \in [Sessions -> Owners]
  /\ link \in [Remotes -> {"none", "off", "history", "live"}]
  /\ pull \in [Remotes \cup Warps -> Pulls]
  /\ warp \in [Warps -> WarpStates]

SyncInit ==
  /\ log = [n \in Nodes |-> [s \in Sessions |-> <<>>]]
  /\ place = [s \in Sessions |-> Nowhere]
  /\ owner = [s \in Sessions |-> Nowhere]
  /\ link = [w \in Remotes |-> "none"]
  /\ pull = [x \in Remotes \cup Warps |-> NoPull]
  /\ warp = [m \in Warps |-> NoWarp]

-----------------------------------------------------------------------------
(* Publishing *)

At(n) == IF n = Home THEN Nowhere ELSE n

Append1(n, s, to) ==
  /\ Len(log[n][s]) < MaxLen
  /\ log' = [log EXCEPT ![n][s] = Append(@, NewEvent(n, s, to))]

\* A session is created at home or, by a proxied request, in a workspace.
Create(n, s) ==
  /\ n \in Origins
  /\ \A r \in Nodes : log[r][s] = <<>>
  /\ Append1(n, s, At(n))
  /\ UNCHANGED <<place, owner, link, pull, warp>>

\* Requests go where home believes the session to be; a turn that a request
\* has begun goes on where it is if the session is moved.
RunsAt(n, s) ==
  \/ log[Home][s] # <<>> /\ place[s] = At(n)
  \/ \E e \in ToSet(log[n][s]) : e.by = n /\ (e.to = "keep" \/ e.seq = 1)

\* What an update of the session may carry: the workspace its row was in when
\* it was read, which is any the node has seen it in.
Carried(n, s) ==
  {to \in Places : /\ n \in Patching /\ \E e \in ToSet(log[n][s]) : e.to = to
                   /\ n = Home => to # place[s]}

\* An event of a turn, or a patch; one that carries home's own row unchanged is
\* like an event that does not say.
Publish(n, s) ==
  /\ RunsAt(n, s)
  /\ \E to \in Carried(n, s) \cup {"keep"} :
       /\ Append1(n, s, to)
       /\ place' = IF n = Home /\ to # "keep" THEN [place EXCEPT ![s] = to] ELSE place
  /\ UNCHANGED <<owner, link, pull, warp>>

-----------------------------------------------------------------------------
(* Replaying at home an event that workspace w sent *)

HomeLen(s) == Len(log[Home][s])

\* Mutant: ownership is not looked at.
FencedNever(s, w) == FALSE

Fenced(s, w) == owner[s] \notin {Nowhere, w}

\* What is stored already must be the same; what is new must be the next,
\* unless the session belongs to somebody else.
Dies(e, w) ==
  \/ /\ e.seq <= HomeLen(e.sid)
     /\ log[Home][e.sid][e.seq] # e
  \/ /\ e.seq > HomeLen(e.sid) + 1
     /\ ~Fenced(e.sid, w)

Accepted(e, w) == e.seq = HomeLen(e.sid) + 1 /\ ~Fenced(e.sid, w)

\* The tables after a replay that did not die.
Replayed(e, w) ==
  LET s == e.sid IN
  /\ log' = IF Accepted(e, w) THEN [log EXCEPT ![Home][s] = Append(@, e)] ELSE log
  /\ owner' = [owner EXCEPT ![s] = IF @ = Nowhere THEN w ELSE @]
  /\ place' = IF Accepted(e, w) /\ e.to # "keep" THEN [place EXCEPT ![s] = e.to] ELSE place

Refused == UNCHANGED <<log, owner, place>>

-----------------------------------------------------------------------------
(* syncHistory, run by the loop of a workspace (x = w) or by a warp (x = m) *)

\* Mutant: what home has of a session is reported one event too far.
KnownPast(w) == [s \in Sessions |-> IF place[s] = w THEN HomeLen(s) + 1 ELSE 0]

\* The sequence numbers of the sessions home believes to be in w; of others it
\* asks for everything.
Known(w) == [s \in Sessions |-> IF place[s] = w THEN HomeLen(s) ELSE 0]

Ask(x, w) == pull' = [pull EXCEPT ![x] = [pc |-> "asked", of |-> w, known |-> Known(w)]]

\* The rows of w that are not excluded, in order of sequence number; those of
\* several sessions that have the same number come in any order.
Rows(w, known) ==
  UNION {{log[w][s][i] : i \in {j \in DOMAIN log[w][s] : j > known[s]}} : s \in Sessions}

Answers(w, known) ==
  {q \in SetToSeqs(Rows(w, known)) :
     \A j, k \in DOMAIN q : j < k => q[j].seq <= q[k].seq}

AnswerHistory(x) ==
  /\ pull[x].pc = "asked"
  /\ \E batch \in Answers(pull[x].of, pull[x].known) :
       pull' = [pull EXCEPT ![x] = [pc |-> "replaying", of |-> @.of, batch |-> batch]]
  /\ UNCHANGED <<log, place, owner, link, warp>>

\* One event of the answer; one that dies takes the fiber with it, since only
\* failures are caught there.
ReplayHistory(x) ==
  /\ pull[x].pc = "replaying"
  /\ pull[x].batch # <<>>
  /\ LET e == Head(pull[x].batch)
         w == pull[x].of IN
     IF Dies(e, w)
     THEN /\ Refused
          /\ pull' = [pull EXCEPT ![x] = NoPull]
          /\ IF x \in Remotes
             THEN link' = [link EXCEPT ![x] = "none"] /\ UNCHANGED warp
             ELSE WarpOver(x) /\ UNCHANGED link
     ELSE /\ Replayed(e, w)
          /\ pull' = [pull EXCEPT ![x].batch = Tail(@)]
          /\ UNCHANGED <<link, warp>>

HistoryReplayed(x) == pull[x].pc = "replaying" /\ pull[x].batch = <<>>

-----------------------------------------------------------------------------
(* The sync loop of a workspace *)

\* startSync begins a loop where there is "none" (or one that has ended), and
\* the loop itself tries again when it has paused ("off"); it asks for history
\* once the live stream has been opened.
Connect(w) ==
  /\ link[w] \in {"none", "off"}
  /\ link' = [link EXCEPT ![w] = "history"]
  /\ Ask(w, w)
  /\ UNCHANGED <<log, place, owner, warp>>

\* The request for history fails: status "error", and a pause.
HistoryFails(w) ==
  /\ link[w] = "history"
  /\ pull[w].pc = "asked"
  /\ link' = [link EXCEPT ![w] = "off"]
  /\ pull' = [pull EXCEPT ![w] = NoPull]
  /\ UNCHANGED <<log, place, owner, warp>>

\* Mutant: the history is not waited for.
GoLiveAtOnce(w) ==
  /\ link[w] = "history"
  /\ link' = [link EXCEPT ![w] = "live"]
  /\ pull' = [pull EXCEPT ![w] = NoPull]
  /\ UNCHANGED <<log, place, owner, warp>>

GoLive(w) ==
  /\ link[w] = "history"
  /\ HistoryReplayed(w)
  /\ link' = [link EXCEPT ![w] = "live"]
  /\ pull' = [pull EXCEPT ![w] = NoPull]
  /\ UNCHANGED <<log, place, owner, warp>>

\* A live event: any the workspace has published itself, however late and
\* after whichever others, or never.  One whose replay dies is dropped.
ReplayLive(w) ==
  /\ link[w] = "live"
  /\ \E s \in Sessions : \E e \in ToSet(log[w][s]) :
       /\ e.by = w
       /\ ~Dies(e, w)
       /\ Replayed(e, w)
  /\ UNCHANGED <<link, pull, warp>>

\* The stream ends, and the loop pauses ...
Disconnect(w) ==
  /\ link[w] = "live"
  /\ link' = [link EXCEPT ![w] = "off"]
  /\ UNCHANGED <<log, place, owner, pull, warp>>

\* ... or reading it fails: nothing in the loop catches that, so startSync
\* notes the error and the loop is over.
StreamFails(w) ==
  /\ link[w] = "live"
  /\ link' = [link EXCEPT ![w] = "none"]
  /\ UNCHANGED <<log, place, owner, pull, warp>>

-----------------------------------------------------------------------------
(* sessionWarp *)

\* Where a warp begins: a remote workspace is asked for its last events, a
\* local one is only claimed from, and without one there is nothing to leave.
Leaving(s) == IF place[s] # Nowhere THEN {"final"} ELSE {"claim", "move"}

\* Calls are named in the order they begin.
WarpStart(m, s, to) ==
  /\ warp[m].pc = "ready"
  /\ m = CHOOSE n \in Warps : warp[n].pc = "ready"
  /\ log[Home][s] # <<>>
  /\ \E pc \in Leaving(s) :
       warp' = [warp EXCEPT ![m] = [pc |-> pc, sid |-> s, from |-> place[s], to |-> to,
                                    claimed |-> FALSE, rows |-> <<>>]]
  /\ IF place[s] = Nowhere THEN UNCHANGED pull ELSE Ask(m, place[s])
  /\ UNCHANGED <<log, place, owner, link>>

\* The last events of the workspace that is left, if it answers.
FinalSynced(m) ==
  /\ warp[m].pc = "final"
  /\ pull[m].pc = "asked" \/ HistoryReplayed(m)
  /\ WarpGoes(m, "claim")
  /\ pull' = [pull EXCEPT ![m] = NoPull]
  /\ UNCHANGED <<log, place, owner, link>>

\* Mutant: the source is not fenced.
ClaimsNothing(m) ==
  /\ warp[m].pc = "claim"
  /\ warp' = [warp EXCEPT ![m].pc = "move", ![m].claimed = TRUE]
  /\ UNCHANGED <<log, place, owner, link, pull>>

\* "claim" the session so that later events of the workspace left are ignored.
Claim(m) ==
  /\ warp[m].pc = "claim"
  /\ owner' = [owner EXCEPT ![warp[m].sid] = IF warp[m].to = Nowhere THEN Project ELSE warp[m].to]
  /\ warp' = [warp EXCEPT ![m].pc = "move", ![m].claimed = TRUE]
  /\ UNCHANGED <<log, place, link, pull>>

\* A move to no workspace or to a local one is recorded at home only.
Detach(m) ==
  LET s == warp[m].sid IN
  /\ warp[m].pc = "move" /\ warp[m].to = Nowhere
  /\ Append1(Home, s, Nowhere)
  /\ place' = [place EXCEPT ![s] = Nowhere]
  /\ WarpOver(m)
  /\ UNCHANGED <<owner, link, pull>>

ReadRows(m) ==
  /\ warp[m].pc = "move" /\ warp[m].to # Nowhere
  /\ warp' = [warp EXCEPT ![m].pc = "send", ![m].rows = log[Home][warp[m].sid]]
  /\ UNCHANGED <<log, place, owner, link, pull>>

\* The target replays one event; it announces none of them.  One that differs
\* from what it has fails the request, and the warp.
SendRow(m) ==
  LET w == warp[m].to
      s == warp[m].sid
      e == Head(warp[m].rows)
      n == Len(log[w][s]) IN
  /\ warp[m].pc = "send"
  /\ warp[m].rows # <<>>
  /\ IF e.seq <= n /\ log[w][s][e.seq] # e
     THEN WarpOver(m) /\ UNCHANGED log
     ELSE /\ log' = IF e.seq = n + 1 THEN [log EXCEPT ![w][s] = Append(@, e)] ELSE log
          /\ warp' = [warp EXCEPT ![m].rows = Tail(@),
                                  ![m].pc = IF Len(warp[m].rows) = 1 THEN "steal" ELSE @]
  /\ UNCHANGED <<place, owner, link, pull>>

\* The target publishes that the session is now in it.
Steal(m) ==
  LET w == warp[m].to
      s == warp[m].sid IN
  /\ warp[m].pc = "steal"
  /\ Append1(w, s, w)
  /\ WarpGoes(m, "set")
  /\ UNCHANGED <<place, owner, link, pull>>

\* And home publishes the same, with an event of its own.
SetWorkspace(m) ==
  LET s == warp[m].sid IN
  /\ warp[m].pc = "set"
  /\ Append1(Home, s, warp[m].to)
  /\ place' = [place EXCEPT ![s] = warp[m].to]
  /\ WarpOver(m)
  /\ UNCHANGED <<owner, link, pull>>

\* The patch does not apply, a request fails, or its response is lost.
WarpFails(m) ==
  /\ warp[m].pc \in {"move", "send", "steal", "set"}
  /\ WarpOver(m)
  /\ UNCHANGED <<log, place, owner, link, pull>>

\* Home stops: its tables stay.
Crash ==
  /\ link' = [w \in Remotes |-> "none"]
  /\ pull' = [x \in Remotes \cup Warps |-> NoPull]
  /\ warp' = [m \in Warps |-> IF warp[m].pc = "ready" THEN NoWarp ELSE Ended(m)]
  /\ UNCHANGED <<log, place, owner>>

-----------------------------------------------------------------------------

Loop(w) ==
  \/ Connect(w) \/ HistoryFails(w) \/ GoLive(w) \/ ReplayLive(w) \/ Disconnect(w)
  \/ StreamFails(w)

Warping(m) ==
  \/ \E s \in Sessions, to \in Places : WarpStart(m, s, to)
  \/ FinalSynced(m) \/ Claim(m) \/ Detach(m) \/ ReadRows(m) \/ SendRow(m) \/ Steal(m)
  \/ SetWorkspace(m) \/ WarpFails(m)

SyncNext ==
  \/ \E n \in Nodes, s \in Sessions : Create(n, s) \/ Publish(n, s)
  \/ \E w \in Remotes : Loop(w)
  \/ \E x \in Remotes \cup Warps : AnswerHistory(x) \/ ReplayHistory(x)
  \/ \E m \in Warps : Warping(m)
  \/ Crash

SyncSpec == SyncInit /\ [][SyncNext]_syncVars

-----------------------------------------------------------------------------
(* Properties *)

Diverged(s, w) ==
  \E i \in DOMAIN log[Home][s] : i \in DOMAIN log[w][s] /\ log[Home][s][i] # log[w][s][i]

\* The warps that have claimed the session, and those that found it in no
\* remote workspace when they began.
Claims(s) == {m \in Warps : warp[m].pc # "ready" /\ warp[m].sid = s /\ warp[m].claimed}
Loose(s) == {m \in Warps : warp[m].pc # "ready" /\ warp[m].sid = s /\ warp[m].from = Nowhere}

\* A fence was raised and lifted again, perhaps between two events of one
\* answer, or one was raised after two warps had taken the session from home.
Contested(s) ==
  \/ \E m, n \in Claims(s) : m # n
  \/ Claims(s) # {} /\ \E m, n \in Loose(s) : m # n

\* What home has received since it last published anything of a session itself
\* comes from one workspace, with none of that workspace's events missing:
\* however live events, history and the last requests of warps interleave, two
\* workspaces that both go on with a session are not mixed, unless contested.
OneSource ==
  /\ SyncTypeOK
  /\ \A s \in Sessions : ~Contested(s) => \E w \in Remotes :
       \A i \in DOMAIN log[Home][s] :
         (\A j \in i .. HomeLen(s) : log[Home][s][j].by # Home) =>
           i \in DOMAIN log[w][s] /\ log[w][s][i] = log[Home][s][i]

\* A warp from one workspace to another that reaches its end leaves nothing
\* behind: what home has of the session that it did not publish itself, the new
\* workspace has, whatever the old one went on to publish during the warp.
NothingLeftBehind ==
  [][\A m \in Warps :
       warp[m].pc = "set" /\ log'[Home] # log[Home] /\ warp'[m].pc = "over" =>
         LET s == warp[m].sid
             w == warp[m].to IN
         warp[m].claimed /\ ~Contested(s) =>
           \A i \in DOMAIN log[Home][s] :
             log[Home][s][i].by # Home => i \in DOMAIN log[w][s] /\ log[w][s][i] = log[Home][s][i]]_syncVars

\* What home asked for when it stood elsewhere still fits when it is replayed:
\* the next event of an answer kills the loop or the warp that asked only over a
\* session of which home and the workspace hold different events, or a contested
\* one.  Live events, other answers and warps in between leave no gap.
HistoryFits ==
  \A x \in Remotes \cup Warps :
    pull[x].pc = "replaying" /\ pull[x].batch # <<>> =>
      LET e == Head(pull[x].batch)
          w == pull[x].of IN
      Dies(e, w) => Diverged(e.sid, w) \/ Contested(e.sid)

\* A session that stays in a workspace, unfenced and undiverged, is followed to
\* the end of the workspace's log as long as it is connected to again now and
\* then (by the loop after a stream that ends, by startSync after one that
\* fails), whatever live events were lost or refused.
Follows(s, w) == place[s] = w /\ ~Fenced(s, w) /\ ~Diverged(s, w)

CatchesUp ==
  \A s \in Sessions, w \in Remotes :
    <>[]Follows(s, w) /\ []<>(link[w] = "live") /\ []<>(link[w] # "live")
      => <>[](HomeLen(s) >= Len(log[w][s]))
=============================================================================
