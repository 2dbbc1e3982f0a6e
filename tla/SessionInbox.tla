---------------------------- MODULE SessionInbox ----------------------------
(***************************************************************************)
(* The durable inbox of a session: prompts are admitted into SessionInput- *)
(* Table and wait there until a runner promotes them into the session's    *)
(* history.  Both steps are durable events, projected in the transaction   *)
(* that gives the event its sequence number; everything around a           *)
(* transaction interleaves with it.  Reverting a session deletes what      *)
(* followed a message from both tables.                                    *)
(*                                                                         *)
(* This module is the tables and the clients of SessionV2.Service.         *)
(* SessionDrain adds the runner.                                           *)
(***************************************************************************)
EXTENDS Integers, FiniteSets, Sequences

CONSTANTS Sessions,
          Ids,         \* message ids, chosen by clients or by the server
          History,     \* ids of messages recorded before there was an inbox
          Deliveries,  \* of {"steer", "queue"}
          Resumes,     \* of BOOLEAN: whether prompts ask for a wake
          Times,       \* timestamps of admissions; two may be equal
          Clients,     \* fibers serving requests
          MaxSeq,      \* bound: sequence numbers of a session
          None

ASSUME InboxAssumption ==
  /\ History \subseteq Ids
  /\ Deliveries \subseteq {"steer", "queue"} /\ Resumes \subseteq BOOLEAN
  /\ MaxSeq \in Nat /\ MaxSeq > 1
  /\ IsFiniteSet(Ids)
  /\ None \notin Ids \cup Sessions \cup {"steer", "queue"}

VARIABLES latest,   \* latest[s]: EventV2.latestSequence
          input,    \* SessionInputTable, by its primary key
          message,  \* SessionMessageTable, by its primary key
          revert,   \* revert[s]: SessionTable.revert.messageID
          client,   \* what each client is doing
          undone    \* ghost: clients whose answer a committed revert has voided

vars == <<latest, input, message, revert, client, undone>>

Seqs == 0 .. MaxSeq
Pending == -1  \* promoted_seq is null

Rows == [session: Sessions, delivery: Deliveries, time: Times,
         admitted: Seqs, promoted: Seqs \cup {Pending}]
Messages == [session: Sessions, seq: Seqs, type: {"user", "other"}]

ASSUME AbsentRow == None \notin Rows \cup Messages

\* The request a client of prompt() serves, and the wake it asks for.
Requests == [id: Ids, session: Sessions, delivery: Deliveries, resume: Resumes]

\* A prompt stands before find, the publication of PromptAdmitted, the second
\* find of a defect, or the comparison and the wake; "accepted" and "conflict"
\* are its results.  The revert operations stand before their publication.
ClientStates ==
  [pc: {"idle"}] \cup
  [pc: {"find", "publish", "recover", "accepted", "conflict"}, req: Requests] \cup
  [pc: {"answer"}, req: Requests, row: Rows] \cup
  [pc: {"stage", "commit"}, session: Sessions, id: Ids] \cup
  [pc: {"clear"}, session: Sessions]

InboxTypeOK ==
  /\ latest \in [Sessions -> Seqs]
  /\ input \in [Ids -> Rows \cup {None}]
  /\ message \in [Ids -> Messages \cup {None}]
  /\ revert \in [Sessions -> Ids \cup {None}]
  /\ client \in [Clients -> ClientStates]
  /\ undone \subseteq Clients

\* A session's Created event has sequence number 0; its legacy message, if it
\* has one, is at 1 and may have been staged as the boundary of a revert.
InboxInit ==
  /\ latest = [s \in Sessions |-> 1]
  /\ input = [i \in Ids |-> None]
  /\ \E home \in [History -> Sessions] :
       /\ \A i, j \in History : home[i] = home[j] => i = j
       /\ message = [i \in Ids |-> IF i \in History
                                   THEN [session |-> home[i], seq |-> 1, type |-> "other"]
                                   ELSE None]
  /\ revert \in [Sessions -> History \cup {None}]
  /\ \A s \in Sessions : revert[s] # None => message[revert[s]].session = s
  /\ client = [c \in Clients |-> [pc |-> "idle"]]
  /\ undone = {}

-----------------------------------------------------------------------------
(* Tables *)

\* Ids waiting in s, oldest first: what hasPending and the promotions select.
IsPending(i, s, d) == /\ input[i] # None
                      /\ input[i].session = s
                      /\ input[i].delivery = d
                      /\ input[i].promoted = Pending
HasPending(s, d) == \E i \in Ids : IsPending(i, s, d)

\* A publication takes the next number of its session.
NextSeq(s) == latest[s] + 1
Advance(s) == latest' = [latest EXCEPT ![s] = NextSeq(s)]

\* Bound: a client leaves one number for each input that may yet be promoted.
Room(s) == latest[s] + Cardinality(Ids \ History) < MaxSeq

Idle(c) == client[c].pc \in {"idle", "accepted", "conflict"}
Goto(c, state) == client' = [client EXCEPT ![c] = state]
Become(c, pc) == Goto(c, [pc |-> pc, req |-> client[c].req])

-----------------------------------------------------------------------------
(* prompt() *)

Submit(c, r) ==
  /\ Idle(c)
  /\ Goto(c, [pc |-> "find", req |-> r])
  /\ undone' = undone \ {c}
  /\ UNCHANGED <<latest, input, message, revert>>

Find(c) ==
  /\ client[c].pc = "find"
  /\ LET row == input[client[c].req.id] IN
     IF row = None THEN Become(c, "publish")
     ELSE Goto(c, [pc |-> "answer", req |-> client[c].req, row |-> row])
  /\ UNCHANGED <<latest, input, message, revert, undone>>

\* projectAdmitted: the id is new to both tables.
Admissible(i) == message[i] = None /\ input[i] = None

\* PromptAdmitted commits with the row it projects, or its projector dies.
Admit(c) ==
  LET r == client[c].req IN
  /\ client[c].pc = "publish"
  /\ Admissible(r.id)
  /\ Room(r.session)
  /\ \E t \in Times :
       LET row == [session |-> r.session, delivery |-> r.delivery, time |-> t,
                   admitted |-> NextSeq(r.session), promoted |-> Pending] IN
       /\ input' = [input EXCEPT ![r.id] = row]
       /\ Goto(c, [pc |-> "answer", req |-> r, row |-> row])
  /\ Advance(r.session)
  /\ UNCHANGED <<message, revert, undone>>

AdmitDies(c) ==
  /\ client[c].pc = "publish"
  /\ ~Admissible(client[c].req.id)
  /\ Become(c, "recover")
  /\ UNCHANGED <<latest, input, message, revert, undone>>

\* Mutant: the admission that won answers for any prompt with its id.
RecoverAccepts(c) ==
  /\ client[c].pc = "recover"
  /\ Become(c, IF input[client[c].req.id] = None THEN "conflict" ELSE "accepted")
  /\ UNCHANGED <<latest, input, message, revert, undone>>

\* The defect of a concurrent retry becomes the admission that won.
Recover(c) ==
  /\ client[c].pc = "recover"
  /\ LET row == input[client[c].req.id] IN
     IF row = None THEN Become(c, "conflict")
     ELSE Goto(c, [pc |-> "answer", req |-> client[c].req, row |-> row])
  /\ UNCHANGED <<latest, input, message, revert, undone>>

\* The prompt's text stands in its delivery: both must be those recorded.
Equivalent(row, r) == row.session = r.session /\ row.delivery = r.delivery

\* The end of prompt(): wakes(s) is the wake it hands to the execution.
Answer(c, wakes) ==
  LET r == client[c].req IN
  /\ client[c].pc = "answer"
  /\ IF Equivalent(client[c].row, r)
     THEN Become(c, "accepted") /\ wakes = r.resume
     ELSE Become(c, "conflict") /\ ~wakes
  /\ UNCHANGED <<latest, input, message, revert, undone>>

-----------------------------------------------------------------------------
(* revert.stage, clear and commit: each reads the session and publishes after *)

Stage(c, s, i) ==
  /\ Idle(c)
  /\ message[i] # None
  /\ message[i].session = s
  /\ Goto(c, [pc |-> "stage", session |-> s, id |-> i])
  /\ undone' = undone \ {c}
  /\ UNCHANGED <<latest, input, message, revert>>

Staged(c) ==
  LET s == client[c].session IN
  /\ client[c].pc = "stage"
  /\ Room(s)
  /\ revert' = [revert EXCEPT ![s] = client[c].id]
  /\ Advance(s)
  /\ Goto(c, [pc |-> "idle"])
  /\ UNCHANGED <<input, message, undone>>

Clear(c, s) ==
  /\ Idle(c)
  /\ revert[s] # None
  /\ Goto(c, [pc |-> "clear", session |-> s])
  /\ undone' = undone \ {c}
  /\ UNCHANGED <<latest, input, message, revert>>

Cleared(c) ==
  LET s == client[c].session IN
  /\ client[c].pc = "clear"
  /\ Room(s)
  /\ revert' = [revert EXCEPT ![s] = None]
  /\ Advance(s)
  /\ Goto(c, [pc |-> "idle"])
  /\ UNCHANGED <<input, message, undone>>

Commit(c, s) ==
  /\ Idle(c)
  /\ revert[s] # None
  /\ Goto(c, [pc |-> "commit", session |-> s, id |-> revert[s]])
  /\ undone' = undone \ {c}
  /\ UNCHANGED <<latest, input, message, revert>>

\* Mutant: only inputs that still wait are deleted.
DroppedPending(i, s, seq) ==
  /\ input[i] # None
  /\ input[i].session = s
  /\ input[i].admitted > seq /\ input[i].promoted = Pending

\* The inputs that the projector of Committed deletes: those admitted or
\* promoted after the boundary.
Dropped(i, s, seq) ==
  /\ input[i] # None
  /\ input[i].session = s
  /\ input[i].admitted > seq \/ input[i].promoted > seq

Committed(c) ==
  LET s == client[c].session
      boundary == message[client[c].id] IN
  /\ client[c].pc = "commit"
  /\ boundary # None /\ boundary.session = s
  /\ Room(s)
  /\ message' = [i \in Ids |-> IF /\ message[i] # None
                                  /\ message[i].session = s
                                  /\ message[i].seq > boundary.seq
                               THEN None ELSE message[i]]
  /\ input' = [i \in Ids |-> IF Dropped(i, s, boundary.seq) THEN None ELSE input[i]]
  /\ undone' = undone \cup {d \in Clients : /\ client[d].pc \in {"answer", "accepted"}
                                          /\ Dropped(client[d].req.id, s, boundary.seq)}
  /\ revert' = [revert EXCEPT ![s] = None]
  /\ Advance(s)
  /\ Goto(c, [pc |-> "idle"])

\* An earlier commit deleted the boundary: the projector dies.
CommitDies(c) ==
  LET boundary == message[client[c].id] IN
  /\ client[c].pc = "commit"
  /\ boundary = None \/ boundary.session # client[c].session
  /\ Goto(c, [pc |-> "idle"])
  /\ UNCHANGED <<latest, input, message, revert, undone>>

-----------------------------------------------------------------------------

\* What clients do by themselves; a wake is passed on by SessionDrain.
ClientStep ==
  \E c \in Clients :
    \/ \E r \in Requests : Submit(c, r)
    \/ Find(c) \/ Admit(c) \/ AdmitDies(c) \/ Recover(c)
    \/ \E s \in Sessions : Clear(c, s) \/ Commit(c, s) \/ \E i \in Ids : Stage(c, s, i)
    \/ Staged(c) \/ Cleared(c) \/ Committed(c) \/ CommitDies(c)
=============================================================================
