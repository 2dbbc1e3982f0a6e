------------------------------- MODULE Flock -------------------------------
(***************************************************************************)
(* The lock that processes of one host share through the file system: a    *)
(* directory whose creation is the lock, a heartbeat file its owner        *)
(* touches while it holds the lock, and a file with its owner's token.  A  *)
(* lock that nobody has touched for staleMs is removed by a contender that *)
(* has created the breaker directory.                                      *)
(*                                                                         *)
(* Every file operation is a step.  Time is the one action Age, in which   *)
(* staleMs pass: it happens only between attempts, so no process is ever   *)
(* suspended for that long in the middle of one.                           *)
(***************************************************************************)
EXTENDS Integers, FiniteSets

CONSTANTS Procs,
          MaxCrashes  \* bound: crashes

ASSUME FlockAssumption == MaxCrashes \in Nat

VARIABLES dir,      \* lockDir: missing, or the age of its mtime
          heart,    \* lockDir/heartbeat
          meta,     \* lockDir/meta.json
          breaker,  \* lockDir.breaker
          proc,     \* the attempt of each process
          strained  \* ghost: what has happened that removals may mistake

vars == <<dir, heart, meta, breaker, proc, strained>>

-----------------------------------------------------------------------------
(* Files and processes *)

Ages == {"none", "fresh", "old"}
None == [token |-> "none", age |-> "none"]

\* "heart?", "meta?", "dir?": the stats of stale(); "claim": mkdir of the
\* breaker; "theirs", "unclaim": before the removal of another's breaker, of
\* its own; "rm": inside rm(lockDir), which goes on at `next`.
Pcs == {"idle", "heart?", "meta?", "dir?", "claim", "breaker?", "theirs", "rm", "remake",
        "unclaim", "heartbeat", "meta", "holding", "release", "dead"}
ProcStates == [pc: Pcs, next: {"idle", "remake", "heartbeat"}, breaks: BOOLEAN]

TypeOK ==
  /\ dir \in Ages /\ heart \in Ages /\ breaker \in Ages
  /\ meta \in [token: Procs, age: {"fresh", "old"}] \cup {None}
  /\ proc \in [Procs -> ProcStates]
  /\ strained \subseteq {"long hold", "breaker left"}

Init ==
  /\ dir = "none" /\ heart = "none" /\ breaker = "none"
  /\ meta = None
  /\ proc = [p \in Procs |-> [pc |-> "idle", next |-> "idle", breaks |-> FALSE]]
  /\ strained = {}

At(p, pc) == proc[p].pc = pc
Goes(p, pc) == proc' = [proc EXCEPT ![p].pc = pc]
Then(p, pc, next, breaks) == proc' = [proc EXCEPT ![p] = [pc |-> pc, next |-> next, breaks |-> breaks]]
Files == <<dir, heart, meta, breaker>>

-----------------------------------------------------------------------------
(* stale *)

\* A verdict of stale(): the first one leads to the breaker, the second, with
\* the breaker, to the removal of the lock.
Verdict(p, age) ==
  IF proc[p].breaks
  THEN IF age = "old" THEN Then(p, "rm", "remake", TRUE) ELSE Then(p, "unclaim", "idle", TRUE)
  ELSE Goes(p, IF age = "old" THEN "claim" ELSE "idle")

StatHeart(p) ==
  /\ At(p, "heart?")
  /\ IF heart = "none" THEN Goes(p, "meta?") ELSE Verdict(p, heart)
  /\ UNCHANGED Files

StatMeta(p) ==
  /\ At(p, "meta?")
  /\ IF meta = None THEN Goes(p, "dir?") ELSE Verdict(p, meta.age)
  /\ UNCHANGED Files

StatDir(p) ==
  /\ At(p, "dir?")
  /\ Verdict(p, dir)
  /\ UNCHANGED Files

-----------------------------------------------------------------------------
(* tryAcquireLockDir *)

Try(p) ==
  /\ At(p, "idle")
  /\ IF dir = "none" THEN dir' = "fresh" /\ Goes(p, "heartbeat")
     ELSE Goes(p, "heart?") /\ UNCHANGED dir
  /\ UNCHANGED <<heart, meta, breaker>>

\* Mutant: any contender that finds the lock stale removes it.
ClaimAlways(p) ==
  /\ At(p, "claim")
  /\ breaker' = "fresh"
  /\ Then(p, "rm", "remake", TRUE)
  /\ UNCHANGED <<dir, heart, meta>>

Claim(p) ==
  /\ At(p, "claim")
  /\ IF breaker = "none"
     THEN breaker' = "fresh" /\ Then(p, "heart?", "idle", TRUE)
     ELSE Goes(p, "breaker?") /\ UNCHANGED breaker
  /\ UNCHANGED <<dir, heart, meta>>

StatBreaker(p) ==
  /\ At(p, "breaker?")
  /\ Goes(p, IF breaker = "old" THEN "theirs" ELSE "idle")
  /\ UNCHANGED Files

\* Mutant: a breaker that was left behind stays.
KeepTheirs(p) ==
  /\ At(p, "theirs")
  /\ Goes(p, "idle")
  /\ UNCHANGED Files

RemoveTheirs(p) ==
  /\ At(p, "theirs")
  /\ breaker' = "none"
  /\ Goes(p, "idle")
  /\ UNCHANGED <<dir, heart, meta>>

\* rm(lockDir, { recursive: true }) unlinks what it finds, in any order, and
\* removes the directory when that is empty; each unlink renews its mtime.
Remove(p) ==
  /\ At(p, "rm")
  /\ \/ heart # "none" /\ heart' = "none" /\ dir' = "fresh" /\ UNCHANGED <<meta, proc>>
     \/ meta # None /\ meta' = None /\ dir' = "fresh" /\ UNCHANGED <<heart, proc>>
     \/ /\ heart = "none" /\ meta = None
        /\ dir' = "none"
        /\ Goes(p, proc[p].next)
        /\ UNCHANGED <<heart, meta>>
  /\ UNCHANGED breaker

Remake(p) ==
  /\ At(p, "remake")
  /\ IF dir = "none" THEN dir' = "fresh" /\ Then(p, "unclaim", "heartbeat", TRUE)
     ELSE Then(p, "unclaim", "idle", TRUE) /\ UNCHANGED dir
  /\ UNCHANGED <<heart, meta, breaker>>

Unclaim(p) ==
  /\ At(p, "unclaim")
  /\ breaker' = "none"
  /\ Then(p, proc[p].next, "idle", FALSE)
  /\ UNCHANGED <<dir, heart, meta>>

\* A write with flag "wx" fails when the file exists or the directory does
\* not; the directory is then removed and the attempt fails.
WriteFails(p) == Then(p, "rm", "idle", FALSE) /\ UNCHANGED Files

WriteHeartbeat(p) ==
  /\ At(p, "heartbeat")
  /\ IF dir # "none" /\ heart = "none"
     THEN heart' = "fresh" /\ dir' = "fresh" /\ Goes(p, "meta") /\ UNCHANGED <<meta, breaker>>
     ELSE WriteFails(p)

WriteMeta(p) ==
  /\ At(p, "meta")
  /\ IF dir # "none" /\ meta = None
     THEN /\ meta' = [token |-> p, age |-> "fresh"]
          /\ dir' = "fresh"
          /\ Goes(p, "holding")
          /\ UNCHANGED <<heart, breaker>>
     ELSE WriteFails(p)

-----------------------------------------------------------------------------
(* release, crashes and time *)

\* release() stops the heartbeats first.
Release(p) ==
  /\ At(p, "holding")
  /\ Goes(p, "release")
  /\ UNCHANGED Files

\* A lock that is missing, or another's, is not removed: release throws.
ReleaseReads(p) ==
  /\ At(p, "release")
  /\ IF meta.token = p
     THEN Then(p, "rm", "idle", FALSE)
     ELSE Goes(p, "idle")
  /\ UNCHANGED Files

Dead == {p \in Procs : At(p, "dead")}

Crash(p) ==
  /\ p \notin Dead
  /\ Cardinality(Dead) < MaxCrashes
  /\ Then(p, "dead", "idle", FALSE)
  /\ strained' = IF proc[p].breaks THEN strained \cup {"breaker left"} ELSE strained
  /\ UNCHANGED Files

Older(age) == IF age = "none" THEN "none" ELSE "old"
AtRest == \A p \in Procs : proc[p].pc \in {"idle", "holding", "dead"}
Held == \E p \in Procs : At(p, "holding")

\* staleMs pass.  The timer of a process that holds the lock touches the
\* heartbeat several times meanwhile.
Age ==
  /\ AtRest
  /\ dir' = Older(dir)
  /\ breaker' = Older(breaker)
  /\ heart' = IF Held THEN heart ELSE Older(heart)
  /\ meta' = IF meta = None THEN None ELSE [meta EXCEPT !.age = "old"]
  /\ strained' = IF Held THEN strained \cup {"long hold"} ELSE strained
  /\ UNCHANGED proc

-----------------------------------------------------------------------------

Attempt(p) ==
  \/ Try(p) \/ StatHeart(p) \/ StatMeta(p) \/ StatDir(p)
  \/ Claim(p) \/ StatBreaker(p) \/ RemoveTheirs(p)
  \/ Remove(p) \/ Remake(p) \/ Unclaim(p)
  \/ WriteHeartbeat(p) \/ WriteMeta(p)
  \/ Release(p) \/ ReleaseReads(p)

Next == Age \/ \E p \in Procs : (Attempt(p) /\ UNCHANGED strained) \/ Crash(p)

Spec == Init /\ [][Next]_vars

\* Contenders retry, holders release in the end, and time passes.
Fairness == SF_vars(Age) /\ \A p \in Procs : WF_vars(Attempt(p) /\ UNCHANGED strained)

FairSpec == Spec /\ Fairness

-----------------------------------------------------------------------------
(* Properties *)

\* The lock admits one process at a time.
MutualExclusion == \A p, q \in Procs : At(p, "holding") /\ At(q, "holding") => p = q

\* While a process holds the lock its directory and its files are in place,
\* and so nobody else holds it, whatever the contenders that found an earlier
\* lock stale are still doing.  Two things may break this: a lock that was
\* held for longer than staleMs, whose meta.json looks stale while its release
\* has removed the heartbeat already; and a breaker whose owner crashed, which
\* a contender may remove after another has replaced it.
HolderKeepsLock ==
  /\ TypeOK
  /\ strained = {} =>
       \A p \in Procs : At(p, "holding") => dir # "none" /\ heart # "none" /\ meta.token = p

\* A contender works on the lock: it made the directory or removes it.
Live == \E p \in Procs : proc[p].pc \in {"rm", "remake", "unclaim", "heartbeat", "meta", "holding", "release"}

\* A lock whose owner crashed, with or without a breaker left behind, lets a
\* contender in or is gone in the end, if the contenders' attempts, which are
\* short, are not always overlapping.
CrashRecovered == []<>AtRest => ((dir # "none" /\ ~Live) ~> (dir = "none" \/ Live))
=============================================================================
