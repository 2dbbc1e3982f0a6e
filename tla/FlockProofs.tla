---------------------------- MODULE FlockProofs ----------------------------
(***************************************************************************)
(* Theorems about Flock for any processes and any number of crashes.       *)
(*                                                                         *)
(* HolderKeepsLock is not inductive: that a verdict of stale() leaves a    *)
(* holder's lock alone needs to know that a lock in use has nothing old in *)
(* it (Current), and that nobody but its owner is removing or filling the  *)
(* directory (OneOwner).  The latter needs the breaker: whoever has judged *)
(* the lock with the breaker in hand is alone in that (OneBreaker).        *)
(***************************************************************************)
EXTENDS Flock, TLAPS

\* A directory that is not there has nothing in it, and an attempt knows
\* whether it has the breaker and where it goes on.
Shape ==
  /\ dir = "none" => heart = "none" /\ meta = None
  /\ \A p \in Procs :
       /\ proc[p].breaks => proc[p].pc \in {"heart?", "meta?", "dir?", "rm", "remake", "unclaim"}
       /\ proc[p].pc \in {"remake", "unclaim"} => proc[p].breaks
       /\ proc[p].pc = "rm" => proc[p].next = (IF proc[p].breaks THEN "remake" ELSE "idle")
       /\ proc[p].pc = "unclaim" => proc[p].next \in {"idle", "heartbeat"}

\* p made the directory that is there, and fills, holds or removes it.
Made(p) ==
  \/ proc[p].pc \in {"heartbeat", "meta", "holding", "release"}
  \/ proc[p].pc = "rm" /\ ~proc[p].breaks
  \/ proc[p].pc = "unclaim" /\ proc[p].next = "heartbeat"

\* p removes a lock that it found stale.
Breaks(p) == proc[p].pc = "rm" /\ proc[p].breaks

\* One process at a time has to do with the directory that is there.
OneOwner ==
  \A p \in Procs : Made(p) \/ Breaks(p) =>
    /\ dir # "none"
    /\ \A q \in Procs : Made(q) \/ Breaks(q) => q = p

\* Nothing of a lock is old while the process that made it is at work on it.
Current ==
  \A p \in Procs : Made(p) => dir = "fresh" /\ heart # "old" /\ meta.age # "old"

\* What the process that made the lock has put into it.
Filled ==
  \A p \in Procs :
    /\ At(p, "heartbeat") \/ (At(p, "unclaim") /\ proc[p].next = "heartbeat") =>
         heart = "none" /\ meta = None
    /\ At(p, "meta") => heart # "none" /\ meta = None
    /\ proc[p].pc \in {"holding", "release"} => heart # "none" /\ meta.token = p

\* One process at a time has the breaker, which is in place just then.
OneBreaker ==
  /\ breaker # "old"
  /\ breaker # "none" => \E p \in Procs : proc[p].breaks
  /\ \A p \in Procs : ~At(p, "theirs")
  /\ \A p \in Procs : proc[p].breaks =>
       /\ breaker # "none"
       /\ \A q \in Procs : proc[q].breaks => q = p

Sound == OneOwner /\ Current /\ Filled /\ OneBreaker

IInv == TypeOK /\ Shape /\ (strained = {} => Sound)

-----------------------------------------------------------------------------

\* The state of p becomes <<pc, next, breaks>>, and no other process moves.
Becomes(p, pc, next, breaks) ==
  /\ proc' \in [Procs -> ProcStates]
  /\ proc'[p].pc = pc /\ proc'[p].next = next /\ proc'[p].breaks = breaks
  /\ \A q \in Procs : q # p => proc'[q] = proc[q]

LEMMA Places ==
  ASSUME TypeOK, NEW p \in Procs
  PROVE  /\ proc[p] \in ProcStates
         /\ proc[p].pc \in Pcs /\ proc[p].breaks \in BOOLEAN
         /\ proc[p].next \in {"idle", "remake", "heartbeat"}
BY DEF TypeOK, ProcStates

LEMMA GoesThere ==
  ASSUME TypeOK, NEW p \in Procs, NEW pc \in Pcs, Goes(p, pc)
  PROVE  Becomes(p, pc, proc[p].next, proc[p].breaks)
<1>1. proc[p] \in ProcStates
  BY Places
<1>2. [proc[p] EXCEPT !.pc = pc] \in ProcStates
  BY <1>1 DEF ProcStates
<1>3. /\ [proc[p] EXCEPT !.pc = pc].pc = pc
      /\ [proc[p] EXCEPT !.pc = pc].next = proc[p].next
      /\ [proc[p] EXCEPT !.pc = pc].breaks = proc[p].breaks
  BY <1>1 DEF ProcStates
<1>4. proc' = [proc EXCEPT ![p] = [proc[p] EXCEPT !.pc = pc]]
  BY DEF Goes
<1> QED  BY <1>2, <1>3, <1>4 DEF Becomes, TypeOK

LEMMA ThenThere ==
  ASSUME TypeOK, NEW p \in Procs, NEW pc \in Pcs, NEW next \in {"idle", "remake", "heartbeat"},
         NEW breaks \in BOOLEAN, Then(p, pc, next, breaks)
  PROVE  Becomes(p, pc, next, breaks)
<1>1. [pc |-> pc, next |-> next, breaks |-> breaks] \in ProcStates
  BY DEF ProcStates
<1> QED  BY <1>1 DEF Then, Becomes, TypeOK

\* A step of p that leaves the files alone, or creates or removes the breaker:
\* p does not come to own the lock by it, and does not own it meanwhile unless
\* it goes on with what it does.
LEMMA LooksOn ==
  ASSUME IInv, NEW p \in Procs, NEW pc, NEW next, NEW breaks, Becomes(p, pc, next, breaks),
         UNCHANGED <<dir, heart, meta, breaker, strained>>,
         ~Made(p), ~Breaks(p), pc # "theirs" \/ breaker = "old",
         breaks = proc[p].breaks,
         pc \in {"idle", "heart?", "meta?", "dir?", "claim", "breaker?", "theirs", "unclaim"},
         pc = "unclaim" => next = "idle",
         breaks => pc \in {"heart?", "meta?", "dir?", "unclaim"},
         pc = "unclaim" => breaks
  PROVE  IInv'
<1>1. TypeOK'
  BY DEF IInv, TypeOK, Becomes
<1>2. Shape'
  BY DEF IInv, Shape, Becomes
<1>3. ASSUME strained = {} PROVE Sound'
  <2>1. OneOwner'
    BY <1>3 DEF IInv, Sound, OneOwner, Becomes, Made, Breaks
  <2>2. Current'
    BY <1>3 DEF IInv, Sound, Current, Becomes, Made
  <2>3. Filled'
    BY <1>3 DEF IInv, Sound, Filled, Becomes, At
  <2>4. OneBreaker'
    BY <1>3 DEF IInv, Sound, OneBreaker, Becomes, At
  <2> QED  BY <2>1, <2>2, <2>3, <2>4 DEF Sound
<1> QED  BY <1>1, <1>2, <1>3 DEF IInv

\* A verdict with the breaker in hand makes p the one who removes the lock.
LEMMA VerdictHolds ==
  ASSUME IInv, NEW p \in Procs, NEW age, Verdict(p, age),
         proc[p].pc \in {"heart?", "meta?", "dir?"},
         age = "old" => heart = "old" \/ meta.age = "old" \/ dir = "old",
         UNCHANGED <<dir, heart, meta, breaker, strained>>
  PROVE  IInv'
<1>1. TypeOK
  BY DEF IInv
<1>2. ~Made(p) /\ ~Breaks(p)
  BY DEF Made, Breaks
<1>3. CASE ~proc[p].breaks
  <2>1. PICK pc \in {"claim", "idle"} : Goes(p, pc)
    BY <1>3 DEF Verdict
  <2>2. Becomes(p, pc, proc[p].next, proc[p].breaks)
    BY <1>1, <2>1, GoesThere DEF Pcs
  <2> QED  BY <1>2, <1>3, <2>1, <2>2, LooksOn
<1>4. CASE proc[p].breaks /\ age # "old"
  <2>1. Becomes(p, "unclaim", "idle", TRUE)
    BY <1>1, <1>4, ThenThere DEF Verdict, Pcs
  <2> QED  BY <1>2, <1>4, <2>1, LooksOn
<1>5. CASE proc[p].breaks /\ age = "old"
  <2>1. Becomes(p, "rm", "remake", TRUE)
    BY <1>1, <1>5, ThenThere DEF Verdict, Pcs
  <2>2. TypeOK' /\ Shape'
    BY <2>1 DEF IInv, TypeOK, Shape, Becomes
  <2>3. dir # "none"
    BY <1>5 DEF IInv, Shape, None
  <2>4. ASSUME strained = {} PROVE Sound'
    <3>1. \A q \in Procs : ~Made(q)
      BY <1>5, <2>4 DEF IInv, Sound, Current
    <3>2. \A q \in Procs : Breaks(q) => q = p
      BY <1>5, <2>4 DEF IInv, Sound, OneBreaker, Breaks
    <3>3. \A q \in Procs : (Made(q)' \/ Breaks(q)') => q = p
      BY <2>1, <3>1, <3>2 DEF Becomes, Made, Breaks
    <3>4. ~Made(p)'
      BY <2>1 DEF Becomes, Made
    <3>5. OneOwner' /\ Current' /\ Filled'
      BY <2>1, <2>3, <3>3, <3>4 DEF OneOwner, Current, Filled, Made, At
    <3>6. OneBreaker'
      BY <1>5, <2>1, <2>4 DEF IInv, Sound, OneBreaker, Becomes, At
    <3> QED  BY <3>5, <3>6 DEF Sound
  <2> QED  BY <2>2, <2>4 DEF IInv
<1> QED  BY <1>3, <1>4, <1>5

LEMMA StatHolds ==
  ASSUME IInv, NEW p \in Procs, StatHeart(p) \/ StatMeta(p) \/ StatDir(p), UNCHANGED strained
  PROVE  IInv'
<1>1. CASE \/ At(p, "heart?") /\ heart = "none" /\ Goes(p, "meta?")
           \/ At(p, "meta?") /\ meta = None /\ Goes(p, "dir?")
  <2>1. PICK pc \in {"meta?", "dir?"} : Goes(p, pc)
    BY <1>1
  <2>2. Becomes(p, pc, proc[p].next, proc[p].breaks)
    BY <2>1, GoesThere DEF IInv, Pcs
  <2>3. ~Made(p) /\ ~Breaks(p)
    BY <1>1 DEF At, Made, Breaks
  <2> QED  BY <2>1, <2>2, <2>3, LooksOn DEF StatHeart, StatMeta, StatDir, Files
<1>2. CASE \/ At(p, "heart?") /\ Verdict(p, heart)
           \/ At(p, "meta?") /\ Verdict(p, meta.age)
           \/ At(p, "dir?") /\ Verdict(p, dir)
  BY <1>2, VerdictHolds DEF At, StatHeart, StatMeta, StatDir, Files
<1> QED  BY <1>1, <1>2 DEF StatHeart, StatMeta, StatDir

-----------------------------------------------------------------------------
(* The breaker *)

\* The breaker is created by one process and gone when that process is done.
LEMMA ClaimHolds ==
  ASSUME IInv, NEW p \in Procs, Claim(p), UNCHANGED strained
  PROVE  IInv'
<1>1. TypeOK /\ ~Made(p) /\ ~Breaks(p) /\ ~proc[p].breaks
  BY DEF IInv, Shape, Claim, At, Made, Breaks
<1>2. CASE breaker = "none"
  <2>1. Becomes(p, "heart?", "idle", TRUE)
    BY <1>1, <1>2, ThenThere DEF Claim, Pcs
  <2>2. breaker' = "fresh" /\ UNCHANGED <<dir, heart, meta, strained>>
    BY <1>2 DEF Claim
  <2>3. TypeOK' /\ Shape'
    BY <2>1, <2>2 DEF IInv, TypeOK, Shape, Becomes, Ages
  <2>4. ASSUME strained = {} PROVE Sound'
    <3>1. \A q \in Procs : (Made(q)' <=> Made(q)) /\ (Breaks(q)' <=> Breaks(q))
      BY <1>1, <2>1 DEF Becomes, Made, Breaks
    <3>2. OneOwner' /\ Current'
      BY <2>2, <2>4, <3>1 DEF IInv, Sound, OneOwner, Current
    <3>3. Filled'
      BY <2>1, <2>2, <2>4 DEF IInv, Sound, Filled, Becomes, At
    <3>4. OneBreaker'
      BY <1>2, <2>1, <2>2, <2>4 DEF IInv, Sound, OneBreaker, Becomes, At
    <3> QED  BY <3>2, <3>3, <3>4 DEF Sound
  <2> QED  BY <2>2, <2>3, <2>4 DEF IInv
<1>3. CASE breaker # "none"
  <2>1. Becomes(p, "breaker?", proc[p].next, proc[p].breaks)
    BY <1>1, <1>3, GoesThere DEF Claim, Pcs
  <2> QED  BY <1>1, <1>3, <2>1, LooksOn DEF Claim
<1> QED  BY <1>2, <1>3

LEMMA StatBreakerHolds ==
  ASSUME IInv, NEW p \in Procs, StatBreaker(p), UNCHANGED strained
  PROVE  IInv'
<1>1. TypeOK /\ ~Made(p) /\ ~Breaks(p) /\ ~proc[p].breaks
  BY DEF IInv, Shape, StatBreaker, At, Made, Breaks
<1>2. PICK pc \in {"theirs", "idle"} : Goes(p, pc) /\ (pc = "theirs" => breaker = "old")
  BY DEF StatBreaker
<1>3. Becomes(p, pc, proc[p].next, proc[p].breaks)
  BY <1>1, <1>2, GoesThere DEF Pcs
<1> QED  BY <1>1, <1>2, <1>3, LooksOn DEF StatBreaker, Files

\* Another's breaker is removed only when one was left behind.
LEMMA RemoveTheirsHolds ==
  ASSUME IInv, NEW p \in Procs, RemoveTheirs(p), UNCHANGED strained
  PROVE  IInv'
<1>1. Becomes(p, "idle", proc[p].next, proc[p].breaks) /\ ~proc[p].breaks
  BY GoesThere DEF IInv, Shape, RemoveTheirs, At, Pcs
<1>2. TypeOK' /\ Shape'
  BY <1>1 DEF IInv, TypeOK, Shape, Becomes, RemoveTheirs, Ages
<1>3. strained # {}
  BY DEF IInv, Sound, OneBreaker, RemoveTheirs
<1> QED  BY <1>2, <1>3 DEF IInv

LEMMA UnclaimHolds ==
  ASSUME IInv, NEW p \in Procs, Unclaim(p), UNCHANGED strained
  PROVE  IInv'
<1>1. /\ TypeOK /\ proc[p].breaks /\ proc[p].next \in {"idle", "heartbeat"} /\ At(p, "unclaim")
      /\ breaker' = "none" /\ UNCHANGED <<dir, heart, meta, strained>>
  BY DEF IInv, Shape, Unclaim, At
<1>2. Becomes(p, proc[p].next, "idle", FALSE)
  BY <1>1, ThenThere DEF Unclaim, Pcs
<1>3. TypeOK' /\ Shape'
  BY <1>1, <1>2 DEF IInv, TypeOK, Shape, Becomes, Ages
<1>4. ASSUME strained = {} PROVE Sound'
  <2>1. \A q \in Procs : (Made(q)' <=> Made(q)) /\ (Breaks(q)' <=> Breaks(q))
    BY <1>1, <1>2 DEF Becomes, Made, Breaks, At
  <2>2. OneOwner' /\ Current'
    BY <1>1, <1>4, <2>1 DEF IInv, Sound, OneOwner, Current
  <2>3. Filled'
    BY <1>1, <1>2, <1>4 DEF IInv, Sound, Filled, Becomes, At
  <2>4. OneBreaker'
    BY <1>1, <1>2, <1>4 DEF IInv, Sound, OneBreaker, Becomes, At
  <2> QED  BY <2>2, <2>3, <2>4 DEF Sound
<1> QED  BY <1>1, <1>3, <1>4 DEF IInv

-----------------------------------------------------------------------------
(* The directory *)

\* Whoever creates the directory owns it: there is none, so nobody does.
LEMMA CreateHolds ==
  ASSUME IInv, NEW p \in Procs, NEW pc, NEW next, NEW breaks, Becomes(p, pc, next, breaks),
         breaks = proc[p].breaks, dir = "none", dir' = "fresh", 
         UNCHANGED <<heart, meta, breaker, strained>>,
         \/ pc = "heartbeat" /\ ~breaks
         \/ pc = "unclaim" /\ next = "heartbeat" /\ breaks
  PROVE  IInv'
<1>1. heart = "none" /\ meta = None
  BY DEF IInv, Shape
<1>2. TypeOK' /\ Shape'
  BY <1>1 DEF IInv, TypeOK, Shape, Becomes, Ages
<1>3. ASSUME strained = {} PROVE Sound'
  <2>1. \A q \in Procs : ~Made(q) /\ ~Breaks(q)
    BY <1>3 DEF IInv, Sound, OneOwner
  <2>2. \A q \in Procs : Made(q)' \/ Breaks(q)' => q = p
    BY <2>1 DEF Becomes, Made, Breaks
  <2>3. OneOwner'
    BY <2>2 DEF OneOwner
  <2>4. Current'
    BY <1>1, <2>2 DEF Current, None
  <2>5. Filled'
    <3>1. \A q \in Procs : q # p => ~Made(q)'
      BY <2>2
    <3> QED  BY <1>1, <3>1 DEF Filled, Made, At, Becomes
  <2>6. OneBreaker'
    BY <1>3 DEF IInv, Sound, OneBreaker, Becomes, At
  <2> QED  BY <2>3, <2>4, <2>5, <2>6 DEF Sound
<1> QED  BY <1>2, <1>3 DEF IInv

LEMMA TryHolds ==
  ASSUME IInv, NEW p \in Procs, Try(p), UNCHANGED strained
  PROVE  IInv'
<1>1. TypeOK /\ ~Made(p) /\ ~Breaks(p) /\ ~proc[p].breaks
  BY DEF IInv, Shape, Try, At, Made, Breaks
<1>2. CASE dir = "none"
  <2>1. Becomes(p, "heartbeat", proc[p].next, proc[p].breaks)
    BY <1>1, <1>2, GoesThere DEF Try, Pcs
  <2> QED  BY <1>1, <1>2, <2>1, CreateHolds DEF Try
<1>3. CASE dir # "none"
  <2>1. Becomes(p, "heart?", proc[p].next, proc[p].breaks)
    BY <1>1, <1>3, GoesThere DEF Try, Pcs
  <2> QED  BY <1>1, <1>3, <2>1, LooksOn DEF Try
<1> QED  BY <1>2, <1>3

LEMMA RemakeHolds ==
  ASSUME IInv, NEW p \in Procs, Remake(p), UNCHANGED strained
  PROVE  IInv'
<1>1. TypeOK /\ ~Made(p) /\ ~Breaks(p) /\ proc[p].breaks = TRUE
  BY Places DEF IInv, Shape, Remake, At, Made, Breaks
<1>2. CASE dir = "none"
  <2>1. Becomes(p, "unclaim", "heartbeat", TRUE)
    BY <1>1, <1>2, ThenThere DEF Remake, Pcs
  <2> QED  BY <1>1, <1>2, <2>1, CreateHolds DEF Remake
<1>3. CASE dir # "none"
  <2>1. Becomes(p, "unclaim", "idle", TRUE)
    BY <1>1, <1>3, ThenThere DEF Remake, Pcs
  <2> QED  BY <1>1, <1>3, <2>1, LooksOn DEF Remake
<1> QED  BY <1>2, <1>3

\* What an owner makes of the directory on its way to pc.
OwnerMay(p, pc, breaks) ==
  /\ dir' = "fresh" \/ (dir' = dir /\ dir # "none")
  /\ heart' \in {heart, "fresh", "none"}
  /\ meta' \in {meta, None} \/ meta'.age = "fresh"
  /\ \/ pc \in {"meta", "holding", "release"} /\ Made(p)
     \/ pc = "rm" /\ (Made(p) <=> ~breaks)
  /\ Filled => /\ pc = "meta" => heart' # "none" /\ meta' = None
               /\ pc \in {"holding", "release"} => heart' # "none" /\ meta'.token = p

\* The owner fills the directory, holds the lock, gives it back or removes it.
LEMMA OwnerHolds ==
  ASSUME IInv, NEW p \in Procs, NEW pc, NEW next, NEW breaks, Becomes(p, pc, next, breaks),
         Made(p) \/ Breaks(p), breaks = proc[p].breaks,
         UNCHANGED <<breaker, strained>>, TypeOK', Shape',
         strained = {} => OwnerMay(p, pc, breaks)
  PROVE  IInv'
<1> USE DEF OwnerMay
<1>1. ASSUME strained = {} PROVE Sound'
  <2> USE <1>1
  <2>1. \A q \in Procs : q # p => ~Made(q) /\ ~Breaks(q)
    BY <1>1 DEF IInv, Sound, OneOwner
  <2>2. \A q \in Procs : (Made(q)' \/ Breaks(q)') => q = p
    BY <2>1 DEF Becomes, Made, Breaks
  <2>3. OneOwner'
    BY <2>2 DEF OneOwner
  <2>4. Current'
    <3>1. Made(p)' => Made(p)
      BY DEF Becomes, Made, Breaks
    <3>2. Made(p) => dir = "fresh" /\ heart # "old" /\ meta.age # "old"
      BY <1>1 DEF IInv, Sound, Current
    <3> QED  BY <2>2, <3>1, <3>2 DEF Current, None
  <2>5. Filled'
    <3>1. \A q \in Procs : q # p => ~Made(q)'
      BY <2>2
    <3>2. Filled
      BY <1>1 DEF IInv, Sound
    <3> QED  BY <3>1, <3>2 DEF Filled, Made, At, Becomes
  <2>6. OneBreaker'
    BY <1>1 DEF IInv, Sound, OneBreaker, Becomes, At
  <2> QED  BY <2>3, <2>4, <2>5, <2>6 DEF Sound
<1> QED  BY <1>1 DEF IInv

LEMMA RemoveHolds ==
  ASSUME IInv, NEW p \in Procs, Remove(p), UNCHANGED strained
  PROVE  IInv'
<1>1. /\ TypeOK /\ Shape /\ proc[p].pc = "rm" /\ (Made(p) <=> ~proc[p].breaks)
      /\ Breaks(p) <=> proc[p].breaks
      /\ breaker' = breaker
  BY DEF IInv, Remove, At, Made, Breaks
<1>2. CASE \/ heart # "none" /\ heart' = "none" /\ dir' = "fresh" /\ UNCHANGED <<meta, proc>>
           \/ meta # None /\ meta' = None /\ dir' = "fresh" /\ UNCHANGED <<heart, proc>>
  <2>1. Becomes(p, "rm", proc[p].next, proc[p].breaks)
    BY <1>1, <1>2 DEF Becomes, TypeOK
  <2>2. TypeOK' /\ Shape'
    BY <1>1, <1>2 DEF TypeOK, Shape, Ages
  <2>3. OwnerMay(p, "rm", proc[p].breaks)
    BY <1>1, <1>2 DEF OwnerMay
  <2>4. Made(p) \/ Breaks(p)
    BY <1>1
  <2> QED  BY <1>1, <2>1, <2>2, <2>3, <2>4, OwnerHolds
<1>3. CASE heart = "none" /\ meta = None /\ dir' = "none" /\ Goes(p, proc[p].next)
             /\ UNCHANGED <<heart, meta>>
  <2>1. proc[p].next = (IF proc[p].breaks THEN "remake" ELSE "idle")
    BY <1>1 DEF Shape
  <2>2. Becomes(p, proc[p].next, proc[p].next, proc[p].breaks)
    BY <1>1, <1>3, <2>1, GoesThere DEF Pcs
  <2>3. TypeOK'
    BY <1>1, <1>3, <2>2 DEF TypeOK, Becomes, Ages
  <2>4. Shape'
    BY <1>1, <1>3, <2>1, <2>2 DEF Shape, Becomes
  <2>5. ASSUME strained = {} PROVE Sound'
    <3>1. \A q \in Procs : q # p => ~Made(q) /\ ~Breaks(q)
      BY <1>1, <2>5 DEF IInv, Sound, OneOwner
    <3>2. \A q \in Procs : ~Made(q)' /\ ~Breaks(q)'
      BY <2>1, <2>2, <3>1 DEF Becomes, Made, Breaks
    <3>3. OneOwner' /\ Current'
      BY <3>2 DEF OneOwner, Current
    <3>4. Filled'
      BY <3>2 DEF Filled, Made, At
    <3>5. OneBreaker'
      BY <1>1, <2>1, <2>2, <2>5 DEF IInv, Sound, OneBreaker, Becomes, At
    <3> QED  BY <3>3, <3>4, <3>5 DEF Sound
  <2> QED  BY <2>3, <2>4, <2>5 DEF IInv
<1> QED  BY <1>2, <1>3 DEF Remove

\* A write fails only when something has been mistaken before.
LEMMA WriteHolds ==
  ASSUME IInv, NEW p \in Procs, WriteHeartbeat(p) \/ WriteMeta(p), UNCHANGED strained
  PROVE  IInv'
<1>1. TypeOK /\ Shape /\ Made(p) /\ ~proc[p].breaks
  BY DEF IInv, Shape, WriteHeartbeat, WriteMeta, At, Made
<1>2. CASE At(p, "heartbeat") /\ dir # "none" /\ heart = "none"
  <2>1. Becomes(p, "meta", proc[p].next, proc[p].breaks)
    BY <1>1, <1>2, GoesThere DEF WriteHeartbeat, WriteMeta, At, Pcs
  <2>2. heart' = "fresh" /\ dir' = "fresh" /\ UNCHANGED <<meta, breaker>>
    BY <1>2 DEF WriteHeartbeat, WriteMeta, At
  <2>3. TypeOK' /\ Shape'
    BY <1>1, <2>1, <2>2 DEF TypeOK, Shape, Becomes, Ages
  <2>4. OwnerMay(p, "meta", proc[p].breaks)
    BY <1>1, <1>2, <2>2 DEF OwnerMay, Filled
  <2> QED  BY <1>1, <2>1, <2>2, <2>3, <2>4, OwnerHolds
<1>3. CASE At(p, "meta") /\ dir # "none" /\ meta = None
  <2>1. Becomes(p, "holding", proc[p].next, proc[p].breaks)
    BY <1>1, <1>3, GoesThere DEF WriteHeartbeat, WriteMeta, At, Pcs
  <2>2. meta' = [token |-> p, age |-> "fresh"] /\ dir' = "fresh" /\ UNCHANGED <<heart, breaker>>
    BY <1>3 DEF WriteHeartbeat, WriteMeta, At
  <2>3. TypeOK' /\ Shape'
    BY <1>1, <2>1, <2>2 DEF TypeOK, Shape, Becomes, Ages
  <2>4. OwnerMay(p, "holding", proc[p].breaks)
    BY <1>1, <1>3, <2>2 DEF OwnerMay, Filled
  <2> QED  BY <1>1, <2>1, <2>2, <2>3, <2>4, OwnerHolds
<1>4. CASE /\ WriteFails(p)
           /\ \/ At(p, "heartbeat") /\ ~(dir # "none" /\ heart = "none")
              \/ At(p, "meta") /\ ~(dir # "none" /\ meta = None)
  <2>1. Becomes(p, "rm", "idle", FALSE)
    BY <1>1, <1>4, ThenThere DEF WriteFails, Pcs
  <2>2. TypeOK' /\ Shape'
    BY <1>1, <1>4, <2>1 DEF TypeOK, Shape, Becomes, WriteFails, Files
  <2>3. strained # {}
    BY <1>1, <1>4 DEF IInv, Sound, OneOwner, Filled, WriteHeartbeat, WriteMeta
  <2> QED  BY <2>2, <2>3 DEF IInv
<1> QED  BY <1>2, <1>3, <1>4 DEF WriteHeartbeat, WriteMeta, At

LEMMA ReleaseHolds ==
  ASSUME IInv, NEW p \in Procs, Release(p) \/ ReleaseReads(p), UNCHANGED strained
  PROVE  IInv'
<1>1. /\ TypeOK /\ Shape /\ Made(p) /\ ~proc[p].breaks /\ proc[p].pc \in {"holding", "release"}
      /\ UNCHANGED <<dir, heart, meta, breaker>>
  BY DEF IInv, Shape, Release, ReleaseReads, Files, At, Made
<1>2. ASSUME strained = {} PROVE dir # "none" /\ heart # "none" /\ meta.token = p
  BY <1>1, <1>2 DEF IInv, Sound, OneOwner, Filled
<1>3. CASE Release(p)
  <2>1. Becomes(p, "release", proc[p].next, proc[p].breaks)
    BY <1>1, <1>3, GoesThere DEF Release, Pcs
  <2>2. TypeOK' /\ Shape'
    BY <1>1, <2>1 DEF TypeOK, Shape, Becomes
  <2>3. strained = {} => OwnerMay(p, "release", proc[p].breaks)
    BY <1>1, <1>2 DEF OwnerMay
  <2> QED  BY <1>1, <2>1, <2>2, <2>3, OwnerHolds
<1>4. CASE ReleaseReads(p) /\ meta.token = p
  <2>1. Becomes(p, "rm", "idle", FALSE)
    BY <1>1, <1>4, ThenThere DEF ReleaseReads, Pcs
  <2>2. TypeOK' /\ Shape'
    BY <1>1, <2>1 DEF TypeOK, Shape, Becomes
  <2>3. strained = {} => OwnerMay(p, "rm", FALSE)
    BY <1>1, <1>2 DEF OwnerMay
  <2>4. FALSE = proc[p].breaks
    BY <1>1, Places
  <2> QED  BY <1>1, <2>1, <2>2, <2>3, <2>4, OwnerHolds
<1>5. CASE ReleaseReads(p) /\ meta.token # p
  <2>1. Becomes(p, "idle", proc[p].next, proc[p].breaks)
    BY <1>1, <1>5, GoesThere DEF ReleaseReads, Pcs
  <2>2. TypeOK' /\ Shape'
    BY <1>1, <2>1 DEF TypeOK, Shape, Becomes
  <2>3. strained # {}
    BY <1>2, <1>5
  <2> QED  BY <2>2, <2>3 DEF IInv
<1> QED  BY <1>3, <1>4, <1>5

-----------------------------------------------------------------------------
(* Crashes and time *)

\* A crash frees what it interrupts for the others, but for a breaker.
LEMMA CrashHolds ==
  ASSUME IInv, NEW p \in Procs, Crash(p)
  PROVE  IInv'
<1>1. TypeOK /\ Shape /\ UNCHANGED <<dir, heart, meta, breaker>>
  BY DEF IInv, Crash, Files
<1>2. Becomes(p, "dead", "idle", FALSE)
  BY <1>1, ThenThere DEF Crash, Pcs
<1>3. strained' \in SUBSET {"long hold", "breaker left"}
  BY <1>1 DEF TypeOK, Crash
<1>4. TypeOK' /\ Shape'
  BY <1>1, <1>2, <1>3 DEF TypeOK, Shape, Becomes
<1>5. ASSUME strained' = {} PROVE Sound'
  <2>1. strained = {} /\ ~proc[p].breaks
    BY <1>5 DEF Crash
  <2>2. \A q \in Procs : (Made(q)' => Made(q)) /\ (Breaks(q)' => Breaks(q))
    BY <1>2 DEF Becomes, Made, Breaks
  <2>3. OneOwner' /\ Current'
    BY <1>1, <2>1, <2>2 DEF IInv, Sound, OneOwner, Current
  <2>4. Filled'
    BY <1>1, <1>2, <2>1 DEF IInv, Sound, Filled, Becomes, At
  <2>5. OneBreaker'
    BY <1>1, <1>2, <2>1 DEF IInv, Sound, OneBreaker, Becomes, At
  <2> QED  BY <2>3, <2>4, <2>5 DEF Sound
<1> QED  BY <1>4, <1>5 DEF IInv

\* staleMs pass only when nobody is at work on the lock or has the breaker.
LEMMA AgeHolds ==
  ASSUME IInv, Age
  PROVE  IInv'
<1>1. TypeOK /\ Shape /\ proc' = proc
  BY DEF IInv, Age
<1>2. TypeOK'
  <2>1. dir' \in Ages /\ breaker' \in Ages /\ heart' \in Ages
    BY <1>1 DEF Age, Older, Ages, TypeOK
  <2>2. meta' \in [token: Procs, age: {"fresh", "old"}] \cup {None}
    BY <1>1 DEF Age, TypeOK
  <2>3. strained' \in SUBSET {"long hold", "breaker left"}
    BY <1>1 DEF Age, TypeOK
  <2> QED  BY <1>1, <2>1, <2>2, <2>3 DEF TypeOK
<1>3. Shape'
  BY <1>1 DEF Age, Older, Shape
<1>4. ASSUME strained' = {} PROVE Sound'
  <2>1. strained = {} /\ ~Held
    BY <1>4 DEF Age
  <2>2. \A q \in Procs : proc[q].pc \in {"idle", "dead"} /\ ~proc[q].breaks
    BY <1>1, <2>1 DEF Age, AtRest, Held, At, Shape
  <2>3. \A q \in Procs : ~Made(q)' /\ ~Breaks(q)'
    BY <1>1, <2>2 DEF Made, Breaks
  <2>4. breaker' = "none"
    BY <2>1, <2>2 DEF IInv, Sound, OneBreaker, Age, Older
  <2> QED
    BY <1>1, <2>2, <2>3, <2>4 DEF Sound, OneOwner, Current, Filled, OneBreaker, Made, At
<1> QED  BY <1>2, <1>3, <1>4 DEF IInv

-----------------------------------------------------------------------------
(* The theorems *)

LEMMA InitHolds == ASSUME Init PROVE IInv
<1>1. TypeOK /\ Shape
  BY DEF Init, TypeOK, Shape, Ages, ProcStates, Pcs
<1>2. Sound
  BY DEF Init, Sound, OneOwner, Current, Filled, OneBreaker, Made, Breaks, At
<1> QED  BY <1>1, <1>2 DEF IInv

\* The inductive invariant, of which the theorems below are consequences.
THEOREM LockInductive == Spec => []IInv
<1>1. ASSUME IInv, [Next]_vars PROVE IInv'
  <2>1. ASSUME NEW p \in Procs, Attempt(p), UNCHANGED strained PROVE IInv'
    BY <1>1, <2>1, TryHolds, StatHolds, ClaimHolds, StatBreakerHolds, RemoveTheirsHolds,
       RemoveHolds, RemakeHolds, UnclaimHolds, WriteHolds, ReleaseHolds DEF Attempt
  <2>2. CASE UNCHANGED vars
    <3>1. TypeOK' /\ Shape'
      BY <1>1, <2>2 DEF vars, IInv, TypeOK, Shape
    <3>2. ASSUME strained = {} PROVE OneOwner' /\ Current'
      BY <1>1, <2>2, <3>2 DEF vars, IInv, Sound, OneOwner, Current, Made, Breaks
    <3>3. ASSUME strained = {} PROVE Filled' /\ OneBreaker'
      BY <1>1, <2>2, <3>3 DEF vars, IInv, Sound, Filled, OneBreaker, At
    <3> QED  BY <2>2, <3>1, <3>2, <3>3 DEF vars, IInv, Sound
  <2> QED  BY <1>1, <2>1, <2>2, AgeHolds, CrashHolds DEF Next
<1> QED  BY InitHolds, <1>1, PTL DEF Spec

\* A process that holds the lock has its directory and both its files, so that
\* no other holds it, unless a holder outlived staleMs or a breaker was left
\* behind (flock.ts): for any number of contenders and crashes.
THEOREM HolderKept == Spec => []HolderKeepsLock
<1>1. ASSUME IInv PROVE HolderKeepsLock
  <2>1. ASSUME strained = {}, NEW p \in Procs, At(p, "holding")
        PROVE  dir # "none" /\ heart # "none" /\ meta.token = p
    BY <1>1, <2>1 DEF IInv, Sound, OneOwner, Filled, Made, At
  <2> QED  BY <1>1, <2>1 DEF IInv, HolderKeepsLock
<1> QED  BY <1>1, LockInductive, PTL

\* So the lock excludes, as long as none of the two has happened that the run
\* of MutualExclusion shows to break it.
THEOREM Excludes == Spec => [](strained = {} => MutualExclusion)
<1>1. ASSUME IInv, strained = {} PROVE MutualExclusion
  BY <1>1 DEF IInv, Sound, OneOwner, Made, At, MutualExclusion
<1> QED  BY <1>1, LockInductive, PTL
=============================================================================
