--------------------------- MODULE WorkspaceProofs ---------------------------
(***************************************************************************)
(* Proofs about what is kept for a directory and for a workspace: the      *)
(* instances of a directory (InstanceStore), and the sessions that move    *)
(* between workspaces (WorkspaceSync).                                     *)
(*                                                                         *)
(* INSTANCES.  Entries are numbered as they are made, so the argument is   *)
(* about what lies before an entry.  An instance is OVER when its boot     *)
(* failed or its disposal was announced.  The inductive invariant says     *)
(* that the cached entry is the newest of its directory, that a reload's   *)
(* predecessor is the entry right before it, and that whatever has started *)
(* to boot has only instances before it that are over (Follow).  What      *)
(* services keep was built by an instance that had started, and a disposal *)
(* that runs has already taken what its instance built in time (Keep).     *)
(*                                                                         *)
(* WORKSPACES.  An event names whoever published it, and that log has it   *)
(* at its number (Numbered); all logs of a session begin with the same     *)
(* event (OneOrigin), and home has the place of a session from an event    *)
(* (Placed), so that a place no event says is no patch's either.  The rest *)
(* is about where home's copy comes from (Sourced).  Until a warp claims a *)
(* session, its owner has all that home has received, and only workspaces  *)
(* it was created in or sent to hold it (Unclaimed); after the claim the   *)
(* workspace that is left has it, as long as the new one has published     *)
(* nothing itself and nothing says it is there (IdleAt), and then the new  *)
(* one has (Claimed), since all of home's log was sent to it first         *)
(* (Sending).  An answer of history holds, of each session, what home      *)
(* lacks, in an order that leaves no gap (Gapless).  None of it is claimed *)
(* of a session that is contested.                                         *)
(***************************************************************************)
EXTENDS InstanceStore, WorkspaceSync, FiniteSetTheorems, TLAPS

-----------------------------------------------------------------------------
(* INSTANCES *)


Over(e) == entry[e].value = "failed" \/ (entry[e].value = "ok" /\ e \in noticed)
Started(e) == entry[e].fiber \in {"boot", "done"}

\* What the fields of an entry say of each other.
Lives ==
  \A e \in Entries :
    /\ entry[e].fiber = "none" <=> Dir(e) = None
    /\ Settled(e) <=> entry[e].fiber = "done"
    /\ entry[e].fiber \in {"await", "disposing", "dead"} => entry[e].prev # None
    /\ entry[e].fiber = "none" => entry[e].prev = None

\* Entries of one directory, by their age.
Follow ==
  \A e, f \in Entries : f < e /\ Dir(f) = Dir(e) /\ Dir(e) # None =>
    /\ entry[e].prev = None => Over(f)
    /\ entry[e].prev # None => f <= entry[e].prev
    /\ entry[e].fiber = "disposing" /\ f # entry[e].prev => Over(f)
    /\ Started(e) => Over(f)

\* The entry a reload replaced; it waits for it before it disposes of it.
Replaces ==
  \A e \in Entries : entry[e].prev # None =>
    /\ entry[e].prev < e /\ Dir(entry[e].prev) = Dir(e)
    /\ entry[e].fiber \notin {"await", "dead"} => Settled(entry[e].prev)

Made == \A e, f \in Entries : f < e /\ entry[f].fiber = "none" => entry[e].fiber = "none"

\* The cached entry is the newest, and a directory without one is at rest.
Newest ==
  \A d \in Dirs : 
    /\ cache[d] # None => Dir(cache[d]) = d
    /\ \A f \in Entries : Dir(f) = d => IF cache[d] = None THEN Over(f) ELSE f <= cache[d]

Awaits ==
  \A x \in Calls \cup Entries :
    /\ disposal[x].pc # "idle" => Dir(disposal[x].of) # None
    /\ disposal[x].pc = "disposing" => entry[disposal[x].of].value = "ok"

Keep ==
  \A d \in Dirs : state[d] # None =>
    /\ Dir(state[d].by) = d /\ Started(state[d].by)
    /\ ~state[d].late => ~BeingDisposed(state[d].by)

Line == Lives /\ Made /\ Replaces /\ Follow /\ Newest

IInv == TypeOK /\ Line /\ Awaits /\ Keep /\ StateIsCurrent
-----------------------------------------------------------------------------
(* What a step does, said once for all actions *)

\* An entry's fiber goes on, or its boot ends.
Goes(e) ==
  /\ \A f \in Entries : /\ entry'[f].dir = entry[f].dir /\ entry'[f].prev = entry[f].prev
                        /\ f # e => entry'[f] = entry[f]
  /\ \/ /\ entry[e].fiber = "await" /\ entry'[e].fiber = "disposing"
        /\ Settled(entry[e].prev)
        /\ entry'[e].value = entry[e].value
        /\ state'[Dir(e)] = None
     \/ /\ entry[e].fiber = "disposing" /\ entry'[e].fiber = "boot"
        /\ entry'[e].value = entry[e].value
        /\ entry[e].prev \in noticed'
     \/ /\ entry[e].fiber \in {"await", "disposing"} /\ entry'[e].fiber = "dead"
        /\ entry'[e].value = entry[e].value
     \/ /\ entry[e].fiber = "boot" /\ entry'[e].fiber = "done"
        /\ entry'[e].value \in {"ok", "failed"}

\* A directory gets its next entry.
Makes(e, d) ==
  /\ entry[e].fiber = "none"
  /\ \A f \in Entries : f < e => entry[f].fiber # "none"
  /\ \A f \in Entries : f # e => entry'[f] = entry[f]
  /\ entry'[e].dir = d /\ entry'[e].value = "pending" /\ entry'[e].prev = cache[d]
  /\ entry'[e].fiber = IF cache[d] = None THEN "boot" ELSE "await"
  /\ \A c \in Dirs : cache'[c] = IF c = d THEN e ELSE cache[c]
  /\ noticed' = noticed

\* An entry leaves the cache only when it is over.
CacheGoes ==
  \A d \in Dirs :
    \/ cache'[d] = cache[d]
    \/ \E e \in Entries :
         /\ cache[d] = e /\ cache'[d] = None
         /\ entry'[e].fiber = "done"
         /\ entry'[e].value = "failed" \/ (entry'[e].value = "ok" /\ e \in noticed' /\ BeingDisposed(e))

EntriesGo ==
  /\ noticed \subseteq noticed'
  /\ \/ entry' = entry /\ CacheGoes
     \/ \E e \in Entries : Goes(e) /\ CacheGoes
     \/ \E e \in Entries, d \in Dirs : Makes(e, d)

\* A service's state is kept, taken, or built by an instance that has started.
StateGoes ==
  \A d \in Dirs :
    \/ state'[d] = state[d]
    \/ state'[d] = None
    \/ \E e \in Entries :
         /\ Dir(e) = d /\ Started(e) /\ state'[d].by = e
         /\ ~state'[d].late => cache[d] = e /\ ~BeingDisposed(e)
         /\ UNCHANGED <<cache, entry, disposal>>

DisposalGoes ==
  \A x \in Calls \cup Entries :
    \/ disposal'[x] = disposal[x]
    \/ disposal'[x].pc = "idle"
    \/ disposal'[x].pc = "await" /\ Dir(disposal'[x].of) # None
    \/ /\ disposal'[x].pc = "disposing" /\ entry[disposal'[x].of].value = "ok"
       /\ Dir(disposal'[x].of) # None
       /\ state'[Dir(disposal'[x].of)] = None

\* The fields of the records.
LEMMA Fields ==
  ASSUME TypeOK
  PROVE  /\ \A e \in Entries :
              /\ entry[e] \in EntryStates
              /\ entry[e].dir \in Dirs \cup {None}
              /\ entry[e].value \in {"pending", "ok", "failed"}
              /\ entry[e].prev \in Entries \cup {None}
              /\ entry[e].fiber \in {"none", "await", "disposing", "boot", "done", "dead"}
         /\ \A d \in Dirs : state[d] # None => state[d].by \in Entries /\ state[d].late \in BOOLEAN
         /\ \A x \in Calls \cup Entries :
              /\ disposal[x].pc \in {"idle", "await", "disposing"}
              /\ disposal[x].pc # "idle" => disposal[x].of \in Entries
              /\ disposal[x].pc = "idle" => disposal[x] = Idle
BY DEF TypeOK, EntryStates, States, Disposals, Idle

LEMMA Numbers ==
  /\ Entries \subseteq Nat /\ None \notin Entries /\ None \notin Dirs
  /\ \A e, f \in Entries : /\ e < f \/ e = f \/ f < e
                           /\ f <= e /\ f # e => f < e
                           /\ ~(f < e /\ e <= f)
BY StoreAssumption DEF Entries

LEMMA TypeHolds == ASSUME TypeOK, Lives, Next PROVE TypeOK'
<1> USE DEF TypeOK
<1>1. ASSUME NEW d \in Dirs, Load(d) PROVE TypeOK'
  BY <1>1 DEF Load, Unused, EntryStates
<1>2. ASSUME NEW d \in Dirs, Reload(d) PROVE TypeOK'
  <2>1. PICK e \in Unused :
          /\ entry' = [entry EXCEPT ![e] =
                         [@ EXCEPT !.dir = d, !.prev = cache[d],
                                   !.fiber = IF cache[d] = None THEN "boot" ELSE "await"]]
          /\ cache' = [cache EXCEPT ![d] = e]
    BY <1>2 DEF Reload
  <2>2. e \in Entries /\ entry[e] \in EntryStates /\ cache[d] \in Entries \cup {None}
    BY DEF Unused
  <2>3. [entry[e] EXCEPT !.dir = d, !.prev = cache[d],
                         !.fiber = IF cache[d] = None THEN "boot" ELSE "await"] \in EntryStates
    BY <2>2 DEF EntryStates
  <2> QED  BY <1>2, <2>1, <2>2, <2>3 DEF Reload
<1>3. ASSUME NEW e \in Entries, ReloadDisposes(e) PROVE TypeOK'
  BY <1>3 DEF ReloadDisposes, Fiber, RunDisposers, EntryStates
<1>4. ASSUME NEW e \in Entries, ReloadAnnounces(e) PROVE TypeOK'
  BY <1>4, Fields DEF ReloadAnnounces, Fiber, EntryStates, Lives
<1>5. ASSUME NEW e \in Entries, BootEnds(e) PROVE TypeOK'
  BY <1>5 DEF BootEnds, Fiber, Removed, EntryStates
<1>6. ASSUME NEW e \in Entries, Stopped(e) PROVE TypeOK'
  BY <1>6 DEF Stopped, Fiber, EntryStates
<1>7. ASSUME NEW e \in Entries, GetState(e) PROVE TypeOK'
  BY <1>7 DEF GetState, States
<1>8. ASSUME NEW c \in Calls, NEW e \in Entries, Dispose(c, e) PROVE TypeOK'
  <2>0. Dir(e) \in Dirs
    BY <1>8, Fields DEF Dispose, Lives, Settled, Dir
  <2>1. disposal' \in [Calls \cup Entries -> Disposals]
    <3>1. cache[Dir(e)] \in Entries \cup {None}
      BY <2>0
    <3>2. [pc |-> "disposing", of |-> e, only |-> e] \in Disposals
      BY DEF Disposals
    <3>3. cache[Dir(e)] # None => [pc |-> "await", of |-> cache[Dir(e)], only |-> e] \in Disposals
      BY <3>1 DEF Disposals
    <3> QED  BY <1>8, <3>2, <3>3 DEF Dispose
  <2>2. state' \in [Dirs -> States \cup {None}]
    BY <1>8 DEF Dispose, RunDisposers
  <2> QED  BY <1>8, <2>1, <2>2 DEF Dispose
<1>9. ASSUME NEW c \in Calls, NEW d \in Dirs, DisposeDirectory(c, d) PROVE TypeOK'
  BY <1>9 DEF DisposeDirectory, Disposals
<1>10. CASE DisposeAll
  BY <1>10 DEF DisposeAll, Disposals
<1>11. ASSUME NEW x \in Calls \cup Entries, Awaited(x) PROVE TypeOK'
  <2>1. disposal' \in [Calls \cup Entries -> Disposals]
    BY <1>11, Fields DEF Awaited, Disposals, Idle
  <2>2. cache' \in [Dirs -> Entries \cup {None}] /\ state' \in [Dirs -> States \cup {None}]
    BY <1>11 DEF Awaited, Removed, RunDisposers
  <2> QED  BY <1>11, <2>1, <2>2 DEF Awaited
<1>12. ASSUME NEW x \in Calls \cup Entries, Disposed(x) PROVE TypeOK'
  BY <1>12, Fields DEF Disposed, Disposals, Idle, Removed
<1>13. ASSUME NEW c \in Calls, CallInterrupted(c) PROVE TypeOK'
  BY <1>13 DEF CallInterrupted, Disposals, Idle
<1>14. CASE Close
  BY <1>14 DEF Close
<1> QED  BY <1>1, <1>2, <1>3, <1>4, <1>5, <1>6, <1>7, <1>8, <1>9, <1>10, <1>11,
            <1>12, <1>13, <1>14 DEF Next, Boots, Disposes


\* Every step is one of the kinds above.
LEMMA EntrySteps ==
  ASSUME TypeOK, Lives, Awaits, Next
  PROVE  EntriesGo
<1>1. ASSUME NEW d \in Dirs, NEW e \in Unused, NEW p,
             entry' = [entry EXCEPT ![e] = [@ EXCEPT !.dir = d, !.prev = p,
                         !.fiber = IF cache[d] = None THEN "boot" ELSE "await"]],
             p = cache[d], cache' = [cache EXCEPT ![d] = e], noticed' = noticed
      PROVE  EntriesGo
  <2>1. e \in Entries /\ entry[e].value = "pending"
    BY <1>1 DEF Unused, Lives, Settled
  <2>2. Makes(e, d)
    BY <1>1, <2>1, Fields, Numbers DEF Makes, TypeOK, Unused, EntryStates, Entries
  <2> QED  BY <1>1, <2>1, <2>2 DEF EntriesGo
<1>2. ASSUME NEW d \in Dirs, Load(d) \/ Reload(d) PROVE EntriesGo
  <2>1. CASE Reload(d)
    BY <1>1, <2>1 DEF Reload
  <2>2. CASE Load(d)
    <3>1. PICK e \in Unused : /\ entry' = [entry EXCEPT ![e].dir = d, ![e].fiber = "boot"]
                              /\ cache' = [cache EXCEPT ![d] = e]
      BY <2>2 DEF Load
    <3>2. e \in Entries /\ entry[e].prev = None /\ entry[e] \in EntryStates
      BY <3>1, Fields DEF Unused, Lives
    <3>3. [entry[e] EXCEPT !.dir = d, !.fiber = "boot"]
            = [entry[e] EXCEPT !.dir = d, !.prev = None, !.fiber = "boot"]
      BY <3>2 DEF EntryStates
    <3>4. cache[d] = None /\ noticed' = noticed
      BY <2>2 DEF Load
    <3>5. entry' = [entry EXCEPT ![e] = [@ EXCEPT !.dir = d, !.prev = cache[d],
                      !.fiber = IF cache[d] = None THEN "boot" ELSE "await"]]
      BY <3>1, <3>2, <3>3, <3>4 DEF TypeOK
    <3> QED  BY <1>1, <3>1, <3>4, <3>5
  <2> QED  BY <1>2, <2>1, <2>2
<1>3. ASSUME NEW e \in Entries, ReloadDisposes(e) PROVE EntriesGo
  <2>1. Goes(e)
    BY <1>3, Fields DEF ReloadDisposes, Fiber, RunDisposers, Goes, TypeOK, EntryStates, Lives, Dir
  <2> QED  BY <1>3, <2>1 DEF EntriesGo, CacheGoes, ReloadDisposes
<1>4. ASSUME NEW e \in Entries, ReloadAnnounces(e) PROVE EntriesGo
  <2>1. Goes(e)
    BY <1>4, Fields DEF ReloadAnnounces, Fiber, Goes, TypeOK, EntryStates
  <2> QED  BY <1>4, <2>1 DEF EntriesGo, CacheGoes, ReloadAnnounces
<1>5. ASSUME NEW e \in Entries, BootEnds(e) PROVE EntriesGo
  <2>1. Goes(e)
    BY <1>5, Fields DEF BootEnds, Goes, TypeOK, EntryStates
  <2>2. CacheGoes
    BY <1>5, Fields DEF BootEnds, CacheGoes, Removed, TypeOK, EntryStates
  <2> QED  BY <1>5, <2>1, <2>2 DEF EntriesGo, BootEnds
<1>6. ASSUME NEW e \in Entries, Stopped(e) PROVE EntriesGo
  <2>1. Goes(e)
    BY <1>6, Fields DEF Stopped, Fiber, Goes, TypeOK, EntryStates
  <2> QED  BY <1>6, <2>1 DEF EntriesGo, CacheGoes, Stopped
<1>7. ASSUME NEW x \in Calls \cup Entries, Awaited(x) PROVE EntriesGo
  <2>1. disposal[x].of \in Entries
    BY <1>7, Fields DEF Awaited
  <2>2. CacheGoes
    BY <1>7, <2>1, Fields DEF Awaited, CacheGoes, Removed, TypeOK, Lives, Settled
  <2> QED  BY <1>7, <2>2 DEF EntriesGo, Awaited
<1>8. ASSUME NEW x \in Calls \cup Entries, Disposed(x) PROVE EntriesGo
  <2>1. disposal[x].of \in Entries /\ entry[disposal[x].of].value = "ok"
    BY <1>8, Fields DEF Disposed, Awaits
  <2>2. BeingDisposed(disposal[x].of)
    BY <1>8 DEF Disposed, BeingDisposed, TypeOK
  <2>3. CacheGoes
    BY <1>8, <2>1, <2>2, Fields DEF Disposed, CacheGoes, Removed, TypeOK, Lives, Settled
  <2> QED  BY <1>8, <2>3 DEF EntriesGo, Disposed
<1>9. ASSUME entry' = entry, cache' = cache, noticed' = noticed PROVE EntriesGo
  BY <1>9 DEF EntriesGo, CacheGoes
<1> QED  BY <1>2, <1>3, <1>4, <1>5, <1>6, <1>7, <1>8, <1>9
         DEF Next, Boots, Disposes, GetState, Dispose, DisposeDirectory, DisposeAll,
             CallInterrupted, Close

LEMMA StateSteps ==
  ASSUME TypeOK, Lives, Next
  PROVE  StateGoes
<1>1. ASSUME NEW e \in Entries, GetState(e) PROVE StateGoes
  <2>1. Dir(e) \in Dirs /\ Started(e)
    BY <1>1, Fields DEF GetState, Lives, Settled, Dir, Started
  <2>2. state' = [state EXCEPT ![Dir(e)] =
                    [by |-> e, late |-> cache[Dir(e)] # e \/ BeingDisposed(e)]]
    BY <1>1 DEF GetState
  <2>3. /\ state'[Dir(e)].by = e
        /\ ~state'[Dir(e)].late => cache[Dir(e)] = e /\ ~BeingDisposed(e)
        /\ \A d \in Dirs : d # Dir(e) => state'[d] = state[d]
    BY <2>1, <2>2 DEF TypeOK
  <2> QED  BY <1>1, <2>1, <2>3 DEF StateGoes, GetState
<1>2. ASSUME NEW d, RunDisposers(d) PROVE StateGoes
  BY <1>2 DEF RunDisposers, StateGoes, TypeOK
<1>3. ASSUME state' = state PROVE StateGoes
  BY <1>3 DEF StateGoes
<1> QED  BY <1>1, <1>2, <1>3
         DEF Next, Boots, Disposes, Load, Reload, ReloadDisposes, ReloadAnnounces, BootEnds,
             Stopped, Dispose, DisposeDirectory, DisposeAll, Awaited, Disposed,
             CallInterrupted, Close

LEMMA DisposalSteps ==
  ASSUME TypeOK, Lives, Newest, Awaits, Next
  PROVE  DisposalGoes
<1>1. ASSUME NEW c \in Calls, NEW e \in Entries, Dispose(c, e) PROVE DisposalGoes
  <2>1. Dir(e) \in Dirs
    BY <1>1, Fields DEF Dispose, Lives, Settled, Dir
  <2>2. cache[Dir(e)] # None => Dir(cache[Dir(e)]) = Dir(e)
    BY <2>1 DEF Newest
  <2>3. CASE cache[Dir(e)] = None
    <3>1. /\ disposal' = [disposal EXCEPT ![c] = [pc |-> "disposing", of |-> e, only |-> e]]
          /\ state'[Dir(e)] = None
      BY <1>1, <2>1, <2>3 DEF Dispose, RunDisposers, TypeOK
    <3>2. /\ disposal'[c].pc = "disposing" /\ disposal'[c].of = e
          /\ \A x \in Calls \cup Entries : x # c => disposal'[x] = disposal[x]
      BY <3>1 DEF TypeOK
    <3> QED  BY <1>1, <2>1, <3>1, <3>2, Numbers DEF DisposalGoes, Dispose
  <2>4. CASE cache[Dir(e)] # None
    <3>1. disposal' = [disposal EXCEPT ![c] = [pc |-> "await", of |-> cache[Dir(e)], only |-> e]]
      BY <1>1, <2>4 DEF Dispose
    <3>2. /\ disposal'[c].pc = "await" /\ disposal'[c].of = cache[Dir(e)]
          /\ \A x \in Calls \cup Entries : x # c => disposal'[x] = disposal[x]
      BY <3>1 DEF TypeOK
    <3> QED  BY <2>1, <2>2, <2>4, <3>2, Numbers DEF DisposalGoes
  <2> QED  BY <2>3, <2>4
<1>2. ASSUME NEW c \in Calls, NEW d \in Dirs, DisposeDirectory(c, d) PROVE DisposalGoes
  <2>1. Dir(cache[d]) = d
    BY <1>2 DEF DisposeDirectory, Newest
  <2>2. disposal' = [disposal EXCEPT ![c] = [pc |-> "await", of |-> cache[d], only |-> None]]
    BY <1>2 DEF DisposeDirectory
  <2> QED  BY <2>1, <2>2, Numbers DEF DisposalGoes, TypeOK
<1>3. CASE DisposeAll
  <2>1. ASSUME NEW x \in Calls \cup Entries, NEW d \in Dirs, cache[d] = x, x \in Entries
        PROVE  Dir(x) # None
    BY <2>1, Numbers DEF Newest
  <2>2. \A x \in Calls \cup Entries :
          disposal'[x] = IF x \in Entries /\ \E d \in Dirs : cache[d] = x
                         THEN [pc |-> "await", of |-> x, only |-> None]
                         ELSE disposal[x]
    BY <1>3 DEF DisposeAll, TypeOK
  <2>3. ASSUME NEW x \in Calls \cup Entries
        PROVE  \/ disposal'[x] = disposal[x]
               \/ disposal'[x].pc = "await" /\ Dir(disposal'[x].of) # None
    <3>1. CASE x \in Entries /\ \E d \in Dirs : cache[d] = x
      <4>1. disposal'[x] = [pc |-> "await", of |-> x, only |-> None]
        BY <2>2, <3>1
      <4>2. Dir(x) # None
        BY <2>1, <3>1
      <4> QED  BY <4>1, <4>2
    <3> QED  BY <2>2, <3>1
  <2> QED  BY <2>3 DEF DisposalGoes
<1>4. ASSUME NEW x \in Calls \cup Entries, Awaited(x) PROVE DisposalGoes
  <2>1. disposal[x].of \in Entries /\ Dir(disposal[x].of) \in Dirs
    BY <1>4, Fields DEF Awaited, Awaits, Dir
  <2>2. CASE disposal' = [disposal EXCEPT ![x] = Idle]
    BY <2>2 DEF DisposalGoes, TypeOK, Idle
  <2>3. CASE disposal' # [disposal EXCEPT ![x] = Idle]
    <3>1. /\ disposal' = [disposal EXCEPT ![x].pc = "disposing"]
          /\ RunDisposers(Dir(disposal[x].of))
          /\ entry[disposal[x].of].value = "ok"
      BY <1>4, <2>3 DEF Awaited
    <3>2. state'[Dir(disposal[x].of)] = None
      BY <2>1, <3>1 DEF RunDisposers, TypeOK
    <3>3. /\ disposal'[x].pc = "disposing" /\ disposal'[x].of = disposal[x].of
          /\ \A y \in Calls \cup Entries : y # x => disposal'[y] = disposal[y]
      BY <1>4, <3>1, Fields DEF TypeOK, Disposals, Awaited
    <3> QED  BY <2>1, <3>1, <3>2, <3>3, Numbers DEF DisposalGoes
  <2> QED  BY <2>2, <2>3
<1>5. ASSUME NEW x \in Calls \cup Entries, disposal' = [disposal EXCEPT ![x] = Idle]
      PROVE  DisposalGoes
  BY <1>5 DEF DisposalGoes, TypeOK, Idle
<1>6. ASSUME disposal' = disposal PROVE DisposalGoes
  BY <1>6 DEF DisposalGoes
<1> QED  BY <1>1, <1>2, <1>3, <1>4, <1>5, <1>6
         DEF Next, Boots, Disposes, Load, Reload, ReloadDisposes, ReloadAnnounces, BootEnds,
             Stopped, GetState, Disposed, CallInterrupted, Close

-----------------------------------------------------------------------------
(* The entries of a directory *)

\* What is over has settled and stays over.
LEMMA OverStays ==
  ASSUME TypeOK, Lives, EntriesGo, NEW f \in Entries, Over(f)
  PROVE  Over(f)' /\ entry'[f].fiber = "done" /\ entry[f].fiber = "done"
<1>1. entry[f].fiber = "done" /\ (f \in noticed => f \in noticed')
  BY Fields DEF Lives, Over, Settled, EntriesGo
<1>2. entry'[f] = entry[f]
  BY <1>1 DEF EntriesGo, Goes, Makes
<1> QED  BY <1>1, <1>2 DEF Over

LEMMA LivesHold == ASSUME TypeOK, TypeOK', Line, EntriesGo PROVE Lives' /\ Made'
<1> USE DEF Line
<1>1. CASE entry' = entry
  BY <1>1 DEF Lives, Made, Settled, Dir
<1>2. ASSUME NEW e \in Entries, Goes(e) PROVE Lives' /\ Made'
  <2>1. Lives'
    <3> SUFFICES ASSUME NEW f \in Entries
                 PROVE  /\ entry'[f].fiber = "none" <=> entry'[f].dir = None
                        /\ entry'[f].value # "pending" <=> entry'[f].fiber = "done"
                        /\ entry'[f].fiber \in {"await", "disposing", "dead"} => entry'[f].prev # None
                        /\ entry'[f].fiber = "none" => entry'[f].prev = None
      BY DEF Lives, Settled, Dir
    <3> QED  BY <1>2, Fields DEF Goes, Lives, Settled, Dir
  <2>2. Made'
    BY <1>2, Fields DEF Goes, Made
  <2> QED  BY <2>1, <2>2
<1>3. ASSUME NEW e \in Entries, NEW d \in Dirs, Makes(e, d) PROVE Lives' /\ Made'
  <2>1. Lives'
    <3> SUFFICES ASSUME NEW f \in Entries
                 PROVE  /\ entry'[f].fiber = "none" <=> entry'[f].dir = None
                        /\ entry'[f].value # "pending" <=> entry'[f].fiber = "done"
                        /\ entry'[f].fiber \in {"await", "disposing", "dead"} => entry'[f].prev # None
                        /\ entry'[f].fiber = "none" => entry'[f].prev = None
      BY DEF Lives, Settled, Dir
    <3> QED  BY <1>3, Fields, Numbers DEF Makes, Lives, Settled, Dir
  <2>2. Made'
    BY <1>3, Fields, Numbers DEF Makes, Made
  <2> QED  BY <2>1, <2>2
<1> QED  BY <1>1, <1>2, <1>3 DEF EntriesGo

LEMMA ReplacesHolds == ASSUME TypeOK, TypeOK', Line, EntriesGo PROVE Replaces'
<1> USE DEF Line
<1> SUFFICES ASSUME NEW f \in Entries, entry'[f].prev # None
             PROVE  LET p == entry'[f].prev
                    IN  /\ p < f /\ entry'[p].dir = entry'[f].dir
                        /\ entry'[f].fiber \notin {"await", "dead"} => entry'[p].value # "pending"
  BY DEF Replaces, Settled, Dir
<1>1. CASE entry' = entry
  BY <1>1 DEF Replaces, Settled, Dir
<1>2. ASSUME NEW e \in Entries, Goes(e)
      PROVE  LET p == entry'[f].prev
             IN  /\ p < f /\ entry'[p].dir = entry'[f].dir
                 /\ entry'[f].fiber \notin {"await", "dead"} => entry'[p].value # "pending"
  <2>1. entry'[f].prev = entry[f].prev /\ entry[f].prev \in Entries
    BY <1>2, Fields DEF Goes
  <2>2. entry[f].prev < f /\ Dir(entry[f].prev) = Dir(f)
    BY <2>1, Numbers DEF Replaces
  <2>3. Settled(entry[f].prev) => entry'[entry[f].prev].value # "pending"
    BY <1>2, <2>1, Fields DEF Goes, Lives, Settled
  <2>4. entry'[f].fiber \notin {"await", "dead"} => Settled(entry[f].prev)
    BY <1>2, <2>1, Numbers DEF Goes, Replaces
  <2> QED  BY <1>2, <2>1, <2>2, <2>3, <2>4 DEF Goes, Dir
<1>3. ASSUME NEW e \in Entries, NEW d \in Dirs, Makes(e, d)
      PROVE  LET p == entry'[f].prev
             IN  /\ p < f /\ entry'[p].dir = entry'[f].dir
                 /\ entry'[f].fiber \notin {"await", "dead"} => entry'[p].value # "pending"
  <2>1. CASE f # e
    <3>1. entry'[f] = entry[f] /\ entry[f].prev \in Entries
      BY <1>3, <2>1, Fields DEF Makes
    <3>2. /\ entry[f].prev < f /\ Dir(entry[f].prev) = Dir(f)
          /\ entry[f].fiber \notin {"await", "dead"} => Settled(entry[f].prev)
      BY <3>1, Numbers DEF Replaces
    <3>3. entry[f].prev # e
      BY <1>3, <3>1, <3>2, Numbers DEF Makes, Lives, Dir
    <3> QED  BY <1>3, <3>1, <3>2, <3>3 DEF Makes, Settled, Dir
  <2>2. CASE f = e
    <3>1. /\ entry'[f].prev = cache[d] /\ cache[d] \in Entries /\ entry'[f].dir = d
          /\ entry'[f].fiber = "await"
      BY <1>3, <2>2, Fields DEF Makes, TypeOK
    <3>2. Dir(cache[d]) = d /\ entry[cache[d]].fiber # "none"
      BY <3>1, Numbers DEF Newest, Lives
    <3>3. cache[d] # e /\ entry'[cache[d]] = entry[cache[d]]
      BY <1>3, <3>1, <3>2 DEF Makes
    <3>4. cache[d] < e
      BY <1>3, <3>1, <3>2, <3>3, Numbers DEF Made, Makes
    <3> QED  BY <2>2, <3>1, <3>2, <3>3, <3>4 DEF Dir
  <2> QED  BY <2>1, <2>2
<1> QED  BY <1>1, <1>2, <1>3 DEF EntriesGo

\* A new entry is the newest of its directory, and what was cached is the one
\* before it.
LEMMA NewestHolds == ASSUME TypeOK, TypeOK', Line, EntriesGo PROVE Newest'
<1> USE DEF Line
<1> SUFFICES ASSUME NEW c \in Dirs
             PROVE  /\ cache'[c] # None => entry'[cache'[c]].dir = c
                    /\ \A f \in Entries : entry'[f].dir = c =>
                         IF cache'[c] = None THEN Over(f)' ELSE f <= cache'[c]
  BY DEF Newest, Dir
<1>1. ASSUME \A f \in Entries : entry'[f].dir = entry[f].dir, CacheGoes
      PROVE  /\ cache'[c] # None => entry'[cache'[c]].dir = c
             /\ \A f \in Entries : entry'[f].dir = c =>
                  IF cache'[c] = None THEN Over(f)' ELSE f <= cache'[c]
  <2>1. CASE cache'[c] = cache[c]
    <3>1. cache[c] # None => cache[c] \in Entries
      BY DEF TypeOK
    <3> QED  BY <1>1, <2>1, <3>1, OverStays DEF Newest, Dir
  <2>2. ASSUME NEW e \in Entries, cache[c] = e, cache'[c] = None,
               entry'[e].fiber = "done",
               entry'[e].value = "failed" \/ (entry'[e].value = "ok" /\ e \in noticed')
        PROVE  \A f \in Entries : entry'[f].dir = c => Over(f)'
    <3> TAKE f \in Entries
    <3> HAVE entry'[f].dir = c
    <3>1. Over(e)' /\ Dir(e) = c /\ f <= e /\ Dir(f) = c
      BY <1>1, <2>2, Numbers DEF Over, Newest, Dir
    <3>2. CASE f # e
      <4>1. f < e
        BY <3>1, <3>2, Numbers
      <4>2. Started(e)
        BY <2>2 DEF EntriesGo, Goes, Makes, Started
      <4>3. Over(f)
        BY <3>1, <4>1, <4>2, Numbers DEF Follow
      <4> QED  BY <4>3, OverStays
    <3> QED  BY <3>1, <3>2
  <2> QED  BY <1>1, <2>1, <2>2 DEF CacheGoes
<1>2. ASSUME NEW e \in Entries, NEW d \in Dirs, Makes(e, d)
      PROVE  /\ cache'[c] # None => entry'[cache'[c]].dir = c
             /\ \A f \in Entries : entry'[f].dir = c =>
                  IF cache'[c] = None THEN Over(f)' ELSE f <= cache'[c]
  <2>1. CASE c = d
    <3>1. cache'[c] = e /\ entry'[e].dir = c /\ e # None
      BY <1>2, <2>1, Numbers DEF Makes
    <3>2. ASSUME NEW f \in Entries, entry'[f].dir = c PROVE f <= e
      <4>1. CASE f = e
        BY <4>1, Numbers
      <4>2. CASE f # e
        <5>1. Dir(f) = c /\ c # None
          BY <1>2, <3>2, <4>2, Numbers DEF Makes, Dir
        <5>2. entry[f].fiber # "none"
          BY <5>1 DEF Lives
        <5>3. ~(e < f)
          BY <1>2, <5>2 DEF Makes, Made
        <5> QED  BY <5>3, Numbers
      <4> QED  BY <4>1, <4>2
    <3> QED  BY <3>1, <3>2
  <2>2. CASE c # d
    <3>1. cache'[c] = cache[c] /\ (cache[c] # None => cache[c] \in Entries)
      BY <1>2, <2>2 DEF Makes, TypeOK
    <3>2. cache[c] # None => cache[c] # e
      BY <1>2, Numbers DEF Newest, Makes, Lives
    <3>3. \A f \in Entries : entry'[f].dir = c => f # e /\ entry'[f] = entry[f]
      BY <1>2, <2>2 DEF Makes
    <3> QED  BY <1>2, <3>1, <3>2, <3>3, OverStays DEF Newest, Dir, Makes
  <2> QED  BY <2>1, <2>2
<1>3. CASE entry' = entry /\ CacheGoes
  BY <1>1, <1>3
<1>4. ASSUME NEW e \in Entries, Goes(e), CacheGoes
      PROVE  \A f \in Entries : entry'[f].dir = entry[f].dir
  BY <1>4 DEF Goes
<1> QED  BY <1>1, <1>2, <1>3, <1>4 DEF EntriesGo

\* What is said of a younger entry e and an older one f of its directory.
Behind(e, f) ==
  /\ entry[e].prev = None => Over(f)
  /\ entry[e].prev # None => f <= entry[e].prev
  /\ entry[e].fiber = "disposing" /\ f # entry[e].prev => Over(f)
  /\ Started(e) => Over(f)

LEMMA FollowHolds == ASSUME TypeOK, TypeOK', Line, EntriesGo PROVE Follow'
<1> USE DEF Line
<1> SUFFICES ASSUME NEW e \in Entries, NEW f \in Entries, f < e,
                    entry'[f].dir = entry'[e].dir, entry'[e].dir # None
             PROVE  Behind(e, f)'
  BY DEF Follow, Behind, Dir
<1>1. Over(f) => Over(f)'
  BY OverStays
<1>2. ASSUME entry'[e] = entry[e], Dir(f) = Dir(e) PROVE Behind(e, f)'
  <2>1. Behind(e, f)
    BY <1>2 DEF Follow, Behind, Dir
  <2> QED  BY <1>1, <1>2, <2>1 DEF Behind, Started
<1>3. CASE entry' = entry
  BY <1>2, <1>3 DEF Dir
<1>4. ASSUME NEW g \in Entries, Goes(g) PROVE Behind(e, f)'
  <2>1. Dir(f) = Dir(e) /\ Behind(e, f) /\ entry'[e].prev = entry[e].prev
    BY <1>4 DEF Goes, Dir, Follow, Behind
  <2>2. CASE e # g
    BY <1>2, <1>4, <2>1, <2>2 DEF Goes
  <2>3. CASE e = g
    <3>1. CASE entry[e].fiber = "await" /\ entry'[e].fiber = "disposing"
      <4>1. entry[e].prev \in Entries /\ Settled(entry[e].prev)
        BY <1>4, <2>3, <3>1, Fields DEF Goes, Lives
      <4>2. f # entry[e].prev => Over(f)
        <5> HAVE f # entry[e].prev
        <5>1. f < entry[e].prev /\ Dir(entry[e].prev) = Dir(e) /\ Dir(e) # None
          <6>1. f <= entry[e].prev
            BY <2>1, <4>1, Numbers DEF Behind
          <6>2. Dir(entry[e].prev) = Dir(e)
            BY <4>1, Numbers DEF Replaces
          <6>3. Dir(e) # None
            BY <1>4 DEF Goes, Dir
          <6> QED  BY <4>1, <6>1, <6>2, <6>3, Numbers
        <5>2. Started(entry[e].prev)
          BY <4>1 DEF Lives, Started
        <5> QED  BY <2>1, <4>1, <5>1, <5>2, Numbers DEF Follow
      <4> QED  BY <1>1, <2>1, <3>1, <4>2 DEF Behind, Started
    <3>2. CASE entry[e].fiber = "disposing" /\ entry'[e].fiber = "boot"
      <4>1. entry[e].prev \in Entries /\ Settled(entry[e].prev) /\ entry[e].prev # e
        BY <3>2, Fields, Numbers DEF Lives, Replaces
      <4>2. Over(entry[e].prev)'
        BY <1>4, <2>3, <3>2, <4>1, Fields DEF Goes, Over, Settled
      <4>3. f # entry[e].prev => Over(f)
        BY <2>1, <3>2 DEF Behind
      <4> QED  BY <1>1, <2>1, <3>2, <4>2, <4>3 DEF Behind, Started
    <3>3. CASE entry'[e].fiber = "dead"
      BY <1>1, <2>1, <3>3 DEF Behind, Started
    <3>4. CASE entry[e].fiber = "boot" /\ entry'[e].fiber = "done"
      BY <1>1, <2>1, <3>4 DEF Behind, Started
    <3> QED  BY <1>4, <2>3, <3>1, <3>2, <3>3, <3>4 DEF Goes
  <2> QED  BY <2>2, <2>3
<1>5. ASSUME NEW g \in Entries, NEW d \in Dirs, Makes(g, d) PROVE Behind(e, f)'
  <2>1. CASE e # g
    <3>1. entry'[e] = entry[e] /\ Dir(e) # None
      BY <1>5, <2>1 DEF Makes, Dir
    <3>2. f # g
      BY <1>5, <3>1 DEF Makes, Made, Lives
    <3> QED  BY <1>2, <1>5, <3>1, <3>2 DEF Makes, Dir
  <2>2. CASE e = g
    <3>1. f # g /\ entry'[f] = entry[f] /\ Dir(f) = d
      BY <1>5, <2>2, Numbers DEF Makes, Dir
    <3>2. IF cache[d] = None THEN Over(f) ELSE f <= cache[d]
      BY <3>1 DEF Newest
    <3> QED  BY <1>1, <1>5, <2>2, <3>2 DEF Behind, Started, Makes
  <2> QED  BY <2>1, <2>2
<1> QED  BY <1>3, <1>4, <1>5 DEF EntriesGo

LEMMA LineHolds == ASSUME TypeOK, TypeOK', Line, EntriesGo PROVE Line'
BY LivesHold, ReplacesHolds, NewestHolds, FollowHolds DEF Line

-----------------------------------------------------------------------------
(* Disposals, and the state kept for a directory *)

\* A started entry stays started, and the directory of an entry does not change.
LEMMA StaysStarted ==
  ASSUME TypeOK, Lives, EntriesGo, NEW e \in Entries, entry[e].fiber # "none"
  PROVE  /\ Started(e) => Started(e)'
         /\ entry'[e].dir = entry[e].dir /\ entry'[e].prev = entry[e].prev
         /\ Settled(e) => entry'[e] = entry[e]
BY DEF EntriesGo, Goes, Makes, Started, Lives

LEMMA AwaitsHold ==
  ASSUME TypeOK, TypeOK', Lives, Awaits, EntriesGo, DisposalGoes
  PROVE  Awaits'
<1> SUFFICES ASSUME NEW x \in Calls \cup Entries, disposal'[x].pc # "idle"
             PROVE  /\ entry'[disposal'[x].of].dir # None
                    /\ disposal'[x].pc = "disposing" => entry'[disposal'[x].of].value = "ok"
  BY DEF Awaits, Dir
<1> DEFINE of == disposal'[x].of
<1>1. of \in Entries
  BY Fields DEF TypeOK, Disposals
<1>2. Dir(of) # None /\ (disposal'[x].pc = "disposing" => entry[of].value = "ok")
  BY DEF DisposalGoes, Awaits
<1> HIDE DEF of
<1>3. entry[of].fiber # "none" /\ (entry[of].value = "ok" => Settled(of))
  BY <1>1, <1>2 DEF Lives, Settled
<1>4. /\ entry'[of].dir = Dir(of)
      /\ entry[of].value = "ok" => entry'[of].value = "ok"
  BY <1>1, <1>3, StaysStarted DEF Dir
<1> QED  BY <1>2, <1>4 DEF of

\* An instance is disposed of: what it kept in its directory is taken before.
LEMMA KeepHolds ==
  ASSUME TypeOK, TypeOK', Lives, Keep, EntriesGo, StateGoes, DisposalGoes
  PROVE  Keep'
<1> SUFFICES ASSUME NEW d \in Dirs, NEW b \in Entries, state'[d] # None, state'[d].by = b
             PROVE  /\ entry'[b].dir = d /\ entry'[b].fiber \in {"boot", "done"}
                    /\ ~state'[d].late => ~BeingDisposed(b)'
  <2>1. \A d \in Dirs : state'[d] # None => state'[d].by \in Entries
    BY DEF TypeOK, States
  <2> QED  BY <2>1 DEF Keep, Dir, Started, BeingDisposed
<1>1. CASE state'[d] = state[d]
  <2>1. Dir(b) = d /\ Started(b) /\ (~state[d].late => ~BeingDisposed(b))
    BY <1>1 DEF Keep
  <2>2. entry'[b].dir = d /\ Started(b)'
    BY <2>1, StaysStarted DEF Started, Dir
  <2>3. ASSUME ~BeingDisposed(b), BeingDisposed(b)'
        PROVE  FALSE
    <3>1. PICK x \in Calls \cup Entries : disposal'[x].pc = "disposing" /\ disposal'[x].of = b
      BY <2>3 DEF BeingDisposed, TypeOK
    <3>2. disposal'[x] # disposal[x]
      BY <2>3, <3>1 DEF BeingDisposed, TypeOK
    <3>3. state'[Dir(b)] = None
      BY <3>1, <3>2 DEF DisposalGoes
    <3> QED  BY <2>1, <3>3
  <2> QED  BY <1>1, <2>1, <2>2, <2>3 DEF Started
<1>2. CASE /\ Dir(b) = d /\ Started(b)
           /\ ~state'[d].late => cache[d] = b /\ ~BeingDisposed(b)
           /\ UNCHANGED <<cache, entry, disposal>>
  BY <1>2 DEF Dir, Started, BeingDisposed
<1> QED  BY <1>1, <1>2 DEF StateGoes

LEMMA CurrentHolds ==
  ASSUME TypeOK, TypeOK', Line, Keep, StateIsCurrent, EntriesGo, StateGoes
  PROVE  StateIsCurrent'
<1> USE DEF Line
<1> DEFINE Current(d, b) ==
      \/ cache'[d] = b
      \/ entry'[b].value = "failed"
      \/ \E e \in Entries : entry'[e].prev = b /\ entry'[e].fiber \in {"await", "dead"}
<1> SUFFICES ASSUME NEW d \in Dirs, NEW b \in Entries,
                    state'[d] # None, ~state'[d].late, state'[d].by = b
             PROVE  Current(d, b)
  <2>1. \A d \in Dirs : state'[d] # None => state'[d].by \in Entries
    BY DEF TypeOK, States
  <2> QED  BY <2>1 DEF StateIsCurrent
<1>1. CASE state'[d] = state[d]
  <2>1. Dir(b) = d /\ Started(b) /\ ~BeingDisposed(b) /\ b # None
    BY <1>1, Numbers DEF Keep
  <2>2. CASE cache[d] = b
    <3>1. ASSUME NEW e \in Entries, NEW c \in Dirs, Makes(e, c) PROVE Current(d, b)
      BY <2>1, <2>2, <3>1 DEF Makes
    <3>2. CASE CacheGoes
      BY <2>1, <2>2, <3>2 DEF CacheGoes
    <3> QED  BY <3>1, <3>2 DEF EntriesGo
  <2>3. CASE entry[b].value = "failed"
    BY <2>1, <2>3, StaysStarted DEF Started, Settled
  <2>4. ASSUME NEW e \in Entries, entry[e].prev = b, entry[e].fiber \in {"await", "dead"}
        PROVE  Current(d, b)
    <3>1. Dir(e) = d
      BY <2>1, <2>4 DEF Replaces
    <3>2. entry'[e].prev = b
      BY <2>4, StaysStarted
    <3>3. entry'[e].fiber \in {"await", "dead"}
      BY <1>1, <2>4, <3>1 DEF EntriesGo, Goes, Makes
    <3> QED  BY <3>2, <3>3
  <2> QED  BY <1>1, <2>2, <2>3, <2>4 DEF StateIsCurrent
<1>2. CASE cache[d] = b /\ UNCHANGED <<cache, entry, disposal>>
  BY <1>2
<1> QED  BY <1>1, <1>2 DEF StateGoes

-----------------------------------------------------------------------------
(* The theorems *)

LEMMA InitHolds == ASSUME Init PROVE IInv
<1> USE DEF Init
<1>1. TypeOK
  BY DEF TypeOK, EntryStates, Disposals, Idle
<1>2. Line
  BY Numbers DEF Line, Lives, Made, Replaces, Follow, Newest, Settled, Dir
<1>3. Awaits /\ Keep /\ StateIsCurrent
  BY DEF Awaits, Keep, StateIsCurrent, Idle
<1> QED  BY <1>1, <1>2, <1>3 DEF IInv

LEMMA NextHolds == ASSUME IInv, [Next]_vars PROVE IInv'
<1> USE DEF IInv
<1>1. CASE Next
  <2>1. TypeOK' /\ EntriesGo /\ StateGoes /\ DisposalGoes
    BY <1>1, TypeHolds, EntrySteps, StateSteps, DisposalSteps DEF Line
  <2>2. Line'
    BY <2>1, LineHolds
  <2>3. Awaits' /\ Keep'
    BY <2>1, AwaitsHold, KeepHolds DEF Line
  <2>4. StateIsCurrent'
    BY <2>1, CurrentHolds
  <2> QED  BY <2>1, <2>2, <2>3, <2>4
<1>2. CASE UNCHANGED vars
  BY <1>2 DEF vars, TypeOK, Line, Lives, Made, Replaces, Follow, Newest, Awaits, Keep,
              StateIsCurrent, Settled, Dir, Over, Started, BeingDisposed
<1> QED  BY <1>1, <1>2

\* The inductive invariant, of which the theorems below are consequences.
THEOREM StoreInductive == Spec => []IInv
<1> QED  BY InitHolds, NextHolds, PTL DEF Spec

\* While an instance boots no other of its directory boots or is disposed of by
\* its reload, and of two that have booted one has been announced as disposed
\* (reload and completeLoad): the older is over when the younger starts.
THEOREM InstancesFollow == Spec => []OneAfterAnother
<1>1. ASSUME IInv PROVE OneAfterAnother
  <2> USE DEF IInv, Line
  <2> SUFFICES ASSUME NEW e \in Entries, NEW f \in Entries, f < e,
                      Dir(e) = Dir(f), Dir(e) # None
               PROVE  /\ Started(e) => entry[f].fiber \notin {"boot", "disposing"}
                      /\ entry[f].fiber = "boot" => entry[e].fiber \notin {"boot", "disposing"}
                      /\ entry[e].value = "ok" /\ entry[f].value = "ok" => f \in noticed
    BY <1>1, Numbers DEF OneAfterAnother, Started
  <2>1. Started(e) => Over(f)
    BY <1>1 DEF Follow
  <2>2. Over(f) => entry[f].fiber = "done"
    BY <1>1 DEF Over, Lives, Settled
  <2>3. entry[e].fiber = "disposing" => Over(f) \/ Settled(f)
    BY <1>1, Fields DEF Lives, Follow, Replaces
  <2>4. entry[e].value = "ok" => Started(e)
    BY <1>1 DEF Lives, Settled, Started
  <2>5. Settled(f) => entry[f].fiber = "done"
    BY <1>1 DEF Lives
  <2> QED  BY <2>1, <2>2, <2>3, <2>4, <2>5 DEF Started, Over
<1> QED  BY <1>1, StoreInductive, PTL

\* What a service keeps for a directory does not outlive the instance it was
\* built for, but for what is built during or after its disposal, by a boot
\* that fails, or before a reload that dies.
THEOREM StateEndsInTime == Spec => []StateIsCurrent
<1>1. IInv => StateIsCurrent
  BY DEF IInv
<1> QED  BY <1>1, StoreInductive, PTL

\* A disposal or a reload runs the disposers of a directory: what they take was
\* built by the very instance that is disposed of, or by one whose boot failed.
LEMMA TakesItsOwn ==
  ASSUME IInv, NEW d \in Dirs, state[d] # None, ~state[d].late,
         NEW e \in Entries, Dir(e) = d
  PROVE  LET b == state[d].by IN
         /\ entry[e].fiber = "await" /\ Settled(entry[e].prev) =>
              b = entry[e].prev \/ entry[b].value = "failed"
         /\ entry[e].value = "ok" /\ cache[d] = e => b = e \/ entry[b].value = "failed"
         /\ cache[d] = None => entry[b].value = "failed"
<1> USE DEF IInv, Line
<1> DEFINE b == state[d].by
<1>1. b \in Entries /\ Dir(b) = d /\ Started(b) /\ b # None /\ d # None
  BY Fields, Numbers DEF Keep
<1> HIDE DEF b
<1>2. ASSUME NEW f \in Entries, entry[f].prev = b, entry[f].fiber \in {"await", "dead"}
      PROVE  /\ b < f /\ Dir(f) = d /\ ~Over(f)
             /\ ~Settled(f) /\ ~Started(f)
  BY <1>1, <1>2 DEF Replaces, Over, Lives, Settled, Started
<1>3. \/ cache[d] = b
      \/ entry[b].value = "failed"
      \/ \E f \in Entries : entry[f].prev = b /\ entry[f].fiber \in {"await", "dead"}
  BY DEF StateIsCurrent, b
<1>4. ASSUME entry[e].fiber = "await", Settled(entry[e].prev), b # entry[e].prev
      PROVE  entry[b].value = "failed"
  <2>1. /\ entry[e].prev \in Entries /\ Dir(entry[e].prev) = d /\ Started(entry[e].prev)
        /\ entry[e].prev < e /\ ~Over(e) /\ ~Started(e)
    BY <1>4, Fields DEF Lives, Replaces, Over, Settled, Started
  <2>2. b < e
    <3>1. ~(e < b)
      BY <1>1, <2>1 DEF Follow
    <3> QED  BY <1>1, <2>1, <3>1, Numbers
  <2>3. cache[d] # b
    BY <1>1, <2>2, Numbers DEF Newest
  <2>4. ASSUME NEW f \in Entries, entry[f].prev = b, entry[f].fiber \in {"await", "dead"}
        PROVE  FALSE
    <3>1. f # e
      BY <1>4, <2>4
    <3>2. ~(e < f)
      <4> SUFFICES ASSUME e < f PROVE FALSE
        OBVIOUS
      <4>1. e <= b
        BY <1>1, <1>2, <2>4 DEF Follow
      <4> QED  BY <1>1, <2>2, <4>1, Numbers
    <3>3. f < e
      BY <3>1, <3>2, Numbers
    <3>4. f <= entry[e].prev
      BY <1>1, <1>2, <2>1, <2>4, <3>3, Numbers DEF Follow
    <3>5. f # entry[e].prev
      BY <1>2, <2>1, <2>4
    <3>6. f < entry[e].prev
      BY <2>1, <3>4, <3>5, Numbers
    <3>7. Over(f)
      BY <1>1, <1>2, <2>1, <2>4, <3>6 DEF Follow
    <3> QED  BY <1>2, <2>4, <3>7
  <2> QED  BY <1>3, <2>3, <2>4
<1>5. ASSUME entry[e].value = "ok", cache[d] = e, b # e
      PROVE  entry[b].value = "failed"
  <2>1. ASSUME NEW f \in Entries, entry[f].prev = b, entry[f].fiber \in {"await", "dead"}
        PROVE  FALSE
    <3>1. f # e /\ Started(e)
      BY <1>2, <1>5, <2>1 DEF Lives, Settled, Started
    <3>2. f < e
      BY <1>2, <1>5, <2>1, <3>1, Numbers DEF Newest
    <3> QED  BY <1>1, <1>2, <2>1, <3>1, <3>2 DEF Follow
  <2> QED  BY <1>3, <1>5, <2>1
<1>6. ASSUME cache[d] = None
      PROVE  entry[b].value = "failed"
  BY <1>1, <1>2, <1>3, <1>6 DEF Newest
<1> QED  BY <1>4, <1>5, <1>6 DEF b

\* The disposers know only the directory, and take a state that was built in
\* time from no instance but the one that is disposed of (disposeEntry's and
\* dispose's checks of the entry, and the wait of a reload).
THEOREM StateIsTakenByItsOwn == Spec => StateIsKept
<1>1. ASSUME IInv, [Next]_vars, NEW d \in Dirs,
             state[d] # None, ~state[d].late, state'[d] = None
      PROVE  LET b == state[d].by IN
             \/ entry[b].value = "failed"
             \/ \E x \in Calls \cup Entries : disposal'[x].pc = "disposing" /\ disposal'[x].of = b
             \/ \E e \in Entries : entry[e].prev = b /\ entry'[e].fiber = "disposing"
  <2> USE DEF IInv, Line
  <2> DEFINE b == state[d].by
             Goal == \/ entry[b].value = "failed"
                     \/ \E x \in Calls \cup Entries :
                          disposal'[x].pc = "disposing" /\ disposal'[x].of = b
                     \/ \E e \in Entries : entry[e].prev = b /\ entry'[e].fiber = "disposing"
  <2> SUFFICES Goal
    OBVIOUS
  <2>1. ASSUME NEW e \in Entries, ReloadDisposes(e) PROVE Goal
    <3>1. Dir(e) = d
      BY <1>1, <2>1 DEF ReloadDisposes, RunDisposers, TypeOK
    <3>2. entry'[e].fiber = "disposing"
      BY <1>1, <2>1 DEF ReloadDisposes, Fiber, TypeOK, EntryStates
    <3> QED  BY <1>1, <2>1, <3>1, <3>2, TakesItsOwn DEF ReloadDisposes
  <2>2. ASSUME NEW c \in Calls, NEW e \in Entries, Dispose(c, e) PROVE Goal
    <3>1. Dir(e) = d /\ cache[d] = None
      BY <1>1, <2>2 DEF Dispose, RunDisposers, TypeOK
    <3> QED  BY <1>1, <3>1, TakesItsOwn
  <2>3. ASSUME NEW x \in Calls \cup Entries, Awaited(x) PROVE Goal
    <3> DEFINE e == disposal[x].of
    <3>1. e \in Entries
      BY <1>1, <2>3, Fields DEF Awaited
    <3>2. /\ entry[e].value = "ok" /\ StillOwn(x) /\ RunDisposers(Dir(e))
          /\ disposal' = [disposal EXCEPT ![x].pc = "disposing"]
      BY <1>1, <2>3 DEF Awaited
    <3>3. Dir(e) = d /\ cache[d] = e
      BY <1>1, <3>2 DEF RunDisposers, StillOwn, TypeOK
    <3>4. disposal'[x].pc = "disposing" /\ disposal'[x].of = e
      BY <1>1, <2>3, <3>2, Fields DEF TypeOK, Disposals, Awaited
    <3> QED  BY <1>1, <3>1, <3>2, <3>3, <3>4, TakesItsOwn
  <2>4. ASSUME NEW e \in Entries, GetState(e) PROVE Goal
    BY <1>1, <2>4 DEF GetState, TypeOK
  <2>5. state' # state
    BY <1>1
  <2> QED  BY <1>1, <2>1, <2>2, <2>3, <2>4, <2>5
           DEF Next, vars, Boots, Disposes, Load, Reload, ReloadAnnounces, BootEnds, Stopped,
               DisposeDirectory, DisposeAll, Disposed, CallInterrupted, Close
<1>2. IInv /\ [Next]_vars =>
        [\A d \in Dirs : state[d] # None /\ ~state[d].late /\ state'[d] = None =>
           LET b == state[d].by IN
           \/ entry[b].value = "failed"
           \/ \E x \in Calls \cup Entries : disposal'[x].pc = "disposing" /\ disposal'[x].of = b
           \/ \E e \in Entries : entry[e].prev = b /\ entry'[e].fiber = "disposing"]_vars
  BY <1>1
<1> QED  BY <1>2, StoreInductive, PTL DEF Spec, StateIsKept

-----------------------------------------------------------------------------
(* WORKSPACES *)

\* q holds the event e, in the place its number says.
In(q, e) == e.seq \in DOMAIN q /\ q[e.seq] = e

Held(s, w) == log[w][s] # <<>>

\* Events are stored by their numbers, with whoever made them, and a workspace
\* that one names holds the session.
Numbered ==
  \A n \in Nodes, s \in Sessions :
    /\ \A i \in DOMAIN log[n][s] : log[n][s][i].seq = i
    /\ \A e \in Events : In(log[n][s], e) =>
         /\ e.sid = s
         /\ In(log[e.by][s], e)
         /\ e.to \in Remotes => Held(s, e.to)
         /\ e.seq = 1 => e.to = At(e.by)

OneOrigin ==
  \A n, k \in Nodes, s \in Sessions : Held(s, n) /\ Held(s, k) => log[n][s][1] = log[k][s][1]

\* An event of the session, in the log of n, carries the place p.
Says(n, s, p) == \E e \in Events : In(log[n][s], e) /\ e.to = p
Said(s, p) == \E n \in Nodes : Says(n, s, p)

\* Home has the session's place from an event.
Placed == \A s \in Sessions : IF Held(s, Home) THEN Says(Home, s, place[s]) ELSE place[s] = Nowhere

\* What is left to send: consecutive events of h, the first of which follows n.
LeftToSend(rows, h, n) ==
  /\ rows # <<>>
  /\ \A k \in DOMAIN rows : In(h, rows[k]) /\ rows[k].seq = rows[1].seq + k - 1
  /\ rows[1].seq <= n + 1

CallsOf(s) == {m \in Warps : warp[m].pc # "ready" /\ warp[m].sid = s}

\* A warp moves a session it found in no remote workspace, or one it has claimed.
WarpFits(m) ==
  LET s == warp[m].sid
      w == warp[m].to IN
  /\ Held(s, Home)
  /\ warp[m].from # Nowhere => Held(s, warp[m].from)
  /\ warp[m].pc \in {"move", "send", "steal", "set"} => warp[m].claimed \/ warp[m].from = Nowhere
  /\ warp[m].pc \in {"final", "claim"} => ~warp[m].claimed
  /\ warp[m].pc = "final" => warp[m].from # Nowhere
  /\ warp[m].pc \in {"send", "steal", "set"} => w # Nowhere
  /\ warp[m].pc \in {"steal", "set"} => Held(s, w)
  /\ warp[m].pc = "send" => LeftToSend(warp[m].rows, log[Home][s], Len(log[w][s]))

Warped == \A m \in Warps : warp[m].pc # "ready" => WarpFits(m)

\* What a request holds of the log it reads.
PullFits(x) ==
  /\ x \in Remotes /\ pull[x] # NoPull => pull[x].of = x
  /\ x \in Warps /\ pull[x] # NoPull => warp[x].pc = "final"
  /\ pull[x].pc = "asked" => \A s \in Sessions : pull[x].known[s] <= HomeLen(s)
  /\ pull[x].pc = "replaying" =>
       \A k \in DOMAIN pull[x].batch :
         In(log[pull[x].of][pull[x].batch[k].sid], pull[x].batch[k])

Pulled == \A x \in Remotes \cup Warps : PullFits(x)

-----------------------------------------------------------------------------
(* Sources *)

\* What stands in h after the last event of home's is in q.
TailIn(h, q) ==
  \A i \in DOMAIN h : (\A j \in i .. Len(h) : h[j].by # Home) => In(q, h[i])

\* What h holds that home did not publish is in q.
OthersIn(h, q) == \A e \in Events : In(h, e) /\ e.by # Home => In(q, e)

AllByHome(h) == \A e \in Events : In(h, e) => e.by = Home

FromHome(s) == \E n \in Nodes : Held(s, n) /\ log[n][s][1].by = Home

\* A loose warp has begun to send the session to w.
Sent(s, w) ==
  \E l \in Loose(s) : warp[l].to = w /\ warp[l].pc \in {"send", "steal", "set", "over"}

\* Until a warp claims the session, its owner is the only source; a workspace
\* holds it since it was created there or was sent it from home; and it has been
\* in workspaces and in none only if a loose warp took it from home.
Unclaimed(s) ==
  /\ owner[s] = Nowhere => AllByHome(log[Home][s])
  /\ owner[s] # Nowhere =>
       owner[s] # Project /\ Held(s, owner[s]) /\ OthersIn(log[Home][s], log[owner[s]][s])
  /\ \A w \in Remotes : Held(s, w) => log[w][s][1].by = w \/ Sent(s, w)
  /\ Said(s, Nowhere) \/ Loose(s) # {} => FromHome(s)
  /\ FromHome(s) /\ ((\E w \in Remotes : Said(s, w)) \/ \E m \in CallsOf(s) : warp[m].from # Nowhere) =>
       Loose(s) # {}

\* w has been sent events of the session at most, and nothing says it is there.
IdleAt(s, w) ==
  /\ \A e \in Events : In(log[w][s], e) => e.by # w /\ In(log[Home][s], e)
  /\ ~Said(s, w)
  /\ \A n \in CallsOf(s) : warp[n].pc \in {"steal", "set"} => warp[n].to # w

\* What the workspace that is left has of the session.
Source(s, f) == IF f = Nowhere THEN <<>> ELSE log[f][s]

\* After the claim of m, the workspace it leaves stays the source until the new
\* one has everything that came from there; with the project as the owner,
\* nothing is received any more.
Claimed(s, m) ==
  LET d == warp[m].to
      f == warp[m].from IN
  IF d = Nowhere
  THEN owner[s] = Project /\ TailIn(log[Home][s], Source(s, f))
  ELSE /\ owner[s] = d
       /\ \A w \in Remotes : Held(s, w) => w \in {d, f}
       /\ \A l \in Loose(s) : l = m \/ warp[l].to = f
       /\ Loose(s) = {} => ~Said(s, Nowhere)
       /\ \/ TailIn(log[Home][s], log[d][s])
          \/ f # Nowhere /\ TailIn(log[Home][s], log[f][s]) /\ IdleAt(s, d)

\* Nothing that came from there is left behind.
Sending(s, m) ==
  LET d == warp[m].to IN
  /\ warp[m].pc = "send" =>
       \A e \in Events : In(log[Home][s], e) /\ e.by # Home =>
         In(log[d][s], e) \/ \E k \in DOMAIN warp[m].rows : warp[m].rows[k] = e
  /\ warp[m].pc \in {"steal", "set"} => OthersIn(log[Home][s], log[d][s])

Sourced(s) ==
  /\ Claims(s) = {} => Unclaimed(s)
  /\ ~Contested(s) => \A m \in Claims(s) : Claimed(s, m) /\ Sending(s, m)

\* An answer leaves no gap that home would take for an error.
Gapless(x) ==
  LET batch == pull[x].batch IN
  pull[x].pc = "replaying" =>
    \A k \in DOMAIN batch :
      LET s == batch[k].sid IN
      \/ Contested(s) \/ Fenced(s, pull[x].of)
      \/ batch[k].seq <= HomeLen(s) + 1
      \/ \E j \in 1 .. k - 1 : batch[j].sid = s /\ batch[j].seq = batch[k].seq - 1

SyncInv ==
  /\ SyncTypeOK /\ Numbered /\ OneOrigin /\ Placed /\ Warped /\ Pulled
  /\ \A s \in Sessions : Sourced(s)
  /\ \A x \in Remotes \cup Warps : Gapless(x)
-----------------------------------------------------------------------------
(* Sequences of events *)

\* An event that a sequence holds has one of its numbers.
LEMMA InIs ==
  ASSUME NEW q \in Seq(Events), NEW e, In(q, e)
  PROVE  e \in Events /\ e.seq \in 1 .. Len(q) /\ q[e.seq] = e /\ q # <<>>
<1>1. DOMAIN q = 1 .. Len(q) /\ Len(q) \in Nat /\ (\A i \in 1 .. Len(q) : q[i] \in Events)
  OBVIOUS
<1>2. DOMAIN <<>> = {}
  OBVIOUS
<1> QED  BY <1>1, <1>2 DEF In

LEMMA InsAgree ==
  ASSUME NEW q \in Seq(Events), NEW d, NEW e, In(q, d), In(q, e), d.seq = e.seq
  PROVE  d = e
BY DEF In

\* What a sequence holds when an event has been appended with the next number.
LEMMA InAppend ==
  ASSUME NEW q \in Seq(Events), NEW e \in Events, e.seq = Len(q) + 1
  PROVE  /\ Append(q, e) \in Seq(Events) /\ Append(q, e) # <<>>
         /\ Len(Append(q, e)) = Len(q) + 1
         /\ \A d : In(Append(q, e), d) <=> In(q, d) \/ d = e
         /\ ~In(q, e)
<1>1. Append(q, e) \in Seq(Events) /\ Len(Append(q, e)) = Len(q) + 1 /\ Len(q) \in Nat
  OBVIOUS
<1>2. DOMAIN Append(q, e) = 1 .. Len(q) + 1 /\ DOMAIN q = 1 .. Len(q)
  OBVIOUS
<1>3. Append(q, e)[Len(q) + 1] = e /\ \A i \in 1 .. Len(q) : Append(q, e)[i] = q[i]
  OBVIOUS
<1>4. Append(q, e) # <<>>
  BY <1>1
<1>5. ASSUME NEW d PROVE In(Append(q, e), d) <=> In(q, d) \/ d = e
  <2>1. ASSUME d.seq \in 1 .. Len(q) PROVE In(Append(q, e), d) <=> In(q, d)
    BY <1>1, <1>2, <1>3, <2>1 DEF In
  <2>2. ASSUME d.seq \in 1 .. Len(q) PROVE d # e
    BY <1>1, <2>2
  <2>3. ASSUME d.seq \notin 1 .. Len(q) PROVE ~In(q, d)
    BY <1>2, <2>3 DEF In
  <2>4. ASSUME d.seq \notin 1 .. Len(q) PROVE In(Append(q, e), d) <=> d = e
    BY <1>1, <1>2, <1>3, <2>4 DEF In
  <2> QED  BY <2>1, <2>2, <2>3, <2>4
<1>6. ~In(q, e)
  BY <1>1, <1>2 DEF In
<1> QED  BY <1>1, <1>4, <1>5, <1>6

\* The first event stays the first.
LEMMA FirstStays ==
  ASSUME NEW q \in Seq(Events), NEW e \in Events, q # <<>>
  PROVE  Append(q, e)[1] = q[1]
<1>1. Len(q) \in Nat /\ Len(q) # 0
  OBVIOUS
<1> QED  BY <1>1

LEMMA FirstOne ==
  ASSUME NEW e \in Events, e.seq = 1
  PROVE  Append(<<>>, e)[1] = e
OBVIOUS

\* The tail after home's last event.
LEMMA TailOwn ==
  ASSUME NEW h \in Seq(Events), NEW q, NEW e \in Events, e.by = Home
  PROVE  TailIn(Append(h, e), q)
<1> DEFINE g == Append(h, e)
<1>1. Len(g) = Len(h) + 1 /\ Len(h) \in Nat /\ DOMAIN g = 1 .. Len(g) /\ g[Len(g)] = e
  OBVIOUS
<1> HIDE DEF g
<1>2. \A i \in DOMAIN g : Len(g) \in i .. Len(g)
  BY <1>1
<1> QED  BY <1>1, <1>2 DEF TailIn, g

LEMMA TailTaken ==
  ASSUME NEW h \in Seq(Events), NEW q, NEW e \in Events, TailIn(h, q), In(q, e)
  PROVE  TailIn(Append(h, e), q)
<1> DEFINE g == Append(h, e)
<1>1. /\ Len(g) = Len(h) + 1 /\ Len(h) \in Nat /\ DOMAIN g = 1 .. Len(g) /\ g[Len(g)] = e
      /\ DOMAIN h = 1 .. Len(h) /\ \A i \in 1 .. Len(h) : g[i] = h[i]
  OBVIOUS
<1> HIDE DEF g
<1> SUFFICES ASSUME NEW i \in DOMAIN g, \A j \in i .. Len(g) : g[j].by # Home
             PROVE  In(q, g[i])
  BY DEF TailIn, g
<1>2. CASE i = Len(g)
  BY <1>1, <1>2
<1>3. CASE i # Len(g)
  <2>1. i \in DOMAIN h /\ g[i] = h[i]
    BY <1>1, <1>3
  <2>2. \A j \in i .. Len(h) : j \in i .. Len(g) /\ g[j] = h[j]
    BY <1>1, <2>1
  <2> QED  BY <2>1, <2>2 DEF TailIn
<1> QED  BY <1>2, <1>3

LEMMA TailGrows ==
  ASSUME NEW h, NEW q, NEW r, TailIn(h, q), \A e : In(q, e) => In(r, e)
  PROVE  TailIn(h, r)
BY DEF TailIn

\* When nothing else than home's own is missing, the tail is there.
LEMMA OthersTail ==
  ASSUME NEW h \in Seq(Events), NEW q, OthersIn(h, q), \A i \in DOMAIN h : h[i].seq = i
  PROVE  TailIn(h, q)
<1> SUFFICES ASSUME NEW i \in DOMAIN h, \A j \in i .. Len(h) : h[j].by # Home
             PROVE  In(q, h[i])
  BY DEF TailIn
<1>1. i \in i .. Len(h) /\ h[i] \in Events
  OBVIOUS
<1>2. In(h, h[i])
  BY DEF In
<1> QED  BY <1>1, <1>2 DEF OthersIn

\* The rows a warp sends.
LEMMA AllToSend ==
  ASSUME NEW h \in Seq(Events), h # <<>>, \A i \in DOMAIN h : h[i].seq = i, NEW n \in Nat
  PROVE  LeftToSend(h, h, n)
<1>1. Len(h) \in Nat /\ Len(h) # 0 /\ DOMAIN h = 1 .. Len(h)
  OBVIOUS
<1>2. h[1].seq = 1
  BY <1>1
<1>3. \A k \in DOMAIN h : In(h, h[k]) /\ h[k].seq = h[1].seq + k - 1
  BY <1>1, <1>2 DEF In
<1> QED  BY <1>2, <1>3 DEF LeftToSend

LEMMA TailToSend ==
  ASSUME NEW rows \in Seq(Events), NEW h, NEW n \in Nat, NEW k \in Nat,
         LeftToSend(rows, h, n), Len(rows) # 1, Head(rows).seq <= k
  PROVE  LeftToSend(Tail(rows), h, k)
<1> DEFINE t == Tail(rows)
<1>1. rows # <<>>
  BY DEF LeftToSend
<1>2. Len(rows) \in Nat /\ Len(rows) >= 2 /\ Head(rows) = rows[1] /\ DOMAIN rows = 1 .. Len(rows)
  <2>1. Len(rows) \in Nat /\ Len(rows) # 0 /\ Head(rows) = rows[1] /\ DOMAIN rows = 1 .. Len(rows)
    BY <1>1
  <2> QED  BY <2>1
<1>3. t \in Seq(Events) /\ Len(t) = Len(rows) - 1 /\ \A i \in 1 .. Len(t) : t[i] = rows[i + 1]
  BY <1>1, <1>2
<1>4. DOMAIN t = 1 .. Len(t) /\ t # <<>>
  <2>1. DOMAIN t = 1 .. Len(t)
    BY <1>3
  <2>2. Len(t) # 0
    BY <1>2, <1>3
  <2> HIDE DEF t
  <2> QED  BY <2>1, <2>2
<1>5. \A i \in DOMAIN rows : rows[i] \in Events
  BY <1>2
<1>6. rows[1].seq \in Nat /\ rows[2].seq \in Nat
  BY <1>2, <1>5 DEF Events
<1> HIDE DEF t
<1>7. rows[2].seq = rows[1].seq + 1
  BY <1>2, <1>6 DEF LeftToSend
<1>8. t[1] = rows[2] /\ t[1].seq = rows[1].seq + 1
  BY <1>2, <1>3, <1>7
<1>9. ASSUME NEW i \in DOMAIN t PROVE In(h, t[i]) /\ t[i].seq = t[1].seq + i - 1
  <2>1. i + 1 \in DOMAIN rows /\ t[i] = rows[i + 1] /\ i \in Nat
    BY <1>2, <1>3, <1>4
  <2>2. \A j \in DOMAIN rows : In(h, rows[j]) /\ rows[j].seq = rows[1].seq + j - 1
    BY DEF LeftToSend
  <2>3. In(h, rows[i + 1]) /\ rows[i + 1].seq = rows[1].seq + (i + 1) - 1
    BY <2>1, <2>2
  <2>4. t[i].seq = rows[1].seq + (i + 1) - 1
    BY <2>1, <2>3
  <2>5. t[i].seq = t[1].seq + i - 1
    <3>1. \A a, b, c \in Nat : b = a + 1 => a + (c + 1) - 1 = b + c - 1
      OBVIOUS
    <3>2. t[1].seq \in Nat /\ i \in Nat
      BY <1>6, <1>8, <2>1
    <3> QED  BY <1>6, <1>8, <2>4, <3>1, <3>2
  <2> QED  BY <2>1, <2>3, <2>5
<1>10. t[1].seq <= k + 1
  BY <1>2, <1>6, <1>8
<1>11. LeftToSend(t, h, k)
  BY <1>4, <1>9, <1>10 DEF LeftToSend
<1> QED  BY <1>11 DEF t

LEMMA SendsGrow ==
  ASSUME NEW rows \in Seq(Events), NEW h, NEW g, NEW n \in Nat, NEW k \in Nat,
         LeftToSend(rows, h, n), n <= k, \A e : In(h, e) => In(g, e)
  PROVE  LeftToSend(rows, g, k)
<1>1. rows # <<>> /\ 1 \in DOMAIN rows /\ rows[1] \in Events
  BY DEF LeftToSend
<1>2. rows[1].seq \in Nat
  BY <1>1 DEF Events
<1> QED  BY <1>2 DEF LeftToSend
-----------------------------------------------------------------------------
(* Fields *)

LEMMA SyncFields ==
  ASSUME SyncTypeOK
  PROVE  /\ \A n \in Nodes, s \in Sessions :
              log[n] \in [Sessions -> Seq(Events)] /\ log[n][s] \in Seq(Events) /\ Len(log[n][s]) \in Nat
         /\ \A s \in Sessions : place[s] \in Places /\ owner[s] \in Owners /\ HomeLen(s) \in Nat
         /\ Home \in Nodes /\ (\A w \in Remotes : w \in Nodes /\ w \in Places /\ w \in Owners /\ w # Home)
         /\ Nowhere \in Places
<1>1. \A n \in Nodes : log[n] \in [Sessions -> Seq(Events)]
  BY DEF SyncTypeOK
<1>2. \A n \in Nodes, s \in Sessions : log[n][s] \in Seq(Events)
  BY <1>1
<1>3. \A n \in Nodes, s \in Sessions : Len(log[n][s]) \in Nat
  BY <1>2
<1>4. Home \in Nodes /\ \A w \in Remotes : w \in Nodes /\ w \in Places /\ w \in Owners /\ w # Home
  BY SyncAssumption DEF Nodes, Places, Owners
<1>5. \A s \in Sessions : place[s] \in Places /\ owner[s] \in Owners
  BY DEF SyncTypeOK
<1> QED  BY <1>1, <1>2, <1>3, <1>4, <1>5 DEF HomeLen, Places

LEMMA EventFields ==
  ASSUME NEW e \in Events
  PROVE  /\ e.sid \in Sessions /\ e.seq \in Nat /\ e.seq >= 1 /\ e.by \in Nodes
         /\ e.to \in Places \cup {"keep"}
BY SyncAssumption DEF Events

LEMMA WarpFields ==
  ASSUME SyncTypeOK, NEW m \in Warps, warp[m].pc # "ready"
  PROVE  /\ warp[m] \in [pc: {"final", "claim", "move", "send", "steal", "set", "over"},
                         sid: Sessions, from: Places, to: Places, claimed: BOOLEAN, rows: Seq(Events)]
         /\ warp[m].sid \in Sessions /\ warp[m].from \in Places /\ warp[m].to \in Places
         /\ warp[m].claimed \in BOOLEAN /\ warp[m].rows \in Seq(Events)
<1>1. warp[m] \in WarpStates /\ warp[m] # NoWarp
  BY DEF SyncTypeOK, NoWarp
<1> QED  BY <1>1 DEF WarpStates

LEMMA PullFields ==
  ASSUME SyncTypeOK, NEW x \in Remotes \cup Warps
  PROVE  /\ pull[x] # NoPull => pull[x].of \in Remotes /\ pull[x].pc \in {"asked", "replaying"}
         /\ pull[x].pc \in {"none", "asked", "replaying"}
         /\ pull[x].pc # "none" => pull[x] # NoPull
         /\ pull[x].pc = "asked" => pull[x].known \in [Sessions -> Nat]
         /\ pull[x].pc = "replaying" =>
              /\ pull[x].batch \in Seq(Events)
              /\ pull[x] \in [pc: {"replaying"}, of: Remotes, batch: Seq(Events)]
<1>1. pull[x] \in Pulls
  BY DEF SyncTypeOK
<1>2. CASE pull[x] = NoPull
  BY <1>2 DEF NoPull
<1>3. CASE pull[x] \in [pc: {"asked"}, of: Remotes, known: [Sessions -> Nat]]
  BY <1>3 DEF NoPull
<1>4. CASE pull[x] \in [pc: {"replaying"}, of: Remotes, batch: Seq(Events)]
  BY <1>4 DEF NoPull
<1> QED  BY <1>1, <1>2, <1>3, <1>4 DEF Pulls

-----------------------------------------------------------------------------
(* One log grows by one event *)

Adds(n, s, e) ==
  /\ e \in Events /\ e.sid = s /\ e.seq = Len(log[n][s]) + 1
  /\ log' = [log EXCEPT ![n][s] = Append(@, e)]

LEMMA AddsIs ==
  ASSUME SyncTypeOK, NEW n \in Nodes, NEW s \in Sessions, NEW e, Adds(n, s, e)
  PROVE  /\ log' \in [Nodes -> [Sessions -> Seq(Events)]]
         /\ log'[n][s] = Append(log[n][s], e)
         /\ \A k \in Nodes, r \in Sessions : k # n \/ r # s => log'[k][r] = log[k][r]
         /\ \A d : In(log'[n][s], d) <=> In(log[n][s], d) \/ d = e
         /\ Len(log'[n][s]) = Len(log[n][s]) + 1 /\ log'[n][s] # <<>>
         /\ ~In(log[n][s], e)
         /\ log[n][s] # <<>> => log'[n][s][1] = log[n][s][1]
         /\ log[n][s] = <<>> => log'[n][s][1] = e
<1>1. log \in [Nodes -> [Sessions -> Seq(Events)]] /\ log[n] \in [Sessions -> Seq(Events)] /\ log[n][s] \in Seq(Events)
  BY SyncFields DEF SyncTypeOK
<1>2. e \in Events /\ e.seq = Len(log[n][s]) + 1
  BY DEF Adds
<1>3. log' = [log EXCEPT ![n] = [log[n] EXCEPT ![s] = Append(log[n][s], e)]]
  BY <1>1 DEF Adds
<1>4. log'[n][s] = Append(log[n][s], e)
  BY <1>1, <1>3
<1>5. \A k \in Nodes, r \in Sessions : k # n \/ r # s => log'[k][r] = log[k][r]
  BY <1>1, <1>3
<1>6. Append(log[n][s], e) \in Seq(Events)
  BY <1>1, <1>2, InAppend
<1>7. log' \in [Nodes -> [Sessions -> Seq(Events)]]
  <2>1. [log[n] EXCEPT ![s] = Append(log[n][s], e)] \in [Sessions -> Seq(Events)]
    BY <1>1, <1>6
  <2> QED  BY <1>1, <1>3, <2>1
<1>8. log[n][s] # <<>> => log'[n][s][1] = log[n][s][1]
  BY <1>1, <1>2, <1>4, FirstStays
<1>9. log[n][s] = <<>> => log'[n][s][1] = e
  <2> HAVE log[n][s] = <<>>
  <2>1. e.seq = 1
    <3>1. Len(<<>>) = 0
      OBVIOUS
    <3> QED  BY <1>2, <3>1
  <2> QED  BY <1>2, <1>4, <2>1, FirstOne
<1>10. /\ \A d : In(log'[n][s], d) <=> In(log[n][s], d) \/ d = e
       /\ Len(log'[n][s]) = Len(log[n][s]) + 1 /\ log'[n][s] # <<>>
       /\ ~In(log[n][s], e)
  BY <1>1, <1>2, <1>4, InAppend
<1> QED  BY <1>4, <1>5, <1>7, <1>8, <1>9, <1>10

LEMMA AddsIn ==
  ASSUME SyncTypeOK, NEW n \in Nodes, NEW s \in Sessions, NEW e, Adds(n, s, e)
  PROVE  \A d : In(log'[n][s], d) <=> In(log[n][s], d) \/ d = e
<1> TAKE d
<1>1. log[n][s] \in Seq(Events) /\ e \in Events /\ e.seq = Len(log[n][s]) + 1
  BY SyncFields DEF Adds
<1>2. log'[n][s] = Append(log[n][s], e)
  BY AddsIs
<1> QED  BY <1>1, <1>2, InAppend

\* The event is the session's first, one of n's own, or a copy.
Fits(n, s, e) ==
  \/ e.by = n /\ e.to = At(n) /\ e.seq = 1 /\ \A k \in Nodes : log[k][s] = <<>>
  \/ e.by = n /\ Held(s, n) /\ (e.to \in Remotes => Held(s, e.to))
  \/ \E k \in Nodes : In(log[k][s], e)

LogStep ==
  \/ log' = log
  \/ \E n \in Nodes, s \in Sessions, e \in Events : Adds(n, s, e) /\ Fits(n, s, e)

\* What a step leaves of every log.
Grows ==
  \A k \in Nodes, r \in Sessions :
    /\ log'[k][r] \in Seq(Events) /\ Len(log'[k][r]) \in Nat
    /\ Len(log[k][r]) <= Len(log'[k][r])
    /\ log[k][r] # <<>> => log'[k][r] # <<>> /\ log'[k][r][1] = log[k][r][1]
    /\ \A d : In(log[k][r], d) => In(log'[k][r], d)

LEMMA LogGrows == ASSUME SyncTypeOK, LogStep PROVE Grows
<1>1. CASE log' = log
  BY <1>1, SyncFields DEF Grows
<1>2. ASSUME NEW n \in Nodes, NEW s \in Sessions, NEW e \in Events, Adds(n, s, e)
      PROVE  Grows
  <2> SUFFICES ASSUME NEW k \in Nodes, NEW r \in Sessions
               PROVE  /\ log'[k][r] \in Seq(Events) /\ Len(log'[k][r]) \in Nat
                      /\ Len(log[k][r]) <= Len(log'[k][r])
                      /\ log[k][r] # <<>> => log'[k][r] # <<>> /\ log'[k][r][1] = log[k][r][1]
                      /\ \A d : In(log[k][r], d) => In(log'[k][r], d)
    BY DEF Grows
  <2>0. log[k][r] \in Seq(Events) /\ Len(log[k][r]) \in Nat
    BY SyncFields
  <2>1. CASE k # n \/ r # s
    <3>1. log'[k][r] = log[k][r]
      BY <1>2, <2>1, AddsIs
    <3> QED  BY <2>0, <3>1
  <2>2. CASE k = n /\ r = s
    <3>1. /\ log'[n][s] # <<>> /\ Len(log'[n][s]) = Len(log[n][s]) + 1
          /\ \A d : In(log'[n][s], d) <=> In(log[n][s], d) \/ d = e
          /\ log[n][s] # <<>> => log'[n][s][1] = log[n][s][1]
          /\ log'[n][s] = Append(log[n][s], e)
      BY <1>2, AddsIs
    <3>2. log'[n][s] \in Seq(Events)
      BY <2>0, <2>2, <3>1
    <3> QED  BY <2>0, <2>2, <3>1, <3>2
  <2> QED  BY <2>1, <2>2
<1> QED  BY <1>1, <1>2 DEF LogStep

LEMMA NumberedHolds ==
  ASSUME SyncTypeOK, Numbered, LogStep PROVE Numbered'
<1>1. CASE log' = log
  BY <1>1 DEF Numbered, Held
<1>2. ASSUME NEW n \in Nodes, NEW s \in Sessions, NEW e \in Events, Adds(n, s, e), Fits(n, s, e)
      PROVE  Numbered'
  <2>0. Grows
    BY <1>2, LogGrows DEF LogStep
  <2>1. e.sid = s /\ e.seq = Len(log[n][s]) + 1
    BY <1>2 DEF Adds
  <2>2. /\ log'[n][s] = Append(log[n][s], e)
        /\ \A d : In(log'[n][s], d) <=> In(log[n][s], d) \/ d = e
        /\ \A k \in Nodes, r \in Sessions : k # n \/ r # s => log'[k][r] = log[k][r]
    <3>1. Adds(n, s, e)
      BY <1>2
    <3>2. log'[n][s] = Append(log[n][s], e)
      BY <3>1, AddsIs
    <3>3. \A d : In(log'[n][s], d) <=> In(log[n][s], d) \/ d = e
      BY <3>1, AddsIs
    <3>4. \A k \in Nodes, r \in Sessions : k # n \/ r # s => log'[k][r] = log[k][r]
      BY <3>1, AddsIs
    <3> QED  BY <3>2, <3>3, <3>4
  <2>3. ASSUME NEW k \in Nodes, NEW r \in Sessions, NEW i \in DOMAIN log'[k][r]
        PROVE  log'[k][r][i].seq = i
    <3>1. CASE k # n \/ r # s
      BY <2>2, <3>1 DEF Numbered
    <3>2. CASE k = n /\ r = s
      <4>1. log[n][s] \in Seq(Events)
        BY SyncFields
      <4>2. CASE i = Len(log[n][s]) + 1
        BY <2>1, <2>2, <3>2, <4>1, <4>2
      <4>3. CASE i # Len(log[n][s]) + 1
        <5>1. i \in DOMAIN log[n][s] /\ log'[n][s][i] = log[n][s][i]
          BY <2>2, <3>2, <4>1, <4>3
        <5> QED  BY <3>2, <5>1 DEF Numbered
      <4> QED  BY <4>2, <4>3
    <3> QED  BY <3>1, <3>2
  <2>4. ASSUME NEW k \in Nodes, NEW r \in Sessions, NEW d \in Events, In(log[k][r], d)
        PROVE  /\ d.sid = r
               /\ In(log'[d.by][r], d)
               /\ d.to \in Remotes => Held(r, d.to)'
               /\ d.seq = 1 => d.to = At(d.by)
    <3>1. d.by \in Nodes /\ (d.to \in Remotes => d.to \in Nodes)
      BY EventFields, SyncFields
    <3>2. /\ d.sid = r
          /\ In(log[d.by][r], d)
          /\ d.to \in Remotes => Held(r, d.to)
          /\ d.seq = 1 => d.to = At(d.by)
      BY <2>4 DEF Numbered
    <3> QED  BY <2>0, <3>1, <3>2 DEF Grows, Held
  <2>5. /\ e.sid = s
        /\ In(log'[e.by][s], e)
        /\ e.to \in Remotes => Held(s, e.to)'
        /\ e.seq = 1 => e.to = At(e.by)
    <3>1. CASE e.by = n /\ e.to = At(n) /\ e.seq = 1
      <4>1. e.to \in Remotes => e.to = n
        BY <3>1, SyncAssumption DEF At
      <4>2. log'[n][s] # <<>>
        BY <1>2, AddsIs
      <4> QED  BY <2>1, <2>2, <3>1, <4>1, <4>2 DEF Held
    <3>2. CASE e.by = n /\ Held(s, n) /\ (e.to \in Remotes => Held(s, e.to))
      <4>1. e.seq # 1
        <5>1. log[n][s] \in Seq(Events) /\ log[n][s] # <<>>
          BY <3>2, SyncFields DEF Held
        <5>2. Len(log[n][s]) \in Nat /\ Len(log[n][s]) # 0
          BY <5>1
        <5> QED  BY <2>1, <5>2
      <4>2. e.to \in Remotes => log'[e.to][s] # <<>>
        BY <2>0, <3>2, SyncFields DEF Grows, Held
      <4> QED  BY <2>1, <2>2, <3>2, <4>1, <4>2 DEF Held
    <3>3. ASSUME NEW k \in Nodes, In(log[k][s], e)
          PROVE  /\ e.sid = s
                 /\ In(log'[e.by][s], e)
                 /\ e.to \in Remotes => Held(s, e.to)'
                 /\ e.seq = 1 => e.to = At(e.by)
      BY <2>4, <3>3
    <3> QED  BY <1>2, <3>1, <3>2, <3>3 DEF Fits
  <2>6. ASSUME NEW k \in Nodes, NEW r \in Sessions, NEW d \in Events, In(log'[k][r], d), ~In(log[k][r], d)
        PROVE  r = s /\ d = e
    BY <2>2, <2>6
  <2> QED  BY <2>3, <2>4, <2>5, <2>6 DEF Numbered
<1> QED  BY <1>1, <1>2 DEF LogStep

LEMMA OneOriginHolds ==
  ASSUME SyncTypeOK, Numbered, OneOrigin, LogStep PROVE OneOrigin'
<1>1. CASE log' = log
  BY <1>1 DEF OneOrigin, Held
<1>2. ASSUME NEW n \in Nodes, NEW s \in Sessions, NEW e \in Events, Adds(n, s, e), Fits(n, s, e)
      PROVE  OneOrigin'
  <2>1. /\ \A k \in Nodes, r \in Sessions : k # n \/ r # s => log'[k][r] = log[k][r]
        /\ log[n][s] # <<>> => log'[n][s][1] = log[n][s][1]
        /\ log[n][s] = <<>> => log'[n][s][1] = e
    BY <1>2, AddsIs
  <2>2. ASSUME log[n][s] = <<>>, NEW k \in Nodes, log[k][s] # <<>>
        PROVE  log[k][s][1] = e
    <3>1. e.seq = 1
      <4>1. Len(<<>>) = 0
        OBVIOUS
      <4> QED  BY <1>2, <2>2, <4>1 DEF Adds
    <3>2. PICK j \in Nodes : In(log[j][s], e)
      BY <1>2, <2>2 DEF Fits, Held
    <3>3. log[j][s] # <<>> /\ log[j][s][1] = e
      BY <3>1, <3>2, InIs, SyncFields
    <3> QED  BY <2>2, <3>3 DEF OneOrigin, Held
  <2>3. ASSUME NEW k \in Nodes, log'[k][s] # <<>> PROVE log'[k][s][1] = log'[n][s][1]
    <3>1. CASE k = n
      BY <3>1
    <3>2. CASE k # n
      <4>1. log'[k][s] = log[k][s]
        BY <2>1, <3>2
      <4> QED  BY <2>1, <2>2, <2>3, <4>1 DEF OneOrigin, Held
    <3> QED  BY <3>1, <3>2
  <2>4. ASSUME NEW j \in Nodes, NEW k \in Nodes, NEW r \in Sessions, log'[j][r] # <<>>, log'[k][r] # <<>>
        PROVE  log'[j][r][1] = log'[k][r][1]
    <3>1. CASE r = s
      BY <2>3, <2>4, <3>1
    <3>2. CASE r # s
      <4>1. log'[j][r] = log[j][r] /\ log'[k][r] = log[k][r]
        BY <2>1, <3>2
      <4> QED  BY <2>4, <4>1 DEF OneOrigin, Held
    <3> QED  BY <3>1, <3>2
  <2> QED  BY <2>4 DEF OneOrigin, Held
<1> QED  BY <1>1, <1>2 DEF LogStep
-----------------------------------------------------------------------------
(* What the actions do to the warps *)

\* Warp m goes to p with rows r, claimed or not.
Sets(m, p, r, c) ==
  /\ warp' \in [Warps -> WarpStates]
  /\ \A n \in Warps : n # m => warp'[n] = warp[n]
  /\ warp[m].pc # "ready" /\ warp'[m].pc = p /\ warp'[m].rows = r /\ warp'[m].claimed = c
  /\ warp'[m].sid = warp[m].sid /\ warp'[m].from = warp[m].from /\ warp'[m].to = warp[m].to

WarpRecords == [pc: {"final", "claim", "move", "send", "steal", "set", "over"}, sid: Sessions,
                from: Places, to: Places, claimed: BOOLEAN, rows: Seq(Events)]

LEMMA SetsIs ==
  ASSUME SyncTypeOK, NEW m \in Warps, warp[m].pc # "ready", NEW v \in WarpRecords,
         warp' = [warp EXCEPT ![m] = v],
         v.sid = warp[m].sid, v.from = warp[m].from, v.to = warp[m].to
  PROVE  Sets(m, v.pc, v.rows, v.claimed)
<1>1. warp \in [Warps -> WarpStates] /\ v \in WarpStates
  BY DEF SyncTypeOK, WarpStates, WarpRecords
<1>2. warp'[m] = v /\ \A n \in Warps : n # m => warp'[n] = warp[n]
  BY <1>1
<1>3. warp' \in [Warps -> WarpStates]
  BY <1>1
<1> QED  BY <1>2, <1>3 DEF Sets

LEMMA PcSets ==
  ASSUME SyncTypeOK, NEW m \in Warps, warp[m].pc # "ready",
         NEW p \in {"final", "claim", "move", "send", "steal", "set", "over"},
         WarpGoes(m, p)
  PROVE  Sets(m, p, warp[m].rows, warp[m].claimed)
<1> DEFINE v == [warp[m] EXCEPT !.pc = p]
<1>1. warp[m] \in WarpRecords
  BY WarpFields DEF WarpRecords
<1>2. v \in WarpRecords /\ v.pc = p /\ v.rows = warp[m].rows /\ v.claimed = warp[m].claimed
      /\ v.sid = warp[m].sid /\ v.from = warp[m].from /\ v.to = warp[m].to
  BY <1>1 DEF WarpRecords
<1>3. warp' = [warp EXCEPT ![m] = v]
  BY DEF WarpGoes
<1> HIDE DEF v
<1>4. Sets(m, v.pc, v.rows, v.claimed)
  BY <1>2, <1>3, SetsIs
<1> QED  BY <1>2, <1>4

LEMMA EndedIs ==
  ASSUME SyncTypeOK, NEW m \in Warps, warp[m].pc # "ready"
  PROVE  /\ Ended(m) \in WarpRecords /\ Ended(m).pc = "over" /\ Ended(m).rows = <<>>
         /\ Ended(m).claimed = warp[m].claimed /\ Ended(m).sid = warp[m].sid
         /\ Ended(m).from = warp[m].from /\ Ended(m).to = warp[m].to
<1>1. warp[m] \in WarpRecords
  BY WarpFields DEF WarpRecords
<1>2. <<>> \in Seq(Events)
  OBVIOUS
<1> QED  BY <1>1, <1>2 DEF WarpRecords, Ended

LEMMA OverSets ==
  ASSUME SyncTypeOK, NEW m \in Warps, warp[m].pc # "ready", WarpOver(m)
  PROVE  Sets(m, "over", <<>>, warp[m].claimed)
<1>1. Sets(m, Ended(m).pc, Ended(m).rows, Ended(m).claimed)
  BY EndedIs, SetsIs DEF WarpOver
<1> QED  BY <1>1, EndedIs

LEMMA ClaimSets ==
  ASSUME SyncTypeOK, NEW m \in Warps, Claim(m)
  PROVE  Sets(m, "move", warp[m].rows, TRUE)
<1> DEFINE v == [warp[m] EXCEPT !.pc = "move", !.claimed = TRUE]
<1>1. warp[m] \in WarpRecords /\ warp[m].pc # "ready"
  BY WarpFields DEF WarpRecords, Claim
<1>2. v \in WarpRecords /\ v.pc = "move" /\ v.rows = warp[m].rows /\ v.claimed = TRUE
      /\ v.sid = warp[m].sid /\ v.from = warp[m].from /\ v.to = warp[m].to
  BY <1>1 DEF WarpRecords
<1>3. warp' = [warp EXCEPT ![m] = v]
  BY DEF Claim, SyncTypeOK
<1> HIDE DEF v
<1>4. Sets(m, v.pc, v.rows, v.claimed)
  BY <1>1, <1>2, <1>3, SetsIs
<1> QED  BY <1>2, <1>4

LEMMA ReadSets ==
  ASSUME SyncTypeOK, NEW m \in Warps, ReadRows(m)
  PROVE  Sets(m, "send", log[Home][warp[m].sid], warp[m].claimed)
<1> DEFINE h == log[Home][warp[m].sid]
           v == [warp[m] EXCEPT !.pc = "send", !.rows = h]
<1>1. warp[m] \in WarpRecords /\ warp[m].pc # "ready" /\ h \in Seq(Events)
  BY WarpFields, SyncFields DEF WarpRecords, ReadRows
<1>3. warp' = [warp EXCEPT ![m] = v]
  BY DEF ReadRows, SyncTypeOK
<1> HIDE DEF h
<1>2. v \in WarpRecords /\ v.pc = "send" /\ v.rows = h /\ v.claimed = warp[m].claimed
      /\ v.sid = warp[m].sid /\ v.from = warp[m].from /\ v.to = warp[m].to
  BY <1>1 DEF WarpRecords
<1> HIDE DEF v
<1>4. Sets(m, v.pc, v.rows, v.claimed)
  BY <1>1, <1>2, <1>3, SetsIs
<1> QED  BY <1>2, <1>4 DEF h

\* What a warp sends next, and where to.
LEMMA SendIs ==
  ASSUME SyncTypeOK, Numbered, Warped, NEW m \in Warps, SendRow(m)
  PROVE  LET w == warp[m].to
             s == warp[m].sid
             rows == warp[m].rows
             e == Head(rows) IN
         /\ warp[m].pc = "send" /\ w \in Remotes /\ s \in Sessions /\ e \in Events
         /\ rows \in Seq(Events) /\ rows # <<>> /\ e = rows[1] /\ In(log[Home][s], e)
         /\ e.seq <= Len(log[w][s]) + 1
         /\ UNCHANGED <<place, owner, link, pull>>
         /\ \/ ~In(log[w][s], e) /\ e.seq <= Len(log[w][s]) /\ log' = log
               /\ Sets(m, "over", <<>>, warp[m].claimed)
            \/ /\ (In(log[w][s], e) /\ log' = log) \/ Adds(w, s, e)
               /\ Len(rows) = 1 => Sets(m, "steal", Tail(rows), warp[m].claimed)
               /\ Len(rows) # 1 => Sets(m, "send", Tail(rows), warp[m].claimed)
<1> DEFINE w == warp[m].to
           s == warp[m].sid
           rows == warp[m].rows
           e == Head(rows)
           n == Len(log[w][s])
<1>1. warp[m].pc = "send" /\ WarpFits(m) /\ warp[m].pc # "ready"
  BY DEF SendRow, Warped
<1>2. warp[m] \in WarpRecords /\ s \in Sessions /\ w \in Places /\ rows \in Seq(Events)
  BY <1>1, WarpFields DEF WarpRecords
<1>3. w \in Remotes /\ LeftToSend(rows, log[Home][s], Len(log[w][s]))
  BY <1>1, <1>2 DEF WarpFits, Places
<1>4. rows # <<>> /\ e = rows[1] /\ 1 \in DOMAIN rows /\ e \in Events
  BY <1>2, <1>3 DEF LeftToSend
<1>5. In(log[Home][s], e) /\ e.seq <= n + 1
  BY <1>3, <1>4 DEF LeftToSend
<1>6. e.seq \in Nat /\ e.seq >= 1 /\ n \in Nat /\ log[w][s] \in Seq(Events)
  BY <1>2, <1>3, <1>4, EventFields, SyncFields
<1>7. In(log[w][s], e) <=> e.seq <= n /\ log[w][s][e.seq] = e
  <2>1. DOMAIN log[w][s] = 1 .. n
    BY <1>6
  <2> QED  BY <1>6, <2>1 DEF In
<1>8. UNCHANGED <<place, owner, link, pull>>
  BY DEF SendRow
<1>9. CASE e.seq <= n /\ log[w][s][e.seq] # e
  <2>1. WarpOver(m) /\ log' = log
    BY <1>9 DEF SendRow
  <2> QED  BY <1>1, <1>2, <1>3, <1>4, <1>5, <1>7, <1>8, <1>9, <2>1, OverSets
<1>10. CASE ~(e.seq <= n /\ log[w][s][e.seq] # e)
  <2> DEFINE v == [warp[m] EXCEPT !.rows = Tail(rows), !.pc = IF Len(rows) = 1 THEN "steal" ELSE @]
  <2>1. warp' = [warp EXCEPT ![m] = v]
    BY <1>10 DEF SendRow, SyncTypeOK
  <2>2. Tail(rows) \in Seq(Events)
    BY <1>2, <1>4
  <2>3. /\ v \in WarpRecords /\ v.rows = Tail(rows) /\ v.claimed = warp[m].claimed
        /\ v.sid = warp[m].sid /\ v.from = warp[m].from /\ v.to = warp[m].to
        /\ v.pc = IF Len(rows) = 1 THEN "steal" ELSE "send"
    <3> HIDE DEF rows
    <3> QED  BY <1>1, <1>2, <2>2 DEF WarpRecords
  <2>4. Sets(m, v.pc, v.rows, v.claimed)
    <3> HIDE DEF v
    <3>1. v \in WarpRecords /\ v.sid = warp[m].sid /\ v.from = warp[m].from /\ v.to = warp[m].to
      BY <2>3
    <3>2. warp[m].pc # "ready"
      BY <1>1
    <3> QED  BY <2>1, <3>1, <3>2, SetsIs
  <2>5. log' = IF e.seq = n + 1 THEN [log EXCEPT ![w][s] = Append(@, e)] ELSE log
    BY <1>10 DEF SendRow
  <2>6. e.sid = s
    BY <1>2, <1>4, <1>5, SyncFields DEF Numbered
  <2>7. (In(log[w][s], e) /\ log' = log) \/ Adds(w, s, e)
    <3>1. CASE e.seq = n + 1
      <4>1. log' = [log EXCEPT ![w][s] = Append(@, e)]
        BY <2>5, <3>1
      <4> QED  BY <1>4, <2>6, <3>1, <4>1 DEF Adds
    <3>2. CASE e.seq # n + 1
      <4>1. e.seq <= n
        BY <1>5, <1>6, <3>2
      <4> QED  BY <1>7, <1>10, <2>5, <3>2, <4>1
    <3> QED  BY <3>1, <3>2
  <2>8. (Len(rows) = 1 => v.pc = "steal") /\ (Len(rows) # 1 => v.pc = "send")
    BY <2>3
  <2> HIDE DEF v
  <2>9. /\ Len(rows) = 1 => Sets(m, "steal", Tail(rows), warp[m].claimed)
        /\ Len(rows) # 1 => Sets(m, "send", Tail(rows), warp[m].claimed)
    <3> HIDE DEF rows
    <3> QED  BY <2>3, <2>4, <2>8
  <2>10. UNCHANGED <<place, owner, link, pull>> /\ w \in Remotes /\ s \in Sessions
    BY <1>2, <1>3, <1>8
  <2> HIDE DEF w, s, n, e
  <2>11. ((In(log[w][s], e) /\ log' = log) \/ Adds(w, s, e))
         /\ (Len(rows) = 1 => Sets(m, "steal", Tail(rows), warp[m].claimed))
         /\ (Len(rows) # 1 => Sets(m, "send", Tail(rows), warp[m].claimed))
    BY <2>7, <2>9
  <2> QED  BY <1>1, <1>2, <1>4, <1>5, <2>10, <2>11 DEF w, s, n, e
<1> QED  BY <1>9, <1>10
-----------------------------------------------------------------------------
(* What the actions do to the logs *)

LEMMA OwnEvent ==
  ASSUME SyncTypeOK, NEW n \in Nodes, NEW s \in Sessions, NEW to \in Places \cup {"keep"}, Append1(n, s, to)
  PROVE  LET e == NewEvent(n, s, to) IN
         Adds(n, s, e) /\ e \in Events /\ e.by = n /\ e.to = to /\ e.seq = Len(log[n][s]) + 1
<1>1. Len(log[n][s]) \in Nat /\ Len(log[n][s]) < MaxLen /\ MaxLen \in Nat
  BY SyncFields, SyncAssumption DEF Append1
<1>2. Len(log[n][s]) + 1 \in 1 .. MaxLen
  BY <1>1
<1>3. NewEvent(n, s, to) \in Events
  BY <1>2 DEF NewEvent, Events
<1>4. NewEvent(n, s, to).sid = s /\ NewEvent(n, s, to).seq = Len(log[n][s]) + 1
      /\ NewEvent(n, s, to).by = n /\ NewEvent(n, s, to).to = to
  BY DEF NewEvent
<1>5. log' = [log EXCEPT ![n][s] = Append(@, NewEvent(n, s, to))]
  BY DEF Append1
<1> QED  BY <1>3, <1>4, <1>5 DEF Adds

LEMMA PlacedWhereHeld ==
  ASSUME SyncTypeOK, Numbered, Placed, NEW s \in Sessions, place[s] # Nowhere
  PROVE  place[s] \in Remotes /\ Held(s, place[s]) /\ Says(Home, s, place[s])
<1>1. place[s] \in Remotes /\ Home \in Nodes
  BY SyncFields DEF Places
<1>2. Says(Home, s, place[s])
  BY DEF Placed
<1> QED  BY <1>1, <1>2 DEF Says, Numbered

LEMMA RunsWhereHeld ==
  ASSUME SyncTypeOK, Numbered, Placed, NEW n \in Nodes, NEW s \in Sessions, RunsAt(n, s)
  PROVE  Held(s, n)
<1>1. CASE log[Home][s] # <<>> /\ place[s] = At(n)
  <2>1. CASE n = Home
    BY <1>1, <2>1 DEF Held
  <2>2. CASE n # Home
    BY <1>1, <2>2, SyncAssumption, PlacedWhereHeld DEF At, Nodes
  <2> QED  BY <2>1, <2>2
<1>2. ASSUME NEW e \in ToSet(log[n][s]) PROVE Held(s, n)
  <2>1. \E i \in DOMAIN log[n][s] : TRUE
    BY <1>2 DEF ToSet
  <2>2. DOMAIN <<>> = {}
    OBVIOUS
  <2> QED  BY <2>1, <2>2 DEF Held
<1> QED  BY <1>1, <1>2 DEF RunsAt

\* An event that n publishes, and the place it may carry.
LEMMA PublishIs ==
  ASSUME SyncTypeOK, Numbered, Placed, NEW n \in Nodes, NEW s \in Sessions, Publish(n, s)
  PROVE  /\ Held(s, n) /\ UNCHANGED <<owner, link, pull, warp>>
         /\ \E e \in Events :
              /\ Adds(n, s, e) /\ e.by = n /\ e.to \in Places \cup {"keep"}
              /\ e.to # "keep" => Says(n, s, e.to)
              /\ place' = IF n = Home /\ e.to # "keep" THEN [place EXCEPT ![s] = e.to] ELSE place
<1>1. Held(s, n) /\ UNCHANGED <<owner, link, pull, warp>>
  BY RunsWhereHeld DEF Publish
<1>2. PICK to \in Carried(n, s) \cup {"keep"} :
        /\ Append1(n, s, to)
        /\ place' = IF n = Home /\ to # "keep" THEN [place EXCEPT ![s] = to] ELSE place
  BY DEF Publish
<1>3. to \in Places \cup {"keep"} /\ log[n][s] \in Seq(Events)
  BY <1>2, SyncFields DEF Carried
<1>4. PICK e \in Events : Adds(n, s, e) /\ e.by = n /\ e.to = to
  BY <1>2, <1>3, OwnEvent
<1>5. ASSUME to # "keep" PROVE Says(n, s, to)
  <2>1. PICK d \in ToSet(log[n][s]) : d.to = to
    BY <1>2, <1>5 DEF Carried
  <2>2. PICK i \in DOMAIN log[n][s] : d = log[n][s][i]
    BY <2>1 DEF ToSet
  <2>3. d \in Events /\ In(log[n][s], d)
    BY <1>3, <2>2 DEF Numbered, In
  <2> QED  BY <2>1, <2>3 DEF Says
<1> QED  BY <1>1, <1>2, <1>3, <1>4, <1>5

\* A replay at home that does not die.
Replays(w, e) ==
  /\ w \in Remotes /\ e \in Events /\ In(log[w][e.sid], e)
  /\ ~Dies(e, w) /\ Replayed(e, w)

LEMMA ReplaysIs ==
  ASSUME SyncTypeOK, Numbered, NEW w, NEW e, Replays(w, e)
  PROVE  LET s == e.sid IN
         /\ w \in Remotes /\ e \in Events /\ s \in Sessions /\ In(log[w][s], e) /\ Held(s, w)
         /\ place' \in [Sessions -> Places] /\ owner' \in [Sessions -> Owners]
         /\ owner'[s] = IF owner[s] = Nowhere THEN w ELSE owner[s]
         /\ \A r \in Sessions : r # s => owner'[r] = owner[r] /\ place'[r] = place[r]
         /\ \/ /\ Adds(Home, s, e) /\ owner[s] \in {Nowhere, w}
               /\ e.by # Home
               /\ place'[s] = IF e.to = "keep" THEN place[s] ELSE e.to
            \/ log' = log /\ place' = place /\ (In(log[Home][s], e) \/ owner[s] \notin {Nowhere, w})
<1> DEFINE s == e.sid
<1>1. w \in Remotes /\ e \in Events /\ s \in Sessions /\ In(log[w][s], e) /\ w \in Nodes /\ Home \in Nodes
  BY EventFields, SyncFields DEF Replays
<1>2. Held(s, w)
  BY <1>1, InIs, SyncFields DEF Held
<1>3. e.seq \in Nat /\ e.seq >= 1 /\ e.to \in Places \cup {"keep"} /\ HomeLen(s) \in Nat
      /\ log[Home][s] \in Seq(Events) /\ owner \in [Sessions -> Owners] /\ place \in [Sessions -> Places]
      /\ w \in Owners
  BY <1>1, EventFields, SyncFields DEF SyncTypeOK
<1>4. owner' = [owner EXCEPT ![s] = IF @ = Nowhere THEN w ELSE @]
  BY DEF Replays, Replayed
<1>5. /\ owner' \in [Sessions -> Owners]
      /\ owner'[s] = IF owner[s] = Nowhere THEN w ELSE owner[s]
      /\ \A r \in Sessions : r # s => owner'[r] = owner[r]
  BY <1>1, <1>3, <1>4
<1>6. CASE Accepted(e, w)
  <2>1. log' = [log EXCEPT ![Home][s] = Append(@, e)] /\ e.seq = HomeLen(s) + 1
    BY <1>6 DEF Replays, Replayed, Accepted
  <2>2. Adds(Home, s, e)
    BY <1>1, <2>1 DEF Adds, HomeLen
  <2>3. owner[s] \in {Nowhere, w}
    BY <1>6 DEF Accepted, Fenced
  <2>4. In(log[e.by][s], e)
    BY <1>1 DEF Numbered
  <2>5. e.by # Home
    BY <1>1, <2>2, <2>4, AddsIs
  <2>6. place' = IF e.to # "keep" THEN [place EXCEPT ![s] = e.to] ELSE place
    BY <1>6 DEF Replays, Replayed
  <2>7. /\ place' \in [Sessions -> Places]
        /\ place'[s] = IF e.to = "keep" THEN place[s] ELSE e.to
        /\ \A r \in Sessions : r # s => place'[r] = place[r]
    <3>1. CASE e.to = "keep"
      BY <1>3, <2>6, <3>1
    <3>2. CASE e.to # "keep"
      BY <1>1, <1>3, <2>6, <3>2
    <3> QED  BY <3>1, <3>2
  <2> QED  BY <1>1, <1>2, <1>5, <2>2, <2>3, <2>4, <2>5, <2>7
<1>7. CASE ~Accepted(e, w)
  <2>1. log' = log /\ place' = place
    BY <1>7 DEF Replays, Replayed
  <2>2. In(log[Home][s], e) \/ owner[s] \notin {Nowhere, w}
    <3>1. CASE e.seq <= HomeLen(s)
      <4>1. log[Home][s][e.seq] = e
        BY <3>1 DEF Replays, Dies
      <4>2. e.seq \in DOMAIN log[Home][s]
        BY <1>3, <3>1 DEF HomeLen
      <4> QED  BY <4>1, <4>2 DEF In
    <3>2. CASE e.seq > HomeLen(s) + 1
      BY <3>2 DEF Replays, Dies, Fenced
    <3>3. CASE e.seq = HomeLen(s) + 1
      BY <1>7, <3>3 DEF Accepted, Fenced
    <3> QED  BY <1>3, <3>1, <3>2, <3>3
  <2> QED  BY <1>1, <1>2, <1>3, <1>5, <2>1, <2>2
<1> QED  BY <1>6, <1>7

\* One event of an answer.
LEMMA HistoryIs ==
  ASSUME SyncTypeOK, Pulled, NEW x \in Remotes \cup Warps, ReplayHistory(x)
  PROVE  LET w == pull[x].of
             batch == pull[x].batch
             e == Head(batch) IN
         /\ pull[x].pc = "replaying" /\ batch \in Seq(Events) /\ batch # <<>>
         /\ w \in Remotes /\ e \in Events /\ e = batch[1] /\ In(log[w][e.sid], e)
         /\ \/ /\ Dies(e, w) /\ Refused /\ pull' = [pull EXCEPT ![x] = NoPull]
               /\ x \in Remotes => link' = [link EXCEPT ![x] = "none"] /\ UNCHANGED warp
               /\ x \notin Remotes => WarpOver(x) /\ UNCHANGED link
            \/ /\ Replays(w, e) /\ pull' = [pull EXCEPT ![x].batch = Tail(@)]
               /\ UNCHANGED <<link, warp>>
<1> DEFINE w == pull[x].of
           batch == pull[x].batch
           e == Head(batch)
<1>1. pull[x].pc = "replaying" /\ batch # <<>>
  BY DEF ReplayHistory
<1>2. w \in Remotes /\ batch \in Seq(Events)
  BY <1>1, PullFields
<1>3. e \in Events /\ e = batch[1] /\ 1 \in DOMAIN batch
  BY <1>1, <1>2
<1>4. In(log[w][e.sid], e)
  BY <1>1, <1>3 DEF Pulled, PullFits
<1>5. CASE Dies(e, w)
  BY <1>1, <1>2, <1>3, <1>4, <1>5 DEF ReplayHistory
<1>6. CASE ~Dies(e, w)
  BY <1>1, <1>2, <1>3, <1>4, <1>6 DEF ReplayHistory, Replays
<1> QED  BY <1>5, <1>6

LEMMA LiveIs ==
  ASSUME SyncTypeOK, Numbered, NEW w \in Remotes, ReplayLive(w)
  PROVE  (\E e \in Events : Replays(w, e)) /\ UNCHANGED <<link, pull, warp>>
<1>0. PICK s \in Sessions : \E e \in ToSet(log[w][s]) : ~Dies(e, w) /\ Replayed(e, w)
  BY DEF ReplayLive
<1>1. PICK e \in ToSet(log[w][s]) : ~Dies(e, w) /\ Replayed(e, w)
  BY <1>0
<1>2. log[w][s] \in Seq(Events) /\ w \in Nodes
  BY SyncFields
<1>3. PICK i \in DOMAIN log[w][s] : e = log[w][s][i]
  BY DEF ToSet
<1>4. e \in Events /\ In(log[w][s], e)
  BY <1>2, <1>3 DEF Numbered, In
<1>5. e.sid = s
  BY <1>2, <1>4 DEF Numbered
<1> QED  BY <1>1, <1>4, <1>5 DEF Replays, ReplayLive

LEMMA ReplayLog ==
  ASSUME SyncTypeOK, Numbered, NEW w, NEW e, Replays(w, e) PROVE LogStep
<1>1. w \in Nodes /\ Home \in Nodes /\ e.sid \in Sessions /\ e \in Events /\ In(log[w][e.sid], e)
  BY ReplaysIs, SyncFields
<1>2. log' = log \/ Adds(Home, e.sid, e)
  BY ReplaysIs
<1> QED  BY <1>1, <1>2 DEF LogStep, Fits

LEMMA LogSteps ==
  ASSUME SyncTypeOK, Numbered, Placed, Warped, Pulled, SyncNext PROVE LogStep
<1>1. ASSUME NEW n \in Nodes, NEW s \in Sessions, Create(n, s) PROVE LogStep
  <2>1. At(n) \in Places \cup {"keep"}
    BY DEF At, Nodes, Places
  <2>2. /\ Adds(n, s, NewEvent(n, s, At(n))) /\ NewEvent(n, s, At(n)) \in Events
        /\ NewEvent(n, s, At(n)).by = n /\ NewEvent(n, s, At(n)).to = At(n)
        /\ NewEvent(n, s, At(n)).seq = Len(log[n][s]) + 1
    BY <1>1, <2>1, OwnEvent DEF Create
  <2>3. \A k \in Nodes : log[k][s] = <<>>
    BY <1>1 DEF Create
  <2>4. Len(log[n][s]) + 1 = 1
    BY <2>3
  <2> QED  BY <2>2, <2>3, <2>4 DEF LogStep, Fits
<1>2. ASSUME NEW n \in Nodes, NEW s \in Sessions, Publish(n, s) PROVE LogStep
  <2>1. PICK e \in Events : Adds(n, s, e) /\ e.by = n /\ (e.to # "keep" => Says(n, s, e.to))
    BY <1>2, PublishIs
  <2>2. Held(s, n)
    BY <1>2, PublishIs
  <2>3. e.to \in Remotes => Held(s, e.to)
    BY <2>1, SyncAssumption DEF Says, Numbered
  <2> QED  BY <2>1, <2>2, <2>3 DEF LogStep, Fits
<1>3. ASSUME NEW w \in Remotes, ReplayLive(w) PROVE LogStep
  BY <1>3, LiveIs, ReplayLog
<1>4. ASSUME NEW x \in Remotes \cup Warps, ReplayHistory(x) PROVE LogStep
  BY <1>4, HistoryIs, ReplayLog DEF Refused, LogStep
<1>5. ASSUME NEW m \in Warps, Detach(m) PROVE LogStep
  <2> DEFINE s == warp[m].sid
             e == NewEvent(Home, s, Nowhere)
  <2>1. warp[m].pc = "move" /\ Append1(Home, s, Nowhere) /\ s \in Sessions /\ Home \in Nodes
        /\ Nowhere \in Places
    BY <1>5, WarpFields, SyncFields DEF Detach
  <2>2. Held(s, Home)
    BY <2>1 DEF Warped, WarpFits
  <2>3. Adds(Home, s, e) /\ e \in Events /\ e.by = Home /\ e.to = Nowhere
    BY <2>1, OwnEvent
  <2> HIDE DEF s, e
  <2> QED  BY <2>1, <2>2, <2>3, SyncAssumption DEF LogStep, Fits
<1>6. ASSUME NEW m \in Warps, SetWorkspace(m) PROVE LogStep
  <2> DEFINE s == warp[m].sid
             w == warp[m].to
             e == NewEvent(Home, s, w)
  <2>1. warp[m].pc = "set" /\ Append1(Home, s, w) /\ s \in Sessions /\ Home \in Nodes /\ w \in Places
    BY <1>6, WarpFields, SyncFields DEF SetWorkspace
  <2>2. Held(s, Home) /\ Held(s, w)
    BY <2>1 DEF Warped, WarpFits
  <2>3. Adds(Home, s, e) /\ e \in Events /\ e.by = Home /\ e.to = w
    BY <2>1, OwnEvent
  <2> HIDE DEF s, w, e
  <2> QED  BY <2>1, <2>2, <2>3, SyncAssumption DEF LogStep, Fits
<1>7. ASSUME NEW m \in Warps, Steal(m) PROVE LogStep
  <2> DEFINE s == warp[m].sid
             w == warp[m].to
             e == NewEvent(w, s, w)
  <2>1. warp[m].pc = "steal" /\ Append1(w, s, w) /\ s \in Sessions /\ w \in Places
    BY <1>7, WarpFields DEF Steal
  <2>2. Held(s, w) /\ w \in Remotes /\ w \in Nodes
    BY <2>1, SyncFields DEF Warped, WarpFits, Places
  <2>3. Adds(w, s, e) /\ e \in Events /\ e.by = w /\ e.to = w
    BY <2>1, <2>2, OwnEvent
  <2> HIDE DEF s, w, e
  <2> QED  BY <2>1, <2>2, <2>3, SyncAssumption DEF LogStep, Fits
<1>8. ASSUME NEW m \in Warps, SendRow(m) PROVE LogStep
  <2> DEFINE s == warp[m].sid
             w == warp[m].to
             e == Head(warp[m].rows)
  <2>1. s \in Sessions /\ w \in Remotes /\ e \in Events /\ In(log[Home][s], e) /\ (log' = log \/ Adds(w, s, e))
    BY <1>8, SendIs
  <2> HIDE DEF s, w, e
  <2> QED  BY <2>1, SyncFields DEF LogStep, Fits
<1>9. ASSUME log' = log PROVE LogStep
  BY <1>9 DEF LogStep
<1>10. ASSUME NEW w \in Remotes, Loop(w) PROVE LogStep
  BY <1>3, <1>9, <1>10 DEF Loop, Connect, HistoryFails, GoLive, Disconnect, StreamFails
<1>11. ASSUME NEW m \in Warps, Warping(m) PROVE LogStep
  BY <1>5, <1>6, <1>7, <1>8, <1>9, <1>11 DEF Warping, WarpStart, FinalSynced, Claim, ReadRows, WarpFails
<1>12. ASSUME NEW x \in Remotes \cup Warps, AnswerHistory(x) PROVE LogStep
  BY <1>9, <1>12 DEF AnswerHistory
<1>13. ASSUME Crash PROVE LogStep
  BY <1>9, <1>13 DEF Crash
<1> QED  BY <1>1, <1>2, <1>4, <1>10, <1>11, <1>12, <1>13 DEF SyncNext
-----------------------------------------------------------------------------
(* Types, and the warps a step leaves *)

\* A warp that has begun keeps its session, its ends and its claim.
CallsStay ==
  \A m \in Warps : warp[m].pc # "ready" =>
    /\ warp'[m].pc # "ready" /\ warp'[m].sid = warp[m].sid
    /\ warp'[m].from = warp[m].from /\ warp'[m].to = warp[m].to
    /\ warp[m].claimed => warp'[m].claimed

LEMMA SetsStay ==
  ASSUME NEW m \in Warps, NEW p, NEW r, NEW c, Sets(m, p, r, c), p # "ready", warp[m].claimed => c
  PROVE  warp' \in [Warps -> WarpStates] /\ CallsStay
BY DEF Sets, CallsStay

LEMMA StartIs ==
  ASSUME SyncTypeOK, NEW m \in Warps, NEW s \in Sessions, NEW to \in Places, WarpStart(m, s, to)
  PROVE  /\ warp' \in [Warps -> WarpStates]
         /\ \A n \in Warps : n # m => warp'[n] = warp[n]
         /\ warp[m].pc = "ready" /\ warp'[m].pc \in {"final", "claim", "move"}
         /\ place[s] = Nowhere <=> warp'[m].pc # "final"
         /\ warp'[m].sid = s /\ warp'[m].from = place[s] /\ warp'[m].to = to
         /\ warp'[m].claimed = FALSE /\ warp'[m].rows = <<>>
         /\ log[Home][s] # <<>> /\ UNCHANGED <<log, place, owner, link>>
         /\ IF place[s] = Nowhere THEN pull' = pull ELSE Ask(m, place[s])
<1>1. PICK pc \in Leaving(s) :
        warp' = [warp EXCEPT ![m] = [pc |-> pc, sid |-> s, from |-> place[s], to |-> to,
                                     claimed |-> FALSE, rows |-> <<>>]]
  BY DEF WarpStart
<1>2. pc \in {"final", "claim", "move"} /\ (place[s] = Nowhere <=> pc # "final")
  BY <1>1 DEF Leaving
<1> DEFINE v == [pc |-> pc, sid |-> s, from |-> place[s], to |-> to, claimed |-> FALSE, rows |-> <<>>]
<1>3. v \in WarpStates
  <2>1. place[s] \in Places /\ <<>> \in Seq(Events)
    BY SyncFields
  <2> QED  BY <1>2, <2>1 DEF WarpStates
<1>4. warp' = [warp EXCEPT ![m] = v] /\ warp \in [Warps -> WarpStates]
  BY <1>1 DEF SyncTypeOK
<1>5. v.pc = pc /\ v.sid = s /\ v.from = place[s] /\ v.to = to /\ v.claimed = FALSE /\ v.rows = <<>>
  OBVIOUS
<1> HIDE DEF v
<1>6. warp' \in [Warps -> WarpStates] /\ warp'[m] = v /\ \A n \in Warps : n # m => warp'[n] = warp[n]
  BY <1>3, <1>4
<1>7. log[Home][s] # <<>> /\ UNCHANGED <<log, place, owner, link>> /\ warp[m].pc = "ready"
      /\ IF place[s] = Nowhere THEN pull' = pull ELSE Ask(m, place[s])
  BY DEF WarpStart
<1> QED  BY <1>2, <1>5, <1>6, <1>7

LEMMA CrashIs ==
  ASSUME SyncTypeOK, Crash
  PROVE  /\ warp' \in [Warps -> WarpStates] /\ CallsStay
         /\ \A m \in Warps : warp[m].pc = "ready" => warp'[m].pc = "ready"
         /\ \A m \in Warps : warp[m].pc # "ready" =>
              warp'[m].pc = "over" /\ warp'[m].claimed = warp[m].claimed
<1>1. warp' = [m \in Warps |-> IF warp[m].pc = "ready" THEN NoWarp ELSE Ended(m)]
  BY DEF Crash
<1>2. ASSUME NEW m \in Warps, warp[m].pc # "ready"
      PROVE  /\ warp'[m] \in WarpStates /\ warp'[m].pc = "over" /\ warp'[m].sid = warp[m].sid
             /\ warp'[m].from = warp[m].from /\ warp'[m].to = warp[m].to
             /\ warp'[m].claimed = warp[m].claimed
  <2>1. warp'[m] = Ended(m)
    BY <1>1, <1>2
  <2> QED  BY <1>2, <2>1, EndedIs DEF WarpStates, WarpRecords
<1>3. ASSUME NEW m \in Warps, warp[m].pc = "ready"
      PROVE  warp'[m] \in WarpStates /\ warp'[m].pc = "ready"
  <2>1. warp'[m] = NoWarp
    BY <1>1, <1>3
  <2> QED  BY <2>1 DEF WarpStates, NoWarp
<1>4. warp' \in [Warps -> WarpStates]
  BY <1>1, <1>2, <1>3
<1> QED  BY <1>2, <1>3, <1>4 DEF CallsStay

LEMMA FailSets ==
  ASSUME SyncTypeOK, NEW m \in Warps, WarpFails(m) \/ Detach(m) \/ SetWorkspace(m)
  PROVE  Sets(m, "over", <<>>, warp[m].claimed)
<1>1. warp[m].pc # "ready" /\ WarpOver(m)
  BY DEF WarpFails, Detach, SetWorkspace
<1> QED  BY <1>1, OverSets

LEMMA WarpSteps ==
  ASSUME SyncTypeOK, Numbered, Warped, Pulled, SyncNext
  PROVE  warp' \in [Warps -> WarpStates] /\ CallsStay
<1> DEFINE Goal == warp' \in [Warps -> WarpStates] /\ CallsStay
<1>1. ASSUME warp' = warp PROVE Goal
  BY <1>1 DEF SyncTypeOK, CallsStay
<1>2. ASSUME NEW x \in Remotes \cup Warps, ReplayHistory(x) PROVE Goal
  <2>1. CASE UNCHANGED warp
    BY <1>1, <2>1
  <2>2. CASE x \in Warps /\ WarpOver(x)
    <3>1. warp[x].pc # "ready"
      <4>1. pull[x] # NoPull
        BY <1>2, HistoryIs, PullFields
      <4> QED  BY <2>2, <4>1 DEF Pulled, PullFits
    <3> QED  BY <2>2, <3>1, OverSets, SetsStay
  <2> QED  BY <1>2, <2>1, <2>2, HistoryIs
<1>3. ASSUME NEW m \in Warps, NEW s \in Sessions, NEW to \in Places, WarpStart(m, s, to) PROVE Goal
  BY <1>3, StartIs DEF CallsStay
<1>4. ASSUME NEW m \in Warps, FinalSynced(m) PROVE Goal
  <2>1. warp[m].pc # "ready" /\ WarpGoes(m, "claim")
    BY <1>4 DEF FinalSynced
  <2> QED  BY <2>1, PcSets, SetsStay
<1>5. ASSUME NEW m \in Warps, Claim(m) PROVE Goal
  BY <1>5, ClaimSets, SetsStay
<1>6. ASSUME NEW m \in Warps, WarpFails(m) \/ Detach(m) \/ SetWorkspace(m) PROVE Goal
  BY <1>6, FailSets, SetsStay
<1>7. ASSUME NEW m \in Warps, ReadRows(m) PROVE Goal
  BY <1>7, ReadSets, SetsStay
<1>8. ASSUME NEW m \in Warps, SendRow(m) PROVE Goal
  <2>1. \E p \in {"over", "steal", "send"} : \E r : Sets(m, p, r, warp[m].claimed)
    BY <1>8, SendIs
  <2> QED  BY <2>1, SetsStay
<1>9. ASSUME NEW m \in Warps, Steal(m) PROVE Goal
  <2>1. warp[m].pc # "ready" /\ WarpGoes(m, "set")
    BY <1>9 DEF Steal
  <2> QED  BY <2>1, PcSets, SetsStay
<1> HIDE DEF Goal
<1>10. ASSUME NEW m \in Warps, Warping(m) PROVE Goal
  BY <1>3, <1>4, <1>5, <1>6, <1>7, <1>8, <1>9, <1>10 DEF Warping
<1>11. ASSUME NEW w \in Remotes, Loop(w) PROVE Goal
  BY <1>1, <1>11 DEF Loop, Connect, HistoryFails, GoLive, ReplayLive, Disconnect, StreamFails
<1>12. ASSUME NEW n \in Nodes, NEW s \in Sessions, Create(n, s) \/ Publish(n, s) PROVE Goal
  BY <1>1, <1>12 DEF Create, Publish
<1>13. ASSUME NEW x \in Remotes \cup Warps, AnswerHistory(x) PROVE Goal
  BY <1>1, <1>13 DEF AnswerHistory
<1>14. ASSUME Crash PROVE Goal
  BY <1>14, CrashIs DEF Goal
<1>15. Goal
  BY <1>2, <1>10, <1>11, <1>12, <1>13, <1>14 DEF SyncNext
<1> QED  BY <1>15 DEF Goal
-----------------------------------------------------------------------------
(* Places and owners *)

LEMMA MoveIs ==
  ASSUME SyncTypeOK, NEW m \in Warps, Detach(m) \/ SetWorkspace(m)
  PROVE  LET s == warp[m].sid
             w == warp[m].to
             e == NewEvent(Home, s, w) IN
         /\ s \in Sessions /\ w \in Places /\ warp[m].pc # "ready"
         /\ warp[m].pc = "set" \/ (warp[m].pc = "move" /\ w = Nowhere)
         /\ Adds(Home, s, e) /\ e.by = Home /\ e.to = w /\ e \in Events
         /\ place' \in [Sessions -> Places]
         /\ place'[s] = w /\ \A r \in Sessions : r # s => place'[r] = place[r]
         /\ UNCHANGED <<owner, link, pull>>
<1> DEFINE s == warp[m].sid
           w == warp[m].to
<1>1. s \in Sessions /\ w \in Places /\ warp[m].pc # "ready"
      /\ (warp[m].pc = "set" \/ (warp[m].pc = "move" /\ w = Nowhere))
  BY WarpFields DEF Detach, SetWorkspace
<1>2. Append1(Home, s, w) /\ place' = [place EXCEPT ![s] = w] /\ UNCHANGED <<owner, link, pull>>
  BY DEF Detach, SetWorkspace
<1>3. Adds(Home, s, NewEvent(Home, s, w)) /\ NewEvent(Home, s, w).by = Home /\ NewEvent(Home, s, w).to = w
      /\ NewEvent(Home, s, w) \in Events
  BY <1>1, <1>2, OwnEvent, SyncFields
<1> HIDE DEF s, w
<1>4. place' \in [Sessions -> Places] /\ place'[s] = w /\ \A r \in Sessions : r # s => place'[r] = place[r]
  BY <1>1, <1>2 DEF SyncTypeOK
<1> QED  BY <1>1, <1>2, <1>3, <1>4 DEF s, w

\* The loops are not a warp's business, nor, but for the claim, is the owner.
LEMMA WarpKeeps ==
  ASSUME NEW m \in Warps, Warping(m)
  PROVE  link' = link /\ (owner' = owner \/ Claim(m))
<1> DEFINE Goal == link' = link /\ (owner' = owner \/ Claim(m))
<1>1. ASSUME NEW s \in Sessions, NEW to \in Places, WarpStart(m, s, to) PROVE Goal
  BY <1>1 DEF WarpStart
<1>2. FinalSynced(m) => Goal
  BY DEF FinalSynced
<1>3. Claim(m) => Goal
  BY DEF Claim
<1>4. Detach(m) => Goal
  BY DEF Detach
<1>5. ReadRows(m) => Goal
  BY DEF ReadRows
<1>6. SendRow(m) => Goal
  BY DEF SendRow
<1>7. Steal(m) => Goal
  BY DEF Steal
<1>8. SetWorkspace(m) => Goal
  BY DEF SetWorkspace
<1>9. WarpFails(m) => Goal
  BY DEF WarpFails
<1> HIDE DEF Goal
<1>10. Goal
  BY <1>1, <1>2, <1>3, <1>4, <1>5, <1>6, <1>7, <1>8, <1>9 DEF Warping
<1> QED  BY <1>10 DEF Goal

LEMMA PlaceSteps ==
  ASSUME SyncTypeOK, Numbered, Placed, Warped, Pulled, SyncNext
  PROVE  /\ place' \in [Sessions -> Places] /\ owner' \in [Sessions -> Owners]
         /\ \A s \in Sessions : place'[s] # place[s] => Says(Home, s, place[s])'
<1> DEFINE Goal == /\ place' \in [Sessions -> Places] /\ owner' \in [Sessions -> Owners]
                   /\ \A s \in Sessions : place'[s] # place[s] => Says(Home, s, place[s])'
<1>0. Home \in Nodes
  BY SyncFields
<1>1. ASSUME place' = place, owner' = owner PROVE Goal
  BY <1>1 DEF SyncTypeOK
<1>2. ASSUME NEW w, NEW e, Replays(w, e) PROVE Goal
  <2>1. PICK s \in Sessions : s = e.sid
    BY <1>2, ReplaysIs
  <2>2. /\ e \in Events /\ place' \in [Sessions -> Places] /\ owner' \in [Sessions -> Owners]
        /\ \A r \in Sessions : r # s => place'[r] = place[r]
        /\ place'[s] = place[s] \/ (Adds(Home, s, e) /\ place'[s] = e.to)
    BY <1>2, <2>1, ReplaysIs
  <2>3. Adds(Home, s, e) => In(log'[Home][s], e)
    BY <1>0, AddsIs
  <2> QED  BY <2>2, <2>3 DEF Says
<1>3. ASSUME NEW x \in Remotes \cup Warps, ReplayHistory(x) PROVE Goal
  BY <1>1, <1>2, <1>3, HistoryIs DEF Refused
<1>4. ASSUME NEW m \in Warps, Detach(m) \/ SetWorkspace(m) PROVE Goal
  <2>1. PICK s \in Sessions, e \in Events :
          /\ Adds(Home, s, e) /\ e.to = place'[s] /\ place' \in [Sessions -> Places]
          /\ \A r \in Sessions : r # s => place'[r] = place[r]
          /\ owner' = owner
    BY <1>4, MoveIs
  <2>2. In(log'[Home][s], e)
    BY <1>0, <2>1, AddsIs
  <2> QED  BY <2>1, <2>2 DEF SyncTypeOK, Says
<1>5. ASSUME NEW m \in Warps, Claim(m) PROVE Goal
  <2>1. warp[m].pc # "ready" /\ owner' = [owner EXCEPT ![warp[m].sid] = IF warp[m].to = Nowhere THEN Project ELSE warp[m].to]
        /\ place' = place
    BY <1>5 DEF Claim
  <2>2. warp[m].to \in Places
    BY <2>1, WarpFields
  <2> QED  BY <2>1, <2>2 DEF SyncTypeOK, Owners, Places
<1>6. ASSUME NEW n \in Nodes, NEW r \in Sessions, Publish(n, r) PROVE Goal
  <2>1. owner' = owner
    BY <1>6, PublishIs
  <2>2. PICK e \in Events :
          /\ Adds(n, r, e) /\ e.to \in Places \cup {"keep"}
          /\ place' = IF n = Home /\ e.to # "keep" THEN [place EXCEPT ![r] = e.to] ELSE place
    BY <1>6, PublishIs
  <2>3. CASE n = Home /\ e.to # "keep"
    <3>1. In(log'[Home][r], e)
      <4>1. Adds(Home, r, e)
        BY <2>2, <2>3
      <4> QED  BY <1>0, <4>1, AddsIs
    <3>2. place' = [place EXCEPT ![r] = e.to] /\ e.to \in Places
      BY <2>2, <2>3
    <3> QED  BY <2>1, <3>1, <3>2 DEF SyncTypeOK, Says
  <2> QED  BY <1>1, <2>1, <2>2, <2>3
<1> HIDE DEF Goal
<1>7. ASSUME NEW w \in Remotes, Loop(w) PROVE Goal
  BY <1>1, <1>2, <1>7, LiveIs DEF Loop, Connect, HistoryFails, GoLive, Disconnect, StreamFails
<1>8. ASSUME NEW m \in Warps, Warping(m) PROVE Goal
  <2>1. ASSUME NEW s \in Sessions, NEW to \in Places, WarpStart(m, s, to) PROVE Goal
    BY <1>1, <2>1 DEF WarpStart
  <2> QED  BY <1>1, <1>4, <1>5, <1>8, <2>1 DEF Warping, FinalSynced, ReadRows, SendRow, Steal, WarpFails
<1>9. ASSUME NEW n \in Nodes, NEW s \in Sessions, Create(n, s) PROVE Goal
  BY <1>1, <1>9 DEF Create
<1>10. ASSUME NEW x \in Remotes \cup Warps, AnswerHistory(x) PROVE Goal
  BY <1>1, <1>10 DEF AnswerHistory
<1>11. ASSUME Crash PROVE Goal
  BY <1>1, <1>11 DEF Crash
<1>12. Goal
  BY <1>3, <1>6, <1>7, <1>8, <1>9, <1>10, <1>11 DEF SyncNext
<1> QED  BY <1>12 DEF Goal

\* The first event that home gets of a session says where it was created.
LEMMA FirstPlaced ==
  ASSUME SyncTypeOK, Numbered, Placed, Warped, Pulled, SyncNext,
         NEW s \in Sessions, ~Held(s, Home), Held(s, Home)', place'[s] = place[s]
  PROVE  Says(Home, s, place[s])'
<1>1. Home \in Nodes /\ place[s] = Nowhere /\ log[Home][s] = <<>> /\ log'[Home][s] # <<>>
  BY SyncFields DEF Placed, Held
<1>2. ASSUME NEW w, NEW e, Replays(w, e) PROVE Says(Home, s, place[s])'
  <2>1. e.sid = s /\ Adds(Home, s, e) /\ e \in Events
        /\ place'[s] = (IF e.to = "keep" THEN place[s] ELSE e.to) /\ w \in Nodes /\ In(log[w][s], e)
    <3>1. e.sid \in Sessions /\ (e.sid # s /\ Adds(Home, e.sid, e) => log'[Home][s] = log[Home][s])
      BY <1>1, <1>2, ReplaysIs, AddsIs
    <3>2. e.sid = s /\ Adds(Home, s, e)
      BY <1>1, <1>2, <3>1, ReplaysIs
    <3>3. ~(log' = log)
      BY <1>1
    <3> QED  BY <1>2, <3>2, <3>3, ReplaysIs, SyncFields
  <2>2. e.seq = 1
    <3>1. Len(<<>>) = 0
      OBVIOUS
    <3> QED  BY <1>1, <2>1, <3>1 DEF Adds
  <2>3. e.to = At(e.by)
    BY <2>1, <2>2 DEF Numbered
  <2>4. e.to # "keep"
    BY <2>1, <2>3, EventFields, SyncAssumption DEF At, Nodes
  <2>5. In(log'[Home][s], e)
    BY <1>1, <2>1, AddsIs
  <2> QED  BY <2>1, <2>4, <2>5 DEF Says
<1>3. ASSUME NEW n \in Nodes, NEW r \in Sessions, Create(n, r) PROVE Says(Home, s, place[s])'
  <2>1. Append1(n, r, At(n)) /\ At(n) \in Places \cup {"keep"}
    BY <1>3 DEF Create, At, Nodes, Places
  <2>2. PICK e \in Events : Adds(n, r, e) /\ e.to = At(n)
    BY <2>1, OwnEvent
  <2>3. n = Home /\ r = s
    BY <1>1, <2>2, AddsIs
  <2>4. In(log'[Home][s], e) /\ e.to = Nowhere
    BY <2>2, <2>3, AddsIs DEF At
  <2> QED  BY <1>1, <2>4 DEF Says
<1>4. ASSUME NEW n \in Nodes, NEW r \in Sessions, NEW e, Adds(n, r, e), Held(r, n) PROVE FALSE
  <2>1. n = Home /\ r = s
    BY <1>1, <1>4, AddsIs
  <2> QED  BY <1>4, <2>1
<1>5. ASSUME NEW n \in Nodes, NEW r \in Sessions, Publish(n, r) PROVE FALSE
  BY <1>4, <1>5, PublishIs
<1>6. ASSUME NEW m \in Warps, Warping(m) PROVE FALSE
  <2>1. ASSUME Detach(m) \/ SetWorkspace(m) PROVE FALSE
    <3>1. PICK r \in Sessions : r = warp[m].sid
      BY <2>1, MoveIs
    <3>2. (\E e \in Events : Adds(Home, r, e)) /\ warp[m].pc # "ready"
      BY <2>1, <3>1, MoveIs
    <3>3. Held(r, Home)
      BY <3>1, <3>2 DEF Warped, WarpFits
    <3> QED  BY <1>1, <1>4, <3>2, <3>3
  <2>2. ASSUME Steal(m) PROVE FALSE
    <3>1. warp[m].pc = "steal" /\ warp[m].to \in Remotes /\ warp[m].sid \in Sessions
      BY <2>2, WarpFields DEF Steal, Warped, WarpFits, Places
    <3>2. PICK r \in Sessions, w \in Remotes : r = warp[m].sid /\ w = warp[m].to
      BY <3>1
    <3>3. Append1(w, r, w) /\ w \in Nodes /\ w \in Places \cup {"keep"} /\ Held(r, w)
      BY <2>2, <3>1, <3>2, SyncFields DEF Steal, Warped, WarpFits
    <3>4. \E e : Adds(w, r, e)
      BY <3>3, OwnEvent
    <3> QED  BY <1>4, <3>3, <3>4
  <2>3. ASSUME SendRow(m) PROVE FALSE
    <3>1. PICK r \in Sessions, w \in Remotes : r = warp[m].sid /\ w = warp[m].to
      BY <2>3, SendIs
    <3>2. log' = log \/ \E e : Adds(w, r, e)
      BY <2>3, <3>1, SendIs
    <3>3. w # Home /\ w \in Nodes
      BY SyncFields
    <3> QED  BY <1>1, <3>2, <3>3, AddsIs
  <2> QED  BY <1>1, <1>6, <2>1, <2>2, <2>3
           DEF Warping, WarpStart, FinalSynced, Claim, ReadRows, WarpFails
<1>7. ASSUME NEW w \in Remotes, Loop(w) PROVE Says(Home, s, place[s])'
  BY <1>1, <1>2, <1>7, LiveIs DEF Loop, Connect, HistoryFails, GoLive, Disconnect, StreamFails
<1>8. ASSUME NEW x \in Remotes \cup Warps, AnswerHistory(x) \/ ReplayHistory(x) PROVE Says(Home, s, place[s])'
  BY <1>1, <1>2, <1>8, HistoryIs DEF AnswerHistory, Refused
<1>9. ~Crash
  BY <1>1 DEF Crash
<1> QED  BY <1>3, <1>5, <1>6, <1>7, <1>8, <1>9 DEF SyncNext

LEMMA PlacedHolds ==
  ASSUME SyncTypeOK, Numbered, Placed, Warped, Pulled, SyncNext
  PROVE  Placed'
<1>1. LogStep /\ Grows /\ Home \in Nodes
  BY LogSteps, LogGrows, SyncFields
<1>2. ASSUME NEW s \in Sessions, place'[s] # place[s] PROVE Held(s, Home)' /\ Says(Home, s, place[s])'
  <2>1. Says(Home, s, place[s])'
    BY <1>2, PlaceSteps
  <2>2. PICK e \in Events : In(log'[Home][s], e)
    BY <2>1 DEF Says
  <2>3. log'[Home][s] \in Seq(Events)
    BY <1>1 DEF Grows
  <2> QED  BY <2>1, <2>2, <2>3, InIs DEF Held
<1>3. ASSUME NEW s \in Sessions, place'[s] = place[s], Held(s, Home)
      PROVE  Held(s, Home)' /\ Says(Home, s, place[s])'
  BY <1>1, <1>3 DEF Placed, Says, Held, Grows
<1>4. ASSUME NEW s \in Sessions, place'[s] = place[s], ~Held(s, Home), Held(s, Home)'
      PROVE  Says(Home, s, place[s])'
  BY <1>4, FirstPlaced
<1>5. ASSUME NEW s \in Sessions, place'[s] = place[s], ~Held(s, Home), ~Held(s, Home)'
      PROVE  place'[s] = Nowhere
  BY <1>5 DEF Placed
<1> QED  BY <1>2, <1>3, <1>4, <1>5 DEF Placed

-----------------------------------------------------------------------------
(* The warps *)

LEMMA FitsStays ==
  ASSUME SyncTypeOK, Grows, NEW m \in Warps, warp[m].pc # "ready", WarpFits(m), warp'[m] = warp[m]
  PROVE  WarpFits(m)'
<1> DEFINE s == warp[m].sid
           w == warp[m].to
           f == warp[m].from
<1>1. s \in Sessions /\ w \in Places /\ f \in Places /\ warp[m].rows \in Seq(Events)
  BY WarpFields
<1>2. w # Nowhere => w \in Nodes
  BY <1>1 DEF Places, Nodes
<1>3. f # Nowhere => f \in Nodes
  BY <1>1 DEF Places, Nodes
<1>4. Held(s, Home)' /\ (f # Nowhere => Held(s, f)') /\ (w # Nowhere /\ Held(s, w) => Held(s, w)')
  <2>1. \A k \in Nodes : Held(s, k) => log'[k][s] # <<>>
    BY <1>1 DEF Grows, Held
  <2> QED  BY <1>2, <1>3, <2>1, SyncFields DEF WarpFits, Held
<1>5. warp[m].pc = "send" => LeftToSend(warp[m].rows, log'[Home][s], Len(log'[w][s]))
  <2> HAVE warp[m].pc = "send"
  <2>1. LeftToSend(warp[m].rows, log[Home][s], Len(log[w][s])) /\ w \in Nodes
    BY <1>2 DEF WarpFits
  <2>2. /\ Len(log[w][s]) \in Nat /\ Len(log'[w][s]) \in Nat /\ Len(log[w][s]) <= Len(log'[w][s])
        /\ \A e : In(log[Home][s], e) => In(log'[Home][s], e)
    BY <1>1, <2>1, SyncFields DEF Grows
  <2> HIDE DEF s, w
  <2> QED  BY <1>1, <2>1, <2>2, SendsGrow
<1> QED  BY <1>4, <1>5 DEF WarpFits

LEMMA FitsSet ==
  ASSUME SyncTypeOK, Grows, Warped, NEW m \in Warps, NEW p, NEW r, NEW c, Sets(m, p, r, c), p # "ready",
         p \in {"move", "send", "steal", "set"} => c \/ warp[m].from = Nowhere,
         p = "claim" => ~c,
         p # "final",
         p \in {"send", "steal", "set"} => warp[m].to # Nowhere,
         p \in {"steal", "set"} => log'[warp[m].to][warp[m].sid] # <<>>,
         p = "send" => LeftToSend(r, log'[Home][warp[m].sid], Len(log'[warp[m].to][warp[m].sid]))
  PROVE  Warped'
<1>1. ASSUME NEW n \in Warps, n # m, warp'[n].pc # "ready" PROVE WarpFits(n)'
  <2>1. warp'[n] = warp[n]
    BY <1>1 DEF Sets
  <2> QED  BY <1>1, <2>1, FitsStays DEF Warped
<1>2. WarpFits(m)'
  <2> DEFINE s == warp[m].sid
             f == warp[m].from
  <2>1. warp[m].pc # "ready" /\ WarpFits(m)
    BY DEF Sets, Warped
  <2>2. s \in Sessions /\ f \in Places /\ (f # Nowhere => f \in Nodes)
    BY <2>1, WarpFields DEF Places, Nodes
  <2>3. log'[Home][s] # <<>> /\ (f # Nowhere => log'[f][s] # <<>>)
    <3>1. \A k \in Nodes : Held(s, k) => log'[k][s] # <<>>
      BY <2>2 DEF Grows, Held
    <3> QED  BY <2>1, <2>2, <3>1, SyncFields DEF WarpFits
  <2>4. /\ warp'[m].sid = warp[m].sid /\ warp'[m].from = warp[m].from /\ warp'[m].to = warp[m].to
        /\ warp'[m].pc = p /\ warp'[m].rows = r /\ warp'[m].claimed = c
    BY DEF Sets
  <2> QED  BY <2>3, <2>4 DEF WarpFits, Held
<1> QED  BY <1>1, <1>2 DEF Warped

LEMMA WarpedHolds ==
  ASSUME SyncTypeOK, Numbered, Placed, Warped, Pulled, SyncNext
  PROVE  Warped'
<1>0. Grows
  BY LogSteps, LogGrows
<1>1. ASSUME warp' = warp PROVE Warped'
  BY <1>0, <1>1, FitsStays DEF Warped
<1>2. ASSUME NEW x \in Remotes \cup Warps, ReplayHistory(x) PROVE Warped'
  <2>1. CASE x \in Warps /\ WarpOver(x)
    <3>1. pull[x] # NoPull
      BY <1>2, HistoryIs, PullFields
    <3>2. warp[x].pc = "final" /\ WarpFits(x)
      BY <2>1, <3>1 DEF Pulled, PullFits, Warped
    <3>3. Sets(x, "over", <<>>, warp[x].claimed)
      BY <2>1, <3>2, OverSets
    <3> QED  BY <1>0, <2>1, <3>2, <3>3, FitsSet DEF WarpFits
  <2> QED  BY <1>1, <1>2, <2>1, HistoryIs
<1>3. ASSUME NEW m \in Warps, NEW s \in Sessions, NEW to \in Places, WarpStart(m, s, to) PROVE Warped'
  <2>1. ASSUME NEW n \in Warps, n # m, warp'[n].pc # "ready" PROVE WarpFits(n)'
    <3>1. warp'[n] = warp[n]
      BY <1>3, <2>1, StartIs
    <3> QED  BY <1>0, <2>1, <3>1, FitsStays DEF Warped
  <2>2. WarpFits(m)'
    <3>1. /\ log[Home][s] # <<>> /\ log' = log
          /\ warp'[m].pc \in {"final", "claim", "move"} /\ (place[s] = Nowhere <=> warp'[m].pc # "final")
          /\ warp'[m].sid = s /\ warp'[m].from = place[s] /\ warp'[m].to = to
          /\ warp'[m].claimed = FALSE
      BY <1>3, StartIs
    <3>2. place[s] # Nowhere => Held(s, place[s])
      BY PlacedWhereHeld
    <3> QED  BY <3>1, <3>2 DEF WarpFits, Held
  <2> QED  BY <2>1, <2>2 DEF Warped
<1>4. ASSUME NEW m \in Warps, FinalSynced(m) PROVE Warped'
  <2>1. warp[m].pc = "final" /\ WarpGoes(m, "claim") /\ WarpFits(m)
    BY <1>4 DEF FinalSynced, Warped
  <2>2. Sets(m, "claim", warp[m].rows, warp[m].claimed)
    BY <2>1, PcSets
  <2> QED  BY <1>0, <2>1, <2>2, FitsSet DEF WarpFits
<1>5. ASSUME NEW m \in Warps, Claim(m) PROVE Warped'
  <2>1. warp[m].pc = "claim" /\ WarpFits(m)
    BY <1>5 DEF Claim, Warped
  <2>2. Sets(m, "move", warp[m].rows, TRUE)
    BY <1>5, ClaimSets
  <2> QED  BY <1>0, <2>1, <2>2, FitsSet DEF WarpFits
<1>6. ASSUME NEW m \in Warps, WarpFails(m) \/ Detach(m) \/ SetWorkspace(m) PROVE Warped'
  <2>1. warp[m].pc # "ready" /\ WarpFits(m)
    BY <1>6 DEF WarpFails, Detach, SetWorkspace, Warped
  <2>2. Sets(m, "over", <<>>, warp[m].claimed)
    BY <1>6, FailSets
  <2> QED  BY <1>0, <2>1, <2>2, FitsSet DEF WarpFits
<1>7. ASSUME NEW m \in Warps, ReadRows(m) PROVE Warped'
  <2> DEFINE s == warp[m].sid
             w == warp[m].to
             h == log[Home][s]
  <2>1. warp[m].pc = "move" /\ w # Nowhere /\ WarpFits(m) /\ log' = log
    BY <1>7 DEF ReadRows, Warped
  <2>2. Sets(m, "send", h, warp[m].claimed)
    BY <1>7, ReadSets
  <2>3. s \in Sessions /\ w \in Nodes /\ Home \in Nodes
    BY <2>1, WarpFields, SyncFields DEF Places, Nodes
  <2>4. LeftToSend(h, h, Len(log[w][s]))
    <3>1. h \in Seq(Events) /\ h # <<>> /\ Len(log[w][s]) \in Nat
      BY <2>1, <2>3, SyncFields DEF WarpFits, Held
    <3>2. \A i \in DOMAIN h : h[i].seq = i
      BY <2>3 DEF Numbered
    <3> HIDE DEF h
    <3> QED  BY <3>1, <3>2, AllToSend
  <2>5. LeftToSend(h, log'[Home][s], Len(log'[w][s]))
    BY <2>1, <2>4
  <2> HIDE DEF h
  <2> QED  BY <1>0, <2>1, <2>2, <2>5, FitsSet DEF WarpFits
<1>8. ASSUME NEW m \in Warps, SendRow(m) PROVE Warped'
  <2> DEFINE s == warp[m].sid
             w == warp[m].to
             h == log[Home][s]
             rows == warp[m].rows
             e == Head(rows)
             n == Len(log[w][s])
  <2>1. /\ warp[m].pc = "send" /\ w \in Remotes /\ s \in Sessions /\ e \in Events
        /\ rows \in Seq(Events) /\ rows # <<>> /\ e = rows[1]
    BY <1>8, SendIs
  <2>2. WarpFits(m)
    BY <2>1 DEF Warped
  <2>3. CASE Sets(m, "over", <<>>, warp[m].claimed)
    BY <1>0, <2>1, <2>2, <2>3, FitsSet DEF WarpFits
  <2>4. CASE /\ (In(log[w][s], e) /\ log' = log) \/ Adds(w, s, e)
             /\ Len(rows) = 1 => Sets(m, "steal", Tail(rows), warp[m].claimed)
             /\ Len(rows) # 1 => Sets(m, "send", Tail(rows), warp[m].claimed)
    <3>0. w \in Nodes /\ s \in Sessions /\ Home \in Nodes
      BY <2>1, SyncFields
    <3>1. In(log'[w][s], e)
      <4>1. CASE In(log[w][s], e) /\ log' = log
        BY <4>1
      <4>2. CASE Adds(w, s, e)
        <5> HIDE DEF w, s, e
        <5> QED  BY <3>0, <4>2, AddsIs
      <4> QED  BY <2>4, <4>1, <4>2
    <3>2. log'[w][s] \in Seq(Events) /\ Len(log'[w][s]) \in Nat
      BY <1>0, <2>1, SyncFields DEF Grows
    <3>3. e.seq <= Len(log'[w][s]) /\ log'[w][s] # <<>>
      BY <3>1, <3>2, InIs
    <3>4. CASE Len(rows) = 1
      <4>1. Sets(m, "steal", Tail(rows), warp[m].claimed)
        BY <2>4, <3>4
      <4> QED  BY <1>0, <2>1, <2>2, <3>3, <4>1, FitsSet DEF WarpFits
    <3>5. CASE Len(rows) # 1
      <4>1. Sets(m, "send", Tail(rows), warp[m].claimed)
        BY <2>4, <3>5
      <4>2. LeftToSend(rows, h, n) /\ n \in Nat
        BY <2>1, <2>2, SyncFields DEF WarpFits
      <4>3. LeftToSend(Tail(rows), h, Len(log'[w][s]))
        <5> HIDE DEF h, n, rows
        <5> QED  BY <2>1, <3>2, <3>3, <3>5, <4>2, TailToSend
      <4>4. LeftToSend(Tail(rows), log'[Home][s], Len(log'[w][s]))
        <5>1. Tail(rows) \in Seq(Events)
          BY <2>1
        <5>2. \A d : In(h, d) => In(log'[Home][s], d)
          BY <1>0, <3>0 DEF Grows
        <5>3. Len(log'[w][s]) <= Len(log'[w][s])
          BY <3>2
        <5> HIDE DEF h, rows, w, s
        <5> QED  BY <3>2, <4>3, <5>1, <5>2, <5>3, SendsGrow
      <4> QED  BY <1>0, <2>1, <2>2, <4>1, <4>4, FitsSet DEF WarpFits
    <3> QED  BY <3>4, <3>5
  <2> QED  BY <1>8, <2>3, <2>4, SendIs
<1>9. ASSUME NEW m \in Warps, Steal(m) PROVE Warped'
  <2>1. warp[m].pc = "steal" /\ WarpGoes(m, "set") /\ WarpFits(m)
    BY <1>9 DEF Steal, Warped
  <2>2. Sets(m, "set", warp[m].rows, warp[m].claimed)
    BY <2>1, PcSets
  <2>3. warp[m].sid \in Sessions /\ warp[m].to \in Nodes
    BY <2>1, WarpFields DEF Places, Nodes, WarpFits
  <2>4. log'[warp[m].to][warp[m].sid] # <<>>
    BY <1>0, <2>1, <2>3 DEF WarpFits, Held, Grows
  <2> QED  BY <1>0, <2>1, <2>2, <2>4, FitsSet DEF WarpFits
<1>10. ASSUME NEW m \in Warps, Warping(m) PROVE Warped'
  BY <1>3, <1>4, <1>5, <1>6, <1>7, <1>8, <1>9, <1>10 DEF Warping
<1>11. ASSUME NEW w \in Remotes, Loop(w) PROVE Warped'
  BY <1>1, <1>11 DEF Loop, Connect, HistoryFails, GoLive, ReplayLive, Disconnect, StreamFails
<1>12. ASSUME NEW n \in Nodes, NEW s \in Sessions, Create(n, s) \/ Publish(n, s) PROVE Warped'
  BY <1>1, <1>12 DEF Create, Publish
<1>13. ASSUME NEW x \in Remotes \cup Warps, AnswerHistory(x) PROVE Warped'
  BY <1>1, <1>13 DEF AnswerHistory
<1>14. ASSUME Crash PROVE Warped'
  <2> SUFFICES ASSUME NEW m \in Warps, warp'[m].pc # "ready" PROVE WarpFits(m)'
    BY DEF Warped
  <2>1. warp[m].pc # "ready" /\ WarpFits(m) /\ log' = log
    BY <1>14, CrashIs DEF Warped, Crash
  <2>2. /\ warp'[m].pc = "over" /\ warp'[m].sid = warp[m].sid /\ warp'[m].from = warp[m].from
        /\ warp'[m].to = warp[m].to /\ warp'[m].claimed = warp[m].claimed
    BY <1>14, <2>1, CrashIs DEF CallsStay
  <2> QED  BY <2>1, <2>2 DEF WarpFits, Held
<1> QED  BY <1>2, <1>10, <1>11, <1>12, <1>13, <1>14 DEF SyncNext
-----------------------------------------------------------------------------
(* Answers *)

\* An answer holds what the workspace has after what it was told of, and each
\* event in it follows its predecessor, or what it was told of.
LEMMA AnswerIs ==
  ASSUME SyncTypeOK, Numbered, NEW w \in Remotes, NEW known \in [Sessions -> Nat],
         NEW batch \in Answers(w, known)
  PROVE  /\ batch \in Seq(Events)
         /\ \A k \in DOMAIN batch :
              LET s == batch[k].sid IN
              /\ In(log[w][s], batch[k])
              /\ \/ batch[k].seq <= known[s] + 1
                 \/ \E j \in 1 .. k - 1 : batch[j].sid = s /\ batch[j].seq = batch[k].seq - 1
<1> DEFINE R == Rows(w, known)
           n == Cardinality(R)
<1>1. w \in Nodes
  BY SyncFields
<1>2. ASSUME NEW e PROVE e \in R <=> e \in Events /\ In(log[w][e.sid], e) /\ e.seq > known[e.sid]
  <2>1. ASSUME e \in R PROVE e \in Events /\ In(log[w][e.sid], e) /\ e.seq > known[e.sid]
    <3>1. PICK s \in Sessions : e \in {log[w][s][i] : i \in {j \in DOMAIN log[w][s] : j > known[s]}}
      BY <2>1 DEF Rows
    <3>2. PICK i \in DOMAIN log[w][s] : e = log[w][s][i] /\ i > known[s]
      BY <3>1
    <3>3. log[w][s] \in Seq(Events)
      BY <1>1, SyncFields
    <3>4. e \in Events /\ e.seq = i
      BY <1>1, <3>2, <3>3 DEF Numbered
    <3>5. In(log[w][s], e)
      BY <3>2, <3>4 DEF In
    <3>6. e.sid = s
      BY <1>1, <3>4, <3>5 DEF Numbered
    <3> QED  BY <3>2, <3>4, <3>5, <3>6
  <2>2. ASSUME e \in Events, In(log[w][e.sid], e), e.seq > known[e.sid] PROVE e \in R
    <3>1. e.sid \in Sessions /\ e.seq \in DOMAIN log[w][e.sid] /\ e = log[w][e.sid][e.seq]
      BY <2>2, EventFields DEF In
    <3>2. e \in {log[w][e.sid][i] : i \in {j \in DOMAIN log[w][e.sid] : j > known[e.sid]}}
      BY <2>2, <3>1
    <3> QED  BY <3>1, <3>2 DEF Rows
  <2> QED  BY <2>1, <2>2
<1> HIDE DEF R
<1>3. IsFiniteSet(R)
  <2> DEFINE P == Sessions \X (1 .. MaxLen)
             f == [e \in R |-> <<e.sid, e.seq>>]
  <2>1. IsFiniteSet(1 .. MaxLen)
    BY SyncAssumption, FS_Interval
  <2>2. IsFiniteSet(P)
    BY <2>1, SyncAssumption, FS_Product
  <2>3. f \in [R -> P]
    <3>1. \A e \in Events : e.sid \in Sessions /\ e.seq \in 1 .. MaxLen
      BY DEF Events
    <3> QED  BY <1>2, <3>1
  <2>4. ASSUME NEW d \in R, NEW e \in R, f[d] = f[e] PROVE d = e
    <3>1. d.sid = e.sid /\ d.seq = e.seq
      BY <2>4
    <3> QED  BY <1>2, <3>1, InsAgree, SyncFields, EventFields, <1>1
  <2>5. f \in Injection(R, P)
    BY <2>3, <2>4 DEF Injection, IsInjective
  <2> QED  BY <2>2, <2>5, FS_Injection
<1>4. n \in Nat
  BY <1>3, FS_CardinalityType
<1>5. batch \in [1 .. n -> R] /\ (\A i, j \in 1 .. n : i # j => batch[i] # batch[j])
      /\ \A j, k \in DOMAIN batch : j < k => batch[j].seq <= batch[k].seq
  BY DEF Answers, SetToSeqs, R
<1>6. batch \in Surjection(1 .. n, R)
  <2>1. batch \in Injection(1 .. n, R)
    BY <1>5 DEF Injection, IsInjective
  <2>2. IsFiniteSet(1 .. n) /\ Cardinality(1 .. n) = n
    BY <1>4, FS_Interval
  <2> QED  BY <1>3, <2>1, <2>2, FS_Injection
<1>7. \A e \in R : \E j \in 1 .. n : batch[j] = e
  BY <1>6 DEF Surjection
<1>8. \A e \in R : e \in Events
  BY <1>2
<1> HIDE DEF n
<1>9. batch \in Seq(Events) /\ DOMAIN batch = 1 .. n
  BY <1>4, <1>5, <1>8
<1>10. ASSUME NEW k \in DOMAIN batch
       PROVE  LET s == batch[k].sid IN
              /\ In(log[w][s], batch[k])
              /\ \/ batch[k].seq <= known[s] + 1
                 \/ \E j \in 1 .. k - 1 : batch[j].sid = s /\ batch[j].seq = batch[k].seq - 1
  <2> DEFINE e == batch[k]
             s == e.sid
             q == log[w][s]
  <2>1. e \in R
    BY <1>5, <1>9
  <2>2. e \in Events /\ In(q, e) /\ e.seq > known[s] /\ s \in Sessions /\ known[s] \in Nat
        /\ e.seq \in Nat /\ q \in Seq(Events)
    BY <1>1, <1>2, <2>1, EventFields, SyncFields
  <2>3. ASSUME e.seq > known[s] + 1
        PROVE  \E j \in 1 .. k - 1 : batch[j].sid = s /\ batch[j].seq = e.seq - 1
    <3> DEFINE i == e.seq - 1
               d == q[i]
    <3>1. i \in DOMAIN q /\ i > known[s] /\ i \in Nat
      <4>1. e.seq \in 1 .. Len(q) /\ DOMAIN q = 1 .. Len(q)
        BY <2>2, InIs
      <4> HIDE DEF q, s, e
      <4> QED  BY <2>2, <2>3, <4>1
    <3>2. d \in Events /\ d.seq = i
      BY <1>1, <2>2, <3>1 DEF Numbered
    <3>3. In(q, d)
      BY <3>1, <3>2 DEF In
    <3>4. d.sid = s
      BY <1>1, <2>2, <3>2, <3>3 DEF Numbered
    <3>5. d \in R
      BY <1>2, <3>1, <3>2, <3>3, <3>4
    <3>6. PICK j \in 1 .. n : batch[j] = d
      BY <1>7, <3>5
    <3>7. j \in DOMAIN batch /\ k \in DOMAIN batch /\ j \in Nat /\ k \in Nat /\ j >= 1
      BY <1>4, <1>9, <3>6
    <3>8. ~(k < j) /\ k # j
      <4>1. d.seq < e.seq /\ d.seq \in Nat
        BY <2>2, <3>1, <3>2
      <4>2. k < j => e.seq <= d.seq
        BY <1>5, <3>6, <3>7
      <4> HIDE DEF e, d
      <4>3. k # j
        BY <4>1, <3>6 DEF e
      <4> QED  BY <2>2, <4>1, <4>2, <4>3
    <3> QED  BY <3>2, <3>4, <3>6, <3>7, <3>8
  <2>4. e.seq <= known[s] + 1 \/ e.seq > known[s] + 1
    <3> HIDE DEF e, s
    <3> QED  BY <2>2
  <2> QED  BY <2>2, <2>3, <2>4
<1> QED  BY <1>9, <1>10

-----------------------------------------------------------------------------
(* The requests for history *)

LEMMA PullStays ==
  ASSUME SyncTypeOK, Grows, NEW x \in Remotes \cup Warps, PullFits(x), pull'[x] = pull[x],
         x \in Warps /\ pull[x] # NoPull => warp'[x].pc = "final"
  PROVE  PullFits(x)'
<1>1. pull[x].pc = "asked" => \A s \in Sessions : pull[x].known[s] <= Len(log'[Home][s])
  <2> SUFFICES ASSUME pull[x].pc = "asked", NEW s \in Sessions PROVE pull[x].known[s] <= Len(log'[Home][s])
    OBVIOUS
  <2>1. pull[x].known[s] \in Nat /\ pull[x].known[s] <= Len(log[Home][s])
    BY PullFields DEF PullFits, HomeLen
  <2>2. Len(log[Home][s]) <= Len(log'[Home][s]) /\ Len(log[Home][s]) \in Nat /\ Len(log'[Home][s]) \in Nat
    BY SyncFields DEF Grows
  <2> QED  BY <2>1, <2>2
<1>2. pull[x].pc = "replaying" =>
        \A k \in DOMAIN pull[x].batch : In(log'[pull[x].of][pull[x].batch[k].sid], pull[x].batch[k])
  <2> SUFFICES ASSUME pull[x].pc = "replaying", NEW k \in DOMAIN pull[x].batch
               PROVE  In(log'[pull[x].of][pull[x].batch[k].sid], pull[x].batch[k])
    OBVIOUS
  <2>1. pull[x].of \in Nodes /\ pull[x].batch[k] \in Events
    BY PullFields, SyncFields
  <2>2. pull[x].batch[k].sid \in Sessions
    BY <2>1, EventFields
  <2>3. In(log[pull[x].of][pull[x].batch[k].sid], pull[x].batch[k])
    BY DEF PullFits
  <2> QED  BY <2>1, <2>2, <2>3 DEF Grows
<1> QED  BY <1>1, <1>2 DEF PullFits, HomeLen, NoPull

\* A request for history ends, or has not begun.
LEMMA PullEnds ==
  ASSUME SyncTypeOK, NEW x \in Remotes \cup Warps, pull' = [pull EXCEPT ![x] = NoPull]
  PROVE  /\ pull' \in [Remotes \cup Warps -> Pulls] /\ pull'[x] = NoPull /\ PullFits(x)'
         /\ \A y \in Remotes \cup Warps : y # x => pull'[y] = pull[y]
BY DEF SyncTypeOK, Pulls, PullFits, NoPull

LEMMA AskIs ==
  ASSUME SyncTypeOK, NEW x \in Remotes \cup Warps, NEW w \in Remotes, Ask(x, w), log' = log,
         x \in Remotes => x = w, x \in Warps => warp'[x].pc = "final"
  PROVE  /\ pull' \in [Remotes \cup Warps -> Pulls] /\ pull'[x].pc = "asked" /\ PullFits(x)'
         /\ \A y \in Remotes \cup Warps : y # x => pull'[y] = pull[y]
<1> DEFINE v == [pc |-> "asked", of |-> w, known |-> Known(w)]
<1>1. Known(w) \in [Sessions -> Nat] /\ \A s \in Sessions : Known(w)[s] <= HomeLen(s)
  BY SyncFields DEF Known
<1>2. v \in Pulls
  BY <1>1 DEF Pulls
<1>3. pull' \in [Remotes \cup Warps -> Pulls] /\ pull'[x] = v
      /\ \A y \in Remotes \cup Warps : y # x => pull'[y] = pull[y]
  BY <1>2 DEF Ask, SyncTypeOK
<1>4. \A s \in Sessions : HomeLen(s)' = HomeLen(s)
  BY DEF HomeLen
<1> QED  BY <1>1, <1>3, <1>4 DEF PullFits
LEMMA OthersKept ==
  ASSUME SyncTypeOK, Grows, Pulled, NEW x \in Remotes \cup Warps, PullFits(x)',
         \A y \in Remotes \cup Warps : y # x => pull'[y] = pull[y],
         \A m \in Warps : m # x /\ warp[m].pc = "final" => warp'[m].pc = "final"
  PROVE  Pulled'
<1>1. ASSUME NEW y \in Remotes \cup Warps, y # x PROVE PullFits(y)'
  <2>1. PullFits(y) /\ pull'[y] = pull[y]
    BY <1>1 DEF Pulled
  <2>2. y \in Warps /\ pull[y] # NoPull => warp'[y].pc = "final"
    BY <1>1, <2>1 DEF PullFits
  <2> QED  BY <2>1, <2>2, PullStays
<1> QED  BY <1>1 DEF Pulled

LEMMA AllKept ==
  ASSUME SyncTypeOK, Grows, Pulled, pull' = pull,
         \A m \in Warps : warp[m].pc = "final" => warp'[m].pc = "final"
  PROVE  Pulled' /\ pull' \in [Remotes \cup Warps -> Pulls]
<1>1. ASSUME NEW y \in Remotes \cup Warps PROVE PullFits(y)'
  <2>1. PullFits(y) /\ pull'[y] = pull[y]
    BY DEF Pulled
  <2>2. y \in Warps /\ pull[y] # NoPull => warp'[y].pc = "final"
    BY <2>1 DEF PullFits
  <2> QED  BY <2>1, <2>2, PullStays
<1> QED  BY <1>1 DEF Pulled, SyncTypeOK

LEMMA AnsweredIs ==
  ASSUME SyncTypeOK, Numbered, NEW x \in Remotes \cup Warps, AnswerHistory(x)
  PROVE  /\ pull[x].pc = "asked" /\ pull[x].of \in Remotes /\ pull[x].known \in [Sessions -> Nat]
         /\ \E batch \in Answers(pull[x].of, pull[x].known) :
              /\ pull'[x] = [pc |-> "replaying", of |-> pull[x].of, batch |-> batch]
         /\ pull' \in [Remotes \cup Warps -> Pulls]
         /\ \A y \in Remotes \cup Warps : y # x => pull'[y] = pull[y]
         /\ UNCHANGED <<log, place, owner, link, warp>>
<1>1. pull[x].pc = "asked" /\ UNCHANGED <<log, place, owner, link, warp>>
  BY DEF AnswerHistory
<1>2. pull[x].of \in Remotes /\ pull[x].known \in [Sessions -> Nat]
  BY <1>1, PullFields
<1>3. PICK batch \in Answers(pull[x].of, pull[x].known) :
        pull' = [pull EXCEPT ![x] = [pc |-> "replaying", of |-> @.of, batch |-> batch]]
  BY DEF AnswerHistory
<1>4. batch \in Seq(Events)
  BY <1>2, AnswerIs
<1> DEFINE v == [pc |-> "replaying", of |-> pull[x].of, batch |-> batch]
<1>5. v \in Pulls
  BY <1>2, <1>4 DEF Pulls
<1>6. pull' = [pull EXCEPT ![x] = v]
  BY <1>3
<1>7. pull' \in [Remotes \cup Warps -> Pulls] /\ pull'[x] = v
      /\ \A y \in Remotes \cup Warps : y # x => pull'[y] = pull[y]
  <2> HIDE DEF v
  <2> QED  BY <1>5, <1>6 DEF SyncTypeOK
<1> QED  BY <1>1, <1>2, <1>7

\* After one event of an answer, what comes after it is left.
LEMMA ReplayedIs ==
  ASSUME SyncTypeOK, NEW x \in Remotes \cup Warps, pull[x].pc = "replaying", pull[x].batch # <<>>,
         pull' = [pull EXCEPT ![x].batch = Tail(@)]
  PROVE  /\ pull' \in [Remotes \cup Warps -> Pulls] /\ pull'[x].pc = "replaying"
         /\ pull'[x].of = pull[x].of /\ pull'[x] # NoPull
         /\ pull'[x].batch \in Seq(Events) /\ Len(pull'[x].batch) = Len(pull[x].batch) - 1
         /\ \A k \in DOMAIN pull'[x].batch : k + 1 \in DOMAIN pull[x].batch /\ pull'[x].batch[k] = pull[x].batch[k + 1]
         /\ \A y \in Remotes \cup Warps : y # x => pull'[y] = pull[y]
<1> DEFINE b == pull[x].batch
           v == [pull[x] EXCEPT !.batch = Tail(b)]
<1>1. pull[x] \in [pc: {"replaying"}, of: Remotes, batch: Seq(Events)] /\ b \in Seq(Events)
  BY PullFields
<1>2. /\ Tail(b) \in Seq(Events) /\ Len(Tail(b)) = Len(b) - 1 /\ Len(b) \in Nat /\ Len(b) # 0
      /\ \A k \in 1 .. Len(b) - 1 : Tail(b)[k] = b[k + 1]
  BY <1>1
<1>3. \A k \in DOMAIN Tail(b) : k + 1 \in DOMAIN b /\ Tail(b)[k] = b[k + 1]
  <2>1. DOMAIN Tail(b) = 1 .. Len(b) - 1 /\ DOMAIN b = 1 .. Len(b)
    BY <1>1, <1>2
  <2> QED  BY <1>2, <2>1
<1>4. pull' = [pull EXCEPT ![x] = v]
  BY DEF SyncTypeOK
<1> HIDE DEF b
<1>5. v \in [pc: {"replaying"}, of: Remotes, batch: Seq(Events)] /\ v.pc = "replaying"
      /\ v.of = pull[x].of /\ v.batch = Tail(b)
  BY <1>1, <1>2
<1> HIDE DEF v
<1>6. v \in Pulls /\ v # NoPull
  BY <1>5 DEF Pulls, NoPull
<1>7. pull' \in [Remotes \cup Warps -> Pulls] /\ pull'[x] = v
      /\ \A y \in Remotes \cup Warps : y # x => pull'[y] = pull[y]
  BY <1>4, <1>6 DEF SyncTypeOK
<1> QED  BY <1>2, <1>3, <1>5, <1>6, <1>7 DEF b

LEMMA PulledHolds ==
  ASSUME SyncTypeOK, Numbered, Placed, Warped, Pulled, SyncNext
  PROVE  Pulled' /\ pull' \in [Remotes \cup Warps -> Pulls]
<1> DEFINE Goal == Pulled' /\ pull' \in [Remotes \cup Warps -> Pulls]
<1>0. Grows
  BY LogSteps, LogGrows
<1>1. ASSUME pull' = pull, warp' = warp PROVE Goal
  BY <1>0, <1>1, AllKept
<1>2. ASSUME NEW w \in Remotes, Connect(w) PROVE Goal
  <2>1. Ask(w, w) /\ log' = log /\ warp' = warp /\ w \notin Warps
    BY <1>2, SyncAssumption DEF Connect
  <2>2. /\ pull' \in [Remotes \cup Warps -> Pulls] /\ PullFits(w)'
        /\ \A y \in Remotes \cup Warps : y # w => pull'[y] = pull[y]
    BY <2>1, AskIs
  <2> QED  BY <1>0, <2>1, <2>2, OthersKept
<1>3. ASSUME NEW w \in Remotes, HistoryFails(w) \/ GoLive(w) PROVE Goal
  <2>1. pull' = [pull EXCEPT ![w] = NoPull] /\ warp' = warp
    BY <1>3 DEF HistoryFails, GoLive
  <2> QED  BY <1>0, <2>1, PullEnds, OthersKept
<1>4. ASSUME NEW w \in Remotes, ReplayLive(w) \/ Disconnect(w) \/ StreamFails(w) PROVE Goal
  BY <1>1, <1>4 DEF ReplayLive, Disconnect, StreamFails
<1>5. ASSUME NEW x \in Remotes \cup Warps, AnswerHistory(x) PROVE Goal
  <2>1. /\ pull[x].pc = "asked" /\ pull[x].of \in Remotes /\ pull[x].known \in [Sessions -> Nat]
        /\ pull' \in [Remotes \cup Warps -> Pulls]
        /\ \A y \in Remotes \cup Warps : y # x => pull'[y] = pull[y]
        /\ UNCHANGED <<log, place, owner, link, warp>>
    BY <1>5, AnsweredIs
  <2>2. PICK batch \in Answers(pull[x].of, pull[x].known) :
          pull'[x] = [pc |-> "replaying", of |-> pull[x].of, batch |-> batch]
    BY <1>5, AnsweredIs
  <2>3. \A k \in DOMAIN batch : In(log[pull[x].of][batch[k].sid], batch[k])
    BY <2>1, AnswerIs
  <2>4. PullFits(x) /\ pull[x] # NoPull
    BY <2>1, PullFields DEF Pulled
  <2>5. PullFits(x)'
    BY <2>1, <2>2, <2>3, <2>4 DEF PullFits
  <2> QED  BY <1>0, <2>1, <2>5, OthersKept
<1>6. ASSUME NEW x \in Remotes \cup Warps, ReplayHistory(x) PROVE Goal
  <2>1. /\ pull[x].pc = "replaying" /\ pull[x].batch # <<>> /\ pull[x] # NoPull /\ PullFits(x)
        /\ pull[x].batch \in Seq(Events) /\ pull[x].of \in Remotes
    BY <1>6, HistoryIs, PullFields DEF Pulled
  <2>2. CASE pull' = [pull EXCEPT ![x] = NoPull] /\ (x \in Remotes => UNCHANGED warp) /\ (x \notin Remotes => WarpOver(x))
    <3>1. \A m \in Warps : m # x => warp'[m] = warp[m]
      BY <2>2 DEF WarpOver, SyncTypeOK
    <3> QED  BY <1>0, <2>2, <3>1, PullEnds, OthersKept
  <2>3. CASE pull' = [pull EXCEPT ![x].batch = Tail(@)] /\ UNCHANGED warp
    <3>1. /\ pull' \in [Remotes \cup Warps -> Pulls] /\ pull'[x].pc = "replaying"
          /\ pull'[x].of = pull[x].of /\ pull'[x] # NoPull
          /\ \A k \in DOMAIN pull'[x].batch : k + 1 \in DOMAIN pull[x].batch /\ pull'[x].batch[k] = pull[x].batch[k + 1]
          /\ \A y \in Remotes \cup Warps : y # x => pull'[y] = pull[y]
      BY <2>1, <2>3, ReplayedIs
    <3>2. ASSUME NEW k \in DOMAIN pull'[x].batch
          PROVE  In(log'[pull'[x].of][pull'[x].batch[k].sid], pull'[x].batch[k])
      <4> DEFINE e == pull[x].batch[k + 1]
      <4>1. e \in Events /\ In(log[pull[x].of][e.sid], e) /\ pull[x].of \in Nodes
        BY <2>1, <3>1, SyncFields DEF PullFits
      <4>2. In(log'[pull[x].of][e.sid], e)
        BY <1>0, <4>1, EventFields DEF Grows
      <4> QED  BY <3>1, <4>2
    <3>3. PullFits(x)'
      BY <2>1, <2>3, <3>1, <3>2 DEF PullFits
    <3> QED  BY <1>0, <2>3, <3>1, <3>3, OthersKept
  <2> QED  BY <1>6, <2>2, <2>3, HistoryIs
<1>7. ASSUME NEW m \in Warps, NEW s \in Sessions, NEW to \in Places, WarpStart(m, s, to) PROVE Goal
  <2>1. /\ warp[m].pc = "ready" /\ log' = log /\ place[s] \in Places
        /\ place[s] = Nowhere <=> warp'[m].pc # "final"
        /\ \A n \in Warps : n # m => warp'[n] = warp[n]
        /\ IF place[s] = Nowhere THEN pull' = pull ELSE Ask(m, place[s])
    BY <1>7, StartIs, SyncFields
  <2>2. CASE place[s] = Nowhere
    BY <1>0, <2>1, <2>2, AllKept
  <2>3. CASE place[s] # Nowhere
    <3>1. place[s] \in Remotes /\ m \notin Remotes
      BY <2>1, <2>3, SyncAssumption DEF Places
    <3>2. /\ pull' \in [Remotes \cup Warps -> Pulls] /\ PullFits(m)'
          /\ \A y \in Remotes \cup Warps : y # m => pull'[y] = pull[y]
      BY <2>1, <2>3, <3>1, AskIs
    <3> QED  BY <1>0, <2>1, <3>2, OthersKept
  <2> QED  BY <2>2, <2>3
<1>8. ASSUME NEW m \in Warps, FinalSynced(m) PROVE Goal
  <2>1. pull' = [pull EXCEPT ![m] = NoPull] /\ WarpGoes(m, "claim")
    BY <1>8 DEF FinalSynced
  <2>2. \A n \in Warps : n # m => warp'[n] = warp[n]
    BY <2>1 DEF WarpGoes, SyncTypeOK
  <2> QED  BY <1>0, <2>1, <2>2, PullEnds, OthersKept
<1>9. ASSUME NEW m \in Warps, Claim(m) \/ Detach(m) \/ ReadRows(m) \/ SendRow(m) \/ Steal(m) \/ SetWorkspace(m) \/ WarpFails(m)
      PROVE  Goal
  <2>1. pull' = pull /\ warp[m].pc # "final"
    BY <1>9 DEF Claim, Detach, ReadRows, SendRow, Steal, SetWorkspace, WarpFails
  <2>2. \A n \in Warps : n # m => warp'[n] = warp[n]
    BY <1>9 DEF Claim, Detach, ReadRows, SendRow, Steal, SetWorkspace, WarpFails, WarpOver, WarpGoes, SyncTypeOK
  <2> QED  BY <1>0, <2>1, <2>2, AllKept
<1>10. ASSUME Crash PROVE Goal
  <2>1. pull' = [x \in Remotes \cup Warps |-> NoPull]
    BY <1>10 DEF Crash
  <2> QED  BY <2>1 DEF Pulled, PullFits, Pulls, NoPull
<1> HIDE DEF Goal
<1>11. ASSUME NEW m \in Warps, Warping(m) PROVE Goal
  BY <1>7, <1>8, <1>9, <1>11 DEF Warping
<1>12. ASSUME NEW w \in Remotes, Loop(w) PROVE Goal
  BY <1>2, <1>3, <1>4, <1>12 DEF Loop
<1>13. ASSUME NEW n \in Nodes, NEW s \in Sessions, Create(n, s) \/ Publish(n, s) PROVE Goal
  BY <1>1, <1>13 DEF Create, Publish
<1>14. Goal
  BY <1>5, <1>6, <1>10, <1>11, <1>12, <1>13 DEF SyncNext
<1> QED  BY <1>14 DEF Goal

LEMMA SyncTypeHolds ==
  ASSUME SyncTypeOK, Numbered, Placed, Warped, Pulled, SyncNext
  PROVE  SyncTypeOK'
<1>1. log' \in [Nodes -> [Sessions -> Seq(Events)]]
  BY LogSteps, AddsIs DEF LogStep, SyncTypeOK
<1>2. place' \in [Sessions -> Places] /\ owner' \in [Sessions -> Owners]
  BY PlaceSteps
<1>3. link' \in [Remotes -> {"none", "off", "history", "live"}]
  <2> DEFINE Goal == link' \in [Remotes -> {"none", "off", "history", "live"}]
  <2>1. ASSUME link' = link PROVE Goal
    BY <2>1 DEF SyncTypeOK
  <2>2. ASSUME NEW w \in Remotes, NEW v \in {"none", "off", "history", "live"}, link' = [link EXCEPT ![w] = v] PROVE Goal
    BY <2>2 DEF SyncTypeOK
  <2>3. ASSUME NEW w \in Remotes, Loop(w) PROVE Goal
    BY <2>1, <2>2, <2>3 DEF Loop, Connect, HistoryFails, GoLive, ReplayLive, Disconnect, StreamFails
  <2>4. ASSUME NEW x \in Remotes \cup Warps, ReplayHistory(x) PROVE Goal
    BY <2>1, <2>2, <2>4, HistoryIs
  <2>5. ASSUME Crash PROVE Goal
    BY <2>5 DEF Crash
  <2> HIDE DEF Goal
  <2>6. ASSUME NEW m \in Warps, Warping(m) PROVE Goal
    BY <2>1, <2>6, WarpKeeps
  <2>7. ASSUME NEW n \in Nodes, NEW s \in Sessions, Create(n, s) \/ Publish(n, s) PROVE Goal
    BY <2>1, <2>7 DEF Create, Publish
  <2>8. ASSUME NEW x \in Remotes \cup Warps, AnswerHistory(x) PROVE Goal
    BY <2>1, <2>8 DEF AnswerHistory
  <2>9. Goal
    BY <2>3, <2>4, <2>5, <2>6, <2>7, <2>8 DEF SyncNext
  <2> QED  BY <2>9 DEF Goal
<1>4. pull' \in [Remotes \cup Warps -> Pulls]
  BY PulledHolds
<1>5. warp' \in [Warps -> WarpStates]
  BY WarpSteps
<1> QED  BY <1>1, <1>2, <1>3, <1>4, <1>5 DEF SyncTypeOK
-----------------------------------------------------------------------------
(* The calls of a session *)

\* No warp of s begins or claims it.
KeepCalls(s) ==
  /\ CallsOf(s)' = CallsOf(s)
  /\ \A m \in CallsOf(s) :
       /\ warp'[m].from = warp[m].from /\ warp'[m].to = warp[m].to
       /\ warp'[m].claimed = warp[m].claimed
       /\ warp[m].pc \in {"send", "steal", "set", "over"} => warp'[m].pc \in {"send", "steal", "set", "over"}

\* Warp m does not come to steal s, and if it comes to send it, it has read all of it.
Waits(m, s) ==
  /\ warp'[m].pc \in {"steal", "set"} => warp[m].pc \in {"steal", "set"}
  /\ warp'[m].pc = "send" =>
       (warp[m].pc = "send" /\ warp'[m].rows = warp[m].rows) \/ warp'[m].rows = log'[Home][s]

Steady(s) == \A m \in CallsOf(s) : Waits(m, s)

LEMMA KeepIs ==
  ASSUME NEW s, KeepCalls(s)
  PROVE  /\ Claims(s)' = Claims(s) /\ Loose(s)' = Loose(s) /\ Contested(s)' = Contested(s)
         /\ \A m \in Claims(s) \cup Loose(s) : m \in CallsOf(s) /\ m \in Warps
         /\ \A w : Sent(s, w) => Sent(s, w)'
<1>1. Claims(s) = {m \in CallsOf(s) : warp[m].claimed} /\ Loose(s) = {m \in CallsOf(s) : warp[m].from = Nowhere}
  BY DEF Claims, Loose, CallsOf
<1>2. Claims(s)' = {m \in CallsOf(s)' : warp'[m].claimed} /\ Loose(s)' = {m \in CallsOf(s)' : warp'[m].from = Nowhere}
  BY DEF Claims, Loose, CallsOf
<1>3. Claims(s)' = Claims(s) /\ Loose(s)' = Loose(s)
  BY <1>1, <1>2 DEF KeepCalls
<1>4. \A w : Sent(s, w) => Sent(s, w)'
  BY <1>1, <1>3 DEF Sent, KeepCalls
<1> QED  BY <1>3, <1>4 DEF Contested, Claims, Loose, CallsOf

LEMMA SetsKeep ==
  ASSUME NEW m \in Warps, NEW p, NEW r, Sets(m, p, r, warp[m].claimed), NEW s, p # "ready",
         warp[m].pc \in {"final", "claim", "move"} \/ p \in {"send", "steal", "set", "over"}
  PROVE  KeepCalls(s)
<1>1. ASSUME NEW n \in Warps
      PROVE  /\ warp'[n].pc # "ready" <=> warp[n].pc # "ready"
             /\ warp'[n].sid = warp[n].sid /\ warp'[n].from = warp[n].from
             /\ warp'[n].to = warp[n].to /\ warp'[n].claimed = warp[n].claimed
             /\ warp[n].pc \in {"send", "steal", "set", "over"} =>
                  warp'[n].pc \in {"send", "steal", "set", "over"}
  <2>1. CASE n = m
    BY <2>1 DEF Sets
  <2>2. CASE n # m
    <3>1. warp'[n] = warp[n]
      BY <2>2 DEF Sets
    <3> QED  BY <3>1
  <2> QED  BY <2>1, <2>2
<1>2. CallsOf(s)' = CallsOf(s)
  BY <1>1 DEF CallsOf
<1> QED  BY <1>1, <1>2 DEF KeepCalls, CallsOf

LEMMA SameKeep ==
  ASSUME \A m \in Warps : warp'[m] = warp[m], NEW s
  PROVE  KeepCalls(s) /\ Steady(s)
BY DEF KeepCalls, Steady, Waits, CallsOf

LEMMA ClaimsIs ==
  ASSUME SyncTypeOK, Warped, NEW s \in Sessions, NEW m \in Claims(s)
  PROVE  /\ m \in Warps /\ m \in CallsOf(s) /\ warp[m].pc # "ready" /\ warp[m].sid = s /\ WarpFits(m)
         /\ warp[m].from \in Places /\ Held(s, Home)
         /\ warp[m].from # Nowhere => warp[m].from \in Remotes /\ Held(s, warp[m].from)
         /\ warp[m].to \in Places /\ (warp[m].to # Nowhere => warp[m].to \in Remotes)
         /\ warp[m].rows \in Seq(Events)
<1>1. m \in Warps /\ m \in CallsOf(s) /\ warp[m].pc # "ready" /\ warp[m].sid = s /\ warp[m].claimed
  BY DEF Claims, CallsOf
<1>2. WarpFits(m)
  BY <1>1 DEF Warped
<1>3. warp[m].from \in Places /\ warp[m].to \in Places /\ warp[m].rows \in Seq(Events)
  BY <1>1, WarpFields
<1> QED  BY <1>1, <1>2, <1>3 DEF WarpFits, Places

LEMMA SendingStays ==
  ASSUME SyncTypeOK, Warped, Grows, NEW s \in Sessions, NEW m \in Claims(s), Sending(s, m),
         KeepCalls(s), Waits(m, s),
         \A e \in Events : In(log'[Home][s], e) /\ e.by # Home =>
           In(log[Home][s], e) \/ In(log'[warp[m].to][s], e)
  PROVE  Sending(s, m)'
<1> DEFINE d == warp[m].to
<1>1. m \in CallsOf(s) /\ warp[m].pc # "ready" /\ WarpFits(m) /\ (d # Nowhere => d \in Nodes)
      /\ warp'[m].to = d
  BY ClaimsIs, SyncFields DEF KeepCalls
<1>2. warp[m].pc \in {"send", "steal", "set"} => \A e : In(log[d][s], e) => In(log'[d][s], e)
  BY <1>1 DEF WarpFits, Grows
<1>3. ASSUME warp'[m].pc = "send", NEW e \in Events, In(log'[Home][s], e), e.by # Home
      PROVE  In(log'[d][s], e) \/ \E k \in DOMAIN warp'[m].rows : warp'[m].rows[k] = e
  <2>1. CASE warp[m].pc = "send" /\ warp'[m].rows = warp[m].rows
    BY <1>2, <1>3, <2>1 DEF Sending
  <2>2. CASE warp'[m].rows = log'[Home][s]
    BY <1>3, <2>2 DEF In
  <2> QED  BY <1>3, <2>1, <2>2 DEF Waits
<1>4. ASSUME warp'[m].pc \in {"steal", "set"}, NEW e \in Events, In(log'[Home][s], e), e.by # Home
      PROVE  In(log'[d][s], e)
  BY <1>1, <1>2, <1>4 DEF Waits, Sending, OthersIn
<1> HIDE DEF d
<1>5. warp'[m].to = d
  BY <1>1
<1> QED  BY <1>3, <1>4, <1>5 DEF Sending, OthersIn

LEMMA IdleStays ==
  ASSUME Grows, NEW s \in Sessions, NEW w \in Nodes, Home \in Nodes, IdleAt(s, w), KeepCalls(s), Steady(s),
         log'[w][s] = log[w][s], Said(s, w)' => Said(s, w)
  PROVE  IdleAt(s, w)'
<1>1. \A e \in Events : In(log'[w][s], e) => e.by # w /\ In(log'[Home][s], e)
  BY DEF IdleAt, Grows
<1>2. \A n \in CallsOf(s)' : warp'[n].pc \in {"steal", "set"} => warp'[n].to # w
  BY DEF IdleAt, KeepCalls, Steady, Waits
<1>3. ~Said(s, w)'
  BY DEF IdleAt
<1> QED  BY <1>1, <1>2, <1>3 DEF IdleAt

\* The first event of a session never changes.
LEMMA OriginStays ==
  ASSUME SyncTypeOK, Grows, OneOrigin', NEW s \in Sessions, NEW k \in Nodes, Held(s, k)
  PROVE  FromHome(s)' <=> FromHome(s)
<1>1. log'[k][s] # <<>> /\ log'[k][s][1] = log[k][s][1]
  BY DEF Grows, Held
<1>2. FromHome(s) => FromHome(s)'
  BY DEF FromHome, Grows, Held
<1>3. ASSUME NEW n \in Nodes, log'[n][s] # <<>>, log'[n][s][1].by = Home PROVE FromHome(s)
  <2>1. log'[n][s][1] = log'[k][s][1]
    BY <1>1, <1>3 DEF OneOrigin, Held
  <2> QED  BY <1>1, <1>3, <2>1 DEF FromHome
<1> QED  BY <1>2, <1>3 DEF FromHome, Held

\* A step that adds nothing of an unclaimed session at home, and sends it to the
\* workspaces its warps go to at most.
LEMMA UnclaimedStays ==
  ASSUME SyncTypeOK, Grows, NEW s \in Sessions, Unclaimed(s), KeepCalls(s),
         log'[Home][s] = log[Home][s], owner'[s] = owner[s], FromHome(s)' <=> FromHome(s),
         \A p \in Places : Said(s, p)' => Said(s, p) \/ (p # Nowhere /\ Loose(s) # {}),
         \A w \in Remotes : Held(s, w)' => Held(s, w) \/ Sent(s, w)'
  PROVE  Unclaimed(s)'
<1>1. /\ Claims(s)' = Claims(s) /\ Loose(s)' = Loose(s) /\ \A w : Sent(s, w) => Sent(s, w)'
  BY KeepIs
<1>2. Home \in Nodes /\ (\A w \in Remotes : w \in Nodes /\ w \in Places) /\ owner[s] \in Owners /\ Nowhere \in Places
  BY SyncFields
<1>3. owner[s] # Nowhere => owner[s] # Project /\ Held(s, owner[s])'
        /\ OthersIn(log'[Home][s], log'[owner[s]][s])
  <2>1. owner[s] # Nowhere /\ owner[s] # Project => owner[s] \in Nodes
    BY <1>2 DEF Owners
  <2> QED  BY <2>1 DEF Unclaimed, OthersIn, Held, Grows
<1>4. \A w \in Remotes : Held(s, w)' => log'[w][s][1].by = w \/ Sent(s, w)'
  BY <1>1, <1>2 DEF Unclaimed, Grows, Held
<1>5. owner[s] = Nowhere => AllByHome(log'[Home][s])
  BY DEF Unclaimed
<1>6. Said(s, Nowhere)' \/ Loose(s) # {} => FromHome(s)'
  BY <1>2 DEF Unclaimed
<1>7. FromHome(s)' /\ ((\E w \in Remotes : Said(s, w)') \/ \E m \in CallsOf(s)' : warp'[m].from # Nowhere) =>
        Loose(s) # {}
  <2>1. (\E m \in CallsOf(s)' : warp'[m].from # Nowhere) => \E m \in CallsOf(s) : warp[m].from # Nowhere
    BY DEF KeepCalls
  <2> QED  BY <1>2, <2>1 DEF Unclaimed
<1> QED  BY <1>1, <1>3, <1>4, <1>5, <1>6, <1>7 DEF Unclaimed

\* What a step does to the source of a session that warp m, from f to d, has claimed.
LEMMA ClaimedFollows ==
  ASSUME SyncTypeOK, Warped, NEW s \in Sessions, NEW m \in Claims(s), Claimed(s, m), KeepCalls(s),
         NEW d, d = warp[m].to, NEW f, f = warp[m].from,
         owner'[s] = owner[s],
         d # Nowhere /\ Said(s, Nowhere)' => Said(s, Nowhere) \/ Loose(s) # {},
         d # Nowhere => \A w \in Remotes : Held(s, w)' => Held(s, w) \/ w \in {d, f},
         d = Nowhere /\ TailIn(log[Home][s], Source(s, f)) => TailIn(log'[Home][s], Source(s, f)'),
         d # Nowhere /\ TailIn(log[Home][s], log[d][s]) => TailIn(log'[Home][s], log'[d][s]),
         d # Nowhere /\ f # Nowhere /\ TailIn(log[Home][s], log[f][s]) /\ IdleAt(s, d) =>
           \/ TailIn(log'[Home][s], log'[f][s]) /\ IdleAt(s, d)'
           \/ TailIn(log'[Home][s], log'[d][s])
  PROVE  Claimed(s, m)'
<1>1. /\ Claims(s)' = Claims(s) /\ Loose(s)' = Loose(s) /\ \A l \in Loose(s) : l \in CallsOf(s)
  BY KeepIs
<1>2. m \in CallsOf(s)
  BY ClaimsIs
<1>3. warp'[m].to = d /\ warp'[m].from = f
  BY <1>2 DEF KeepCalls
<1>4. \A l \in Loose(s) : warp'[l].to = warp[l].to
  BY <1>1 DEF KeepCalls
<1>5. CASE d = Nowhere
  <2>1. owner[s] = Project /\ TailIn(log[Home][s], Source(s, f))
    BY <1>5 DEF Claimed
  <2>2. owner'[s] = Project /\ TailIn(log'[Home][s], Source(s, f)')
    BY <1>5, <2>1
  <2> QED  BY <1>3, <1>5, <2>2 DEF Claimed, Source
<1>6. CASE d # Nowhere
  <2>1. /\ owner[s] = d
        /\ \A w \in Remotes : Held(s, w) => w \in {d, f}
        /\ \A l \in Loose(s) : l = m \/ warp[l].to = f
        /\ Loose(s) = {} => ~Said(s, Nowhere)
        /\ \/ TailIn(log[Home][s], log[d][s])
           \/ f # Nowhere /\ TailIn(log[Home][s], log[f][s]) /\ IdleAt(s, d)
    BY <1>6 DEF Claimed
  <2>2. /\ owner'[s] = d
        /\ \A w \in Remotes : Held(s, w)' => w \in {d, f}
    BY <1>6, <2>1
  <2>3. \A l \in Loose(s)' : l = m \/ warp'[l].to = f
    BY <1>1, <1>4, <2>1
  <2>4. Loose(s)' = {} => ~Said(s, Nowhere)'
    BY <1>1, <1>6, <2>1
  <2>5. \/ TailIn(log'[Home][s], log'[d][s])
        \/ f # Nowhere /\ TailIn(log'[Home][s], log'[f][s]) /\ IdleAt(s, d)'
    BY <1>6, <2>1
  <2> QED  BY <1>3, <1>6, <2>2, <2>3, <2>4, <2>5 DEF Claimed, IdleAt, Said, Says
<1> QED  BY <1>5, <1>6

LEMMA TailKept ==
  ASSUME Grows, NEW s \in Sessions, NEW k \in Nodes, log'[Home][s] = log[Home][s],
         TailIn(log[Home][s], log[k][s])
  PROVE  TailIn(log'[Home][s], log'[k][s])
BY TailGrows DEF Grows

LEMMA SourceKept ==
  ASSUME Grows, NEW s \in Sessions, NEW f, f # Nowhere => f \in Nodes, log'[Home][s] = log[Home][s],
         TailIn(log[Home][s], Source(s, f))
  PROVE  TailIn(log'[Home][s], Source(s, f)')
<1>1. CASE f = Nowhere
  BY <1>1 DEF Source
<1>2. CASE f # Nowhere
  BY <1>2, TailKept DEF Source
<1> QED  BY <1>1, <1>2

\* The ends of a warp that has claimed the session.
LEMMA EndsAre ==
  ASSUME SyncTypeOK, Warped, NEW s \in Sessions, NEW m \in Claims(s)
  PROVE  \E d \in Places : \E f \in Places :
           /\ d = warp[m].to /\ (d # Nowhere => d \in Nodes /\ d \in Remotes)
           /\ f = warp[m].from /\ (f # Nowhere => f \in Nodes /\ f \in Remotes)
BY ClaimsIs, SyncFields

\* Nothing of the session changes but where its warps are.
LEMMA SourcedStays ==
  ASSUME SyncTypeOK, Warped, NEW s \in Sessions, Sourced(s), KeepCalls(s), Steady(s),
         \A n \in Nodes : log'[n][s] = log[n][s], owner'[s] = owner[s], Grows
  PROVE  Sourced(s)'
<1>1. /\ Claims(s)' = Claims(s) /\ Contested(s)' = Contested(s)
  BY KeepIs
<1>2. Home \in Nodes /\ \A w \in Remotes : w \in Nodes
  BY SyncFields
<1>3. \A w \in Remotes : Held(s, w)' => Held(s, w)
  BY <1>2 DEF Held
<1>6. (\A p : Said(s, p)' <=> Said(s, p)) /\ (FromHome(s)' <=> FromHome(s))
  BY DEF Said, Says, FromHome, Held
<1>4. ASSUME Claims(s) = {} PROVE Unclaimed(s)'
  BY <1>2, <1>3, <1>4, <1>6, UnclaimedStays DEF Sourced
<1>5. ASSUME ~Contested(s), NEW m \in Claims(s) PROVE Claimed(s, m)' /\ Sending(s, m)'
  <2>1. Claimed(s, m) /\ Sending(s, m) /\ m \in CallsOf(s)
    BY <1>5, ClaimsIs DEF Sourced
  <2>2. Sending(s, m)'
    BY <1>2, <2>1, SendingStays DEF Steady
  <2>3. PICK d \in Places : d = warp[m].to /\ (d # Nowhere => d \in Nodes /\ d \in Remotes)
    BY EndsAre
  <2>4. PICK f \in Places : f = warp[m].from /\ (f # Nowhere => f \in Nodes /\ f \in Remotes)
    BY EndsAre
  <2>5. d # Nowhere /\ IdleAt(s, d) => IdleAt(s, d)'
    BY <1>2, <1>6, <2>3, IdleStays
  <2>6. /\ TailIn(log[Home][s], Source(s, f)) => TailIn(log'[Home][s], Source(s, f)')
        /\ d # Nowhere /\ TailIn(log[Home][s], log[d][s]) => TailIn(log'[Home][s], log'[d][s])
        /\ d # Nowhere /\ f # Nowhere /\ TailIn(log[Home][s], log[f][s]) /\ IdleAt(s, d) =>
             TailIn(log'[Home][s], log'[f][s]) /\ IdleAt(s, d)'
    BY <1>2, <2>3, <2>4, <2>5, TailKept, SourceKept
  <2>7. Claimed(s, m)'
    BY <1>3, <1>6, <2>1, <2>3, <2>4, <2>6, ClaimedFollows
  <2> QED  BY <2>2, <2>7
<1> QED  BY <1>1, <1>4, <1>5 DEF Sourced
-----------------------------------------------------------------------------
(* Sources, step by step *)

\* The owner of a session no warp has claimed is a workspace that holds it.
LEMMA OwnerIs ==
  ASSUME SyncTypeOK, NEW s \in Sessions, Unclaimed(s), owner[s] # Nowhere
  PROVE  owner[s] \in Remotes /\ owner[s] \in Nodes /\ owner[s] # Home /\ Held(s, owner[s])
         /\ OthersIn(log[Home][s], log[owner[s]][s])
BY SyncFields, SyncAssumption DEF Unclaimed, Owners

LEMMA CreateSourced ==
  ASSUME SyncTypeOK, Warped, NEW s \in Sessions, Sourced(s), NEW n \in Nodes, Create(n, s)
  PROVE  Sourced(s)'
<1>1. At(n) \in Places \cup {"keep"} /\ (\A k \in Nodes : log[k][s] = <<>>) /\ Append1(n, s, At(n))
      /\ place' = place /\ owner' = owner /\ warp' = warp
  BY DEF At, Nodes, Places, Create
<1>2. PICK e \in Events : Adds(n, s, e) /\ e.by = n /\ e.to = At(n)
  BY <1>1, OwnEvent
<1>0. log[n][s] = <<>> /\ n \in Nodes
  BY <1>1
<1>3. /\ \A k \in Nodes : k # n => log'[k][s] = <<>>
      /\ log'[n][s][1] = e
      /\ \A d : In(log'[n][s], d) <=> In(log[n][s], d) \/ d = e
  <2>1. log'[n][s][1] = e
    BY <1>0, <1>2, AddsIs
  <2>2. \A k \in Nodes : k # n => log'[k][s] = log[k][s]
    BY <1>2, AddsIs
  <2>3. /\ log'[n][s] # <<>>
        /\ \A d : In(log'[n][s], d) <=> In(log[n][s], d) \/ d = e
    BY <1>2, AddsIs
  <2> QED  BY <1>1, <2>1, <2>2, <2>3
<1>4. Home \in Nodes /\ (\A w \in Remotes : w \in Nodes) /\ owner[s] \in Owners
  BY SyncFields
<1>5. CallsOf(s) = {}
  BY <1>1, <1>4 DEF CallsOf, Warped, WarpFits, Held
<1>6. Claims(s) = {} /\ Claims(s)' = {} /\ Loose(s)' = {} /\ CallsOf(s)' = {}
  BY <1>1, <1>5 DEF Claims, Loose, CallsOf
<1>7. owner[s] = Nowhere
  BY <1>1, <1>4, <1>6, OwnerIs DEF Sourced, Held
<1>8. \A d : ~In(<<>>, d)
  <2>1. DOMAIN <<>> = {}
    OBVIOUS
  <2> QED  BY <2>1 DEF In
<1>9. AllByHome(log'[Home][s])
  <2>1. CASE n = Home
    BY <1>1, <1>2, <1>3, <1>8, <2>1 DEF AllByHome
  <2>2. CASE n # Home
    BY <1>3, <1>4, <1>8, <2>2 DEF AllByHome
  <2> QED  BY <2>1, <2>2
<1>10. \A w \in Remotes : Held(s, w)' => log'[w][s][1].by = w
  BY <1>2, <1>3, <1>4 DEF Held
<1>11. FromHome(s)' <=> n = Home
  <2>1. log'[n][s] # <<>>
    BY <1>2, AddsIs
  <2> QED  BY <1>2, <1>3, <2>1 DEF FromHome, Held
<1>12. \A p : Said(s, p)' => p = At(n)
  BY <1>1, <1>2, <1>3, <1>8 DEF Said, Says
<1>13. Unclaimed(s)'
  <2>1. Said(s, Nowhere)' => FromHome(s)'
    BY <1>11, <1>12, SyncAssumption DEF At, Nodes
  <2>2. FromHome(s)' => \A w \in Remotes : ~Said(s, w)'
    BY <1>11, <1>12, SyncAssumption DEF At
  <2> QED  BY <1>1, <1>6, <1>7, <1>9, <1>10, <2>1, <2>2 DEF Unclaimed
<1> QED  BY <1>6, <1>13 DEF Sourced

\* A workspace that goes on with a session it holds is not idle.
LEMMA OwnSourced ==
  ASSUME SyncTypeOK, Warped, Grows, OneOrigin', NEW s \in Sessions, Sourced(s), NEW w \in Remotes, NEW e,
         Adds(w, s, e), Held(s, w), ~IdleAt(s, w), KeepCalls(s), Steady(s), owner' = owner,
         \A p \in Places : Said(s, p)' => Said(s, p) \/ (p = w /\ (Claims(s) = {} => Loose(s) # {}))
  PROVE  Sourced(s)'
<1>1. /\ Claims(s)' = Claims(s) /\ Loose(s)' = Loose(s) /\ Contested(s)' = Contested(s)
      /\ \A m \in Claims(s) \cup Loose(s) : m \in CallsOf(s) /\ m \in Warps
  BY KeepIs
<1>2. Home \in Nodes /\ (\A k \in Remotes : k \in Nodes /\ k # Home) /\ owner[s] \in Owners
      /\ w # Nowhere /\ Nowhere \in Places
  BY SyncFields, SyncAssumption
<1>3. /\ \A k \in Nodes : k # w => log'[k][s] = log[k][s]
      /\ \A k \in Nodes : Held(s, k)' <=> Held(s, k)
      /\ \A k \in Nodes : Held(s, k) => log'[k][s][1] = log[k][s][1]
      /\ \A k \in Nodes : \A d : In(log[k][s], d) => In(log'[k][s], d)
      /\ log'[Home][s] = log[Home][s]
  <2>1. /\ \A k \in Nodes : k # w => log'[k][s] = log[k][s]
        /\ log'[w][s] # <<>>
    BY <1>2, AddsIs
  <2>2. \A k \in Nodes : Held(s, k)' <=> Held(s, k)
    BY <2>1 DEF Held
  <2> QED  BY <1>2, <2>1, <2>2 DEF Grows, Held
<1>6. FromHome(s)' <=> FromHome(s)
  BY <1>2, OriginStays
<1>4. ASSUME Claims(s) = {} PROVE Unclaimed(s)'
  BY <1>2, <1>3, <1>4, <1>6, UnclaimedStays DEF Sourced
<1>5. ASSUME ~Contested(s), NEW m \in Claims(s) PROVE Claimed(s, m)' /\ Sending(s, m)'
  <2>1. Claimed(s, m) /\ Sending(s, m) /\ m \in CallsOf(s)
    BY <1>5, ClaimsIs DEF Sourced
  <2>2. Sending(s, m)'
    BY <1>2, <1>3, <2>1, SendingStays DEF Steady
  <2>3. PICK d \in Places : d = warp[m].to /\ (d # Nowhere => d \in Nodes /\ d \in Remotes)
    BY EndsAre
  <2>4. PICK f \in Places : f = warp[m].from /\ (f # Nowhere => f \in Nodes /\ f \in Remotes)
    BY EndsAre
  <2>5. d # Nowhere /\ IdleAt(s, d) => IdleAt(s, d)'
    <3>1. IdleAt(s, d) => d # w /\ (Said(s, d)' => Said(s, d))
      OBVIOUS
    <3> QED  BY <1>2, <1>3, <2>3, <3>1, IdleStays
  <2>6. /\ TailIn(log[Home][s], Source(s, f)) => TailIn(log'[Home][s], Source(s, f)')
        /\ d # Nowhere /\ TailIn(log[Home][s], log[d][s]) => TailIn(log'[Home][s], log'[d][s])
        /\ d # Nowhere /\ f # Nowhere /\ TailIn(log[Home][s], log[f][s]) /\ IdleAt(s, d) =>
             TailIn(log'[Home][s], log'[f][s]) /\ IdleAt(s, d)'
    BY <1>3, <2>3, <2>4, <2>5, TailKept, SourceKept
  <2>7. Claimed(s, m)'
    BY <1>2, <1>3, <2>1, <2>3, <2>4, <2>6, ClaimedFollows
  <2> QED  BY <2>2, <2>7
<1> QED  BY <1>1, <1>4, <1>5 DEF Sourced
\* A warp sends a row: when the last one has arrived, nothing of home's that
\* others published is missing in the new workspace.
LEMMA SendSourced ==
  ASSUME SyncTypeOK, Numbered, Warped, Grows, OneOrigin', NEW m \in Warps, SendRow(m),
         NEW s \in Sessions, s = warp[m].sid, Sourced(s)
  PROVE  Sourced(s)'
<1>1. Home \in Nodes /\ \A k \in Remotes : k \in Nodes /\ k # Home
  BY SyncFields
<1>2. /\ warp[m].pc = "send" /\ warp[m].to \in Remotes /\ warp[m].rows \in Seq(Events)
      /\ place' = place /\ owner' = owner /\ m \in CallsOf(s) /\ WarpFits(m)
      /\ warp[m].claimed \/ warp[m].from = Nowhere
  BY SendIs DEF CallsOf, Warped, WarpFits
<1>3. PICK w \in Remotes : w = warp[m].to
  BY <1>2
<1>4. CASE Sets(m, "over", <<>>, warp[m].claimed) /\ log' = log
  <2>1. KeepCalls(s)
    BY <1>4, SetsKeep
  <2>2. Steady(s)
    BY <1>4 DEF Steady, Waits, Sets, CallsOf
  <2> QED  BY <1>2, <1>4, <2>1, <2>2, SourcedStays
<1>5. ASSUME NEW e \in Events, In(log[Home][s], e), e = warp[m].rows[1],
             (In(log[w][s], e) /\ log' = log) \/ Adds(w, s, e),
             Len(warp[m].rows) = 1 => Sets(m, "steal", Tail(warp[m].rows), warp[m].claimed),
             Len(warp[m].rows) # 1 => Sets(m, "send", Tail(warp[m].rows), warp[m].claimed)
      PROVE  Sourced(s)'
  <2>1. KeepCalls(s)
    BY <1>5, SetsKeep
  <2>2. ASSUME NEW n \in CallsOf(s), n # m PROVE warp'[n] = warp[n] /\ Waits(n, s)
    <3>1. warp'[n] = warp[n]
      BY <1>5, <2>2 DEF Sets, CallsOf
    <3> QED  BY <3>1 DEF Waits
  <2>3. /\ \A k \in Nodes : k # w => log'[k][s] = log[k][s]
        /\ \A d : In(log'[w][s], d) <=> In(log[w][s], d) \/ d = e
    <3>1. CASE In(log[w][s], e) /\ log' = log
      BY <3>1
    <3>2. CASE Adds(w, s, e)
      <4>1. \A k \in Nodes : k # w => log'[k][s] = log[k][s]
        BY <1>1, <3>2, AddsIs
      <4>0. w \in Nodes
        BY <1>1
      <4>2. \A d : In(log'[w][s], d) <=> In(log[w][s], d) \/ d = e
        BY <3>2, <4>0, AddsIn
      <4> QED  BY <4>1, <4>2
    <3> QED  BY <1>5, <3>1, <3>2
  <2>4. log'[Home][s] = log[Home][s] /\ w \in Nodes /\ e.sid = s
    BY <1>1, <1>5, <2>3 DEF Numbered
  <2>5. \A k \in Remotes : Held(s, k)' => Held(s, k) \/ k = w
    BY <1>1, <2>3 DEF Held
  <2>6. /\ Claims(s)' = Claims(s) /\ Contested(s)' = Contested(s)
    BY <2>1, KeepIs
  <2>9. \A p : Said(s, p)' => Said(s, p)
    <3>1. \A k \in Nodes : \A d : In(log'[k][s], d) => In(log[k][s], d) \/ (d = e /\ In(log[Home][s], d))
      BY <1>5, <2>3
    <3> QED  BY <1>1, <3>1 DEF Said, Says
  <2>7. ASSUME Claims(s) = {} PROVE Unclaimed(s)'
    <3>1. m \in Loose(s) /\ Unclaimed(s)
      BY <1>2, <2>7 DEF Claims, Loose, CallsOf, Sourced
    <3>2. FromHome(s)' <=> FromHome(s)
      BY <1>1, <1>2, OriginStays DEF WarpFits
    <3>3. Sent(s, w)'
      <4>1. warp'[m].to = w /\ warp'[m].pc \in {"send", "steal"} /\ m \in Loose(s)'
        BY <1>3, <1>5, <2>1, <3>1, KeepIs DEF Sets
      <4> QED  BY <4>1 DEF Sent
    <3> QED  BY <1>2, <2>1, <2>4, <2>5, <2>9, <3>1, <3>2, <3>3, UnclaimedStays
  <2>8. ASSUME ~Contested(s), NEW c \in Claims(s) PROVE Claimed(s, c)' /\ Sending(s, c)'
    <3>1. Claimed(s, c) /\ Sending(s, c) /\ c \in CallsOf(s) /\ c \in Warps
      BY <2>8, ClaimsIs DEF Sourced
    <3>2. PICK d \in Places : d = warp[c].to /\ (d # Nowhere => d \in Nodes /\ d \in Remotes)
      BY <2>8, EndsAre
    <3>3. PICK f \in Places : f = warp[c].from /\ (f # Nowhere => f \in Nodes /\ f \in Remotes)
      BY <2>8, EndsAre
    <3>4. m # c => m \in Loose(s)
      BY <1>2, <2>8 DEF Claims, Loose, CallsOf, Contested
    <3>14. m # c /\ d # Nowhere => w = f
      BY <1>3, <3>1, <3>2, <3>3, <3>4 DEF Claimed
    <3>6. m = c => w = d
      BY <1>3, <3>2
    <3>5. d # Nowhere => w \in {d, f}
      BY <3>6, <3>14
    <3>7. m = c /\ Len(warp[m].rows) = 1 => OthersIn(log'[Home][s], log'[d][s])
      BY <1>2, <1>5, <2>3, <2>4, <3>1, <3>2, <3>6 DEF Sending, OthersIn
    <3>8. m = c /\ Len(warp[m].rows) # 1 =>
            \A b \in Events : In(log'[Home][s], b) /\ b.by # Home =>
              In(log'[d][s], b) \/ \E k \in DOMAIN Tail(warp[m].rows) : Tail(warp[m].rows)[k] = b
      <4> SUFFICES ASSUME m = c, Len(warp[m].rows) # 1, NEW b \in Events, In(log'[Home][s], b), b.by # Home,
                          ~In(log[d][s], b), b # e
                   PROVE  \E k \in DOMAIN Tail(warp[m].rows) : Tail(warp[m].rows)[k] = b
        BY <2>3, <3>6
      <4>1. PICK k \in DOMAIN warp[m].rows : warp[m].rows[k] = b
        BY <1>2, <2>4, <3>1, <3>2 DEF Sending
      <4>2. warp[m].rows # <<>> /\ k # 1
        BY <1>2, <1>5, <4>1 DEF WarpFits, LeftToSend
      <4>3. k - 1 \in DOMAIN Tail(warp[m].rows) /\ Tail(warp[m].rows)[k - 1] = b
        <5> DEFINE rows == warp[m].rows
        <5>1. rows \in Seq(Events) /\ rows # <<>> /\ k \in DOMAIN rows /\ k # 1 /\ rows[k] = b
          BY <1>2, <4>1, <4>2
        <5> HIDE DEF rows
        <5>2. k - 1 \in DOMAIN Tail(rows) /\ Tail(rows)[k - 1] = b
          BY <5>1
        <5> QED  BY <5>2 DEF rows
      <4> QED  BY <4>3
    <3>9. Sending(s, c)'
      <4>1. CASE c # m
        BY <2>1, <2>2, <2>4, <2>8, <3>1, <4>1, SendingStays
      <4>2. CASE c = m /\ Len(warp[m].rows) = 1
        <5>1. warp'[c].pc = "steal" /\ warp'[c].to = d
          BY <1>5, <3>2, <4>2 DEF Sets
        <5> QED  BY <3>7, <4>2, <5>1 DEF Sending, OthersIn
      <4>3. CASE c = m /\ Len(warp[m].rows) # 1
        <5>1. warp'[c].pc = "send" /\ warp'[c].to = d /\ warp'[c].rows = Tail(warp[m].rows)
          BY <1>5, <3>2, <4>3 DEF Sets
        <5> QED  BY <3>8, <4>3, <5>1 DEF Sending
      <4> QED  BY <4>1, <4>2, <4>3
    <3>10. d # Nowhere /\ f # Nowhere /\ IdleAt(s, d) /\ TailIn(log[Home][s], log[f][s]) =>
             IdleAt(s, d)' \/ TailIn(log'[Home][s], log'[d][s])
      <4> SUFFICES ASSUME d # Nowhere, f # Nowhere, IdleAt(s, d), TailIn(log[Home][s], log[f][s])
                   PROVE  IdleAt(s, d)' \/ TailIn(log'[Home][s], log'[d][s])
        OBVIOUS
      <4>1. CASE m = c /\ Len(warp[m].rows) = 1
        <5>1. log'[Home][s] \in Seq(Events) /\ \A i \in DOMAIN log'[Home][s] : log'[Home][s][i].seq = i
          BY <1>1, <2>4, SyncFields DEF Numbered
        <5> QED  BY <3>7, <4>1, <5>1, OthersTail
      <4>2. CASE m = c /\ Len(warp[m].rows) # 1
        <5>1. \A b \in Events : In(log'[d][s], b) => b.by # d /\ In(log'[Home][s], b)
          <6>1. e.by = d => In(log[d][s], e)
            BY <1>1, <1>5 DEF Numbered
          <6>2. e.by # d
            BY <1>5, <6>1 DEF IdleAt
          <6> QED  BY <1>5, <2>3, <2>4, <3>6, <4>2, <6>2 DEF IdleAt
        <5>2. ~Said(s, d)'
          BY <2>9 DEF IdleAt
        <5>3. \A n \in CallsOf(s)' : warp'[n].pc \in {"steal", "set"} => warp'[n].to # d
          <6>1. warp'[m].pc = "send" /\ CallsOf(s)' = CallsOf(s)
            BY <1>5, <2>1, <4>2 DEF Sets, KeepCalls
          <6> QED  BY <2>2, <6>1 DEF IdleAt
        <5> QED  BY <5>1, <5>2, <5>3 DEF IdleAt
      <4>3. CASE m # c /\ w = d
        <5>1. w = f
          BY <3>14, <4>3
        <5> QED  BY <2>4, <4>3, <5>1, TailKept
      <4>4. CASE m # c /\ w # d
        <5>1. log'[d][s] = log[d][s]
          BY <2>3, <3>2, <4>4
        <5>2. \A n \in CallsOf(s)' : warp'[n].pc \in {"steal", "set"} => warp'[n].to # d
          <6>1. warp'[m].to = w /\ CallsOf(s)' = CallsOf(s)
            BY <1>3, <1>5, <2>1, SetsKeep DEF Sets, KeepCalls
          <6> QED  BY <2>2, <4>4, <6>1 DEF IdleAt
        <5>3. ~Said(s, d)'
          BY <2>9 DEF IdleAt
        <5> QED  BY <2>4, <5>1, <5>2, <5>3 DEF IdleAt
      <4> QED  BY <4>1, <4>2, <4>3, <4>4
    <3>11. /\ TailIn(log[Home][s], Source(s, f)) => TailIn(log'[Home][s], Source(s, f)')
           /\ d # Nowhere /\ TailIn(log[Home][s], log[d][s]) => TailIn(log'[Home][s], log'[d][s])
           /\ d # Nowhere /\ f # Nowhere /\ TailIn(log[Home][s], log[f][s]) /\ IdleAt(s, d) =>
                \/ TailIn(log'[Home][s], log'[f][s]) /\ IdleAt(s, d)'
                \/ TailIn(log'[Home][s], log'[d][s])
      BY <2>4, <3>2, <3>3, <3>10, TailKept, SourceKept
    <3>12. \A k \in Remotes : d # Nowhere /\ Held(s, k)' => Held(s, k) \/ k \in {d, f}
      BY <2>5, <3>5
    <3>13. Claimed(s, c)'
      BY <1>2, <2>1, <2>8, <2>9, <3>1, <3>2, <3>3, <3>11, <3>12, ClaimedFollows
    <3> QED  BY <3>9, <3>13
  <2> QED  BY <2>6, <2>7, <2>8 DEF Sourced
<1> QED  BY <1>2, <1>3, <1>4, <1>5, SendIs
\* What home publishes itself ends the tail of what it has received.
LEMMA HomeSourced ==
  ASSUME SyncTypeOK, Warped, Grows, OneOrigin', NEW s \in Sessions, Sourced(s), Held(s, Home),
         NEW e, Adds(Home, s, e), e.by = Home, KeepCalls(s), Steady(s), owner' = owner,
         \A p \in Places : Said(s, p)' =>
           Said(s, p) \/ Loose(s) # {} \/ \E c \in Claims(s) : warp[c].to = p
  PROVE  Sourced(s)'
<1>1. /\ Claims(s)' = Claims(s) /\ Loose(s)' = Loose(s) /\ Contested(s)' = Contested(s)
      /\ \A k : Sent(s, k) => Sent(s, k)'
  BY KeepIs
<1>2. Home \in Nodes /\ (\A k \in Remotes : k \in Nodes /\ k # Home)
      /\ Nowhere \in Places /\ (\A k \in Remotes : k \in Places) /\ owner[s] \in Owners /\ log[Home][s] \in Seq(Events) /\ e \in Events
  BY SyncFields DEF Adds
<1>3. \A k \in Nodes : k # Home => log'[k][s] = log[k][s]
  BY <1>2, AddsIs
<1>4. \A d : In(log'[Home][s], d) <=> In(log[Home][s], d) \/ d = e
  BY <1>2, AddsIn
<1>5. log'[Home][s] = Append(log[Home][s], e) /\ (FromHome(s)' <=> FromHome(s))
  BY <1>2, AddsIs, OriginStays
<1>6. \A k \in Remotes : Held(s, k)' <=> Held(s, k)
  BY <1>2, <1>3 DEF Held
<1>7. \A q : TailIn(log'[Home][s], q)
  BY <1>2, <1>5, TailOwn
<1>9. ASSUME Claims(s) = {} PROVE Unclaimed(s)'
  <2>1. Unclaimed(s)
    BY <1>9 DEF Sourced
  <2>2. owner[s] = Nowhere => AllByHome(log'[Home][s])
    BY <1>4, <2>1 DEF Unclaimed, AllByHome
  <2>3. owner[s] # Nowhere => owner[s] # Project /\ Held(s, owner[s])' /\ OthersIn(log'[Home][s], log'[owner[s]][s])
    <3>1. owner[s] # Nowhere => owner[s] \in Remotes /\ OthersIn(log[Home][s], log[owner[s]][s]) /\ Held(s, owner[s])
                                  /\ owner[s] # Project
      BY <2>1, OwnerIs DEF Unclaimed
    <3> QED  BY <1>2, <1>3, <1>4, <1>6, <3>1 DEF OthersIn, Held
  <2>4. \A w \in Remotes : Held(s, w)' => log'[w][s][1].by = w \/ Sent(s, w)'
    BY <1>1, <1>2, <1>3, <1>6, <2>1 DEF Unclaimed
  <2>5. Said(s, Nowhere)' \/ Loose(s) # {} => FromHome(s)'
    BY <1>2, <1>5, <1>9, <2>1 DEF Unclaimed
  <2>6. FromHome(s)' /\ ((\E w \in Remotes : Said(s, w)') \/ \E m \in CallsOf(s)' : warp'[m].from # Nowhere) =>
          Loose(s) # {}
    <3>1. (\E m \in CallsOf(s)' : warp'[m].from # Nowhere) => \E m \in CallsOf(s) : warp[m].from # Nowhere
      BY DEF KeepCalls
    <3> QED  BY <1>2, <1>5, <1>9, <2>1, <3>1 DEF Unclaimed
  <2> QED  BY <1>1, <2>2, <2>3, <2>4, <2>5, <2>6 DEF Unclaimed
<1>10. ASSUME ~Contested(s), NEW c \in Claims(s) PROVE Claimed(s, c)' /\ Sending(s, c)'
  <2>1. Claimed(s, c) /\ Sending(s, c) /\ c \in CallsOf(s)
    BY <1>10, ClaimsIs DEF Sourced
  <2>2. Sending(s, c)'
    BY <1>4, <2>1, SendingStays DEF Steady
  <2>3. PICK d \in Places : d = warp[c].to /\ (d # Nowhere => d \in Nodes /\ d \in Remotes)
    BY <1>10, EndsAre
  <2>4. PICK f \in Places : f = warp[c].from /\ (f # Nowhere => f \in Nodes /\ f \in Remotes)
    BY <1>10, EndsAre
  <2>5. d # Nowhere /\ Said(s, Nowhere)' => Said(s, Nowhere) \/ Loose(s) # {}
    <3>1. \A l \in Claims(s) : l = c
      BY <1>10 DEF Contested
    <3> QED  BY <1>2, <2>3, <3>1
  <2>6. Claimed(s, c)'
    BY <1>6, <1>7, <2>1, <2>3, <2>4, <2>5, ClaimedFollows
  <2> QED  BY <2>2, <2>6
<1> QED  BY <1>1, <1>9, <1>10 DEF Sourced

\* A warp begins.
LEMMA StartSourced ==
  ASSUME SyncTypeOK, Placed, NEW m \in Warps, NEW s \in Sessions, NEW to \in Places,
         WarpStart(m, s, to), Sourced(s)
  PROVE  Sourced(s)'
<1>1. /\ \A n \in Warps : n # m => warp'[n] = warp[n]
      /\ warp[m].pc = "ready" /\ warp'[m].pc \notin {"ready", "send", "steal", "set"}
      /\ warp'[m].sid = s /\ warp'[m].from = place[s] /\ warp'[m].to = to /\ warp'[m].claimed = FALSE
      /\ Held(s, Home) /\ log' = log /\ owner' = owner
  BY StartIs DEF Held
<1>2. CallsOf(s)' = CallsOf(s) \cup {m} /\ m \notin CallsOf(s)
  BY <1>1 DEF CallsOf
<1>3. Claims(s)' = Claims(s)
  BY <1>1 DEF Claims
<1>4. Loose(s)' = (IF place[s] = Nowhere THEN Loose(s) \cup {m} ELSE Loose(s)) /\ m \notin Loose(s)
  BY <1>1 DEF Loose
<1>5. Contested(s) => Contested(s)'
  BY <1>3, <1>4 DEF Contested
<1>6. \A n \in CallsOf(s) \cup Claims(s) \cup Loose(s) : n \in Warps /\ warp'[n] = warp[n]
  BY <1>1 DEF CallsOf, Claims, Loose
<1>9. Said(s, place[s]) /\ place[s] \in Places /\ (\A p : Said(s, p)' <=> Said(s, p)) /\ (FromHome(s)' <=> FromHome(s))
  <2>1. Says(Home, s, place[s])
    BY <1>1 DEF Placed
  <2> QED  BY <1>1, <2>1, SyncFields DEF Said, Says, FromHome, Held
<1>7. ASSUME Claims(s) = {} PROVE Unclaimed(s)'
  <2>1. Unclaimed(s)
    BY <1>7 DEF Sourced
  <2>2. \A w : Sent(s, w) => Sent(s, w)'
    BY <1>4, <1>6 DEF Sent
  <2>3. \A w \in Remotes : Held(s, w)' => log'[w][s][1].by = w \/ Sent(s, w)'
    BY <1>1, <2>1, <2>2 DEF Unclaimed, Held
  <2>4. Said(s, Nowhere)' \/ Loose(s)' # {} => FromHome(s)'
    BY <1>4, <1>9, <2>1 DEF Unclaimed
  <2>5. FromHome(s)' /\ ((\E w \in Remotes : Said(s, w)') \/ \E n \in CallsOf(s)' : warp'[n].from # Nowhere) =>
          Loose(s)' # {}
    <3>1. CASE place[s] = Nowhere
      BY <1>4, <3>1
    <3>2. CASE place[s] # Nowhere
      <4>1. place[s] \in Remotes
        BY <1>9, <3>2 DEF Places
      <4>2. FromHome(s) => Loose(s) # {} \/ ~Said(s, place[s])
        BY <2>1, <4>1 DEF Unclaimed
      <4> QED  BY <1>4, <1>9, <3>2, <4>2
    <3> QED  BY <3>1, <3>2
  <2> QED  BY <1>1, <2>1, <2>3, <2>4, <2>5 DEF Unclaimed, Held
<1>8. ASSUME ~Contested(s)', NEW c \in Claims(s) PROVE Claimed(s, c)' /\ Sending(s, c)'
  <2>1. Claimed(s, c) /\ Sending(s, c) /\ warp'[c] = warp[c]
    BY <1>5, <1>6, <1>8 DEF Sourced
  <2>2. Sending(s, c)'
    BY <1>1, <2>1 DEF Sending
  <2>3. \A d : IdleAt(s, d) => IdleAt(s, d)'
    BY <1>1, <1>2, <1>6, <1>9 DEF IdleAt
  <2>4. PICK d, f : d = warp[c].to /\ f = warp[c].from
    OBVIOUS
  <2>5. warp'[c].to = d /\ warp'[c].from = f
    BY <2>1, <2>4
  <2>6. CASE d = Nowhere
    <3>1. owner[s] = Project /\ TailIn(log[Home][s], Source(s, f))
      BY <2>1, <2>4, <2>6 DEF Claimed
    <3> QED  BY <1>1, <2>2, <2>5, <2>6, <3>1 DEF Claimed, Source
  <2>7. CASE d # Nowhere
    <3>1. /\ owner[s] = d
          /\ \A w \in Remotes : Held(s, w) => w \in {d, f}
          /\ \A l \in Loose(s) : l = c \/ warp[l].to = f
          /\ Loose(s) = {} => ~Said(s, Nowhere)
          /\ \/ TailIn(log[Home][s], log[d][s])
             \/ f # Nowhere /\ TailIn(log[Home][s], log[f][s]) /\ IdleAt(s, d)
      BY <2>1, <2>4, <2>7 DEF Claimed
    <3>2. Loose(s)' = Loose(s)
      <4>1. ASSUME place[s] = Nowhere PROVE FALSE
        <5>1. PICK l \in Loose(s) : l # m
          BY <1>4, <1>9, <3>1, <4>1
        <5>2. l \in Loose(s)' /\ m \in Loose(s)'
          BY <1>4, <4>1
        <5> QED  BY <1>3, <1>8, <5>1, <5>2 DEF Contested
      <4> QED  BY <1>4, <4>1
    <3>3. \A l \in Loose(s)' : l = c \/ warp'[l].to = f
      BY <1>6, <3>1, <3>2
    <3>4. \A w \in Remotes : Held(s, w)' => w \in {d, f}
      BY <1>1, <3>1 DEF Held
    <3>5. \/ TailIn(log'[Home][s], log'[d][s])
          \/ f # Nowhere /\ TailIn(log'[Home][s], log'[f][s]) /\ IdleAt(s, d)'
      BY <1>1, <2>3, <3>1
    <3>6. owner'[s] = d /\ (Loose(s)' = {} => ~Said(s, Nowhere)')
      BY <1>1, <1>9, <3>1, <3>2
    <3>7. Claimed(s, c)'
      BY <2>5, <2>7, <3>3, <3>4, <3>5, <3>6 DEF Claimed, IdleAt, Said, Says
    <3> QED  BY <2>2, <3>7
  <2> QED  BY <2>6, <2>7
<1> QED  BY <1>3, <1>7, <1>8 DEF Sourced
\* What home receives: the owner's alone, and nothing once the project owns it.
LEMMA ReplaySourced ==
  ASSUME SyncTypeOK, Numbered, Warped, Grows, OneOrigin', NEW w, NEW e, Replays(w, e), warp' = warp,
         NEW s \in Sessions, s = e.sid, Sourced(s)
  PROVE  Sourced(s)'
<1>1. /\ w \in Remotes /\ e \in Events /\ In(log[w][s], e) /\ Held(s, w)
      /\ owner'[s] = IF owner[s] = Nowhere THEN w ELSE owner[s]
      /\ \/ Adds(Home, s, e) /\ owner[s] \in {Nowhere, w} /\ e.by # Home
         \/ log' = log
  BY ReplaysIs
<1>2. KeepCalls(s) /\ Steady(s)
  BY SameKeep
<1>3. Claims(s)' = Claims(s) /\ Loose(s)' = Loose(s) /\ Contested(s)' = Contested(s) /\ CallsOf(s)' = CallsOf(s)
  BY <1>2, KeepIs DEF KeepCalls
<1>4. Home \in Nodes /\ (\A k \in Remotes : k \in Nodes /\ k # Home) /\ owner[s] \in Owners /\ log[Home][s] \in Seq(Events)
  BY SyncFields
<1>5. w # Project /\ w # Nowhere
  BY <1>1, SyncAssumption
<1>6. ASSUME ~Contested(s), NEW c \in Claims(s) PROVE owner[s] # Nowhere /\ (owner[s] = w => warp[c].to = w)
  BY <1>5, <1>6, SyncAssumption DEF Sourced, Claimed
<1>7. CASE log' = log /\ owner[s] # Nowhere
  BY <1>1, <1>2, <1>7, SourcedStays
<1>8. CASE log' = log /\ owner[s] = Nowhere
  <2>1. CASE Claims(s) = {}
    <3>1. Unclaimed(s)
      BY <2>1 DEF Sourced
    <3>2. OthersIn(log[Home][s], log[w][s])
      BY <1>8, <3>1 DEF Unclaimed, AllByHome, OthersIn
    <3>3. owner'[s] = w /\ warp' = warp
      BY <1>1, <1>8
    <3>4. Unclaimed(s)'
      BY <1>1, <1>3, <1>5, <1>8, <3>1, <3>2, <3>3 DEF Unclaimed, Held, Said, Says, FromHome, Sent
    <3> QED  BY <1>3, <2>1, <3>4 DEF Sourced
  <2>2. CASE Claims(s) # {}
    BY <1>3, <1>6, <1>8, <2>2 DEF Sourced
  <2> QED  BY <2>1, <2>2
<1>9. ASSUME Adds(Home, s, e), owner[s] \in {Nowhere, w}, e.by # Home
      PROVE  Sourced(s)'
  <2>1. \A k \in Nodes : k # Home => log'[k][s] = log[k][s]
    BY <1>4, <1>9, AddsIs
  <2>2. \A d : In(log'[Home][s], d) <=> In(log[Home][s], d) \/ d = e
    <3>1. Adds(Home, s, e) /\ Home \in Nodes
      BY <1>4, <1>9
    <3>2. ASSUME NEW d PROVE In(log'[Home][s], d) <=> In(log[Home][s], d) \/ d = e
      BY <3>1, AddsIn
    <3> QED  BY <3>2
  <2>3. ~In(log[Home][s], e) /\ log'[Home][s] = Append(log[Home][s], e)
    BY <1>4, <1>9, AddsIs
  <2>7. (\A p : Said(s, p)' => Said(s, p)) /\ (FromHome(s)' <=> FromHome(s))
    <3>1. \A k \in Nodes : \A d : In(log'[k][s], d) => In(log[k][s], d) \/ (d = e /\ In(log[w][s], d))
      BY <1>1, <2>1, <2>2
    <3>2. \A p : Said(s, p)' => Said(s, p)
      BY <1>1, <1>4, <3>1 DEF Said, Says
    <3>3. FromHome(s)' <=> FromHome(s)
      BY <1>1, <1>4, OriginStays
    <3> QED  BY <3>2, <3>3
  <2>4. \A k \in Remotes : Held(s, k)' <=> Held(s, k)
    BY <1>4, <2>1 DEF Held
  <2>5. ASSUME Claims(s) = {} PROVE Unclaimed(s)'
    <3>1. Unclaimed(s)
      BY <2>5 DEF Sourced
    <3>2. owner'[s] = w
      BY <1>1, <1>9
    <3>3. OthersIn(log'[Home][s], log'[w][s])
      <4>1. CASE owner[s] = Nowhere
        BY <1>1, <1>4, <2>1, <2>2, <3>1, <4>1 DEF Unclaimed, AllByHome, OthersIn
      <4>2. CASE owner[s] = w
        BY <1>1, <1>4, <1>5, <2>1, <2>2, <3>1, <4>2 DEF Unclaimed, OthersIn
      <4> QED  BY <1>9, <4>1, <4>2
    <3>4. \A k \in Remotes : Held(s, k)' => log'[k][s][1].by = k \/ Sent(s, k)'
      BY <1>2, <1>4, <2>1, <2>4, <3>1, KeepIs DEF Unclaimed
    <3>5. Said(s, Nowhere)' \/ Loose(s) # {} => FromHome(s)'
      BY <2>7, <3>1 DEF Unclaimed
    <3>6. FromHome(s)' /\ ((\E k \in Remotes : Said(s, k)') \/ \E m \in CallsOf(s) : warp'[m].from # Nowhere) =>
            Loose(s) # {}
      BY <2>7, <3>1 DEF Unclaimed
    <3> QED  BY <1>1, <1>3, <1>5, <2>4, <3>2, <3>3, <3>4, <3>5, <3>6 DEF Unclaimed
  <2>6. ASSUME ~Contested(s), NEW c \in Claims(s) PROVE Claimed(s, c)' /\ Sending(s, c)'
    <3>1. Claimed(s, c) /\ Sending(s, c) /\ c \in CallsOf(s)
      BY <2>6, ClaimsIs DEF Sourced
    <3>2. warp[c].to = w /\ owner[s] = w
      BY <1>6, <1>9, <2>6
    <3>3. PICK f \in Places : f = warp[c].from
      BY <2>6, ClaimsIs
    <3>4. owner'[s] = owner[s]
      BY <1>1, <1>5, <3>2
    <3>5. TailIn(log[Home][s], log[w][s]) => TailIn(log'[Home][s], log'[w][s])
      BY <1>1, <1>4, <2>1, <2>3, TailTaken
    <3>6. ~IdleAt(s, w)
      BY <1>1, <2>3 DEF IdleAt
    <3>7. Claimed(s, c)'
      BY <1>2, <1>5, <2>4, <2>6, <2>7, <3>1, <3>2, <3>3, <3>4, <3>5, <3>6, ClaimedFollows
    <3>8. \A b \in Events : In(log'[Home][s], b) /\ b.by # Home =>
            In(log[Home][s], b) \/ In(log'[warp[c].to][s], b)
      BY <1>1, <1>4, <2>1, <2>2, <3>2
    <3>9. Sending(s, c)'
      BY <1>2, <2>6, <3>1, <3>8, SendingStays DEF Steady
    <3> QED  BY <3>7, <3>9
  <2> QED  BY <1>3, <2>5, <2>6 DEF Sourced
<1> QED  BY <1>1, <1>7, <1>8, <1>9
\* When the first warp claims a session that at most one took from home before,
\* only the workspace it leaves has held it.
LEMMA OnlyFrom ==
  ASSUME SyncTypeOK, OneOrigin, Warped, NEW m \in Warps, Claim(m),
         NEW s \in Sessions, s = warp[m].sid, Claims(s) = {}, Sourced(s), \A l, k \in Loose(s) : l = k
  PROVE  \A k \in Remotes : Held(s, k) => k = warp[m].from
<1>1. /\ warp[m].pc = "claim" /\ (warp[m].from # Nowhere => Held(s, warp[m].from))
      /\ Unclaimed(s) /\ (warp[m].from = Nowhere => m \in Loose(s))
  BY DEF Claim, Warped, WarpFits, Sourced, Loose
<1>2. PICK f \in Places : f = warp[m].from
  BY <1>1, WarpFields
<1>3. (\A k \in Remotes : k \in Nodes /\ k # Home) /\ (f # Nowhere => f \in Remotes)
  BY SyncFields DEF Places
<1>4. ASSUME Loose(s) # {}, NEW k \in Remotes, Held(s, k)
      PROVE  \E l \in Loose(s) : warp[l].to = k /\ warp[l].pc # "claim"
  <2>1. FromHome(s)
    BY <1>1, <1>4 DEF Unclaimed
  <2>2. log[k][s][1].by = Home
    BY <1>3, <1>4, <2>1 DEF FromHome, OneOrigin
  <2>3. Sent(s, k)
    BY <1>1, <1>3, <1>4, <2>2 DEF Unclaimed
  <2> QED  BY <2>3 DEF Sent
<1>5. CASE f = Nowhere
  BY <1>1, <1>2, <1>4, <1>5
<1>6. CASE f # Nowhere /\ Loose(s) # {}
  BY <1>1, <1>2, <1>3, <1>4, <1>6
<1>7. CASE f # Nowhere /\ Loose(s) = {}
  <2>1. \A k \in Remotes : Held(s, k) => log[k][s][1].by = k
    BY <1>1, <1>7 DEF Unclaimed, Sent
  <2> QED  BY <1>1, <1>2, <1>3, <1>7, <2>1 DEF OneOrigin
<1> QED  BY <1>5, <1>6, <1>7

\* A warp claims a session: home has everything from the workspace it leaves,
\* and the new workspace nothing.
LEMMA ClaimSourced ==
  ASSUME SyncTypeOK, Numbered, OneOrigin, Warped, NEW m \in Warps, Claim(m),
         NEW s \in Sessions, s = warp[m].sid, Sourced(s)
  PROVE  Sourced(s)'
<1>1. /\ warp[m].pc = "claim" /\ warp[m].pc # "ready" /\ ~warp[m].claimed
      /\ (warp[m].from # Nowhere => Held(s, warp[m].from)) /\ Held(s, Home)
  BY DEF Claim, Warped, WarpFits
<1>2. Sets(m, "move", warp[m].rows, TRUE) /\ log' = log
  BY ClaimSets DEF Claim
<1>3. PICK d \in Places : d = warp[m].to
  BY <1>1, WarpFields
<1>4. PICK f \in Places : f = warp[m].from
  BY <1>1, WarpFields
<1>5. /\ Home \in Nodes /\ (\A k \in Remotes : k \in Nodes /\ k # Home)
      /\ (d # Nowhere => d \in Remotes) /\ (f # Nowhere => f \in Remotes)
  BY SyncFields DEF Places
<1>6. owner'[s] = IF d = Nowhere THEN Project ELSE d
  BY <1>3 DEF Claim, SyncTypeOK
<1>7. ASSUME NEW n \in Warps
      PROVE  /\ warp'[n].pc # "ready" <=> warp[n].pc # "ready"
             /\ warp'[n].sid = warp[n].sid /\ warp'[n].from = warp[n].from /\ warp'[n].to = warp[n].to
             /\ warp'[n].claimed <=> warp[n].claimed \/ n = m
             /\ warp'[n].pc \in {"steal", "set"} => warp[n].pc \in {"steal", "set"}
  BY <1>1, <1>2 DEF Sets
<1>8. CallsOf(s)' = CallsOf(s) /\ Loose(s)' = Loose(s) /\ Claims(s)' = Claims(s) \cup {m} /\ m \in CallsOf(s)
  BY <1>1, <1>7 DEF CallsOf, Loose, Claims
<1>9. CASE Claims(s) # {}
  <2>1. m \notin Claims(s)
    BY <1>1 DEF Claims
  <2>2. Contested(s)'
    BY <1>8, <1>9, <2>1 DEF Contested
  <2> QED  BY <1>8, <2>2 DEF Sourced
<1>10. CASE Claims(s) = {} /\ ~Contested(s)'
  <2>1. Unclaimed(s) /\ \A l, k \in Loose(s) : l = k
    BY <1>8, <1>10 DEF Sourced, Contested
  <2>3. \A k \in Remotes : Held(s, k) => k = f
    BY <1>4, <1>10, <2>1, OnlyFrom
  <2>4. \A l \in Loose(s) : l = m \/ warp[l].to = f
    <3>1. CASE f = Nowhere
      BY <1>1, <1>4, <2>1, <3>1 DEF Loose
    <3>2. CASE f # Nowhere
      <4>1. ASSUME Loose(s) # {} PROVE Sent(s, f)
        <5>1. FromHome(s)
          BY <2>1, <4>1 DEF Unclaimed
        <5>2. log[f][s][1].by = Home
          BY <1>1, <1>4, <1>5, <3>2, <5>1 DEF FromHome, OneOrigin
        <5> QED  BY <1>1, <1>4, <1>5, <2>1, <3>2, <5>2 DEF Unclaimed
      <4> QED  BY <2>1, <4>1 DEF Sent
    <3> QED  BY <3>1, <3>2
  <2>5. Loose(s) = {} => ~Said(s, Nowhere)
    <3>1. ASSUME Loose(s) = {} PROVE f # Nowhere
      BY <1>1, <1>4, <3>1 DEF Loose
    <3> QED  BY <1>4, <1>8, <2>1, <3>1 DEF Unclaimed
  <2>6. OthersIn(log[Home][s], Source(s, f)) /\ (f = Nowhere => AllByHome(log[Home][s]))
    <3>1. CASE owner[s] = Nowhere
      BY <2>1, <3>1 DEF Unclaimed, AllByHome, OthersIn
    <3>2. CASE owner[s] # Nowhere
      <4>1. owner[s] = f /\ owner[s] \in Remotes /\ OthersIn(log[Home][s], log[owner[s]][s])
        BY <2>1, <2>3, <3>2, OwnerIs
      <4> QED  BY <3>2, <4>1 DEF Source
    <3> QED  BY <3>1, <3>2
  <2>7. /\ TailIn(log[Home][s], Source(s, f))
        /\ f = Nowhere => TailIn(log[Home][s], log[d][s])
    <3>1. log[Home][s] \in Seq(Events)
      BY <1>5, SyncFields
    <3>2. \A i \in DOMAIN log[Home][s] : log[Home][s][i].seq = i
      BY <1>5 DEF Numbered
    <3>3. f = Nowhere => OthersIn(log[Home][s], log[d][s])
      BY <2>6 DEF AllByHome, OthersIn
    <3> QED  BY <2>6, <3>1, <3>2, <3>3, OthersTail
  <2>8. d # Nowhere /\ d # f => IdleAt(s, d)'
    <3> SUFFICES ASSUME d # Nowhere, d # f PROVE IdleAt(s, d)'
      OBVIOUS
    <3>1. ~Held(s, d)
      BY <1>5, <2>3
    <3>2. ~Said(s, d)'
      BY <1>2, <1>5, <3>1 DEF Said, Says, Numbered
    <3>3. \A n \in CallsOf(s) : warp[n].pc \in {"steal", "set"} => warp[n].to # d
      BY <3>1 DEF CallsOf, Warped, WarpFits
    <3>4. \A n \in CallsOf(s)' : warp'[n].pc \in {"steal", "set"} => warp'[n].to # d
      BY <1>7, <1>8, <3>3 DEF CallsOf
    <3>5. \A e : ~In(log[d][s], e)
      <4>1. log[d][s] = <<>> /\ DOMAIN <<>> = {}
        BY <3>1 DEF Held
      <4> QED  BY <4>1 DEF In
    <3> QED  BY <1>2, <3>2, <3>4, <3>5 DEF IdleAt
  <2>9. warp'[m].to = d /\ warp'[m].from = f /\ warp'[m].pc = "move"
    BY <1>2, <1>3, <1>4 DEF Sets
  <2>10. Claimed(s, m)'
    <3>1. CASE d = Nowhere
      BY <1>2, <1>6, <2>7, <2>9, <3>1 DEF Claimed, Source
    <3>2. CASE d # Nowhere
      <4>1. \A k \in Remotes : Held(s, k)' => k \in {d, f}
        BY <1>2, <2>3 DEF Held
      <4>2. \A l \in Loose(s)' : l = m \/ warp'[l].to = f
        BY <1>7, <1>8, <2>4 DEF Loose
      <4>3. \/ TailIn(log'[Home][s], log'[d][s])
            \/ f # Nowhere /\ TailIn(log'[Home][s], log'[f][s]) /\ IdleAt(s, d)'
        BY <1>2, <2>7, <2>8, <3>2 DEF Source
      <4>4. owner'[s] = d /\ (Loose(s)' = {} => ~Said(s, Nowhere)')
        BY <1>2, <1>6, <1>8, <2>5, <3>2 DEF Said, Says
      <4> QED  BY <2>9, <3>2, <4>1, <4>2, <4>3, <4>4 DEF Claimed, IdleAt, Said, Says
    <3> QED  BY <3>1, <3>2
  <2>11. Sending(s, m)'
    BY <2>9 DEF Sending
  <2> QED  BY <1>8, <1>10, <2>10, <2>11 DEF Sourced
<1>11. CASE Claims(s) = {} /\ Contested(s)'
  BY <1>8, <1>11 DEF Sourced
<1> QED  BY <1>9, <1>10, <1>11
-----------------------------------------------------------------------------
(* Every step *)

\* What a warp of another session does.
LEMMA SetsOther ==
  ASSUME NEW m \in Warps, NEW p, NEW r, NEW c, Sets(m, p, r, c), p # "ready", NEW s, warp[m].sid # s
  PROVE  KeepCalls(s) /\ Steady(s)
<1>1. CallsOf(s)' = CallsOf(s) /\ m \notin CallsOf(s)
  BY DEF CallsOf, Sets
<1>2. \A n \in CallsOf(s) : warp'[n] = warp[n]
  BY <1>1 DEF CallsOf, Sets
<1> QED  BY <1>1, <1>2 DEF KeepCalls, Steady, Waits

\* An event of another session.
LEMMA OtherSourced ==
  ASSUME SyncTypeOK, Warped, Grows, NEW s \in Sessions, Sourced(s), KeepCalls(s), Steady(s),
         NEW n \in Nodes, NEW r \in Sessions, NEW e, Adds(n, r, e), r # s,
         owner'[s] = owner[s]
  PROVE  Sourced(s)'
<1>1. \A k \in Nodes : log'[k][s] = log[k][s]
  BY AddsIs
<1> QED  BY <1>1, SourcedStays

LEMMA PublishSourced ==
  ASSUME SyncTypeOK, Numbered, Placed, Warped, Grows, OneOrigin', NEW s \in Sessions, Sourced(s),
         NEW n \in Nodes, Publish(n, s)
  PROVE  Sourced(s)'
<1>1. Held(s, n) /\ owner' = owner /\ warp' = warp /\ RunsAt(n, s)
  BY PublishIs DEF Publish
<1>2. PICK e \in Events : Adds(n, s, e) /\ e.by = n /\ (e.to # "keep" => Says(n, s, e.to))
  BY PublishIs
<1>3. KeepCalls(s) /\ Steady(s)
  BY <1>1, SameKeep
<1>4. \A p \in Places : Said(s, p)' => Said(s, p)
  <2>1. \A k \in Nodes : k # n => log'[k][s] = log[k][s]
    BY <1>2, AddsIs
  <2>2. \A d : In(log'[n][s], d) <=> In(log[n][s], d) \/ d = e
    BY <1>2, AddsIn
  <2>3. \A p \in Places : e.to = p => Says(n, s, p)
    BY <1>2, SyncAssumption DEF Places
  <2> QED  BY <2>1, <2>2, <2>3 DEF Said, Says
<1>5. CASE n = Home
  BY <1>1, <1>2, <1>3, <1>4, <1>5, HomeSourced
<1>6. CASE n \in Remotes
  <2>1. ~IdleAt(s, n)
    <3>1. CASE place[s] = At(n)
      <4>1. place[s] = n /\ place[s] # Nowhere
        BY <1>6, <3>1, SyncAssumption DEF At
      <4>2. Says(Home, s, n) /\ Home \in Nodes
        BY <4>1, PlacedWhereHeld, SyncFields
      <4> QED  BY <4>2 DEF IdleAt, Said
    <3>2. CASE \E d \in ToSet(log[n][s]) : d.by = n
      <4>1. PICK i \in DOMAIN log[n][s] : log[n][s][i].by = n
        BY <3>2 DEF ToSet
      <4>2. log[n][s] \in Seq(Events)
        BY SyncFields
      <4>3. log[n][s][i] \in Events /\ In(log[n][s], log[n][s][i])
        BY <4>1, <4>2 DEF Numbered, In
      <4> QED  BY <4>1, <4>3 DEF IdleAt
    <3> QED  BY <1>1, <3>1, <3>2 DEF RunsAt
  <2> QED  BY <1>1, <1>2, <1>3, <1>4, <1>6, <2>1, OwnSourced
<1> QED  BY <1>5, <1>6 DEF Nodes

LEMMA StealSourced ==
  ASSUME SyncTypeOK, Warped, Grows, OneOrigin', NEW m \in Warps, Steal(m), NEW s \in Sessions, Sourced(s)
  PROVE  Sourced(s)'
<1> DEFINE r == warp[m].sid
<1>1. /\ warp[m].pc = "steal" /\ warp[m].pc # "ready" /\ owner' = owner
      /\ Append1(warp[m].to, r, warp[m].to) /\ WarpGoes(m, "set")
  BY DEF Steal
<1>2. r \in Sessions /\ warp[m].to \in Remotes /\ Held(r, warp[m].to)
  BY <1>1, WarpFields DEF Warped, WarpFits, Places
<1>3. PICK w \in Remotes : w = warp[m].to
  BY <1>2
<1>4. w \in Nodes /\ w \in Places \cup {"keep"}
  BY SyncFields
<1>5. PICK e \in Events : Adds(w, r, e) /\ e.to = w
  BY <1>1, <1>2, <1>3, <1>4, OwnEvent
<1>6. Sets(m, "set", warp[m].rows, warp[m].claimed)
  BY <1>1, PcSets
<1>7. KeepCalls(s)
  BY <1>6, SetsKeep
<1>8. Steady(s)
  BY <1>1, <1>6 DEF Steady, Waits, Sets, CallsOf
<1>9. CASE r = s
  <2>1. ~IdleAt(s, w) /\ Held(s, w) /\ Adds(w, s, e)
    BY <1>1, <1>2, <1>3, <1>5, <1>9 DEF IdleAt, CallsOf
  <2>2. Claims(s) = {} => m \in Loose(s)
    BY <1>1, <1>9 DEF Warped, WarpFits, Claims, Loose
  <2>3. \A p \in Places : Said(s, p)' => Said(s, p) \/ p = w
    <3>1. \A k \in Nodes : k # w => log'[k][s] = log[k][s]
      BY <1>4, <2>1, AddsIs
    <3>2. \A d : In(log'[w][s], d) <=> In(log[w][s], d) \/ d = e
      BY <1>4, <2>1, AddsIn
    <3> QED  BY <1>4, <1>5, <3>1, <3>2 DEF Said, Says
  <2> QED  BY <1>1, <1>7, <1>8, <2>1, <2>2, <2>3, OwnSourced
<1>10. CASE r # s
  <2> HIDE DEF r
  <2> QED  BY <1>1, <1>2, <1>4, <1>5, <1>7, <1>8, <1>10, OtherSourced
<1> QED  BY <1>9, <1>10

LEMMA MoveSourced ==
  ASSUME SyncTypeOK, Warped, Grows, OneOrigin', NEW m \in Warps, Detach(m) \/ SetWorkspace(m),
         NEW s \in Sessions, Sourced(s)
  PROVE  Sourced(s)'
<1>1. PICK r \in Sessions : r = warp[m].sid
  BY MoveIs
<1>2. PICK w \in Places : w = warp[m].to
  BY MoveIs
<1>3. /\ warp[m].pc \in {"move", "set"} /\ warp[m].pc # "ready" /\ owner' = owner
  BY <1>1, <1>2, MoveIs
<1>4. PICK e \in Events : Adds(Home, r, e) /\ e.by = Home /\ e.to = w
  BY <1>1, <1>2, MoveIs
<1>5. Sets(m, "over", <<>>, warp[m].claimed)
  BY FailSets
<1>6. KeepCalls(s)
  BY <1>5, SetsKeep
<1>7. Steady(s)
  BY <1>5 DEF Steady, Waits, Sets, CallsOf
<1>8. CASE r = s
  <2>1. Held(s, Home) /\ m \in Loose(s) \cup Claims(s)
    BY <1>1, <1>3, <1>8 DEF Warped, WarpFits, Loose, Claims
  <2>2. \A p \in Places : Said(s, p)' => Said(s, p) \/ p = w
    <3>0. Home \in Nodes /\ Adds(Home, s, e)
      BY <1>4, <1>8, SyncFields
    <3>1. \A k \in Nodes : k # Home => log'[k][s] = log[k][s]
      BY <3>0, AddsIs
    <3>2. \A d : In(log'[Home][s], d) <=> In(log[Home][s], d) \/ d = e
      BY <3>0, AddsIn
    <3> QED  BY <1>4, <3>0, <3>1, <3>2 DEF Said, Says
  <2> QED  BY <1>2, <1>3, <1>4, <1>6, <1>7, <1>8, <2>1, <2>2, HomeSourced
<1>9. CASE r # s
  <2>1. Home \in Nodes
    BY SyncFields
  <2> QED  BY <1>3, <1>4, <1>6, <1>7, <1>9, <2>1, OtherSourced
<1> QED  BY <1>8, <1>9

LEMMA ReplayedSourced ==
  ASSUME SyncTypeOK, Numbered, Warped, Grows, OneOrigin', NEW w, NEW e, Replays(w, e), warp' = warp,
         NEW s \in Sessions, Sourced(s)
  PROVE  Sourced(s)'
<1>1. CASE e.sid = s
  BY <1>1, ReplaySourced
<1>2. CASE e.sid # s
  <2>1. KeepCalls(s) /\ Steady(s) /\ Home \in Nodes
    BY SameKeep, SyncFields
  <2>2. PICK r \in Sessions : r = e.sid
    BY ReplaysIs
  <2>3. owner'[s] = owner[s] /\ (log' = log \/ Adds(Home, r, e))
    BY <1>2, <2>2, ReplaysIs
  <2>4. CASE log' = log
    BY <2>1, <2>3, <2>4, SourcedStays
  <2>5. CASE Adds(Home, r, e)
    BY <1>2, <2>1, <2>2, <2>3, <2>5, OtherSourced
  <2> QED  BY <2>3, <2>4, <2>5
<1> QED  BY <1>1, <1>2

LEMMA HistorySourced ==
  ASSUME SyncTypeOK, Numbered, Warped, Pulled, Grows, OneOrigin', NEW x \in Remotes \cup Warps, ReplayHistory(x),
         NEW s \in Sessions, Sourced(s)
  PROVE  Sourced(s)'
<1>1. CASE Dies(Head(pull[x].batch), pull[x].of)
  <2>1. /\ Refused /\ pull[x] # NoPull
        /\ x \in Remotes => warp' = warp
        /\ x \notin Remotes => WarpOver(x)
    BY <1>1 DEF ReplayHistory, NoPull
  <2>2. KeepCalls(s) /\ Steady(s)
    <3>1. CASE x \in Remotes
      BY <2>1, <3>1, SameKeep
    <3>2. CASE x \notin Remotes
      <4>1. x \in Warps /\ warp[x].pc # "ready"
        BY <2>1, <3>2 DEF Pulled, PullFits
      <4>2. Sets(x, "over", <<>>, warp[x].claimed)
        BY <2>1, <3>2, <4>1, OverSets
      <4>3. Steady(s)
        BY <4>2 DEF Steady, Waits, Sets, CallsOf
      <4> QED  BY <4>1, <4>2, <4>3, SetsKeep
    <3> QED  BY <3>1, <3>2
  <2> QED  BY <2>1, <2>2, SourcedStays DEF Refused
<1>2. CASE ~Dies(Head(pull[x].batch), pull[x].of)
  BY <1>2, HistoryIs, ReplayedSourced
<1> QED  BY <1>1, <1>2
LEMMA WarpingSourced ==
  ASSUME SyncTypeOK, Numbered, OneOrigin, Placed, Warped, Grows, OneOrigin', NEW m \in Warps, Warping(m),
         NEW s \in Sessions, Sourced(s)
  PROVE  Sourced(s)'
<1>1. ASSUME NEW r \in Sessions, NEW to \in Places, WarpStart(m, r, to) PROVE Sourced(s)'
  <2>1. CASE r = s
    BY <1>1, <2>1, StartSourced
  <2>2. CASE r # s
    <3>1. /\ \A n \in Warps : n # m => warp'[n] = warp[n]
          /\ warp[m].pc = "ready" /\ warp'[m].sid = r
          /\ log' = log /\ place' = place /\ owner' = owner
      BY <1>1, StartIs
    <3>2. CallsOf(s)' = CallsOf(s)
      BY <2>2, <3>1 DEF CallsOf
    <3>3. \A n \in CallsOf(s) : warp'[n] = warp[n]
      BY <3>1 DEF CallsOf
    <3>4. KeepCalls(s) /\ Steady(s)
      BY <3>2, <3>3 DEF KeepCalls, Steady, Waits
    <3> QED  BY <3>1, <3>4, SourcedStays
  <2> QED  BY <2>1, <2>2
<1>2. CASE FinalSynced(m)
  <2>1. warp[m].pc = "final" /\ WarpGoes(m, "claim") /\ log' = log /\ owner' = owner
    BY <1>2 DEF FinalSynced
  <2>2. Sets(m, "claim", warp[m].rows, warp[m].claimed)
    BY <2>1, PcSets
  <2>3. Steady(s)
    BY <2>2 DEF Steady, Waits, Sets, CallsOf
  <2>4. KeepCalls(s)
    <3>1. "claim" # "ready" /\ warp[m].pc \in {"final", "claim", "move"}
      BY <2>1
    <3> QED  BY <2>2, <3>1, SetsKeep
  <2> QED  BY <2>1, <2>3, <2>4, SourcedStays
<1>3. CASE Claim(m)
  <2>1. CASE warp[m].sid = s
    BY <1>3, <2>1, ClaimSourced
  <2>2. CASE warp[m].sid # s
    <3>1. Sets(m, "move", warp[m].rows, TRUE)
      BY <1>3, ClaimSets
    <3>2. KeepCalls(s) /\ Steady(s)
      BY <2>2, <3>1, SetsOther
    <3>3. log' = log /\ place' = place /\ owner'[s] = owner[s]
      BY <1>3, <2>2 DEF Claim, SyncTypeOK
    <3> QED  BY <3>2, <3>3, SourcedStays
  <2> QED  BY <2>1, <2>2
<1>4. CASE Detach(m) \/ SetWorkspace(m)
  BY <1>4, MoveSourced
<1>5. CASE ReadRows(m)
  <2>1. warp[m].pc = "move" /\ log' = log /\ owner' = owner
    BY <1>5 DEF ReadRows
  <2>2. Sets(m, "send", log[Home][warp[m].sid], warp[m].claimed)
    BY <1>5, ReadSets
  <2>3. Steady(s)
    BY <2>1, <2>2 DEF Steady, Waits, Sets, CallsOf
  <2>4. KeepCalls(s)
    <3>1. "send" # "ready" /\ warp[m].pc \in {"final", "claim", "move"}
      BY <2>1
    <3> QED  BY <2>2, <3>1, SetsKeep
  <2> QED  BY <2>1, <2>3, <2>4, SourcedStays
<1>6. CASE SendRow(m)
  <2>1. CASE warp[m].sid = s
    BY <1>6, <2>1, SendSourced
  <2>2. CASE warp[m].sid # s
    <3>1. place' = place /\ owner' = owner /\ warp[m].to \in Nodes
      BY <1>6, SendIs, SyncFields
    <3>2. \E p \in {"over", "steal", "send"} : \E q : Sets(m, p, q, warp[m].claimed)
      BY <1>6, SendIs
    <3>3. KeepCalls(s) /\ Steady(s)
      BY <2>2, <3>2, SetsOther
    <3>4. PICK r \in Sessions : r = warp[m].sid
      BY <1>6, SendIs
    <3>5. PICK w \in Nodes : w = warp[m].to
      BY <3>1
    <3>6. log' = log \/ \E e : Adds(w, r, e)
      BY <1>6, <3>4, <3>5, SendIs
    <3>7. CASE log' = log
      BY <3>1, <3>3, <3>7, SourcedStays
    <3>8. ASSUME NEW e, Adds(w, r, e) PROVE Sourced(s)'
      BY <2>2, <3>1, <3>3, <3>4, <3>8, OtherSourced
    <3> QED  BY <3>6, <3>7, <3>8
  <2> QED  BY <2>1, <2>2
<1>7. CASE Steal(m)
  BY <1>7, StealSourced
<1>8. CASE WarpFails(m)
  <2>1. log' = log /\ place' = place /\ owner' = owner
    BY <1>8 DEF WarpFails
  <2>2. Sets(m, "over", <<>>, warp[m].claimed)
    BY <1>8, FailSets
  <2>3. Steady(s)
    BY <2>2 DEF Steady, Waits, Sets, CallsOf
  <2>4. KeepCalls(s)
    BY <2>1, <2>2, SetsKeep
  <2> QED  BY <2>1, <2>3, <2>4, SourcedStays
<1> QED  BY <1>1, <1>2, <1>3, <1>4, <1>5, <1>6, <1>7, <1>8 DEF Warping

\* Where a session comes from, after any step.
LEMMA SourcedHolds ==
  ASSUME SyncTypeOK, Numbered, OneOrigin, Placed, Warped, Pulled, SyncNext,
         NEW s \in Sessions, Sourced(s)
  PROVE  Sourced(s)'
<1>1. Grows /\ OneOrigin'
  BY LogSteps, LogGrows, OneOriginHolds
<1>2. ASSUME log' = log, owner' = owner, warp' = warp PROVE Sourced(s)'
  BY <1>1, <1>2, SameKeep, SourcedStays
<1>3. ASSUME NEW n \in Nodes, NEW r \in Sessions, Create(n, r) PROVE Sourced(s)'
  <2>1. CASE r = s
    BY <1>3, <2>1, CreateSourced
  <2>2. CASE r # s
    <3>1. Append1(n, r, At(n)) /\ At(n) \in Places \cup {"keep"} /\ place' = place /\ owner' = owner /\ warp' = warp
      BY <1>3 DEF Create, At, Nodes, Places
    <3>2. \E e : Adds(n, r, e)
      BY <3>1, OwnEvent
    <3>3. KeepCalls(s) /\ Steady(s)
      BY <3>1, SameKeep
    <3> QED  BY <1>1, <2>2, <3>1, <3>2, <3>3, OtherSourced
  <2> QED  BY <2>1, <2>2
<1>4. ASSUME NEW n \in Nodes, NEW r \in Sessions, Publish(n, r) PROVE Sourced(s)'
  <2>1. CASE r = s
    BY <1>1, <1>4, <2>1, PublishSourced
  <2>2. CASE r # s
    <3>1. owner' = owner /\ warp' = warp
      BY <1>4, PublishIs
    <3>2. \E e : Adds(n, r, e)
      BY <1>4, PublishIs
    <3>3. KeepCalls(s) /\ Steady(s)
      BY <3>1, SameKeep
    <3> QED  BY <1>1, <2>2, <3>1, <3>2, <3>3, OtherSourced
  <2> QED  BY <2>1, <2>2
<1>5. ASSUME NEW w \in Remotes, Loop(w) PROVE Sourced(s)'
  <2>1. CASE ReplayLive(w)
    BY <1>1, <2>1, LiveIs, ReplayedSourced
  <2>2. CASE Connect(w) \/ HistoryFails(w) \/ GoLive(w) \/ Disconnect(w) \/ StreamFails(w)
    BY <1>2, <2>2 DEF Connect, HistoryFails, GoLive, Disconnect, StreamFails
  <2> QED  BY <1>5, <2>1, <2>2 DEF Loop
<1>6. ASSUME NEW x \in Remotes \cup Warps, AnswerHistory(x) \/ ReplayHistory(x) PROVE Sourced(s)'
  BY <1>1, <1>2, <1>6, HistorySourced DEF AnswerHistory
<1>7. ASSUME NEW m \in Warps, Warping(m) PROVE Sourced(s)'
  BY <1>1, <1>7, WarpingSourced
<1>8. CASE Crash
  <2>1. log' = log /\ place' = place /\ owner' = owner
    BY <1>8 DEF Crash
  <2>2. KeepCalls(s) /\ Steady(s)
    <3>1. CallsOf(s)' = CallsOf(s)
      BY <1>8, CrashIs DEF CallsOf, CallsStay
    <3>2. \A m \in CallsOf(s) : /\ warp'[m].pc = "over" /\ warp'[m].claimed = warp[m].claimed
                              /\ warp'[m].from = warp[m].from /\ warp'[m].to = warp[m].to
      BY <1>8, CrashIs DEF CallsOf, CallsStay
    <3> QED  BY <3>1, <3>2 DEF KeepCalls, Steady, Waits
  <2> QED  BY <1>1, <2>1, <2>2, SourcedStays
<1> QED  BY <1>3, <1>4, <1>5, <1>6, <1>7, <1>8 DEF SyncNext
-----------------------------------------------------------------------------
(* Answers leave no gap *)

LEMMA ContestedStays ==
  ASSUME CallsStay, NEW s, Contested(s)
  PROVE  Contested(s)'
<1>1. /\ \A m \in Claims(s) : m \in Claims(s)'
      /\ \A m \in Loose(s) : m \in Loose(s)'
  BY DEF CallsStay, Claims, Loose
<1> QED  BY <1>1 DEF Contested

\* Only a claim takes a session from its owner.
LEMMA OwnerSteps ==
  ASSUME SyncTypeOK, Numbered, Pulled, SyncNext, NEW s \in Sessions, owner[s] # Nowhere
  PROVE  owner'[s] = owner[s] \/ \E m \in Warps : Claim(m) /\ warp[m].sid = s
<1>1. ASSUME NEW w, NEW e, Replays(w, e) PROVE owner'[s] = owner[s]
  BY <1>1, ReplaysIs
<1>2. ASSUME NEW w \in Remotes, Loop(w) PROVE owner'[s] = owner[s]
  BY <1>1, <1>2, LiveIs DEF Loop, Connect, HistoryFails, GoLive, Disconnect, StreamFails
<1>3. ASSUME NEW x \in Remotes \cup Warps, AnswerHistory(x) \/ ReplayHistory(x) PROVE owner'[s] = owner[s]
  BY <1>1, <1>3, HistoryIs DEF AnswerHistory, Refused
<1>4. ASSUME NEW m \in Warps, Warping(m), ~Claim(m) PROVE owner' = owner
  BY <1>4, WarpKeeps
<1>5. ASSUME NEW m \in Warps, Claim(m), warp[m].sid # s PROVE owner'[s] = owner[s]
  BY <1>5 DEF Claim, SyncTypeOK
<1> QED  BY <1>2, <1>3, <1>4, <1>5 DEF SyncNext, Create, Publish, Crash

\* A workspace that has held a session while fenced stays fenced, or the
\* session is contested: its fence is not lifted by the only claim.
LEMMA FenceStays ==
  ASSUME SyncTypeOK, Numbered, OneOrigin, Placed, Warped, Pulled, SyncNext,
         NEW s \in Sessions, Sourced(s), NEW w \in Remotes, Held(s, w), Fenced(s, w)
  PROVE  Fenced(s, w)' \/ Contested(s)'
<1>1. CASE owner'[s] = owner[s]
  BY <1>1 DEF Fenced
<1>2. ASSUME NEW m \in Warps, Claim(m), warp[m].sid = s PROVE Fenced(s, w)' \/ Contested(s)'
  <2>1. CallsStay
    BY WarpSteps
  <2>2. Sets(m, "move", warp[m].rows, TRUE) /\ warp[m].pc = "claim" /\ ~warp[m].claimed
    BY <1>2, ClaimSets DEF Claim, Warped, WarpFits
  <2>3. m \in Claims(s)' /\ m \notin Claims(s) /\ (\A n \in Claims(s) : n \in Claims(s)')
        /\ \A n \in Loose(s) : n \in Loose(s)'
    BY <1>2, <2>1, <2>2 DEF Sets, Claims, Loose, CallsStay
  <2>4. CASE Claims(s) # {} \/ \E l, k \in Loose(s) : l # k
    BY <2>3, <2>4 DEF Contested
  <2>5. CASE Claims(s) = {} /\ \A l, k \in Loose(s) : l = k
    <3>1. w = warp[m].from /\ \A k \in Remotes : Held(s, k) => k = warp[m].from
      BY <1>2, <2>5, OnlyFrom
    <3>2. owner[s] \in Remotes /\ Held(s, owner[s])
      BY <2>5, OwnerIs DEF Sourced, Fenced
    <3> QED  BY <3>1, <3>2 DEF Fenced
  <2> QED  BY <2>4, <2>5
<1> QED  BY <1>1, <1>2, OwnerSteps DEF Fenced

\* What a step does to a request that goes on.
LEMMA PullSteps ==
  ASSUME SyncTypeOK, Numbered, Pulled, SyncNext, NEW x \in Remotes \cup Warps, pull'[x].pc = "replaying"
  PROVE  pull'[x] = pull[x] \/ AnswerHistory(x) \/ (ReplayHistory(x) /\ pull' = [pull EXCEPT ![x].batch = Tail(@)])
<1>0. NoPull.pc # "replaying" /\ pull \in [Remotes \cup Warps -> Pulls]
  BY DEF NoPull, SyncTypeOK
<1>1. ASSUME NEW y \in Remotes \cup Warps, pull' = [pull EXCEPT ![y] = NoPull] PROVE pull'[x] = pull[x]
  BY <1>0, <1>1
<1>2. ASSUME NEW y \in Remotes \cup Warps, NEW w, Ask(y, w) PROVE pull'[x] = pull[x]
  BY <1>0, <1>2 DEF Ask
<1>3. ASSUME NEW w \in Remotes, Loop(w) PROVE pull'[x] = pull[x]
  BY <1>1, <1>2, <1>3 DEF Loop, Connect, HistoryFails, GoLive, ReplayLive, Disconnect, StreamFails
<1>4. ASSUME NEW y \in Remotes \cup Warps, AnswerHistory(y), y # x PROVE pull'[x] = pull[x]
  BY <1>4, AnsweredIs
<1>5. ASSUME NEW y \in Remotes \cup Warps, ReplayHistory(y)
      PROVE  pull'[x] = pull[x] \/ (ReplayHistory(x) /\ pull' = [pull EXCEPT ![x].batch = Tail(@)])
  <2>1. CASE pull' = [pull EXCEPT ![y] = NoPull]
    BY <1>1, <2>1
  <2>2. CASE pull' = [pull EXCEPT ![y].batch = Tail(@)]
    <3>1. y # x => pull'[x] = pull[x]
      BY <1>0, <2>2
    <3> QED  BY <1>5, <2>2, <3>1, Zenon
  <2> QED  BY <1>5, <2>1, <2>2, HistoryIs
<1>6. ASSUME NEW m \in Warps, Warping(m) PROVE pull'[x] = pull[x]
  <2>1. ASSUME NEW s \in Sessions, NEW to \in Places, WarpStart(m, s, to) PROVE pull'[x] = pull[x]
    BY <1>2, <2>1 DEF WarpStart
  <2> QED  BY <1>1, <1>6, <2>1 DEF Warping, FinalSynced, Claim, Detach, ReadRows, SendRow, Steal, SetWorkspace, WarpFails
<1>7. ~Crash
  BY <1>0 DEF Crash
<1> QED  BY <1>3, <1>4, <1>5, <1>6, <1>7 DEF SyncNext, Create, Publish

\* What an event of an answer needs so that home does not take it for an error.
Expected(s, w, seq) == Contested(s) \/ Fenced(s, w) \/ seq <= HomeLen(s) + 1

LEMMA ExpectedStays ==
  ASSUME SyncTypeOK, Numbered, OneOrigin, Placed, Warped, Pulled, SyncNext,
         NEW s \in Sessions, Sourced(s), NEW w \in Remotes, Held(s, w), NEW k \in Nat, Expected(s, w, k)
  PROVE  Expected(s, w, k)'
<1>1. CASE Contested(s)
  BY <1>1, WarpSteps, ContestedStays DEF Expected
<1>2. CASE Fenced(s, w)
  BY <1>2, FenceStays DEF Expected
<1>3. CASE k <= HomeLen(s) + 1
  <2>1. HomeLen(s) \in Nat /\ HomeLen(s)' \in Nat /\ HomeLen(s) <= HomeLen(s)'
    BY LogSteps, LogGrows, SyncFields DEF Grows, HomeLen
  <2> QED  BY <1>3, <2>1 DEF Expected
<1> QED  BY <1>1, <1>2, <1>3 DEF Expected
\* An answer, just received, follows on what was reported; replayed event by
\* event, each one opens the way for the next.
LEMMA GaplessHolds ==
  ASSUME SyncTypeOK, Numbered, OneOrigin, Placed, Warped, Pulled, SyncNext,
         \A s \in Sessions : Sourced(s),
         NEW x \in Remotes \cup Warps, Gapless(x)
  PROVE  Gapless(x)'
<1> SUFFICES ASSUME pull'[x].pc = "replaying", NEW k \in DOMAIN pull'[x].batch,
                    NEW s, NEW w, NEW n,
                    s = pull'[x].batch[k].sid, w = pull'[x].of, n = pull'[x].batch[k].seq
             PROVE  \/ Expected(s, w, n)'
                    \/ \E j \in 1 .. k - 1 : pull'[x].batch[j].sid = s /\ pull'[x].batch[j].seq = n - 1
  BY DEF Gapless, Expected, HomeLen, Fenced
<1>1. CASE pull'[x] = pull[x]
  <2>1. /\ pull[x].pc = "replaying" /\ pull[x].batch \in Seq(Events) /\ w \in Remotes
        /\ k \in DOMAIN pull[x].batch /\ pull'[x].batch = pull[x].batch /\ w = pull[x].of
    BY <1>1, PullFields
  <2>2. PICK e \in Events : e = pull[x].batch[k]
    BY <2>1
  <2>3. s = e.sid /\ n = e.seq
    BY <2>1, <2>2
  <2>4. Expected(s, w, n) \/ \E j \in 1 .. k - 1 : pull[x].batch[j].sid = s /\ pull[x].batch[j].seq = n - 1
    BY <2>1, <2>2, <2>3 DEF Gapless, Expected
  <2>5. s \in Sessions /\ n \in Nat /\ Held(s, w)
    <3>1. In(log[w][s], e) /\ w \in Nodes /\ s \in Sessions /\ n \in Nat
      BY <2>1, <2>2, <2>3, SyncFields, EventFields DEF Pulled, PullFits
    <3> QED  BY <3>1, InIs, SyncFields DEF Held
  <2>6. Expected(s, w, n) => Expected(s, w, n)'
    BY <2>1, <2>5, ExpectedStays
  <2> QED  BY <2>1, <2>4, <2>6
<1>2. CASE AnswerHistory(x)
  <2>1. w \in Remotes /\ w = pull[x].of
    <3>1. PICK q \in Answers(pull[x].of, pull[x].known) :
            pull'[x] = [pc |-> "replaying", of |-> pull[x].of, batch |-> q]
      BY <1>2, AnsweredIs
    <3>2. pull'[x].of = pull[x].of
      BY <3>1
    <3> QED  BY <1>2, <3>2, AnsweredIs
  <2>2. PICK known \in [Sessions -> Nat] : known = pull[x].known
    BY <1>2, AnsweredIs
  <2>3. PICK batch \in Answers(w, known) : pull'[x] = [pc |-> "replaying", of |-> w, batch |-> batch]
    BY <1>2, <2>1, <2>2, AnsweredIs
  <2>4. k \in DOMAIN batch /\ batch \in Seq(Events) /\ pull'[x].batch = batch
    BY <2>1, <2>2, <2>3, AnswerIs
  <2>5. s = batch[k].sid /\ n = batch[k].seq
    BY <2>4
  <2>6. n <= known[s] + 1 \/ \E j \in 1 .. k - 1 : batch[j].sid = s /\ batch[j].seq = n - 1
    <3>1. \/ batch[k].seq <= known[batch[k].sid] + 1
          \/ \E j \in 1 .. k - 1 : batch[j].sid = batch[k].sid /\ batch[j].seq = batch[k].seq - 1
      <4>1. k \in DOMAIN batch
        BY <2>4
      <4> QED  BY <2>1, <4>1, AnswerIs
    <3> QED  BY <2>5, <3>1
  <2>7. s \in Sessions /\ n \in Nat
    BY <2>4, <2>5, EventFields
  <2>8. known[s] <= HomeLen(s) /\ HomeLen(s) \in Nat
    BY <1>2, <2>2, <2>7, AnsweredIs, SyncFields DEF Pulled, PullFits
  <2>9. HomeLen(s)' = HomeLen(s)
    BY <1>2, AnsweredIs DEF HomeLen
  <2>10. n <= known[s] + 1 => n <= HomeLen(s)' + 1
    BY <2>2, <2>7, <2>8, <2>9
  <2> QED  BY <2>4, <2>6, <2>10 DEF Expected
<1>3. CASE ReplayHistory(x) /\ pull' = [pull EXCEPT ![x].batch = Tail(@)]
  <2>1. w \in Remotes /\ w = pull[x].of
    BY <1>3, HistoryIs, ReplayedIs
  <2>2. PICK batch \in Seq(Events) : batch = pull[x].batch
    BY <1>3, HistoryIs
  <2>3. /\ pull[x].pc = "replaying" /\ batch # <<>>
        /\ k + 1 \in DOMAIN batch /\ pull'[x].batch[k] = batch[k + 1]
        /\ \A i \in DOMAIN pull'[x].batch : i + 1 \in DOMAIN batch /\ pull'[x].batch[i] = batch[i + 1]
        /\ DOMAIN pull'[x].batch = 1 .. Len(batch) - 1
    <3>1. pull[x].pc = "replaying" /\ batch # <<>>
      BY <1>3, <2>2, HistoryIs
    <3>2. pull[x].batch # <<>>
      BY <2>2, <3>1
    <3>3. pull'[x].batch \in Seq(Events) /\ Len(pull'[x].batch) = Len(pull[x].batch) - 1
      BY <1>3, <3>1, <3>2, ReplayedIs
    <3>4. \A i \in DOMAIN pull'[x].batch :
            i + 1 \in DOMAIN pull[x].batch /\ pull'[x].batch[i] = pull[x].batch[i + 1]
      BY <1>3, <3>1, <3>2, ReplayedIs
    <3> QED  BY <2>2, <3>1, <3>3, <3>4
  <2>4. PICK e \in Events : e = batch[k + 1]
    BY <2>3
  <2>5. PICK b \in Events : b = batch[1]
    BY <2>2, <2>3
  <2>6. s = e.sid /\ n = e.seq
    BY <2>3, <2>4
  <2>7. Expected(s, w, n) \/ \E j \in 1 .. k : batch[j].sid = s /\ batch[j].seq = n - 1
    <3>1. k \in Nat /\ (k + 1) - 1 = k
      BY <2>2, <2>3
    <3>2. \/ Expected(batch[k + 1].sid, w, batch[k + 1].seq)
          \/ \E j \in 1 .. (k + 1) - 1 : batch[j].sid = batch[k + 1].sid /\ batch[j].seq = batch[k + 1].seq - 1
      BY <2>1, <2>2, <2>3 DEF Gapless, Expected
    <3> QED  BY <2>4, <2>6, <3>1, <3>2
  <2>8. s \in Sessions /\ n \in Nat /\ Held(s, w) /\ b.seq \in Nat
    <3>1. In(log[w][s], e)
      BY <2>1, <2>2, <2>3, <2>4, <2>6 DEF Pulled, PullFits
    <3>2. s \in Sessions /\ n \in Nat /\ b.seq \in Nat /\ w \in Nodes
      BY <2>1, <2>6, EventFields, SyncFields
    <3> QED  BY <3>1, <3>2, InIs, SyncFields DEF Held
  <2>9. Expected(s, w, n) => Expected(s, w, n)'
    BY <2>1, <2>8, ExpectedStays
  <2>10. ASSUME b.sid = s, b.seq = n - 1 PROVE Expected(s, w, n)'
    <3>1. Replays(w, b)
      <4>1. pull'[x] # NoPull /\ x \in DOMAIN pull
        BY <1>3, <2>2, <2>3, ReplayedIs DEF SyncTypeOK
      <4>2. pull' # [pull EXCEPT ![x] = NoPull]
        BY <4>1
      <4> QED  BY <1>3, <2>1, <2>2, <2>5, <4>2, HistoryIs
    <3>2. HomeLen(s) \in Nat /\ Home \in Nodes /\ log[Home][s] \in Seq(Events)
      BY <2>8, SyncFields
    <3>3. CASE Adds(Home, s, b)
      <4>1. HomeLen(s)' = HomeLen(s) + 1 /\ b.seq = HomeLen(s) + 1
        <5>1. b.seq = Len(log[Home][s]) + 1
          BY <3>3 DEF Adds
        <5>2. Len(log'[Home][s]) = Len(log[Home][s]) + 1
          BY <2>8, <3>2, <3>3, AddsIs
        <5> QED  BY <5>1, <5>2 DEF HomeLen
      <4> QED  BY <2>8, <2>10, <3>2, <4>1 DEF Expected
    <3>4. CASE In(log[Home][s], b)
      <4>1. b.seq <= HomeLen(s)
        BY <3>2, <3>4, InIs DEF HomeLen
      <4>2. Expected(s, w, n)
        BY <2>8, <2>10, <3>2, <4>1 DEF Expected
      <4> QED  BY <2>9, <4>2
    <3>5. CASE owner[s] \notin {Nowhere, w}
      BY <2>9, <3>5 DEF Expected, Fenced
    <3> QED  BY <2>10, <3>1, <3>3, <3>4, <3>5, ReplaysIs
  <2>11. ASSUME NEW j \in 1 .. k, j # 1, batch[j].sid = s, batch[j].seq = n - 1
         PROVE  \E i \in 1 .. k - 1 : pull'[x].batch[i].sid = s /\ pull'[x].batch[i].seq = n - 1
    <3>1. j - 1 \in 1 .. k - 1 /\ j - 1 \in DOMAIN pull'[x].batch
      BY <2>2, <2>3, <2>11
    <3>2. pull'[x].batch[j - 1] = batch[j]
      <4>1. (j - 1) + 1 = j
        BY <2>11
      <4>2. pull'[x].batch[j - 1] = batch[(j - 1) + 1]
        BY <2>3, <3>1
      <4> QED  BY <4>1, <4>2
    <3> QED  BY <2>11, <3>1, <3>2
  <2> QED  BY <2>5, <2>7, <2>9, <2>10, <2>11
<1> QED  BY <1>1, <1>2, <1>3, PullSteps
-----------------------------------------------------------------------------
(* The invariant *)

\* Nothing has happened: every log is empty and no warp has begun.
LEMMA SyncInitHolds == ASSUME SyncInit PROVE SyncInv
<1>1. /\ \A n \in Nodes, s \in Sessions : log[n][s] = <<>>
      /\ \A s \in Sessions : place[s] = Nowhere /\ owner[s] = Nowhere
      /\ \A x \in Remotes \cup Warps : pull[x] = NoPull /\ pull[x].pc = "none"
      /\ \A m \in Warps : warp[m].pc = "ready"
      /\ Home \in Nodes /\ \A w \in Remotes : w \in Nodes
  BY DEF SyncInit, NoPull, NoWarp, Nodes
<1>2. \A e : ~In(<<>>, e)
  <2>1. DOMAIN <<>> = {}
    OBVIOUS
  <2> QED  BY <2>1 DEF In
<1>3. SyncTypeOK
  <2>1. <<>> \in Seq(Events)
    OBVIOUS
  <2> QED  BY <2>1 DEF SyncInit, SyncTypeOK, Places, Owners, Pulls, WarpStates
<1>4. Numbered
  BY <1>1, <1>2 DEF Numbered
<1>5. OneOrigin /\ Placed /\ Warped /\ Pulled
  BY <1>1 DEF OneOrigin, Placed, Warped, Pulled, PullFits, Held
<1>6. ASSUME NEW s \in Sessions PROVE Sourced(s)
  <2>1. CallsOf(s) = {} /\ Claims(s) = {} /\ Loose(s) = {}
    BY <1>1 DEF CallsOf, Claims, Loose
  <2>2. Unclaimed(s)
    BY <1>1, <1>2, <2>1 DEF Unclaimed, AllByHome, Held, Said, Says, FromHome
  <2> QED  BY <2>1, <2>2 DEF Sourced
<1>7. \A x \in Remotes \cup Warps : Gapless(x)
  BY <1>1 DEF Gapless
<1> QED  BY <1>3, <1>4, <1>5, <1>6, <1>7 DEF SyncInv

LEMMA SyncNextHolds == ASSUME SyncInv, SyncNext PROVE SyncInv'
<1>1. SyncTypeOK /\ Numbered /\ OneOrigin /\ Placed /\ Warped /\ Pulled
      /\ (\A s \in Sessions : Sourced(s)) /\ \A x \in Remotes \cup Warps : Gapless(x)
  BY DEF SyncInv
<1>2. LogStep
  BY <1>1, LogSteps
<1>3. SyncTypeOK'
  BY <1>1, SyncTypeHolds
<1>4. Numbered' /\ OneOrigin'
  BY <1>1, <1>2, NumberedHolds, OneOriginHolds
<1>5. Placed' /\ Warped' /\ Pulled'
  BY <1>1, PlacedHolds, WarpedHolds, PulledHolds
<1>6. \A s \in Sessions : Sourced(s)'
  BY <1>1, SourcedHolds
<1>7. \A x \in Remotes \cup Warps : Gapless(x)'
  BY <1>1, GaplessHolds
<1> QED  BY <1>3, <1>4, <1>5, <1>6, <1>7 DEF SyncInv

LEMMA SyncStutters == ASSUME SyncInv, UNCHANGED syncVars PROVE SyncInv'
<1>1. SyncTypeOK /\ Numbered /\ OneOrigin /\ Placed /\ Warped /\ Pulled
      /\ (\A s \in Sessions : Sourced(s)) /\ \A x \in Remotes \cup Warps : Gapless(x)
  BY DEF SyncInv
<1>2. log' = log /\ place' = place /\ owner' = owner /\ link' = link /\ pull' = pull /\ warp' = warp
  BY DEF syncVars
<1>3. SyncTypeOK' /\ Numbered' /\ OneOrigin' /\ Placed'
  BY <1>1, <1>2 DEF SyncTypeOK, Numbered, OneOrigin, Placed, Says, Held
<1>4. Grows
  BY <1>1, <1>2, LogGrows DEF LogStep
<1>5. Warped'
  BY <1>1, <1>2 DEF Warped, WarpFits, Held
<1>6. Pulled'
  BY <1>1, <1>2, <1>4, AllKept
<1>7. \A s \in Sessions : Sourced(s)'
  BY <1>1, <1>2, <1>4, SameKeep, SourcedStays
<1>8. \A s : Contested(s)' = Contested(s)
  BY <1>2 DEF Contested, Claims, Loose
<1>9. \A x \in Remotes \cup Warps : Gapless(x)'
  BY <1>1, <1>2, <1>8 DEF Gapless, Fenced, HomeLen
<1> QED  BY <1>3, <1>5, <1>6, <1>7, <1>9 DEF SyncInv

\* The inductive invariant of the workspaces, of which the theorems below are
\* consequences.
THEOREM SyncInductive == SyncSpec => []SyncInv
<1>1. SyncInit => SyncInv
  BY SyncInitHolds
<1>2. SyncInv /\ [SyncNext]_syncVars => SyncInv'
  BY SyncNextHolds, SyncStutters
<1> QED  BY <1>1, <1>2, PTL DEF SyncSpec

LEMMA InvOneSource == ASSUME SyncInv PROVE OneSource
<1>1. SyncTypeOK /\ Numbered /\ Warped /\ \A s \in Sessions : Sourced(s)
  BY DEF SyncInv
<1>2. ASSUME NEW s \in Sessions, ~Contested(s)
      PROVE  \E w \in Remotes : TailIn(log[Home][s], log[w][s])
  <2>1. log[Home][s] \in Seq(Events) /\ Home \in Nodes /\ (\A i \in DOMAIN log[Home][s] : log[Home][s][i].seq = i)
    BY <1>1, SyncFields DEF Numbered
  <2>2. CASE Claims(s) = {} /\ owner[s] = Nowhere
    <3>1. AllByHome(log[Home][s])
      BY <1>1, <2>2 DEF Sourced, Unclaimed
    <3>2. \A q : OthersIn(log[Home][s], q)
      BY <3>1 DEF AllByHome, OthersIn
    <3> QED  BY <2>1, <3>2, OthersTail, SyncAssumption
  <2>3. CASE Claims(s) = {} /\ owner[s] # Nowhere
    BY <1>1, <2>1, <2>3, OwnerIs, OthersTail DEF Sourced
  <2>4. ASSUME NEW m \in Claims(s) PROVE \E w \in Remotes : TailIn(log[Home][s], log[w][s])
    <3>1. Claimed(s, m) /\ (warp[m].from # Nowhere => warp[m].from \in Remotes)
          /\ (warp[m].to # Nowhere => warp[m].to \in Remotes)
      BY <1>1, <1>2, <2>4, ClaimsIs DEF Sourced
    <3>2. CASE warp[m].to # Nowhere
      BY <3>1, <3>2 DEF Claimed
    <3>3. CASE warp[m].to = Nowhere /\ warp[m].from # Nowhere
      BY <3>1, <3>3 DEF Claimed, Source
    <3>4. CASE warp[m].to = Nowhere /\ warp[m].from = Nowhere
      <4>1. TailIn(log[Home][s], <<>>)
        BY <3>1, <3>4 DEF Claimed, Source
      <4>2. \A e : ~In(<<>>, e)
        <5>1. DOMAIN <<>> = {}
          OBVIOUS
        <5> QED  BY <5>1 DEF In
      <4>3. \A q : TailIn(log[Home][s], q)
        BY <4>1, <4>2 DEF TailIn
      <4> QED  BY <4>3, SyncAssumption
    <3> QED  BY <3>2, <3>3, <3>4
  <2> QED  BY <2>2, <2>3, <2>4
<1>3. ASSUME NEW s \in Sessions, NEW w \in Remotes, TailIn(log[Home][s], log[w][s]),
             NEW i \in DOMAIN log[Home][s], \A j \in i .. HomeLen(s) : log[Home][s][j].by # Home
      PROVE  i \in DOMAIN log[w][s] /\ log[w][s][i] = log[Home][s][i]
  <2>1. In(log[w][s], log[Home][s][i])
    BY <1>3 DEF TailIn, HomeLen
  <2>2. log[Home][s][i].seq = i
    BY <1>1, <1>3, SyncFields DEF Numbered
  <2> QED  BY <2>1, <2>2 DEF In
<1> QED  BY <1>1, <1>2, <1>3 DEF OneSource

\* What home has received of a session since it last published anything of it
\* comes from one workspace, with none of that workspace's events missing, unless
\* the session is contested (replay's check of the owner, and the claim of a warp).
THEOREM OneSourceHolds == SyncSpec => []OneSource
BY SyncInductive, InvOneSource, PTL

\* When a warp that has claimed a session records the move at home, the new
\* workspace has all that home has received of it (sessionWarp: the claim comes
\* before the rows are read, and all of them are sent).
THEOREM NothingIsLeftBehind == SyncSpec => NothingLeftBehind
<1> DEFINE A == \A m \in Warps :
       warp[m].pc = "set" /\ log'[Home] # log[Home] /\ warp'[m].pc = "over" =>
         LET s == warp[m].sid
             w == warp[m].to IN
         warp[m].claimed /\ ~Contested(s) =>
           \A i \in DOMAIN log[Home][s] :
             log[Home][s][i].by # Home => i \in DOMAIN log[w][s] /\ log[w][s][i] = log[Home][s][i]
<1>1. SyncInv => A
  <2> SUFFICES ASSUME SyncInv, NEW m \in Warps, warp[m].pc = "set",
                      NEW s, s = warp[m].sid, NEW w, w = warp[m].to,
                      warp[m].claimed, ~Contested(s),
                      NEW i \in DOMAIN log[Home][s], log[Home][s][i].by # Home
               PROVE  i \in DOMAIN log[w][s] /\ log[w][s][i] = log[Home][s][i]
    OBVIOUS
  <2>1. SyncTypeOK /\ Numbered /\ s \in Sessions /\ Sourced(s) /\ m \in Claims(s)
    BY WarpFields DEF SyncInv, Claims
  <2>2. OthersIn(log[Home][s], log[w][s])
    BY <2>1 DEF Sourced, Sending
  <2>3. Home \in Nodes /\ log[Home][s] \in Seq(Events)
    BY <2>1, SyncFields
  <2>4. log[Home][s][i] \in Events /\ log[Home][s][i].seq = i /\ In(log[Home][s], log[Home][s][i])
    BY <2>1, <2>3 DEF Numbered, In
  <2>5. In(log[w][s], log[Home][s][i])
    BY <2>2, <2>4 DEF OthersIn
  <2> QED  BY <2>4, <2>5 DEF In
<1>2. SyncInv /\ [SyncNext]_syncVars => [A]_syncVars
  BY <1>1
<1> QED  BY <1>2, SyncInductive, PTL DEF SyncSpec, NothingLeftBehind

LEMMA InvHistoryFits == ASSUME SyncInv PROVE HistoryFits
<1>1. SyncTypeOK /\ Pulled /\ \A x \in Remotes \cup Warps : Gapless(x)
  BY DEF SyncInv
<1> SUFFICES ASSUME NEW x \in Remotes \cup Warps, pull[x].pc = "replaying", pull[x].batch # <<>>,
                    Dies(Head(pull[x].batch), pull[x].of)
             PROVE  Diverged(Head(pull[x].batch).sid, pull[x].of) \/ Contested(Head(pull[x].batch).sid)
  BY DEF HistoryFits
<1>2. PICK w \in Remotes : w = pull[x].of
  BY <1>1, PullFields
<1>3. PICK batch \in Seq(Events) : batch = pull[x].batch
  BY <1>1, PullFields
<1>4. PICK e \in Events : e = Head(batch) /\ e = batch[1] /\ 1 \in DOMAIN batch
  BY <1>3
<1>5. PICK s \in Sessions : s = e.sid
  BY EventFields
<1>6. In(log[w][s], e)
  BY <1>1, <1>2, <1>3, <1>4, <1>5 DEF Pulled, PullFits
<1>7. log[Home][s] \in Seq(Events) /\ HomeLen(s) \in Nat /\ e.seq \in Nat /\ e.seq >= 1
  BY <1>1, EventFields, SyncFields
<1>8. CASE e.seq <= HomeLen(s) /\ log[Home][s][e.seq] # e
  <2>1. e.seq \in DOMAIN log[Home][s] /\ e.seq \in DOMAIN log[w][s] /\ log[w][s][e.seq] = e
    BY <1>6, <1>7, <1>8 DEF In, HomeLen
  <2>2. Diverged(s, w)
    BY <1>8, <2>1 DEF Diverged
  <2> QED  BY <1>2, <1>3, <1>4, <1>5, <2>2
<1>9. CASE e.seq > HomeLen(s) + 1 /\ ~Fenced(s, w)
  <2>1. \/ Contested(s) \/ Fenced(s, w)
        \/ e.seq <= HomeLen(s) + 1
        \/ \E j \in 1 .. 1 - 1 : batch[j].sid = s
    BY <1>1, <1>2, <1>3, <1>4, <1>5 DEF Gapless
  <2> QED  BY <1>2, <1>3, <1>4, <1>5, <1>7, <1>9, <2>1
<1> QED  BY <1>2, <1>3, <1>4, <1>5, <1>8, <1>9 DEF Dies

\* What home asked for still fits when it is replayed: the next event of an
\* answer kills the loop or the warp that asked only over a session of which
\* home and the workspace hold different events, or a contested one.  An answer
\* leaves no gap, as it is in the order of the numbers and home only gains on
\* what it reported (syncHistory, replayAll).
THEOREM HistoriesFit == SyncSpec => []HistoryFits
BY SyncInductive, InvHistoryFits, PTL
=============================================================================
