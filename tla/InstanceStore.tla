--------------------------- MODULE InstanceStore ---------------------------
(***************************************************************************)
(* The cache of instances (InstanceStore) and the state that services keep *)
(* per directory (InstanceState).  An entry is created by a load of a      *)
(* directory that has none, or by a reload, which replaces the entry at    *)
(* once and lets its fiber wait for the one before, dispose of it and only *)
(* then boot.  A disposal waits for the entry, runs the disposers of its   *)
(* DIRECTORY, announces the end and removes the entry.                     *)
(*                                                                         *)
(* An entry stands for its context too: each boot makes one.  One service  *)
(* stands for all; it builds its state for whoever asks first.  A load of  *)
(* an entry that is there changes nothing and is not an action.  Boots may *)
(* fail, listeners of the announcement may throw, callers may be           *)
(* interrupted and the layer's scope may close.                            *)
(***************************************************************************)
EXTENDS Naturals

CONSTANTS Dirs,        \* directories
          MaxEntries,  \* bound on the entries made
          Calls,       \* calls of dispose and disposeDirectory
          None

\* Entries, and the contexts they are completed with, numbered as they are made.
Entries == 1..MaxEntries

ASSUME StoreAssumption ==
  /\ MaxEntries \in Nat
  /\ None \notin Dirs \cup Entries
  /\ Calls \cap Entries = {}

VARIABLES cache,    \* Map<directory, Entry>
          entry,    \* each entry: directory, deferred, fiber
          state,    \* the service's ScopedCache, by directory
          disposal, \* calls, and the items of disposeAll by their entries
          noticed,  \* instances whose disposal has been announced
          scope     \* of the layer

vars == <<cache, entry, state, disposal, noticed, scope>>

-----------------------------------------------------------------------------
(* Data *)

\* "await": a reload waits for prev; "disposing": it runs the disposers;
\* "dead": interrupted or failed before the boot.
EntryStates ==
  [dir: Dirs \cup {None}, value: {"pending", "ok", "failed"}, prev: Entries \cup {None},
   fiber: {"none", "await", "disposing", "boot", "done", "dead"}]

\* late: built for a context while it was disposed of, or after.
States == [by: Entries, late: BOOLEAN]

\* only: the context that dispose was called with.
Disposals ==
  [pc: {"idle"}] \cup [pc: {"await", "disposing"}, of: Entries, only: Entries \cup {None}]

TypeOK ==
  /\ cache \in [Dirs -> Entries \cup {None}]
  /\ entry \in [Entries -> EntryStates]
  /\ state \in [Dirs -> States \cup {None}]
  /\ disposal \in [Calls \cup Entries -> Disposals]
  /\ noticed \subseteq Entries
  /\ scope \in {"open", "closing", "closed"}

Idle == [pc |-> "idle"]

Init ==
  /\ cache = [d \in Dirs |-> None]
  /\ entry = [e \in Entries |-> [dir |-> None, value |-> "pending", prev |-> None, fiber |-> "none"]]
  /\ state = [d \in Dirs |-> None]
  /\ disposal = [x \in Calls \cup Entries |-> Idle]
  /\ noticed = {}
  /\ scope = "open"

Dir(e) == entry[e].dir
Fiber(e, pc) == entry' = [entry EXCEPT ![e].fiber = pc]
Settled(e) == entry[e].value # "pending"

\* cache after removeEntry
Removed(e) == [cache EXCEPT ![Dir(e)] = IF @ = e THEN None ELSE @]

\* Every disposer of the registry invalidates its service's state.
RunDisposers(d) == state' = [state EXCEPT ![d] = None]

-----------------------------------------------------------------------------
(* load, reload and the fibers they fork *)

\* The next entry, if there is one left.
Unused == {e \in Entries : entry[e].fiber = "none" /\ \A f \in 1..(e - 1) : entry[f].fiber # "none"}

Load(d) ==
  /\ scope = "open"
  /\ cache[d] = None
  /\ \E e \in Unused :
       /\ entry' = [entry EXCEPT ![e].dir = d, ![e].fiber = "boot"]
       /\ cache' = [cache EXCEPT ![d] = e]
  /\ UNCHANGED <<state, disposal, noticed, scope>>

Reload(d) ==
  /\ scope = "open"
  /\ \E e \in Unused :
       /\ entry' = [entry EXCEPT ![e] =
                      [@ EXCEPT !.dir = d, !.prev = cache[d],
                                !.fiber = IF cache[d] = None THEN "boot" ELSE "await"]]
       /\ cache' = [cache EXCEPT ![d] = e]
  /\ UNCHANGED <<state, disposal, noticed, scope>>

\* Mutant: the instance before is not waited for.
ReloadDisposesAtOnce(e) ==
  /\ entry[e].fiber = "await"
  /\ RunDisposers(Dir(e))
  /\ Fiber(e, "disposing")
  /\ UNCHANGED <<cache, disposal, noticed, scope>>

\* Mutant: the disposers are not run.
ReloadDisposesNothing(e) ==
  /\ entry[e].fiber = "await"
  /\ Settled(entry[e].prev)
  /\ Fiber(e, "disposing")
  /\ UNCHANGED <<cache, state, disposal, noticed, scope>>

ReloadDisposes(e) ==
  /\ entry[e].fiber = "await"
  /\ Settled(entry[e].prev)
  /\ RunDisposers(Dir(e))
  /\ Fiber(e, "disposing")
  /\ UNCHANGED <<cache, disposal, noticed, scope>>

\* The announcement: a listener that throws ends the fiber.
ReloadAnnounces(e) ==
  /\ entry[e].fiber = "disposing"
  /\ noticed' = noticed \cup {entry[e].prev}
  /\ Fiber(e, "boot") \/ Fiber(e, "dead")
  /\ UNCHANGED <<cache, state, disposal, scope>>

\* Mutant: a failed boot removes its entry and answers nobody.
BootEndsUnanswered(e) ==
  /\ entry[e].fiber = "boot"
  /\ \/ /\ scope = "open"
        /\ entry' = [entry EXCEPT ![e].fiber = "done", ![e].value = "ok"]
        /\ UNCHANGED cache
     \/ /\ Fiber(e, "done")
        /\ cache' = Removed(e)
  /\ UNCHANGED <<state, disposal, noticed, scope>>

\* completeLoad: on any exit of the boot the deferred is done, and on failure
\* the entry removed.
BootEnds(e) ==
  /\ entry[e].fiber = "boot"
  /\ \/ /\ scope = "open"
        /\ entry' = [entry EXCEPT ![e].fiber = "done", ![e].value = "ok"]
        /\ UNCHANGED cache
     \/ /\ entry' = [entry EXCEPT ![e].fiber = "done", ![e].value = "failed"]
        /\ cache' = Removed(e)
  /\ UNCHANGED <<state, disposal, noticed, scope>>

\* InstanceState.get, by the boot or by whoever has loaded the instance and
\* still holds its context.
BeingDisposed(e) ==
  \E x \in DOMAIN disposal : disposal[x].pc = "disposing" /\ disposal[x].of = e

GetState(e) ==
  /\ entry[e].fiber = "boot" \/ entry[e].value = "ok"
  /\ state[Dir(e)] = None
  /\ state' = [state EXCEPT ![Dir(e)] =
                 [by |-> e, late |-> cache[Dir(e)] # e \/ BeingDisposed(e)]]
  /\ UNCHANGED <<cache, entry, disposal, noticed, scope>>

-----------------------------------------------------------------------------
(* dispose, disposeDirectory and disposeAll *)

\* Of an instance that is no longer cached, dispose runs the disposers.
Dispose(c, e) ==
  /\ scope = "open"
  /\ disposal[c] = Idle
  /\ entry[e].value = "ok"
  /\ IF cache[Dir(e)] = None
     THEN /\ RunDisposers(Dir(e))
          /\ disposal' = [disposal EXCEPT ![c] = [pc |-> "disposing", of |-> e, only |-> e]]
     ELSE /\ disposal' = [disposal EXCEPT ![c] = [pc |-> "await", of |-> cache[Dir(e)], only |-> e]]
          /\ UNCHANGED state
  /\ UNCHANGED <<cache, entry, noticed, scope>>

DisposeDirectory(c, d) ==
  /\ scope = "open"
  /\ disposal[c] = Idle
  /\ cache[d] # None
  /\ disposal' = [disposal EXCEPT ![c] = [pc |-> "await", of |-> cache[d], only |-> None]]
  /\ UNCHANGED <<cache, entry, state, noticed, scope>>

\* One disposeAll at a time, which later callers join, with an item for every
\* entry; the last one is the layer's finalizer, after its fibers have ended.
DisposeAll ==
  /\ \A e \in Entries : disposal[e] = Idle
  /\ \/ scope = "open" /\ UNCHANGED scope
     \/ /\ scope = "closing"
        /\ \A e \in Entries : entry[e].fiber \in {"none", "done", "dead"}
        /\ scope' = "closed"
  /\ disposal' = [x \in DOMAIN disposal |->
                    IF x \in Entries /\ \E d \in Dirs : cache[d] = x
                    THEN [pc |-> "await", of |-> x, only |-> None]
                    ELSE disposal[x]]
  /\ UNCHANGED <<cache, entry, state, noticed>>

\* Mutant: the identity of the entry is not checked again after the wait.
StillOwnAlways(x) == TRUE

\* Another instance than the one asked for, or one that has been replaced, is
\* left alone.
StillOwn(x) ==
  LET e == disposal[x].of IN
  disposal[x].only \in {None, e} /\ cache[Dir(e)] = e

Awaited(x) ==
  LET e == disposal[x].of IN
  /\ disposal[x].pc = "await"
  /\ Settled(e)
  /\ IF entry[e].value = "ok" /\ StillOwn(x)
     THEN /\ RunDisposers(Dir(e))
          /\ disposal' = [disposal EXCEPT ![x].pc = "disposing"]
          /\ UNCHANGED cache
     ELSE /\ disposal' = [disposal EXCEPT ![x] = Idle]
          /\ cache' = IF entry[e].value = "failed" THEN Removed(e) ELSE cache
          /\ UNCHANGED state
  /\ UNCHANGED <<entry, noticed, scope>>

\* The disposers are done: the announcement, whose listeners may throw, and the
\* removal.
Disposed(x) ==
  LET e == disposal[x].of IN
  /\ disposal[x].pc = "disposing"
  /\ noticed' = noticed \cup {e}
  /\ cache' = Removed(e)
  /\ disposal' = [disposal EXCEPT ![x] = Idle]
  /\ UNCHANGED <<entry, state, scope>>

\* A call may be interrupted at its waits; the items of disposeAll may not.
CallInterrupted(c) ==
  /\ disposal[c] # Idle
  /\ disposal' = [disposal EXCEPT ![c] = Idle]
  /\ UNCHANGED <<cache, entry, state, noticed, scope>>

-----------------------------------------------------------------------------
(* The end of the layer's scope *)

Close ==
  /\ scope = "open"
  /\ scope' = "closing"
  /\ UNCHANGED <<cache, entry, state, disposal, noticed>>

\* Its fibers are interrupted; a boot's is one of its ends.
Stopped(e) ==
  /\ scope = "closing"
  /\ entry[e].fiber \in {"await", "disposing"}
  /\ Fiber(e, "dead")
  /\ UNCHANGED <<cache, state, disposal, noticed, scope>>

-----------------------------------------------------------------------------

Boots(e) == ReloadDisposes(e) \/ ReloadAnnounces(e) \/ BootEnds(e) \/ Stopped(e)
Disposes(x) == Awaited(x) \/ Disposed(x)

Next ==
  \/ \E d \in Dirs : Load(d) \/ Reload(d) \/ \E c \in Calls : DisposeDirectory(c, d)
  \/ \E e \in Entries : Boots(e) \/ GetState(e) \/ \E c \in Calls : Dispose(c, e)
  \/ \E x \in Calls \cup Entries : Disposes(x)
  \/ \E c \in Calls : CallInterrupted(c)
  \/ DisposeAll \/ Close

Spec == Init /\ [][Next]_vars

\* Boots and disposers end, and fibers run.
FairSpec == /\ Spec
            /\ \A e \in Entries : WF_vars(Boots(e))
            /\ \A x \in Calls \cup Entries : WF_vars(Disposes(x))

-----------------------------------------------------------------------------
(* Properties *)

\* The instances of a directory follow one another: while one boots no other
\* boots or is disposed of by its reload, and of two that have booted one has
\* been announced as disposed before the other is handed out.
OneAfterAnother ==
  \A e, f \in Entries : e # f /\ Dir(e) = Dir(f) /\ Dir(e) # None =>
    /\ entry[e].fiber = "boot" => entry[f].fiber \notin {"boot", "disposing"}
    /\ entry[e].value = "ok" /\ entry[f].value = "ok" => {e, f} \cap noticed # {}

\* A service's state does not outlive the instance it was built for: that one
\* is cached, or its reload has yet to dispose of it.  The exceptions are states
\* rebuilt by a request while its instance was disposed of or after, those of a
\* boot that failed, for which no disposers are run, and those left by a reload
\* that died.
StateIsCurrent ==
  \A d \in Dirs : state[d] # None /\ ~state[d].late =>
    LET b == state[d].by IN
    \/ cache[d] = b
    \/ entry[b].value = "failed"
    \/ \E e \in Entries : entry[e].prev = b /\ entry[e].fiber \in {"await", "dead"}

\* Only a disposal or a reload of that very instance takes a state from it,
\* although disposers know but the directory.
StateIsKept ==
  [][\A d \in Dirs : state[d] # None /\ ~state[d].late /\ state'[d] = None =>
       LET b == state[d].by IN
       \/ entry[b].value = "failed"
       \/ \E x \in Calls \cup Entries : disposal'[x].pc = "disposing" /\ disposal'[x].of = b
       \/ \E e \in Entries : entry[e].prev = b /\ entry'[e].fiber = "disposing"]_vars

\* A reload that died before its boot, whose deferred nobody will complete.
Lost(d) == \E e \in Entries : Dir(e) = d /\ entry[e].fiber = "dead"

\* Every load and reload is answered and every disposal returns, unless a reload
\* of the directory was lost.
EveryoneReturns ==
  /\ \A e \in Entries : Dir(e) # None ~> Settled(e) \/ Lost(Dir(e))
  /\ \A x \in Calls \cup Entries :
       disposal[x] # Idle ~> disposal[x] = Idle \/ Lost(Dir(disposal[x].of))
=============================================================================
