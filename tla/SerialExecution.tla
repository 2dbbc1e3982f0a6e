-------------------------- MODULE SerialExecution --------------------------
(***************************************************************************)
(* What a run coordinator promises its callers, for every key by itself:   *)
(* executions of one key never overlap, work requested while the key is    *)
(* executing is picked up by one more execution, and the only thing that   *)
(* forgets requested work is an explicit stop.  How entries, fibers and    *)
(* deferreds achieve it is RunCoordinator's business.                      *)
(***************************************************************************)
CONSTANT Keys

VARIABLES phase,  \* phase[k]: "idle", "running" or "stopping"
          owed    \* owed[k]: requested work that no execution has begun on

vars == <<phase, owed>>

TypeOK == /\ phase \in [Keys -> {"idle", "running", "stopping"}]
          /\ owed  \in [Keys -> BOOLEAN]

Init == /\ phase = [k \in Keys |-> "idle"]
        /\ owed  = [k \in Keys |-> FALSE]

-----------------------------------------------------------------------------

\* New work for k; requests made before the next execution begins coalesce.
Request(k) == /\ owed' = [owed EXCEPT ![k] = TRUE]
              /\ UNCHANGED phase

\* An execution picks up everything owed at once; one more may still follow,
\* which a request made just before this step may cause.
Begin(k) == /\ phase[k] = "idle"
            /\ owed[k]
            /\ phase' = [phase EXCEPT ![k] = "running"]
            /\ \E spare \in BOOLEAN : owed' = [owed EXCEPT ![k] = spare]

\* An execution ends, however it ends, and keeps what was requested meanwhile.
End(k) == /\ phase[k] # "idle"
          /\ phase' = [phase EXCEPT ![k] = "idle"]
          /\ UNCHANGED owed

\* A stop withdraws what is owed, and what is running must wind down.
Stop(k) == /\ phase[k] # "idle" \/ owed[k]
           /\ phase' = [phase EXCEPT ![k] = "stopping"]
           /\ owed'  = [owed EXCEPT ![k] = FALSE]

Next == \E k \in Keys : Request(k) \/ Begin(k) \/ End(k) \/ Stop(k)

Safety == Init /\ [][Next]_vars

Spec == /\ Safety
        /\ \A k \in Keys : WF_vars(Begin(k)) /\ WF_vars(End(k))
=============================================================================
