------------------------ MODULE BackgroundJobProofs ------------------------
(* Theorems about BackgroundJob for any ids, generations, callers and runs. *)
EXTENDS BackgroundJob, FiniteSetTheorems, TLAPS

(***************************************************************************)
(* The inductive invariant.  Consistent is not inductive by itself: that   *)
(* pending counts the unsettled runs needs to know which runs there are    *)
(* (Numbered) and that each of them is forked by one caller only           *)
(* (ForkedOnce).  Before stands behind OneRunAtATime, for runs that are    *)
(* over as well as for those that run.  Outputs says what `output` is      *)
(* while the job runs, and that a completed job has nothing left to        *)
(* settle.                                                                 *)
(***************************************************************************)
Numbered ==
  \A g \in Gens :
    /\ gen[g].next <= MaxRuns[g]
    /\ gen[g].status = "unused" <=> gen[g].next = 0
    /\ gen[g].status = "unused" => gen[g].output = NoOutput
    /\ \A n \in RunNumbers : run[g][n].pc = "none" <=> gen[g].next <= n
    /\ \A n \in RunNumbers : run[g][n].pc \in {"none", "claimed"} => run[g][n].exit = "none"

ForkedOnce ==
  \A c \in Callers : caller[c].pc = "fork" =>
    /\ run[caller[c].gen][caller[c].run].pc = "claimed"
    /\ \A d \in Callers : caller[d].pc = "fork" /\ caller[d].gen = caller[c].gen
                            /\ caller[d].run = caller[c].run => d = c

Before ==
  \A g \in Gens : gen[g].scope = "open" =>
    \A n \in RunNumbers : run[g][n].pc = "running" \/ TailResolved(g, n) =>
      \A m \in RunNumbers : m < n => TailResolved(g, m)

\* A run that has settled: it has been counted into the output of its job.
Counted(g, n) == run[g][n].pc \in {"resolve", "gone"} /\ run[g][n].exit = "text"

Outputs ==
  \A g \in Gens :
    /\ \A n \in RunNumbers : run[g][n].exit = "text" => TailResolved(g, n)
    /\ gen[g].output # NoOutput => Counted(g, gen[g].output)
    /\ gen[g].status \in {"running", "completed"} =>
         \A n \in RunNumbers : Counted(g, n) => n <= gen[g].output
    /\ gen[g].status = "completed" => Unsettled(g) = {}

IInv == Consistent /\ Numbered /\ ForkedOnce /\ Before /\ Outputs
-----------------------------------------------------------------------------
(* What the records hold, and what a change of one run leaves alone *)

LEMMA Fields ==
  ASSUME TypeOK
  PROVE  /\ \A g \in Gens :
              /\ gen[g] \in GenStates
              /\ gen[g].id \in Ids /\ gen[g].status \in {"unused", "running"} \cup Ends
              /\ gen[g].pending \in Nat /\ gen[g].next \in Nat
              /\ gen[g].output \in RunNumbers \cup {NoOutput}
              /\ gen[g].done \in BOOLEAN /\ gen[g].background \in BOOLEAN
              /\ gen[g].scope \in {"open", "closing", "closed"}
         /\ \A g \in Gens : \A n \in RunNumbers :
              /\ run[g][n] \in RunStates
              /\ run[g][n].exit \in Exits \cup {"none"}
         /\ \A c \in Callers :
              /\ caller[c].pc # "idle" => caller[c].gen \in Gens
              /\ caller[c].pc = "fork" => caller[c].run \in RunNumbers
BY DEF TypeOK, GenStates, RunStates, CallerStates

LEMMA Numbers == /\ 0 \in RunNumbers \/ Gens = {}
                 /\ RunNumbers \subseteq Nat
                 /\ \A g \in Gens : \A n \in Nat : n < MaxRuns[g] => n \in RunNumbers
BY JobAssumption DEF RunNumbers

LEMMA EndedRecord ==
  ASSUME NEW r \in GenStates, NEW s \in {"unused", "running"} \cup Ends,
         NEW o \in RunNumbers \cup {NoOutput}
  PROVE  [r EXCEPT !.status = s, !.pending = 0, !.output = o] \in GenStates
BY DEF GenStates

LEMMA FieldOf == \A g \in Gens : \A n \in RunNumbers : \A r \in RunStates :
                   TypeOK => [run EXCEPT ![g][n] = r] \in [Gens -> [RunNumbers -> RunStates]]
BY DEF TypeOK

\* A job has finitely many runs.
LEMMA UnsettledFinite ==
  ASSUME TypeOK, Numbered, NEW g \in Gens
  PROVE  IsFiniteSet(Unsettled(g)) /\ Cardinality(Unsettled(g)) \in Nat
<1> DEFINE last == gen[g].next - 1
<1>1. last \in Int
  BY Fields
<1>2. Unsettled(g) \subseteq 0 .. last
  <2> SUFFICES ASSUME NEW n \in Unsettled(g)
               PROVE  n \in 0 .. last
    OBVIOUS
  <2>1. n \in RunNumbers /\ run[g][n].pc # "none"
    BY DEF Unsettled
  <2>2. ~(gen[g].next <= n) /\ n \in Nat /\ gen[g].next \in Nat
    BY <2>1, Numbers, Fields DEF Numbered
  <2> QED BY <2>2
<1>3. IsFiniteSet(0 .. last)
  <2> HIDE DEF last
  <2> QED BY <1>1, FS_Interval
<1> QED BY <1>2, <1>3, FS_Subset, FS_CardinalityType

\* A run that goes on from one unsettled state to the next.
RunMoves(g, n, r) ==
  /\ run' = [run EXCEPT ![g][n] = r]
  /\ UNCHANGED <<current, gen>>
  /\ run[g][n].pc \in {"claimed", "waiting", "running"}
  /\ r \in RunStates
  /\ r.pc \in {"waiting", "running", "ended"}
  /\ r.exit = "text" => r.pc = "ended"
  /\ gen[g].scope = "open" /\ r.pc \in {"running", "ended"} =>
       \A m \in RunNumbers : m < n => TailResolved(g, m)
  /\ caller' \in [Callers -> CallerStates]
  /\ \A c \in Callers : caller[c].pc = "cancelled" \/ caller'[c].pc \in {"fork", "cancelled"}
                           => caller'[c] = caller[c]
  /\ \A c \in Callers : caller'[c].pc = "fork" => ~(caller'[c].gen = g /\ caller'[c].run = n)

LEMMA RunMovesInv ==
  ASSUME IInv, NEW g \in Gens, NEW n \in RunNumbers, NEW r, RunMoves(g, n, r)
  PROVE  IInv'
<1>0. /\ TypeOK /\ PendingExact /\ RunningIsCurrent /\ EndIsAnnounced
      /\ Numbered /\ ForkedOnce /\ Before /\ Outputs
  BY DEF IInv, Consistent
<1> USE <1>0 DEF RunMoves
<1>1. TypeOK'
  BY FieldOf DEF TypeOK
<1>2. /\ run'[g][n] = r
      /\ \A h \in Gens : \A m \in RunNumbers : h # g \/ m # n => run'[h][m] = run[h][m]
      /\ run[g][n].pc # "none"
  BY DEF TypeOK
<1>3. \A h \in Gens : Unsettled(h)' = Unsettled(h)
  BY <1>2 DEF Unsettled
<1>4. PendingExact'
  BY <1>3 DEF PendingExact
<1>5. RunningIsCurrent'
  BY DEF RunningIsCurrent
<1>6. EndIsAnnounced'
  BY <1>2 DEF EndIsAnnounced
<1>7. Numbered'
  BY <1>2, Numbers, Fields DEF Numbered
<1>8. ForkedOnce'
  BY <1>2, Fields DEF ForkedOnce
<1>9. Before'
  <2> SUFFICES ASSUME NEW h \in Gens, gen'[h].scope = "open", NEW k \in RunNumbers,
                      (run[h][k].pc = "running" \/ TailResolved(h, k))',
                      NEW m \in RunNumbers, m < k
               PROVE  TailResolved(h, m)'
    BY DEF Before
  <2>1. TailResolved(h, m)
    BY <1>2 DEF Before, TailResolved
  <2> QED BY <1>2, <2>1 DEF TailResolved
<1>10. Outputs'
  <2>1. \A h \in Gens : \A m \in RunNumbers : Counted(h, m)' <=> Counted(h, m)
    BY <1>2 DEF Counted
  <2> QED BY <1>2, <1>3, <2>1, Fields DEF Outputs, TailResolved
<1> QED BY <1>1, <1>4, <1>5, <1>6, <1>7, <1>8, <1>9, <1>10 DEF IInv, Consistent

\* A caller that goes on by itself, neither about to fork nor about to announce.
CallerMoves ==
  /\ UNCHANGED <<current, gen, run>>
  /\ caller' \in [Callers -> CallerStates]
  /\ \A c \in Callers : caller[c].pc = "cancelled" \/ caller'[c].pc \in {"fork", "cancelled"}
                           => caller'[c] = caller[c]

LEMMA CallerMovesInv ==
  ASSUME IInv, CallerMoves
  PROVE  IInv'
<1>0. /\ TypeOK /\ PendingExact /\ RunningIsCurrent /\ EndIsAnnounced
      /\ Numbered /\ ForkedOnce /\ Before /\ Outputs
  BY DEF IInv, Consistent
<1> USE <1>0 DEF CallerMoves
<1>1. TypeOK'
  BY DEF TypeOK
<1>2. \A g \in Gens : Unsettled(g)' = Unsettled(g)
  BY DEF Unsettled
<1>3. PendingExact'
  BY <1>2 DEF PendingExact
<1>4. RunningIsCurrent' /\ EndIsAnnounced' /\ Numbered' /\ ForkedOnce'
  BY DEF RunningIsCurrent, EndIsAnnounced, Numbered, ForkedOnce
<1>5. Before' /\ Outputs'
  BY <1>2 DEF Before, Outputs, TailResolved, Counted
<1> QED BY <1>1, <1>3, <1>4, <1>5 DEF IInv, Consistent

\* A record whose runs and output stay: it ends as cancelled, is announced, its
\* scope closes, or it goes to the background.
RecordMoves(g, r) ==
  /\ gen' = [gen EXCEPT ![g] = r]
  /\ UNCHANGED <<current, run>>
  /\ r \in GenStates
  /\ r.id = gen[g].id /\ r.next = gen[g].next /\ r.output = gen[g].output
  /\ \/ r.status = gen[g].status /\ r.pending = gen[g].pending
     \/ /\ r.status = "cancelled" /\ gen[g].status = "running"
        /\ \E c \in Callers : caller'[c].pc = "cancelled" /\ caller'[c].gen = g
  /\ r.scope = "open" => gen[g].scope = "open"
  /\ gen[g].done => r.done
  /\ caller' \in [Callers -> CallerStates]
  /\ \A c \in Callers :
       /\ caller[c].pc = "fork" \/ caller'[c].pc = "fork" => caller'[c] = caller[c]
       /\ caller[c].pc = "cancelled" /\ caller'[c] # caller[c] => caller[c].gen = g /\ r.done

LEMMA RecordMovesInv ==
  ASSUME IInv, NEW g \in Gens, NEW r, RecordMoves(g, r)
  PROVE  IInv'
<1>0. /\ TypeOK /\ PendingExact /\ RunningIsCurrent /\ EndIsAnnounced
      /\ Numbered /\ ForkedOnce /\ Before /\ Outputs
  BY DEF IInv, Consistent
<1> USE <1>0 DEF RecordMoves
<1>1. TypeOK'
  BY DEF TypeOK
<1>2. gen'[g] = r /\ \A h \in Gens : h # g => gen'[h] = gen[h]
  BY DEF TypeOK
<1>3. \A h \in Gens : Unsettled(h)' = Unsettled(h)
  BY DEF Unsettled
<1>4. PendingExact'
  BY <1>2, <1>3 DEF PendingExact
<1>5. RunningIsCurrent'
  BY <1>2 DEF RunningIsCurrent
<1>6. EndIsAnnounced'
  <2> SUFFICES ASSUME NEW h \in Gens, gen'[h].status \in Ends, ~gen'[h].done
               PROVE  \/ \E n \in RunNumbers : run[h][n].pc = "resolve"
                      \/ \E c \in Callers : caller'[c].pc = "cancelled" /\ caller'[c].gen = h
    BY DEF EndIsAnnounced
  <2>1. CASE gen[h].status \in Ends
    BY <1>2, <2>1, Fields DEF EndIsAnnounced
  <2>2. CASE gen[h].status \notin Ends
    BY <1>2, <2>2
  <2> QED BY <2>1, <2>2
<1>7. Numbered'
  BY <1>2, Fields DEF Numbered, Ends
<1>8. ForkedOnce'
  BY DEF ForkedOnce
<1>9. Before'
  BY <1>2 DEF Before, TailResolved
<1>10. Outputs'
  BY <1>2, <1>3 DEF Outputs, TailResolved, Counted
<1> QED BY <1>1, <1>4, <1>5, <1>6, <1>7, <1>8, <1>9, <1>10 DEF IInv, Consistent
-----------------------------------------------------------------------------
(* The actions *)

LEMMA StartInv ==
  ASSUME IInv, NEW c \in Callers, NEW i \in Ids, Start(c, i)
  PROVE  IInv'
<1>0. /\ TypeOK /\ PendingExact /\ RunningIsCurrent /\ EndIsAnnounced
      /\ Numbered /\ ForkedOnce /\ Before /\ Outputs
  BY DEF IInv, Consistent
<1> USE <1>0
<1>1. PICK g \in Gens, background \in BOOLEAN :
        /\ gen[g].status = "unused"
        /\ gen' = [gen EXCEPT ![g] = [@ EXCEPT !.id = i, !.status = "running", !.pending = 1,
                                               !.next = 1, !.background = background]]
        /\ current' = [current EXCEPT ![i] = g]
        /\ run' = [run EXCEPT ![g][0].pc = "claimed"]
        /\ caller' = [caller EXCEPT ![c] = [pc |-> "fork", gen |-> g, run |-> 0]]
        /\ caller[c].pc = "idle"
  BY DEF Start, Goes, Free
<1>2. 0 \in RunNumbers /\ MaxRuns[g] \in Nat /\ MaxRuns[g] >= 1
  BY Numbers, JobAssumption
<1>3. gen[g].next = 0 /\ \A n \in RunNumbers : run[g][n].pc = "none" /\ run[g][n].exit = "none"
  BY <1>1, Numbers, Fields DEF Numbered
<1>4. /\ gen'[g] \in GenStates
      /\ gen'[g].id = i /\ gen'[g].status = "running" /\ gen'[g].pending = 1 /\ gen'[g].next = 1
      /\ gen'[g].output = gen[g].output /\ gen'[g].scope = gen[g].scope
      /\ \A h \in Gens : h # g => gen'[h] = gen[h]
  BY <1>1 DEF TypeOK, GenStates
<1>5. /\ run'[g][0] = [pc |-> "claimed", exit |-> "none"]
      /\ \A h \in Gens : \A n \in RunNumbers : h # g \/ n # 0 => run'[h][n] = run[h][n]
  BY <1>1, <1>2, <1>3 DEF TypeOK, RunStates
<1>6. /\ caller'[c] = [pc |-> "fork", gen |-> g, run |-> 0]
      /\ \A d \in Callers : d # c => caller'[d] = caller[d]
  BY <1>1 DEF TypeOK
<1>7. current'[i] = g /\ \A j \in Ids : j # i => current'[j] = current[j]
  BY <1>1 DEF TypeOK
<1>8. TypeOK'
  <2>1. gen' \in [Gens -> GenStates]
    BY <1>1, <1>4 DEF TypeOK
  <2>2. run' \in [Gens -> [RunNumbers -> RunStates]]
    <3>1. [run[g][0] EXCEPT !.pc = "claimed"] \in RunStates
      BY <1>2, Fields DEF RunStates
    <3> QED BY <1>1, <1>2, <3>1, FieldOf
  <2>3. caller' \in [Callers -> CallerStates]
    BY <1>1, <1>2 DEF TypeOK, CallerStates
  <2> QED BY <1>1, <2>1, <2>2, <2>3 DEF TypeOK
<1>9. PendingExact'
  <2>1. Unsettled(g)' = {0}
    BY <1>2, <1>3, <1>5 DEF Unsettled
  <2>2. \A h \in Gens : h # g => Unsettled(h)' = Unsettled(h)
    BY <1>5 DEF Unsettled
  <2>3. Cardinality({0}) = 1
    BY FS_Singleton
  <2> QED BY <1>4, <2>1, <2>2, <2>3 DEF PendingExact
<1>10. RunningIsCurrent'
  <2> SUFFICES ASSUME NEW h \in Gens, gen'[h].status = "running"
               PROVE  current'[gen'[h].id] = h
    BY DEF RunningIsCurrent
  <2>1. CASE h # g
    <3>1. gen[h].status = "running" /\ gen[h].id \in Ids /\ current[gen[h].id] = h /\ gen'[h] = gen[h]
      BY <1>4, <2>1, Fields DEF RunningIsCurrent
    <3>2. gen[h].id # i
      BY <3>1, JobAssumption DEF Start, MayStart, Running
    <3> QED BY <1>7, <3>1, <3>2
  <2> QED BY <1>4, <1>7, <2>1
<1>11. EndIsAnnounced'
  BY <1>3, <1>4, <1>5, <1>6, <1>1 DEF EndIsAnnounced, Ends
<1>12. Numbered'
  <2> SUFFICES ASSUME NEW h \in Gens
               PROVE  /\ gen'[h].next <= MaxRuns[h]
                      /\ gen'[h].status = "unused" <=> gen'[h].next = 0
                      /\ gen'[h].status = "unused" => gen'[h].output = NoOutput
                      /\ \A n \in RunNumbers : run'[h][n].pc = "none" <=> gen'[h].next <= n
                      /\ \A n \in RunNumbers : run'[h][n].pc \in {"none", "claimed"} => run'[h][n].exit = "none"
    BY DEF Numbered
  <2>1. CASE h # g
    BY <1>4, <1>5, <2>1 DEF Numbered
  <2>2. CASE h = g
    BY <1>2, <1>3, <1>4, <1>5, <2>2, Numbers
  <2> QED BY <2>1, <2>2
<1>13. ForkedOnce'
  <2>1. \A d \in Callers : caller[d].pc = "fork" => ~(caller[d].gen = g /\ caller[d].run = 0)
    BY <1>2, <1>3 DEF ForkedOnce
  <2> QED BY <1>2, <1>5, <1>6, <2>1, Fields DEF ForkedOnce
<1>14. Before'
  BY <1>3, <1>4, <1>5 DEF Before, TailResolved
<1>15. Outputs'
  <2>1. \A h \in Gens : \A n \in RunNumbers : Counted(h, n)' <=> Counted(h, n)
    BY <1>2, <1>3, <1>5 DEF Counted
  <2>2. \A h \in Gens : h # g => Unsettled(h)' = Unsettled(h)
    BY <1>5 DEF Unsettled
  <2>3. gen[g].output = NoOutput /\ \A n \in RunNumbers : ~Counted(g, n)
    BY <1>1, <1>3 DEF Numbered, Counted
  <2>4. \A h \in Gens : \A n \in RunNumbers : run'[h][n].exit = "text" => TailResolved(h, n)'
    BY <1>3, <1>5 DEF Outputs, TailResolved
  <2>5. \A h \in Gens : gen'[h].output = gen[h].output
    BY <1>4
  <2>6. \A h \in Gens : gen[h].output # NoOutput => gen[h].output \in RunNumbers
    BY Fields
  <2> QED BY <1>4, <2>1, <2>2, <2>3, <2>4, <2>5, <2>6 DEF Outputs
<1> QED BY <1>8, <1>9, <1>10, <1>11, <1>12, <1>13, <1>14, <1>15 DEF IInv, Consistent

LEMMA ExtendInv ==
  ASSUME IInv, NEW c \in Callers, NEW i \in Ids, Extend(c, i)
  PROVE  IInv'
<1>0. /\ TypeOK /\ PendingExact /\ RunningIsCurrent /\ EndIsAnnounced
      /\ Numbered /\ ForkedOnce /\ Before /\ Outputs
  BY DEF IInv, Consistent
<1> USE <1>0
<1>1. PICK g \in Gens : g = current[i] /\ gen[g].status = "running" /\ caller[c].pc = "idle"
  BY DEF Extend, Running, Free, TypeOK
<1>2. PICK n \in Nat : n = gen[g].next /\ n < MaxRuns[g] /\ n \in RunNumbers
  BY <1>1, Numbers, Fields DEF Extend
<1>3. /\ gen' = [gen EXCEPT ![g].pending = @ + 1, ![g].next = n + 1]
      /\ run' = [run EXCEPT ![g][n].pc = "claimed"]
      /\ caller' = [caller EXCEPT ![c] = [pc |-> "fork", gen |-> g, run |-> n]]
      /\ UNCHANGED current
  BY <1>1, <1>2 DEF Extend, Goes
<1>4. n = gen[g].next
  BY <1>2
<1>5. run[g][n].pc = "none" /\ run[g][n].exit = "none"
  BY <1>1, <1>2, <1>4 DEF Numbered
<1>6. /\ gen'[g] \in GenStates
      /\ gen'[g].id = gen[g].id /\ gen'[g].status = "running"
      /\ gen'[g].pending = gen[g].pending + 1 /\ gen'[g].next = n + 1
      /\ gen'[g].output = gen[g].output /\ gen'[g].scope = gen[g].scope
      /\ \A h \in Gens : h # g => gen'[h] = gen[h]
  <2>1. /\ gen'[g] = [gen[g] EXCEPT !.pending = @ + 1, !.next = n + 1]
        /\ \A h \in Gens : h # g => gen'[h] = gen[h]
    BY <1>3 DEF TypeOK
  <2>2. gen[g] \in GenStates
    BY Fields
  <2>3. gen'[g] \in GenStates
    <3>1. gen[g].pending + 1 \in Nat /\ n + 1 \in Nat
      BY <1>2, Fields
    <3>2. gen'[g] = [gen[g] EXCEPT !.pending = gen[g].pending + 1, !.next = n + 1]
      BY <2>1, <2>2 DEF GenStates
    <3> QED BY <2>2, <3>1, <3>2 DEF GenStates
  <2> QED BY <1>1, <2>1, <2>2, <2>3 DEF GenStates
<1>7. /\ run'[g][n] = [pc |-> "claimed", exit |-> "none"]
      /\ \A h \in Gens : \A m \in RunNumbers : h # g \/ m # n => run'[h][m] = run[h][m]
  <2>1. /\ run'[g][n] = [run[g][n] EXCEPT !.pc = "claimed"]
        /\ \A h \in Gens : \A m \in RunNumbers : h # g \/ m # n => run'[h][m] = run[h][m]
    BY <1>2, <1>3 DEF TypeOK
  <2>2. run[g][n] \in RunStates
    BY <1>2, Fields
  <2> QED BY <1>5, <2>1, <2>2 DEF RunStates
<1>8. /\ caller'[c] = [pc |-> "fork", gen |-> g, run |-> n]
      /\ \A d \in Callers : d # c => caller'[d] = caller[d]
  BY <1>3 DEF TypeOK
<1>9. TypeOK'
  <2>1. gen' \in [Gens -> GenStates]
    BY <1>3, <1>6 DEF TypeOK
  <2>2. run' \in [Gens -> [RunNumbers -> RunStates]]
    <3>1. [run[g][n] EXCEPT !.pc = "claimed"] \in RunStates
      BY <1>1, <1>2, Fields DEF RunStates
    <3> QED BY <1>1, <1>2, <1>3, <3>1, FieldOf
  <2>3. caller' \in [Callers -> CallerStates]
    BY <1>1, <1>2, <1>3 DEF TypeOK, CallerStates
  <2> QED BY <1>3, <2>1, <2>2, <2>3 DEF TypeOK
<1>10. PendingExact'
  <2>1. Unsettled(g)' = Unsettled(g) \cup {n} /\ n \notin Unsettled(g)
    <3>1. \A m : m \in Unsettled(g)' <=> m \in Unsettled(g) \/ m = n
      <4>1. \A m \in RunNumbers : m # n => run'[g][m].pc = run[g][m].pc
        BY <1>1, <1>7
      <4>2. run'[g][n].pc = "claimed"
        BY <1>7
      <4> QED BY <1>2, <4>1, <4>2 DEF Unsettled
    <3>2. n \notin Unsettled(g)
      BY <1>5 DEF Unsettled
    <3> HIDE DEF Unsettled
    <3> QED BY <3>1, <3>2
  <2>2. Cardinality(Unsettled(g) \cup {n}) = Cardinality(Unsettled(g)) + 1
    BY <1>1, <2>1, UnsettledFinite, FS_AddElement
  <2>3. \A h \in Gens : h # g => Unsettled(h)' = Unsettled(h)
    BY <1>7 DEF Unsettled
  <2>4. gen[g].pending \in Nat
    BY <1>1, Fields
  <2>5. gen'[g].pending = Cardinality(Unsettled(g)') /\ gen'[g].pending > 0
    BY <1>1, <1>6, <2>1, <2>2, <2>4 DEF PendingExact
  <2> HIDE DEF Unsettled
  <2> QED BY <1>6, <2>3, <2>5 DEF PendingExact
<1>11. RunningIsCurrent'
  <2>1. current' = current
    BY <1>3
  <2>2. \A h \in Gens : gen'[h].id = gen[h].id /\ (gen'[h].status = "running" => gen[h].status = "running")
    BY <1>1, <1>6
  <2> QED  BY <2>1, <2>2 DEF RunningIsCurrent
<1>12. EndIsAnnounced'
  <2> SUFFICES ASSUME NEW h \in Gens, gen'[h].status \in Ends, ~gen'[h].done
               PROVE  \/ \E m \in RunNumbers : run'[h][m].pc = "resolve"
                      \/ \E d \in Callers : caller'[d].pc = "cancelled" /\ caller'[d].gen = h
    BY DEF EndIsAnnounced
  <2>1. h # g /\ gen'[h] = gen[h]
    BY <1>6 DEF Ends
  <2>2. CASE \E m \in RunNumbers : run[h][m].pc = "resolve"
    BY <1>7, <2>1, <2>2
  <2>3. CASE \E d \in Callers : caller[d].pc = "cancelled" /\ caller[d].gen = h
    BY <1>1, <1>8, <2>3
  <2> QED BY <2>1, <2>2, <2>3 DEF EndIsAnnounced
<1>13. Numbered'
  <2> SUFFICES ASSUME NEW h \in Gens
               PROVE  /\ gen'[h].next <= MaxRuns[h]
                      /\ gen'[h].status = "unused" <=> gen'[h].next = 0
                      /\ gen'[h].status = "unused" => gen'[h].output = NoOutput
                      /\ \A m \in RunNumbers : run'[h][m].pc = "none" <=> gen'[h].next <= m
                      /\ \A m \in RunNumbers : run'[h][m].pc \in {"none", "claimed"} => run'[h][m].exit = "none"
    BY DEF Numbered
  <2>1. CASE h # g
    BY <1>6, <1>7, <2>1 DEF Numbered
  <2>2. CASE h = g
    <3>1. gen'[g].next <= MaxRuns[g] /\ gen'[g].next # 0
      BY <1>1, <1>2, <1>6, JobAssumption
    <3>2. \A m \in RunNumbers : run'[g][m].pc = "none" <=> n + 1 <= m
      BY <1>1, <1>2, <1>4, <1>7, Numbers DEF Numbered
    <3>3. \A m \in RunNumbers : run'[g][m].pc \in {"none", "claimed"} => run'[g][m].exit = "none"
      BY <1>1, <1>7 DEF Numbered
    <3> QED BY <1>6, <2>2, <3>1, <3>2, <3>3
  <2> QED BY <2>1, <2>2
<1>14. ForkedOnce'
  <2>1. \A d \in Callers : caller[d].pc = "fork" => ~(caller[d].gen = g /\ caller[d].run = n)
    BY <1>2, <1>5 DEF ForkedOnce
  <2> QED BY <1>2, <1>7, <1>8, <2>1, Fields DEF ForkedOnce
<1>15. Before'
  <2> SUFFICES ASSUME NEW h \in Gens, gen'[h].scope = "open", NEW k \in RunNumbers,
                      (run[h][k].pc = "running" \/ TailResolved(h, k))',
                      NEW m \in RunNumbers, m < k
               PROVE  TailResolved(h, m)'
    BY DEF Before
  <2>1. gen[h].scope = "open" /\ ~(h = g /\ k = n)
    BY <1>6, <1>7 DEF TailResolved
  <2>2. TailResolved(h, m)
    BY <1>7, <2>1 DEF Before, TailResolved
  <2> QED BY <1>5, <1>7, <2>2 DEF TailResolved
<1>16. Outputs'
  <2>1. \A h \in Gens : \A m \in RunNumbers : Counted(h, m)' <=> Counted(h, m)
    BY <1>2, <1>5, <1>7 DEF Counted
  <2>2. \A h \in Gens : h # g => Unsettled(h)' = Unsettled(h)
    BY <1>7 DEF Unsettled
  <2>3. \A h \in Gens : \A m \in RunNumbers : run'[h][m].exit = "text" => TailResolved(h, m)'
    BY <1>5, <1>7 DEF Outputs, TailResolved
  <2>4. \A h \in Gens : gen'[h].output = gen[h].output
                         /\ (gen'[h].status = gen[h].status)
    BY <1>1, <1>6
  <2>5. \A h \in Gens : gen[h].output # NoOutput => gen[h].output \in RunNumbers
    BY Fields
  <2> QED BY <1>1, <2>1, <2>2, <2>3, <2>4, <2>5 DEF Outputs
<1> QED BY <1>9, <1>10, <1>11, <1>12, <1>13, <1>14, <1>15, <1>16 DEF IInv, Consistent

LEMMA ForkInv ==
  ASSUME IInv, NEW c \in Callers, Fork(c)
  PROVE  IInv'
<1> DEFINE g == caller[c].gen
           n == caller[c].run
           r == CASE gen[g].scope # "open" -> [pc |-> "ended", exit |-> "interrupt"]
                  [] n = 0                 -> [pc |-> "running", exit |-> "none"]
                  [] OTHER                 -> [pc |-> "waiting", exit |-> "none"]
<1>0. /\ TypeOK /\ PendingExact /\ RunningIsCurrent /\ EndIsAnnounced
      /\ Numbered /\ ForkedOnce /\ Before /\ Outputs
  BY DEF IInv, Consistent
<1> USE <1>0
<1>1. g \in Gens /\ n \in RunNumbers /\ caller[c].pc = "fork"
  BY Fields DEF Fork
<1>2. run[g][n].pc = "claimed"
  BY <1>1 DEF ForkedOnce
<1>3. run' = [run EXCEPT ![g][n] = r] /\ UNCHANGED <<current, gen>>
  BY DEF Fork
<1>4. r \in RunStates /\ r.pc \in {"waiting", "running", "ended"} /\ r.exit # "text"
  BY DEF RunStates, Exits
<1>5. /\ caller' \in [Callers -> CallerStates]
      /\ caller'[c].pc = "idle" /\ \A d \in Callers : d # c => caller'[d] = caller[d]
  BY DEF Fork, Idles, Goes, TypeOK, CallerStates
<1>6. \A d \in Callers : caller'[d].pc = "fork" => ~(caller'[d].gen = g /\ caller'[d].run = n)
  BY <1>1, <1>5 DEF ForkedOnce
<1>7. gen[g].scope = "open" /\ r.pc \in {"running", "ended"} => n = 0
  OBVIOUS
<1>8. \A m \in RunNumbers : ~(m < 0)
  BY Numbers
<1>9. RunMoves(g, n, r)
  <2> HIDE DEF g, n, r
  <2> QED BY <1>1, <1>2, <1>3, <1>4, <1>5, <1>6, <1>7, <1>8 DEF RunMoves
<1> HIDE DEF g, n, r
<1> QED BY <1>1, <1>9, RunMovesInv

LEMMA BeginsInv ==
  ASSUME IInv, NEW g \in Gens, NEW n \in RunNumbers, Begins(g, n)
  PROVE  IInv'
<1> DEFINE r == [run[g][n] EXCEPT !.pc = "running"]
<1>0. /\ TypeOK /\ PendingExact /\ RunningIsCurrent /\ EndIsAnnounced
      /\ Numbered /\ ForkedOnce /\ Before /\ Outputs
  BY DEF IInv, Consistent
<1> USE <1>0
<1>1. /\ run' = [run EXCEPT ![g][n] = r] /\ UNCHANGED <<current, gen, caller>>
      /\ run[g][n].pc = "waiting" /\ TailResolved(g, n - 1)
  BY DEF Begins
<1>2. r \in RunStates /\ r.pc = "running" /\ r.exit = run[g][n].exit
  BY Fields DEF RunStates
<1>3. r.exit # "text"
  BY <1>1, <1>2 DEF Outputs, TailResolved
<1>4. ASSUME gen[g].scope = "open", NEW m \in RunNumbers, m < n
      PROVE  TailResolved(g, m)
  <2>1. m \in Nat /\ n \in Nat /\ gen[g].next \in Nat /\ gen[g].next <= MaxRuns[g] /\ MaxRuns[g] \in Nat
    BY Numbers, Fields, JobAssumption DEF Numbered
  <2>2. n < gen[g].next
    BY <1>1, <2>1 DEF Numbered
  <2>3. n - 1 \in RunNumbers
    BY <1>4, <2>1, <2>2, Numbers
  <2>4. m = n - 1 \/ m < n - 1
    BY <1>4, <2>1
  <2> QED BY <1>1, <1>4, <2>3, <2>4 DEF Before
<1>5. \A c \in Callers : caller[c].pc = "fork" => ~(caller[c].gen = g /\ caller[c].run = n)
  BY <1>1 DEF ForkedOnce
<1>6. caller' \in [Callers -> CallerStates]
  BY <1>1 DEF TypeOK
<1>7. RunMoves(g, n, r)
  <2> HIDE DEF r
  <2> QED BY <1>1, <1>2, <1>3, <1>4, <1>5, <1>6 DEF RunMoves
<1> HIDE DEF r
<1> QED BY <1>7, RunMovesInv

LEMMA RunEndsInv ==
  ASSUME IInv, NEW g \in Gens, NEW n \in RunNumbers, RunEnds(g, n)
  PROVE  IInv'
<1>0. /\ TypeOK /\ PendingExact /\ RunningIsCurrent /\ EndIsAnnounced
      /\ Numbered /\ ForkedOnce /\ Before /\ Outputs
  BY DEF IInv, Consistent
<1> USE <1>0
<1>1. PICK e \in Exits : run' = [run EXCEPT ![g][n] = [pc |-> "ended", exit |-> e]]
  BY DEF RunEnds
<1>2. [pc |-> "ended", exit |-> e] \in RunStates
  BY DEF RunStates
<1>3. run[g][n].pc = "running" /\ UNCHANGED <<current, gen, caller>>
  BY DEF RunEnds
<1>4. \A m \in RunNumbers : gen[g].scope = "open" /\ m < n => TailResolved(g, m)
  BY <1>3 DEF Before
<1>5. \A c \in Callers : caller[c].pc = "fork" => ~(caller[c].gen = g /\ caller[c].run = n)
  BY <1>3 DEF ForkedOnce
<1>6. caller' \in [Callers -> CallerStates]
  BY <1>3 DEF TypeOK
<1>7. RunMoves(g, n, [pc |-> "ended", exit |-> e])
  BY <1>1, <1>2, <1>3, <1>4, <1>5, <1>6 DEF RunMoves
<1> QED BY <1>7, RunMovesInv

LEMMA InterruptedInv ==
  ASSUME IInv, NEW g \in Gens, NEW n \in RunNumbers, Interrupted(g, n)
  PROVE  IInv'
<1>0. /\ TypeOK /\ PendingExact /\ RunningIsCurrent /\ EndIsAnnounced
      /\ Numbered /\ ForkedOnce /\ Before /\ Outputs
  BY DEF IInv, Consistent
<1> USE <1>0
<1>1. [pc |-> "ended", exit |-> "interrupt"] \in RunStates
  BY DEF RunStates, Exits
<1>2. /\ run[g][n].pc \in {"waiting", "running"} /\ gen[g].scope = "closing"
      /\ run' = [run EXCEPT ![g][n] = [pc |-> "ended", exit |-> "interrupt"]]
      /\ UNCHANGED <<current, gen, caller>>
  BY DEF Interrupted
<1>3. \A c \in Callers : caller[c].pc = "fork" => ~(caller[c].gen = g /\ caller[c].run = n)
  BY <1>2 DEF ForkedOnce
<1>4. caller' \in [Callers -> CallerStates]
  BY <1>2 DEF TypeOK
<1>5. RunMoves(g, n, [pc |-> "ended", exit |-> "interrupt"])
  BY <1>1, <1>2, <1>3, <1>4 DEF RunMoves
<1> QED BY <1>5, RunMovesInv

\* Settling: a run of a job that is not current any more, or has ended, only
\* goes; the last one ends the job and the others are counted off.
LEMMA SettleInv ==
  ASSUME IInv, NEW g \in Gens, NEW n \in RunNumbers, Settle(g, n)
  PROVE  IInv'
<1>0. /\ TypeOK /\ PendingExact /\ RunningIsCurrent /\ EndIsAnnounced
      /\ Numbered /\ ForkedOnce /\ Before /\ Outputs
  BY DEF IInv, Consistent
<1> USE <1>0
<1>1. PICK e : e = run[g][n].exit
  OBVIOUS
<1>2. PICK out : out = OutputAfter(g, n)
  OBVIOUS
<1>3. PICK pc \in {"resolve", "gone"} : run' = [run EXCEPT ![g][n].pc = pc]
  BY DEF Settle
<1>4. /\ run[g][n].pc = "ended" /\ UNCHANGED <<current, caller>>
  BY DEF Settle
<1>5. /\ run'[g][n] \in RunStates /\ run'[g][n].pc = pc /\ run'[g][n].exit = e
      /\ \A h \in Gens : \A m \in RunNumbers : h # g \/ m # n => run'[h][m] = run[h][m]
  <2>1. /\ run'[g][n] = [run[g][n] EXCEPT !.pc = pc]
        /\ \A h \in Gens : \A m \in RunNumbers : h # g \/ m # n => run'[h][m] = run[h][m]
    BY <1>3 DEF TypeOK
  <2>2. run[g][n] \in RunStates
    BY Fields
  <2> QED BY <1>1, <2>1, <2>2 DEF RunStates
<1>6. \/ gen[g].status # "running" /\ UNCHANGED gen
      \/ /\ gen[g].status = "running" /\ (~Success(e) \/ gen[g].pending <= 1)
         /\ pc = "resolve"
         /\ gen' = [gen EXCEPT ![g] = [@ EXCEPT !.status = EndOf(e), !.pending = 0, !.output = out]]
      \/ /\ gen[g].status = "running" /\ Success(e) /\ ~(gen[g].pending <= 1)
         /\ gen' = [gen EXCEPT ![g].pending = @ - 1, ![g].output = out]
  <2>1. gen[g].status = "running" => Settles(g)
    BY DEF RunningIsCurrent, Settles
  <2>2. run[g][n].pc # "gone" /\ run[g][n].pc # "resolve"
    BY <1>4
  <2>3. CASE ~Settles(g)
    BY <2>1, <2>3 DEF Settle
  <2>4. CASE Settles(g) /\ (~Success(e) \/ gen[g].pending <= 1)
    <3>1. /\ gen' = [gen EXCEPT ![g] = [@ EXCEPT !.status = EndOf(e), !.pending = 0, !.output = out]]
          /\ run' = [run EXCEPT ![g][n].pc = "resolve"]
      BY <1>1, <1>2, <2>4 DEF Settle
    <3>2. run'[g][n].pc = "resolve"
      BY <3>1, Fields DEF TypeOK, RunStates
    <3> QED BY <1>5, <2>4, <3>1, <3>2 DEF Settles
  <2>5. CASE Settles(g) /\ ~(~Success(e) \/ gen[g].pending <= 1)
    BY <1>1, <1>2, <2>5 DEF Settle, Settles
  <2> QED BY <2>3, <2>4, <2>5
<1>7. out \in RunNumbers \cup {NoOutput} /\ (out = gen[g].output \/ (out = n /\ e = "text"))
  BY <1>1, <1>2, Fields DEF OutputAfter
<1>8. EndOf(e) \in Ends /\ (EndOf(e) = "completed" => Success(e))
  BY DEF EndOf, Ends
<1>9. /\ gen'[g] \in GenStates
      /\ gen'[g].id = gen[g].id /\ gen'[g].next = gen[g].next /\ gen'[g].scope = gen[g].scope
      /\ gen'[g].done = gen[g].done
      /\ \A h \in Gens : h # g => gen'[h] = gen[h]
      /\ \/ gen[g].status # "running" /\ gen'[g] = gen[g]
         \/ /\ gen[g].status = "running" /\ gen'[g].status = EndOf(e) /\ gen'[g].output = out
            /\ pc = "resolve" /\ (Success(e) => gen[g].pending <= 1)
         \/ /\ gen[g].status = "running" /\ gen'[g].status = "running"
            /\ gen'[g].pending = gen[g].pending - 1 /\ gen'[g].pending > 0 /\ gen'[g].output = out
  <2>1. gen[g] \in GenStates /\ gen[g].pending \in Nat
    BY Fields
  <2>2. CASE gen[g].status # "running" /\ UNCHANGED gen
    BY <2>1, <2>2
  <2>3. CASE /\ ~Success(e) \/ gen[g].pending <= 1
             /\ gen[g].status = "running" /\ pc = "resolve"
             /\ gen' = [gen EXCEPT ![g] = [@ EXCEPT !.status = EndOf(e), !.pending = 0, !.output = out]]
    <3> PICK s : s = EndOf(e)
      OBVIOUS
    <3>1. /\ gen'[g] = [gen[g] EXCEPT !.status = s, !.pending = 0, !.output = out]
          /\ \A h \in Gens : h # g => gen'[h] = gen[h]
      BY <2>3 DEF TypeOK
    <3>2. s \in {"unused", "running"} \cup Ends /\ out \in RunNumbers \cup {NoOutput}
      BY <1>7, <1>8
    <3>3. /\ gen'[g] \in GenStates
          /\ gen'[g].id = gen[g].id /\ gen'[g].next = gen[g].next /\ gen'[g].scope = gen[g].scope
          /\ gen'[g].done = gen[g].done
          /\ gen'[g].status = s /\ gen'[g].output = out
      <4>1. gen'[g] \in GenStates
        <5>1. [gen[g] EXCEPT !.status = s, !.pending = 0, !.output = out] \in GenStates
          BY <2>1, <3>2, EndedRecord, Zenon
        <5> QED BY <3>1, <5>1, Zenon
      <4>2. /\ gen'[g].id = gen[g].id /\ gen'[g].next = gen[g].next
            /\ gen'[g].scope = gen[g].scope /\ gen'[g].done = gen[g].done
        BY <2>1, <3>1 DEF GenStates
      <4>3. gen'[g].status = s /\ gen'[g].output = out
        BY <2>1, <3>1 DEF GenStates
      <4> QED BY <4>1, <4>2, <4>3
    <3>4. Success(e) => gen[g].pending <= 1
      BY <2>3
    <3> QED BY <2>3, <3>1, <3>3, <3>4
  <2>4. CASE /\ gen[g].status = "running" /\ ~(gen[g].pending <= 1)
             /\ gen' = [gen EXCEPT ![g].pending = @ - 1, ![g].output = out]
    <3>1. /\ gen'[g] = [gen[g] EXCEPT !.pending = @ - 1, !.output = out]
          /\ \A h \in Gens : h # g => gen'[h] = gen[h]
      BY <2>4 DEF TypeOK
    <3>2. gen[g].pending - 1 \in Nat /\ gen[g].pending - 1 > 0
      BY <2>1, <2>4
    <3>3. gen'[g] = [gen[g] EXCEPT !.pending = gen[g].pending - 1, !.output = out]
      BY <2>1, <3>1 DEF GenStates
    <3>4. /\ gen'[g] \in GenStates
          /\ gen'[g].id = gen[g].id /\ gen'[g].next = gen[g].next /\ gen'[g].scope = gen[g].scope
          /\ gen'[g].done = gen[g].done /\ gen'[g].status = gen[g].status
          /\ gen'[g].pending = gen[g].pending - 1 /\ gen'[g].output = out
      BY <1>7, <2>1, <3>2, <3>3 DEF GenStates
    <3> QED BY <2>4, <3>1, <3>2, <3>4
  <2> QED BY <1>6, <2>2, <2>3, <2>4
<1>10. TypeOK'
  <2>1. gen' \in [Gens -> GenStates]
    BY <1>6, <1>9 DEF TypeOK
  <2>2. [run[g][n] EXCEPT !.pc = pc] \in RunStates
    BY Fields DEF RunStates
  <2>3. run' \in [Gens -> [RunNumbers -> RunStates]]
    BY <1>3, <2>2, FieldOf
  <2> QED BY <1>4, <2>1, <2>3 DEF TypeOK
<1>11. /\ Unsettled(g)' = Unsettled(g) \ {n} /\ n \in Unsettled(g)
       /\ \A h \in Gens : h # g => Unsettled(h)' = Unsettled(h)
  BY <1>4, <1>5 DEF Unsettled
<1>12. Cardinality(Unsettled(g) \ {n}) = Cardinality(Unsettled(g)) - 1
  BY <1>11, UnsettledFinite, FS_RemoveElement
<1>13. PendingExact'
  <2>1. gen[g].status = "running" => gen[g].pending = Cardinality(Unsettled(g))
    BY DEF PendingExact
  <2>2. EndOf(e) # "running"
    BY <1>8 DEF Ends
  <2>3. gen'[g].status = "running" => gen'[g].pending = Cardinality(Unsettled(g)') /\ gen'[g].pending > 0
    <3> HIDE DEF Unsettled
    <3> QED BY <1>9, <1>11, <1>12, <2>1, <2>2
  <2> HIDE DEF Unsettled
  <2> QED BY <1>9, <1>11, <2>3 DEF PendingExact
<1>14. RunningIsCurrent'
  BY <1>4, <1>8, <1>9 DEF RunningIsCurrent, Ends
<1>15. EndIsAnnounced'
  <2> SUFFICES ASSUME NEW h \in Gens, gen'[h].status \in Ends, ~gen'[h].done
               PROVE  \/ \E m \in RunNumbers : run'[h][m].pc = "resolve"
                      \/ \E c \in Callers : caller'[c].pc = "cancelled" /\ caller'[c].gen = h
    BY DEF EndIsAnnounced
  <2>1. CASE gen[h].status \in Ends /\ ~gen[h].done
    <3>1. CASE \E m \in RunNumbers : run[h][m].pc = "resolve"
      BY <1>4, <1>5, <3>1
    <3>2. CASE \E c \in Callers : caller[c].pc = "cancelled" /\ caller[c].gen = h
      BY <1>4, <3>2
    <3> QED BY <2>1, <3>1, <3>2 DEF EndIsAnnounced
  <2>2. CASE ~(gen[h].status \in Ends /\ ~gen[h].done)
    <3>1. h = g /\ pc = "resolve"
      BY <1>9, <2>2 DEF Ends
    <3> QED BY <1>5, <3>1
  <2> QED BY <2>1, <2>2
<1>16. Numbered'
  <2>1. \A h \in Gens : \A m \in RunNumbers : run'[h][m].pc = "none" <=> run[h][m].pc = "none"
    BY <1>4, <1>5
  <2>2. \A h \in Gens : \A m \in RunNumbers : run'[h][m].pc \in {"none", "claimed"} => run'[h][m].exit = "none"
    BY <1>4, <1>5 DEF Numbered
  <2>3. \A h \in Gens : gen'[h].next = gen[h].next /\ (gen'[h].status = "unused" <=> gen[h].status = "unused")
    BY <1>8, <1>9 DEF Ends
  <2>4. \A h \in Gens : gen'[h].status = "unused" => gen'[h].output = gen[h].output
    BY <1>8, <1>9 DEF Ends
  <2> QED BY <2>1, <2>2, <2>3, <2>4 DEF Numbered
<1>17. ForkedOnce'
  BY <1>4, <1>5, Fields DEF ForkedOnce
<1>18. Before'
  <2>1. \A h \in Gens : \A m \in RunNumbers : TailResolved(h, m)' <=> TailResolved(h, m)
    BY <1>4, <1>5 DEF TailResolved
  <2>2. \A h \in Gens : \A m \in RunNumbers : run'[h][m].pc = "running" => run[h][m].pc = "running"
    BY <1>5
  <2>3. \A h \in Gens : gen'[h].scope = gen[h].scope
    BY <1>9
  <2> QED BY <2>1, <2>2, <2>3 DEF Before
<1>19. Outputs'
  <2>1. \A h \in Gens : \A m \in RunNumbers : run'[h][m].exit = "text" => TailResolved(h, m)'
    BY <1>1, <1>5 DEF Outputs, TailResolved
  <2>2. \A h \in Gens : \A m \in RunNumbers : h # g \/ m # n => (Counted(h, m)' <=> Counted(h, m))
    BY <1>5 DEF Counted
  <2>3. ~Counted(g, n) /\ (Counted(g, n)' <=> e = "text")
    BY <1>4, <1>5 DEF Counted
  <2>4. \A h \in Gens : h # g =>
          /\ (gen[h].output # NoOutput => Counted(h, gen[h].output))'
          /\ gen'[h].status \in {"running", "completed"} =>
               \A m \in RunNumbers : Counted(h, m)' => m <= gen'[h].output
          /\ gen'[h].status = "completed" => Unsettled(h)' = {}
    <3> TAKE h \in Gens
    <3>1. HAVE h # g
    <3>2. gen'[h] = gen[h] /\ Unsettled(h)' = Unsettled(h)
      BY <1>9, <1>11, <3>1
    <3>3. \A m \in RunNumbers : Counted(h, m)' <=> Counted(h, m)
      BY <2>2, <3>1
    <3>4. gen[h].output # NoOutput => gen[h].output \in RunNumbers
      BY Fields
    <3>5. gen[h].output # NoOutput => (run[h][gen[h].output].pc \in {"resolve", "gone"}
                                         /\ run[h][gen[h].output].exit = "text")'
      <4>1. PICK o : o = gen[h].output
        OBVIOUS
      <4>2. o # NoOutput => Counted(h, o)'
        BY <3>3, <3>4, <4>1 DEF Outputs
      <4> QED BY <3>2, <4>1, <4>2 DEF Counted
    <3>6. (gen[h].output # NoOutput => Counted(h, gen[h].output))'
      BY <3>2, <3>5 DEF Counted
    <3> QED BY <3>2, <3>3, <3>6 DEF Outputs
  <2>5. (gen[g].output # NoOutput => Counted(g, gen[g].output))'
    <3>1. PICK o, p : o = gen[g].output /\ p = gen'[g].output
      OBVIOUS
    <3>2. p = o \/ (p = n /\ e = "text")
      BY <1>7, <1>9, <3>1
    <3>3. o # NoOutput => o \in RunNumbers /\ Counted(g, o)
      BY <3>1, Fields DEF Outputs
    <3>4. p # NoOutput => Counted(g, p)'
      BY <2>2, <2>3, <3>2, <3>3
    <3> QED BY <3>1, <3>4 DEF Counted
  <2>6. ASSUME gen'[g].status \in {"running", "completed"}, NEW m \in RunNumbers, Counted(g, m)'
        PROVE  m <= gen'[g].output
    <3>1. CASE gen[g].status # "running"
      <4>1. gen[g].status = "completed" /\ gen'[g] = gen[g]
        BY <1>9, <2>6, <3>1
      <4>2. Unsettled(g) = {}
        BY <4>1 DEF Outputs
      <4> QED BY <1>11, <4>2
    <3>2. CASE gen[g].status = "running"
      <4>1. gen'[g].output = OutputAfter(g, n)
        BY <1>2, <1>8, <1>9, <3>2 DEF Ends
      <4>2. m # n => m <= gen[g].output
        BY <2>2, <2>6, <3>2 DEF Outputs
      <4>3. m = n => e = "text"
        BY <2>3, <2>6
      <4>4. m \in Int /\ n \in Int /\ gen[g].output \in Int
        BY Numbers, Fields DEF NoOutput
      <4> QED BY <1>1, <4>1, <4>2, <4>3, <4>4 DEF OutputAfter
    <3> QED BY <3>1, <3>2
  <2>7. gen'[g].status = "completed" => Unsettled(g)' = {}
    <3>1. gen[g].status # "completed"
      BY <1>11 DEF Outputs
    <3>2. ASSUME gen'[g].status = "completed" PROVE Unsettled(g) \ {n} = {}
      <4>1. gen[g].status = "running" /\ Success(e) /\ gen[g].pending <= 1
        BY <1>8, <1>9, <3>1, <3>2
      <4>2. Cardinality(Unsettled(g)) <= 1
        BY <4>1 DEF PendingExact
      <4>3. IsFiniteSet(Unsettled(g)) /\ Cardinality(Unsettled(g)) \in Nat
        BY UnsettledFinite
      <4>4. IsFiniteSet(Unsettled(g) \ {n})
        BY <4>3, FS_RemoveElement
      <4>5. Cardinality(Unsettled(g) \ {n}) = 0
        <5>1. Cardinality(Unsettled(g) \ {n}) \in Nat
          BY <4>4, FS_CardinalityType
        <5> HIDE DEF Unsettled
        <5> QED BY <1>12, <4>2, <4>3, <5>1
      <4> QED BY <4>4, <4>5, FS_EmptySet
    <3> QED BY <1>11, <3>2
  <2> QED BY <2>1, <2>4, <2>5, <2>6, <2>7 DEF Outputs
<1> QED BY <1>10, <1>13, <1>14, <1>15, <1>16, <1>17, <1>18, <1>19 DEF IInv, Consistent

LEMMA ResolveInv ==
  ASSUME IInv, NEW g \in Gens, NEW n \in RunNumbers, Resolve(g, n)
  PROVE  IInv'
<1>0. /\ TypeOK /\ PendingExact /\ RunningIsCurrent /\ EndIsAnnounced
      /\ Numbered /\ ForkedOnce /\ Before /\ Outputs
  BY DEF IInv, Consistent
<1> USE <1>0
<1>1. run[g][n].pc = "resolve" /\ UNCHANGED <<current, caller>>
  BY DEF Resolve
<1>13. /\ run' = [run EXCEPT ![g][n].pc = "gone"]
       /\ gen' = [gen EXCEPT ![g].done = TRUE, ![g].scope = "closing"]
  BY DEF Resolve
<1>2. /\ run'[g][n].pc = "gone" /\ run'[g][n].exit = run[g][n].exit
      /\ \A h \in Gens : \A m \in RunNumbers : h # g \/ m # n => run'[h][m] = run[h][m]
  <2>1. /\ run'[g][n] = [run[g][n] EXCEPT !.pc = "gone"]
        /\ \A h \in Gens : \A m \in RunNumbers : h # g \/ m # n => run'[h][m] = run[h][m]
    BY <1>13 DEF TypeOK
  <2>2. run[g][n] \in RunStates
    BY Fields
  <2> QED BY <2>1, <2>2 DEF RunStates
<1>3. /\ gen'[g] \in GenStates
      /\ gen'[g].id = gen[g].id /\ gen'[g].status = gen[g].status /\ gen'[g].pending = gen[g].pending
      /\ gen'[g].next = gen[g].next /\ gen'[g].output = gen[g].output
      /\ gen'[g].done /\ gen'[g].scope = "closing"
      /\ \A h \in Gens : h # g => gen'[h] = gen[h]
  <2>1. /\ gen'[g] = [gen[g] EXCEPT !.done = TRUE, !.scope = "closing"]
        /\ \A h \in Gens : h # g => gen'[h] = gen[h]
    BY <1>13 DEF TypeOK
  <2>2. gen[g] \in GenStates
    BY Fields
  <2>3. gen'[g] \in GenStates
    BY <2>1, <2>2 DEF GenStates
  <2> QED BY <2>1, <2>2, <2>3 DEF GenStates
<1>4. TypeOK'
  <2>1. gen' \in [Gens -> GenStates]
    BY <1>13, <1>3 DEF TypeOK
  <2>2. [run[g][n] EXCEPT !.pc = "gone"] \in RunStates
    BY Fields DEF RunStates
  <2>3. run' \in [Gens -> [RunNumbers -> RunStates]]
    BY <1>13, <2>2, FieldOf
  <2> QED BY <1>1, <2>1, <2>3 DEF TypeOK
<1>5. \A h \in Gens : Unsettled(h)' = Unsettled(h)
  BY <1>1, <1>2 DEF Unsettled
<1>6. PendingExact'
  BY <1>3, <1>5 DEF PendingExact
<1>7. RunningIsCurrent'
  BY <1>1, <1>3 DEF RunningIsCurrent
<1>8. EndIsAnnounced'
  BY <1>1, <1>2, <1>3 DEF EndIsAnnounced
<1>9. Numbered'
  BY <1>1, <1>2, <1>3 DEF Numbered
<1>10. ForkedOnce'
  BY <1>1, <1>2, Fields DEF ForkedOnce
<1>11. Before'
  BY <1>1, <1>2, <1>3 DEF Before, TailResolved
<1>12. Outputs'
  <2>1. \A h \in Gens : \A m \in RunNumbers : Counted(h, m)' <=> Counted(h, m)
    BY <1>1, <1>2 DEF Counted
  <2>2. \A h \in Gens : \A m \in RunNumbers : run'[h][m].exit = "text" => TailResolved(h, m)'
    BY <1>1, <1>2 DEF Outputs, TailResolved
  <2>3. \A h \in Gens : gen'[h].output = gen[h].output /\ gen'[h].status = gen[h].status
    BY <1>3
  <2> QED BY <1>5, <2>1, <2>2, <2>3, Fields DEF Outputs
<1> QED BY <1>4, <1>6, <1>7, <1>8, <1>9, <1>10, <1>11, <1>12 DEF IInv, Consistent

LEMMA ClosedInv ==
  ASSUME IInv, NEW g \in Gens, Closed(g)
  PROVE  IInv'
<1>0. TypeOK
  BY DEF IInv, Consistent
<1> DEFINE r == [gen[g] EXCEPT !.scope = "closed"]
<1>1. gen[g] \in GenStates
  BY <1>0, Fields
<1>2. /\ r \in GenStates /\ r.id = gen[g].id /\ r.next = gen[g].next /\ r.output = gen[g].output
      /\ r.status = gen[g].status /\ r.pending = gen[g].pending /\ r.done = gen[g].done
      /\ r.scope = "closed"
  BY <1>1 DEF GenStates
<1>3. gen' = [gen EXCEPT ![g] = r] /\ UNCHANGED <<current, run, caller>>
  BY DEF Closed
<1>4. caller' \in [Callers -> CallerStates]
  BY <1>0, <1>3 DEF TypeOK
<1> HIDE DEF r
<1>5. RecordMoves(g, r)
  BY <1>2, <1>3, <1>4 DEF RecordMoves
<1> QED BY <1>5, RecordMovesInv

LEMMA CancelInv ==
  ASSUME IInv, NEW c \in Callers, NEW i \in Ids, Cancel(c, i)
  PROVE  IInv'
<1>0. TypeOK
  BY DEF IInv, Consistent
<1>1. PICK g \in Gens : g = current[i] /\ gen[g].status = "running"
  BY <1>0 DEF Cancel, Running, TypeOK
<1> DEFINE r == [gen[g] EXCEPT !.status = "cancelled", !.pending = 0]
<1>2. gen[g] \in GenStates
  BY <1>0, Fields
<1>3. /\ r \in GenStates /\ r.id = gen[g].id /\ r.next = gen[g].next /\ r.output = gen[g].output
      /\ r.status = "cancelled" /\ r.scope = gen[g].scope /\ r.done = gen[g].done
  BY <1>2 DEF GenStates, Ends
<1>4. /\ gen' = [gen EXCEPT ![g] = r] /\ UNCHANGED <<current, run>>
      /\ caller' = [caller EXCEPT ![c] = [pc |-> "cancelled", gen |-> g]] /\ caller[c].pc = "idle"
  BY <1>1 DEF Cancel, Goes, Free
<1>5. /\ caller' \in [Callers -> CallerStates]
      /\ caller'[c] = [pc |-> "cancelled", gen |-> g]
      /\ \A d \in Callers : d # c => caller'[d] = caller[d]
  BY <1>0, <1>4 DEF TypeOK, CallerStates
<1> HIDE DEF r
<1>6. RecordMoves(g, r)
  BY <1>1, <1>3, <1>4, <1>5 DEF RecordMoves
<1> QED BY <1>6, RecordMovesInv

LEMMA CancelResolvesInv ==
  ASSUME IInv, NEW c \in Callers, CancelResolves(c)
  PROVE  IInv'
<1>0. TypeOK
  BY DEF IInv, Consistent
<1>1. PICK g \in Gens : g = caller[c].gen /\ caller[c].pc = "cancelled"
  BY <1>0, Fields DEF CancelResolves
<1> DEFINE r == [gen[g] EXCEPT !.done = TRUE, !.scope = "closing"]
<1>2. gen[g] \in GenStates
  BY <1>0, Fields
<1>3. /\ r \in GenStates /\ r.id = gen[g].id /\ r.next = gen[g].next /\ r.output = gen[g].output
      /\ r.status = gen[g].status /\ r.pending = gen[g].pending /\ r.done /\ r.scope = "closing"
  BY <1>2 DEF GenStates
<1>4. /\ gen' = [gen EXCEPT ![g] = r] /\ UNCHANGED <<current, run>>
      /\ caller' = [caller EXCEPT ![c] = [pc |-> "closing", gen |-> g]]
  BY <1>1, <1>2 DEF CancelResolves, Goes, GenStates
<1>5. /\ caller' \in [Callers -> CallerStates]
      /\ caller'[c] = [pc |-> "closing", gen |-> g]
      /\ \A d \in Callers : d # c => caller'[d] = caller[d]
  BY <1>0, <1>4 DEF TypeOK, CallerStates
<1> HIDE DEF r
<1>6. RecordMoves(g, r)
  BY <1>1, <1>3, <1>4, <1>5 DEF RecordMoves
<1> QED BY <1>6, RecordMovesInv

LEMMA PromoteInv ==
  ASSUME IInv, NEW c \in Callers, NEW i \in Ids, Promote(c, i)
  PROVE  IInv'
<1>0. TypeOK
  BY DEF IInv, Consistent
<1>1. PICK g \in Gens : g = current[i]
  BY <1>0 DEF Promote, Running, TypeOK
<1> DEFINE r == [gen[g] EXCEPT !.background = TRUE]
<1>2. gen[g] \in GenStates
  BY <1>0, Fields
<1>3. /\ r \in GenStates /\ r.id = gen[g].id /\ r.next = gen[g].next /\ r.output = gen[g].output
      /\ r.status = gen[g].status /\ r.pending = gen[g].pending /\ r.done = gen[g].done
      /\ r.scope = gen[g].scope
  BY <1>2 DEF GenStates
<1>4. /\ gen' = [gen EXCEPT ![g] = r] /\ UNCHANGED <<current, run>>
      /\ caller' = [caller EXCEPT ![c] = [pc |-> "promoted", gen |-> g]] /\ caller[c].pc = "idle"
  BY <1>1, <1>2 DEF Promote, Goes, Free, GenStates
<1>5. /\ caller' \in [Callers -> CallerStates]
      /\ caller'[c] = [pc |-> "promoted", gen |-> g]
      /\ \A d \in Callers : d # c => caller'[d] = caller[d]
  BY <1>0, <1>4 DEF TypeOK, CallerStates
<1> HIDE DEF r
<1>6. RecordMoves(g, r)
  BY <1>3, <1>4, <1>5 DEF RecordMoves
<1> QED BY <1>6, RecordMovesInv

LEMMA PromotedInv ==
  ASSUME IInv, NEW c \in Callers, Promoted(c)
  PROVE  IInv'
<1>0. TypeOK
  BY DEF IInv, Consistent
<1>1. PICK g \in Gens : g = caller[c].gen /\ caller[c].pc = "promoted"
  BY <1>0, Fields DEF Promoted
<1> DEFINE r == [gen[g] EXCEPT !.promoted = TRUE]
<1>2. gen[g] \in GenStates
  BY <1>0, Fields
<1>3. /\ r \in GenStates /\ r.id = gen[g].id /\ r.next = gen[g].next /\ r.output = gen[g].output
      /\ r.status = gen[g].status /\ r.pending = gen[g].pending /\ r.done = gen[g].done
      /\ r.scope = gen[g].scope
  BY <1>2 DEF GenStates
<1>4. /\ gen' = [gen EXCEPT ![g] = r] /\ UNCHANGED <<current, run>>
      /\ caller' = [caller EXCEPT ![c] = [pc |-> "idle"]]
  BY <1>1, <1>2 DEF Promoted, Idles, Goes, GenStates
<1>5. /\ caller' \in [Callers -> CallerStates]
      /\ caller'[c] = [pc |-> "idle"]
      /\ \A d \in Callers : d # c => caller'[d] = caller[d]
  BY <1>0, <1>4 DEF TypeOK, CallerStates
<1> HIDE DEF r
<1>6. RecordMoves(g, r)
  BY <1>1, <1>3, <1>4, <1>5 DEF RecordMoves
<1> QED BY <1>6, RecordMovesInv

\* The waits, a cancel that returns and a caller that gives up.
LEMMA CallersInv ==
  ASSUME IInv, NEW c \in Callers,
         \/ \E i \in Ids : Wait(c, i) \/ WaitForPromotion(c, i)
         \/ CancelReturns(c) \/ WaitReturns(c) \/ PromotionSeen(c) \/ Abandon(c)
  PROVE  IInv'
<1>0. TypeOK
  BY DEF IInv, Consistent
<1>1. PICK s \in CallerStates : /\ caller' = [caller EXCEPT ![c] = s]
                                /\ s.pc \notin {"fork", "cancelled"}
                                /\ caller[c].pc # "cancelled"
                                /\ UNCHANGED <<current, gen, run>>
  <2>1. CASE \E i \in Ids : Wait(c, i) \/ WaitForPromotion(c, i)
    <3>1. PICK i \in Ids : Wait(c, i) \/ WaitForPromotion(c, i)
      BY <2>1
    <3>2. current[i] \in Gens
      BY <1>0, <3>1 DEF Wait, WaitForPromotion, Running, TypeOK
    <3>3. /\ [pc |-> "waiting", gen |-> current[i]] \in CallerStates
          /\ [pc |-> "awaiting", gen |-> current[i]] \in CallerStates
      BY <3>2 DEF CallerStates
    <3> QED BY <3>1, <3>3 DEF Wait, WaitForPromotion, Goes, Free
  <2>2. CASE CancelReturns(c) \/ WaitReturns(c) \/ PromotionSeen(c) \/ Abandon(c)
    <3>1. [pc |-> "idle"] \in CallerStates
      BY DEF CallerStates
    <3> QED BY <2>2, <3>1 DEF CancelReturns, WaitReturns, PromotionSeen, Abandon, Idles, Goes
  <2> QED BY <2>1, <2>2
<1>2. CallerMoves
  BY <1>0, <1>1 DEF CallerMoves, TypeOK
<1> QED BY <1>2, CallerMovesInv
-----------------------------------------------------------------------------
LEMMA InitInv == Init => IInv
<1> SUFFICES ASSUME Init PROVE IInv
  OBVIOUS
<1>1. PICK i \in Ids :
        gen = [g \in Gens |->
                [id |-> i, status |-> "unused", pending |-> 0, next |-> 0,
                 output |-> NoOutput, done |-> FALSE, promoted |-> FALSE,
                 background |-> FALSE, scope |-> "open"]]
  BY DEF Init
<1>2. /\ current = [j \in Ids |-> None]
      /\ run = [g \in Gens |-> [n \in RunNumbers |-> [pc |-> "none", exit |-> "none"]]]
      /\ caller = [c \in Callers |-> [pc |-> "idle"]]
  BY DEF Init
<1>3. TypeOK
  BY <1>1, <1>2 DEF TypeOK, GenStates, RunStates, CallerStates
<1>4. /\ \A g \in Gens : gen[g].status = "unused" /\ gen[g].next = 0 /\ gen[g].output = NoOutput
      /\ \A g \in Gens : \A n \in RunNumbers : run[g][n].pc = "none" /\ run[g][n].exit = "none"
      /\ \A c \in Callers : caller[c].pc = "idle"
  BY <1>1, <1>2
<1>5. PendingExact /\ RunningIsCurrent /\ EndIsAnnounced /\ ForkedOnce /\ Before /\ Outputs
  BY <1>4 DEF PendingExact, RunningIsCurrent, EndIsAnnounced, ForkedOnce, Before, Outputs,
              TailResolved, Counted, Ends
<1>6. Numbered
  <2>1. \A g \in Gens : 0 <= MaxRuns[g]
    BY JobAssumption
  <2>2. \A n \in RunNumbers : 0 <= n
    BY Numbers
  <2> QED BY <1>4, <2>1, <2>2 DEF Numbered
<1> QED BY <1>3, <1>5, <1>6 DEF IInv, Consistent

LEMMA StutterInv == IInv /\ UNCHANGED vars => IInv'
<1> SUFFICES ASSUME IInv, UNCHANGED vars PROVE IInv'
  OBVIOUS
<1>1. CallerMoves
  BY DEF CallerMoves, vars, IInv, Consistent, TypeOK
<1> QED BY <1>1, CallerMovesInv

LEMMA NextInv == IInv /\ [Next]_vars => IInv'
<1> SUFFICES ASSUME IInv, [Next]_vars PROVE IInv'
  OBVIOUS
<1>1. ASSUME NEW c \in Callers, NEW i \in Ids,
             Start(c, i) \/ Extend(c, i) \/ Cancel(c, i) \/ Promote(c, i) \/ Wait(c, i)
               \/ WaitForPromotion(c, i)
      PROVE  IInv'
  BY <1>1, StartInv, ExtendInv, CancelInv, PromoteInv, CallersInv
<1>2. ASSUME NEW c \in Callers, Proceed(c) \/ Abandon(c) \/ Get(c)
      PROVE  IInv'
  BY <1>2, ForkInv, CancelResolvesInv, PromotedInv, CallersInv, StutterInv DEF Proceed, Get
<1>3. ASSUME NEW g \in Gens, NEW n \in RunNumbers, Fiber(g, n)
      PROVE  IInv'
  BY <1>3, BeginsInv, RunEndsInv, InterruptedInv, SettleInv, ResolveInv DEF Fiber
<1>4. ASSUME NEW g \in Gens, Closed(g)
      PROVE  IInv'
  BY <1>4, ClosedInv
<1> QED BY <1>1, <1>2, <1>3, <1>4, StutterInv DEF Next

\* The invariant holds of every reachable state.
THEOREM JobsInductive == Spec => []IInv
<1>1. Init => IInv
  BY InitInv
<1>2. IInv /\ [Next]_vars => IInv'
  BY NextInv
<1> QED BY <1>1, <1>2, PTL DEF Spec

\* A job that runs is the registry's current one and counts exactly its
\* unsettled runs, and one that has ended is announced: for any number of
\* generations, runs and callers (background-job.ts, settle, start, cancel).
THEOREM JobsConsistent == Spec => []Consistent
<1>1. IInv => Consistent
  BY DEF IInv
<1> QED BY <1>1, JobsInductive, PTL

\* The runs of a job execute one at a time, in the order they were added, until
\* its scope closes (the tails that extend chains).
THEOREM JobRunsInOrder == Spec => []OneRunAtATime
<1>1. IInv => OneRunAtATime
  BY DEF IInv, Before, OneRunAtATime
<1> QED BY <1>1, JobsInductive, PTL

\* A completed job has the output of its latest run that returned any.
THEOREM JobOutputIsLatest == Spec => []LatestOutputWins
<1>1. IInv => LatestOutputWins
  <2> SUFFICES ASSUME IInv, NEW g \in Gens, gen[g].status = "completed"
               PROVE  LET texts == {n \in RunNumbers : run[g][n].exit = "text"} IN
                      /\ texts = {} <=> gen[g].output = NoOutput
                      /\ \A n \in texts : n <= gen[g].output
    BY DEF LatestOutputWins
  <2>0. TypeOK /\ Outputs
    BY DEF IInv, Consistent
  <2>1. gen[g].output # NoOutput => gen[g].output \in RunNumbers /\ run[g][gen[g].output].exit = "text"
    BY <2>0, Fields DEF Outputs, Counted
  <2>2. ASSUME NEW n \in RunNumbers, run[g][n].exit = "text"
        PROVE  n <= gen[g].output
    <3>1. run[g][n].pc \in {"resolve", "gone"}
      BY <2>0, <2>2 DEF Outputs, TailResolved, Unsettled
    <3> QED BY <2>0, <2>2, <3>1 DEF Outputs, Counted
  <2>3. \A n \in RunNumbers : ~(n <= NoOutput)
    BY Numbers DEF NoOutput
  <2> QED BY <2>1, <2>2, <2>3
<1> QED BY <1>1, JobsInductive, PTL

\* The end of a job and its output never change, whatever its fibers and those
\* of other generations still do.
THEOREM JobsEndOnce == Spec => EndsOnce
<1>1. ASSUME IInv, [Next]_vars
      PROVE  \A g \in Gens : gen[g].status \in Ends =>
               gen'[g].status = gen[g].status /\ gen'[g].output = gen[g].output
  <2> SUFFICES ASSUME NEW g \in Gens, gen[g].status \in Ends
               PROVE  gen'[g].status = gen[g].status /\ gen'[g].output = gen[g].output
    OBVIOUS
  <2>0. TypeOK
    BY <1>1 DEF IInv, Consistent
  <2>1. gen[g] \in GenStates /\ gen[g].status \notin {"unused", "running"}
    BY <2>0, Fields DEF Ends
  <2>2. CASE \E c \in Callers, i \in Ids : Start(c, i)
    <3>1. PICK h \in Gens : gen[h].status = "unused" /\ \A k \in Gens : k # h => gen'[k] = gen[k]
      BY <2>0, <2>2 DEF Start, TypeOK
    <3> QED BY <2>1, <3>1
  <2>3. CASE \E c \in Callers, i \in Ids : Extend(c, i) \/ Cancel(c, i)
    <3>1. PICK i \in Ids : /\ current[i] \in Gens /\ gen[current[i]].status = "running"
                           /\ \A k \in Gens : k # current[i] => gen'[k] = gen[k]
      BY <2>0, <2>3 DEF Extend, Cancel, Running, TypeOK
    <3> QED BY <2>1, <3>1
  <2>4. CASE \E h \in Gens, n \in RunNumbers : Settle(h, n)
    <3>1. PICK h \in Gens, n \in RunNumbers : Settle(h, n)
      BY <2>4
    <3>2. gen' = gen \/ (gen[h].status = "running" /\ \A k \in Gens : k # h => gen'[k] = gen[k])
      BY <2>0, <3>1 DEF Settle, Settles, TypeOK
    <3> QED BY <2>1, <3>2
  <2>5. CASE \E c \in Callers, i \in Ids : Promote(c, i)
    <3>1. PICK i \in Ids : gen' = [gen EXCEPT ![current[i]].background = TRUE]
      BY <2>5 DEF Promote
    <3> QED BY <2>0, <2>1, <3>1 DEF TypeOK, GenStates
  <2>6. CASE \E c \in Callers : CancelResolves(c) \/ Promoted(c)
    <3>1. PICK h : gen' = [gen EXCEPT ![h].done = TRUE, ![h].scope = "closing"] \/ gen' = [gen EXCEPT ![h].promoted = TRUE]
      BY <2>6 DEF CancelResolves, Promoted
    <3>2. CASE gen' = [gen EXCEPT ![h].done = TRUE, ![h].scope = "closing"]
      BY <2>0, <2>1, <3>2 DEF TypeOK, GenStates
    <3>3. CASE gen' = [gen EXCEPT ![h].promoted = TRUE]
      BY <2>0, <2>1, <3>3 DEF TypeOK, GenStates
    <3> QED BY <3>1, <3>2, <3>3
  <2>7. CASE (\E h \in Gens, n \in RunNumbers : Resolve(h, n)) \/ (\E h \in Gens : Closed(h))
    <3>1. PICK h : gen' = [gen EXCEPT ![h].done = TRUE, ![h].scope = "closing"] \/ gen' = [gen EXCEPT ![h].scope = "closed"]
      BY <2>7 DEF Resolve, Closed
    <3>2. CASE gen' = [gen EXCEPT ![h].done = TRUE, ![h].scope = "closing"]
      BY <2>0, <2>1, <3>2 DEF TypeOK, GenStates
    <3>3. CASE gen' = [gen EXCEPT ![h].scope = "closed"]
      BY <2>0, <2>1, <3>3 DEF TypeOK, GenStates
    <3> QED BY <3>1, <3>2, <3>3
  <2>8. CASE UNCHANGED gen
    BY <2>8
  <2> QED
    BY <1>1, <2>2, <2>3, <2>4, <2>5, <2>6, <2>7, <2>8
    DEF Next, Proceed, Fiber, Get, vars, Wait, WaitForPromotion, Fork, CancelReturns, WaitReturns,
        PromotionSeen, Abandon, Begins, RunEnds, Interrupted
<1> QED BY <1>1, JobsInductive, PTL DEF Spec, EndsOnce
=============================================================================
