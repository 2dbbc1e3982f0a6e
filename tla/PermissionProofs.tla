-------------------------- MODULE PermissionProofs --------------------------
(***************************************************************************)
(* Theorems about Permission for any requests, replies, rules and          *)
(* sessions.                                                               *)
(*                                                                         *)
(* The inductive invariant follows a reply's walk over the live Map: what  *)
(* it has to settle and is still listed is either ahead of it or the entry *)
(* it is at (Walked), what it is about to grant it has grounds for         *)
(* (Grounded), and what no rule denied since it saved is in its history    *)
(* (Cleared).  No request is listed twice or listed again (Listed), so     *)
(* that nothing comes back behind a walk.                                  *)
(***************************************************************************)
EXTENDS Permission, WellFoundedInduction, SequenceTheorems, TLAPS

\* A request is listed once, and only from its announcement to its end.
Listed ==
  /\ \A i, j \in DOMAIN pending : pending[i] = pending[j] => i = j
  /\ \A a \in Asks :
       /\ InMap(a) => ask[a].at \in {"asking", "waiting", "queued"}
       /\ ask[a].at = "new" => ask[a].req = NoRequest
       /\ ask[a].at \notin {"new", "over"} => ask[a].req \in Requests
       /\ ask[a].at \in {"asking", "waiting"} /\ deferred[a] = "open" => InMap(a)

\* What a reply's place says of its fields, and of the requests it is about.
Placed(p) ==
  /\ reply[p].at \notin {"ready", "done"} => reply[p].to \in Asks /\ ask[reply[p].to].req \in Requests
  /\ reply[p].at \in {"declining", "checking", "granting"} =>
       reply[p].cur \in Asks /\ ask[reply[p].cur].req \in Requests
  /\ reply[p].at \in {"ready", "replying", "saved", "listing", "done"} =>
       reply[p].standing = {} /\ reply[p].seen = {}
  /\ reply[p].at \in Walking => reply[p].says = "always"
  /\ \A a \in reply[p].standing : ask[a].at # "evaluating" /\ ask[a].req \in Requests

Cleared(p) ==
  reply[p].at \in Walking =>
    \A a \in Asks : ask[a].req # NoRequest /\ ~Denied(ask[a].req, RulesFor(ask[a].req)) =>
      a \in reply[p].clear

\* What stands behind a grant without a reply of its own.
Grounds(p, a) ==
  /\ a \in reply[p].clear
  /\ \A r \in ask[a].req.resources :
       \/ \E approval \in reply[p].rules : r \in approval
       \/ \E g \in Agents : Evaluate(r, Rules[g]) = "allow"

Grounded(p) ==
  \A a \in Asks : reply[p].at = "granting" /\ reply[p].cur = a => Grounds(p, a)

NotPassed(p, a) == InMap(a) => a \notin reply[p].seen \/ a = reply[p].cur

Walked(p) ==
  \A a \in reply[p].standing :
    /\ reply[p].at = "declining" =>
         ask[a].req.session = ask[reply[p].to].req.session /\ NotPassed(p, a)
    /\ reply[p].at \in {"checking", "granting"} =>
         \/ ask[a].req.session \in removed \cup switched
         \/ Covered(ask[a].req, reply[p].rules) /\ NotPassed(p, a)

Fits(p) == Placed(p) /\ Cleared(p) /\ Grounded(p) /\ Walked(p)

IInv == TypeOK /\ Listed /\ \A p \in Replies : Fits(p)

-----------------------------------------------------------------------------
(* Sequences *)

LEMMA FirstOf ==
  ASSUME NEW S, S \subseteq Nat, S # {}
  PROVE  First(S) \in S /\ \A j \in S : First(S) <= j
<1> DEFINE R == OpToRel(<, Nat)
<1>1. \A x, y \in Nat : x < y => <<x, y>> \in R
  BY DEF OpToRel
<1> HIDE DEF R
<1>2. \E x \in S : \A y \in S : ~(<<y, x>> \in R)
  BY NatLessThanWellFounded, WFMin DEF R
<1>3. PICK x \in S : \A y \in S : ~(<<y, x>> \in R)
  BY <1>2
<1>4. \A y \in S : ~(y < x)
  BY <1>1, <1>3
<1>5. \A y \in S : x <= y
  BY <1>4
<1> QED  BY <1>5 DEF First

\* Removing an entry leaves the others, once each.
LEMMA WithoutLists ==
  ASSUME TypeOK, Listed, NEW a \in Asks, pending' = Without(a)
  PROVE  /\ pending' \in Seq(Asks)
         /\ \A i, j \in DOMAIN pending' : pending'[i] = pending'[j] => i = j
         /\ \A b \in Asks : InMap(b)' <=> InMap(b) /\ b # a
<1>0. pending \in Seq(Asks) /\ \A i, j \in DOMAIN pending : pending[i] = pending[j] => i = j
  BY DEF TypeOK, Listed
<1>1. CASE ~InMap(a)
  BY <1>0, <1>1 DEF Without, InMap
<1>2. CASE InMap(a)
  <2> DEFINE i == CHOOSE i \in DOMAIN pending : pending[i] = a
             n == Len(pending)
             s == SubSeq(pending, 1, i - 1)
             t == SubSeq(pending, i + 1, n)
  <2>1. i \in 1..n /\ pending[i] = a /\ n \in Nat /\ DOMAIN pending = 1..n
    BY <1>0, <1>2 DEF InMap
  <2>2. pending' = s \o t
    BY <1>2 DEF Without
  <2> HIDE DEF i, n
  <2>3. s \in Seq(Asks) /\ Len(s) = i - 1 /\ \A k \in 1..(i - 1) : s[k] = pending[k]
    BY <1>0, <2>1 DEF n
  <2>4. t \in Seq(Asks) /\ Len(t) = n - i /\ \A k \in 1..(n - i) : t[k] = pending[k + i]
    <3>1. t \in Seq(Asks) /\ Len(t) = (IF i + 1 <= n THEN n - (i + 1) + 1 ELSE 0)
      BY <1>0, <2>1, SubSeqProperties DEF n
    <3>2. \A k \in 1..(n - i) : t[k] = pending[(i + 1) + k - 1]
      BY <1>0, <2>1, SubSeqProperties DEF n
    <3>3. \A k \in 1..(n - i) : (i + 1) + k - 1 = k + i
      BY <2>1
    <3> QED  BY <2>1, <3>1, <3>2, <3>3
  <2> HIDE DEF s, t
  <2>5. /\ pending' \in Seq(Asks) /\ Len(pending') = n - 1
        /\ \A k \in 1..(n - 1) : pending'[k] = IF k < i THEN pending[k] ELSE pending[k + 1]
    <3>1. /\ s \o t \in Seq(Asks) /\ Len(s \o t) = Len(s) + Len(t)
          /\ \A k \in 1..(Len(s) + Len(t)) :
                (s \o t)[k] = IF k <= Len(s) THEN s[k] ELSE t[k - Len(s)]
      BY <2>3, <2>4, ConcatProperties
    <3>2. Len(s) + Len(t) = n - 1
      BY <2>1, <2>3, <2>4
    <3>3. ASSUME NEW k \in 1..(n - 1)
          PROVE  pending'[k] = IF k < i THEN pending[k] ELSE pending[k + 1]
      <4>1. CASE k < i
        BY <2>1, <2>2, <2>3, <3>1, <3>2, <4>1
      <4>2. CASE ~(k < i)
        <5>1. k - (i - 1) \in 1..(n - i) /\ (k - (i - 1)) + i = k + 1
          BY <2>1, <4>2
        <5>2. pending'[k] = t[k - (i - 1)]
          BY <2>1, <2>2, <2>3, <3>1, <3>2, <4>2
        <5> QED  BY <2>4, <4>2, <5>1, <5>2
      <4> QED  BY <4>1, <4>2
    <3> QED  BY <2>2, <3>1, <3>2, <3>3
  <2>6. DOMAIN pending' = 1..(n - 1)
    BY <2>5
  <2>7. ASSUME NEW j \in DOMAIN pending', NEW k \in DOMAIN pending', pending'[j] = pending'[k]
        PROVE  j = k
    <3> DEFINE Old(l) == IF l < i THEN l ELSE l + 1
    <3>1. \A l \in DOMAIN pending' : Old(l) \in DOMAIN pending /\ pending'[l] = pending[Old(l)]
      BY <2>1, <2>5, <2>6
    <3>2. Old(j) = Old(k)
      BY <1>0, <2>7, <3>1
    <3> QED  BY <2>1, <2>6, <3>2
  <2>8. ASSUME NEW b \in Asks
        PROVE  InMap(b)' <=> InMap(b) /\ b # a
    <3>1. ASSUME NEW k \in DOMAIN pending', pending'[k] = b
          PROVE  InMap(b) /\ b # a
      <4> DEFINE l == IF k < i THEN k ELSE k + 1
      <4>1. l \in DOMAIN pending /\ l # i /\ pending[l] = b
        BY <2>1, <2>5, <2>6, <3>1
      <4> QED  BY <1>0, <2>1, <4>1 DEF InMap
    <3>2. ASSUME NEW k \in DOMAIN pending, pending[k] = b, b # a
          PROVE  \E j \in DOMAIN pending' : pending'[j] = b
      <4>1. CASE k < i
        BY <2>1, <2>5, <2>6, <3>2, <4>1
      <4>2. CASE k > i
        <5>1. k - 1 \in 1..(n - 1) /\ pending'[k - 1] = pending[k]
          BY <2>1, <2>5, <4>2
        <5> QED  BY <2>6, <3>2, <5>1
      <4> QED  BY <2>1, <3>2, <4>1, <4>2
    <3> QED  BY <3>1, <3>2 DEF InMap
  <2> QED  BY <2>5, <2>7, <2>8
<1> QED  BY <1>1, <1>2

LEMMA AppendLists ==
  ASSUME TypeOK, Listed, NEW a \in Asks, ~InMap(a), pending' = Append(pending, a)
  PROVE  /\ pending' \in Seq(Asks)
         /\ \A i, j \in DOMAIN pending' : pending'[i] = pending'[j] => i = j
         /\ \A b \in Asks : InMap(b)' <=> InMap(b) \/ b = a
<1> DEFINE n == Len(pending)
<1>0. /\ pending \in Seq(Asks) /\ \A i, j \in DOMAIN pending : pending[i] = pending[j] => i = j
      /\ n \in Nat /\ DOMAIN pending = 1..n
  BY DEF TypeOK, Listed
<1>1. /\ pending' \in Seq(Asks) /\ DOMAIN pending' = 1..(n + 1)
      /\ pending'[n + 1] = a /\ \A k \in 1..n : pending'[k] = pending[k]
  BY <1>0
<1> HIDE DEF n
<1>2. \A k \in 1..n : pending[k] # a
  BY <1>0 DEF InMap
<1>3. ASSUME NEW i \in DOMAIN pending', NEW j \in DOMAIN pending', pending'[i] = pending'[j]
      PROVE  i = j
  BY <1>0, <1>1, <1>2, <1>3
<1>4. ASSUME NEW b \in Asks
      PROVE  InMap(b)' <=> InMap(b) \/ b = a
  <2>1. n + 1 \in DOMAIN pending'
    BY <1>0, <1>1
  <2> QED  BY <1>0, <1>1, <2>1 DEF InMap
<1> QED  BY <1>1, <1>3, <1>4

-----------------------------------------------------------------------------
(* What a step leaves alone *)

LEMMA NoRequestIsNone == NoRequest \notin Requests
BY RequestsAssumption DEF NoRequest

\* A request that is listed has been asked for.
LEMMA ListedAsks ==
  ASSUME Listed, NEW a \in Asks, InMap(a)
  PROVE  ask[a].req \in Requests /\ ask[a].at \in {"asking", "waiting", "queued"}
BY DEF Listed

\* What a step that is not the reply's own must keep for it to fit.
Keeps(p) ==
  /\ reply'[p].at = reply[p].at /\ reply'[p].says = reply[p].says
  /\ reply'[p].to = reply[p].to /\ reply'[p].cur = reply[p].cur
  /\ reply'[p].seen = reply[p].seen /\ reply'[p].rules = reply[p].rules
  /\ reply'[p].standing = reply[p].standing /\ reply[p].clear \subseteq reply'[p].clear

AsksKept ==
  \A b \in Asks :
    /\ ask[b].req \in Requests => ask'[b].req = ask[b].req
    /\ ask[b].at # "evaluating" /\ ask[b].req \in Requests =>
         ask'[b].at # "evaluating" /\ (InMap(b)' => InMap(b))

EnvGrows ==
  /\ removed \subseteq removed' /\ switched \subseteq switched'
  /\ \A s \in Sessions \ switched' : agent'[s] = agent[s]

LEMMA FitsStill ==
  ASSUME TypeOK, NEW p \in Replies, Fits(p), Keeps(p), AsksKept, EnvGrows, Cleared(p)'
  PROVE  Fits(p)'
<1>0. reply[p].standing \subseteq Asks
  BY DEF TypeOK, ReplyStates
<1>1. Placed(p)'
  BY <1>0 DEF Fits, Placed, Keeps, AsksKept
<1>2. Grounded(p)'
  <2> SUFFICES ASSUME NEW a \in Asks, reply'[p].at = "granting", reply'[p].cur = a
               PROVE  Grounds(p, a)'
    BY DEF Grounded
  <2>1. Grounds(p, a) /\ ask'[a].req = ask[a].req
    BY DEF Fits, Grounded, Placed, Keeps, AsksKept
  <2> QED  BY <2>1 DEF Grounds, Keeps
<1>3. Walked(p)'
  <2> SUFFICES ASSUME NEW a \in reply[p].standing
               PROVE  /\ reply'[p].at = "declining" =>
                           ask'[a].req.session = ask'[reply'[p].to].req.session /\ NotPassed(p, a)'
                      /\ reply'[p].at \in {"checking", "granting"} =>
                           \/ ask'[a].req.session \in removed' \cup switched'
                           \/ Covered(ask[a].req, reply[p].rules)' /\ NotPassed(p, a)'
    BY DEF Walked, Keeps
  <2>1. a \in Asks /\ ask[a].req \in Requests /\ ask'[a].req = ask[a].req /\ (InMap(a)' => InMap(a))
    BY <1>0 DEF Fits, Placed, AsksKept
  <2>2. NotPassed(p, a) => NotPassed(p, a)'
    BY <2>1 DEF NotPassed, Keeps
  <2>3. reply[p].at = "declining" => ask'[reply'[p].to].req = ask[reply[p].to].req
    BY DEF Fits, Placed, AsksKept, Keeps
  <2>4. ask[a].req.session \in Sessions
    BY <2>1, RequestsAssumption
  <2>5. ASSUME ask[a].req.session \notin removed' \cup switched', Covered(ask[a].req, reply[p].rules)
        PROVE  Covered(ask[a].req, reply[p].rules)'
    <3>1. RulesFor(ask[a].req)' = RulesFor(ask[a].req)
      BY <2>1, <2>4, <2>5 DEF RulesFor, RulesUnder, EnvGrows
    <3> QED  BY <2>1, <2>5, <3>1 DEF Covered, Denied, Effects, WithSaved, Keeps
  <2> QED  BY <2>1, <2>2, <2>3, <2>5 DEF Fits, Walked, Keeps, EnvGrows
<1> QED  BY <1>1, <1>2, <1>3 DEF Fits

-----------------------------------------------------------------------------
(* The calls of assert and ask *)

LEMMA ClearsKeep ==
  ASSUME TypeOK, NEW asks \in SUBSET Asks, Clears(asks)
  PROVE  /\ reply' \in [Replies -> ReplyStates]
         /\ \A p \in Replies :
              /\ Keeps(p)
              /\ reply[p].at \in Walking => reply'[p].clear = reply[p].clear \cup asks
<1> SUFFICES ASSUME NEW p \in Replies
             PROVE  /\ reply'[p] \in ReplyStates /\ Keeps(p)
                    /\ reply[p].at \in Walking => reply'[p].clear = reply[p].clear \cup asks
  BY DEF Clears
<1>1. reply[p] \in ReplyStates
  BY DEF TypeOK
<1>2. CASE reply[p].at \in Walking
  <2>1. reply'[p] = [reply[p] EXCEPT !.clear = @ \cup asks]
    BY <1>2 DEF Clears
  <2> QED  BY <1>1, <2>1 DEF Keeps, ReplyStates
<1>3. CASE reply[p].at \notin Walking
  <2>1. reply'[p] = reply[p]
    BY <1>3 DEF Clears
  <2> QED  BY <1>1, <1>3, <2>1 DEF Keeps
<1> QED  BY <1>2, <1>3

\* What a step of an ask may do to that request: everything else stays.
AskMoves(a) ==
  /\ UNCHANGED env
  /\ ask' \in [Asks -> AskStates]
  /\ \A b \in Asks \ {a} : ask'[b] = ask[b] /\ (InMap(b)' <=> InMap(b)) /\ deferred'[b] = deferred[b]
  /\ \A p \in Replies : Keeps(p)

LEMMA AskMovesFit ==
  ASSUME IInv, NEW a \in Asks, AskMoves(a),
         ask[a].req \in Requests => ask'[a].req = ask[a].req,
         ask[a].req \in Requests /\ ask[a].at # "evaluating" =>
           ask'[a].at # "evaluating" /\ (InMap(a)' => InMap(a)),
         \A p \in Replies :
           reply[p].at \in Walking => ask'[a].req = ask[a].req \/ a \in reply'[p].clear
  PROVE  \A p \in Replies : Fits(p)'
<1> SUFFICES ASSUME NEW p \in Replies
             PROVE  Fits(p)'
  OBVIOUS
<1>1. Fits(p) /\ Keeps(p) /\ TypeOK
  BY DEF IInv, AskMoves
<1>2. AsksKept
  BY DEF AsksKept, AskMoves
<1>3. EnvGrows
  BY DEF EnvGrows, AskMoves, env
<1>4. Cleared(p)'
  <2> SUFFICES ASSUME reply[p].at \in Walking, NEW b \in Asks, ask'[b].req # NoRequest,
                      ~Denied(ask[b].req, RulesFor(ask[b].req))'
               PROVE  b \in reply'[p].clear
    BY <1>1 DEF Cleared, Keeps
  <2>1. RulesFor(ask[b].req)' = RulesUnder(ask'[b].req, agent)
    BY DEF RulesFor, RulesUnder, AskMoves, env
  <2>2. CASE ask'[b].req = ask[b].req
    BY <1>1, <2>1, <2>2 DEF Fits, Cleared, RulesFor, Keeps, Denied
  <2>3. CASE ask'[b].req # ask[b].req
    BY <1>1, <2>3 DEF AskMoves
  <2> QED  BY <2>2, <2>3
<1> QED  BY <1>1, <1>2, <1>3, <1>4, FitsStill

LEMMA ConfiguredKeeps ==
  ASSUME IInv, NEW a \in Asks, NEW req \in Requests, Configured(a, req)
  PROVE  IInv'
<1>0. TypeOK /\ Listed /\ \A p \in Replies : Fits(p)
  BY DEF IInv
<1>1. ask \in [Asks -> AskStates] /\ ask[a].at = "new" /\ ask[a].req = NoRequest /\ ~InMap(a)
  BY <1>0 DEF Configured, TypeOK, Listed
<1>2. /\ UNCHANGED <<env, saved, pending, deferred>> /\ \A b \in Asks : InMap(b)' <=> InMap(b)
  BY DEF Configured, InMap
<1>3. CASE /\ ask' = [ask EXCEPT ![a] = [at |-> "evaluating", req |-> req, rules |-> RulesFor(req)]]
           /\ Clears({a})
  <2>1. RulesFor(req) \in {Rules[g] : g \in Agents}
    BY <1>0, RequestsAssumption DEF RulesFor, RulesUnder, TypeOK
  <2>2. /\ ask' \in [Asks -> AskStates] /\ ask'[a].at = "evaluating" /\ ask'[a].req = req
        /\ \A b \in Asks \ {a} : ask'[b] = ask[b]
    BY <1>1, <1>3, <2>1 DEF AskStates
  <2>3. /\ reply' \in [Replies -> ReplyStates]
        /\ \A p \in Replies :
              /\ Keeps(p)
              /\ reply[p].at \in Walking => reply'[p].clear = reply[p].clear \cup {a}
    BY <1>0, <1>3, ClearsKeep
  <2>4. TypeOK'
    BY <1>0, <1>2, <2>2, <2>3 DEF TypeOK, env
  <2>5. Listed'
    BY <1>0, <1>1, <1>2, <2>2 DEF Listed
  <2>6. AskMoves(a)
    BY <1>2, <2>2, <2>3 DEF AskMoves
  <2>7. \A p \in Replies : Fits(p)'
    BY <1>1, <2>3, <2>6, NoRequestIsNone, AskMovesFit
  <2> QED  BY <2>4, <2>5, <2>7 DEF IInv
<1>4. CASE Go(a, "over") /\ UNCHANGED reply
  <2>1. /\ ask' \in [Asks -> AskStates] /\ ask'[a].at = "over" /\ ask'[a].req = ask[a].req
        /\ \A b \in Asks \ {a} : ask'[b] = ask[b]
    BY <1>1, <1>4 DEF Go, AskStates
  <2>2. TypeOK'
    BY <1>0, <1>2, <1>4, <2>1 DEF TypeOK, env
  <2>3. Listed'
    BY <1>0, <1>1, <1>2, <2>1 DEF Listed
  <2>4. AskMoves(a)
    BY <1>2, <1>4, <2>1 DEF AskMoves, Keeps
  <2>5. \A p \in Replies : Fits(p)'
    BY <1>1, <2>1, <2>4, NoRequestIsNone, AskMovesFit
  <2> QED  BY <2>2, <2>3, <2>5 DEF IInv
<1> QED  BY <1>3, <1>4 DEF Configured

LEMMA EvaluatedKeeps ==
  ASSUME IInv, NEW a \in Asks, Evaluated(a)
  PROVE  IInv'
<1>0. TypeOK /\ Listed /\ \A p \in Replies : Fits(p)
  BY DEF IInv
<1>1. ask \in [Asks -> AskStates] /\ ask[a].at = "evaluating" /\ ~InMap(a) /\ ask[a].req \in Requests
  BY <1>0 DEF Evaluated, TypeOK, Listed
<1>2. UNCHANGED <<env, saved, deferred, reply>>
  BY DEF Evaluated
<1>3. PICK at \in {"asking", "over"} :
        /\ ask' = [ask EXCEPT ![a].at = at, ![a].rules = << >>]
        /\ pending' = IF at = "asking" THEN Append(pending, a) ELSE pending
  BY DEF Evaluated
<1>4. /\ ask' \in [Asks -> AskStates] /\ ask'[a].at = at /\ ask'[a].req = ask[a].req
      /\ \A b \in Asks \ {a} : ask'[b] = ask[b]
  BY <1>1, <1>3 DEF AskStates
<1>5. /\ pending' \in Seq(Asks)
      /\ \A i, j \in DOMAIN pending' : pending'[i] = pending'[j] => i = j
      /\ \A b \in Asks : InMap(b)' <=> InMap(b) \/ (b = a /\ at = "asking")
  <2>1. CASE at = "asking"
    BY <1>0, <1>1, <1>3, <2>1, AppendLists
  <2>2. CASE at = "over"
    BY <1>0, <1>3, <2>2 DEF TypeOK, Listed, InMap
  <2> QED  BY <2>1, <2>2
<1>6. TypeOK'
  BY <1>0, <1>2, <1>4, <1>5 DEF TypeOK, env
<1>7. Listed'
  BY <1>0, <1>1, <1>2, <1>4, <1>5 DEF Listed
<1>8. AskMoves(a)
  BY <1>2, <1>4, <1>5 DEF AskMoves, Keeps
<1>9. \A p \in Replies : Fits(p)'
  BY <1>1, <1>4, <1>8, AskMovesFit
<1> QED  BY <1>6, <1>7, <1>9 DEF IInv

\* The announcement and the end of a request.
LEMMA ReturnsKeep ==
  ASSUME IInv, NEW a \in Asks, Asked(a) \/ AskFails(a) \/ Resumes(a)
  PROVE  IInv'
<1>0. TypeOK /\ Listed /\ \A p \in Replies : Fits(p)
  BY DEF IInv
<1>1. /\ ask \in [Asks -> AskStates] /\ ask[a].at \in {"asking", "waiting"}
      /\ UNCHANGED <<env, saved, deferred, reply>>
  BY <1>0 DEF Asked, AskFails, Resumes, TypeOK
<1>2. PICK at \in {"waiting", "queued", "over"} :
        /\ Go(a, at)
        /\ pending' = IF at = "over" THEN Without(a) ELSE pending
        /\ at = "waiting" => ask[a].at = "asking"
  BY DEF Asked, AskFails, Resumes
<1>3. /\ ask' \in [Asks -> AskStates] /\ ask'[a].at = at /\ ask'[a].req = ask[a].req
      /\ \A b \in Asks \ {a} : ask'[b] = ask[b]
  BY <1>1, <1>2 DEF Go, AskStates
<1>4. /\ pending' \in Seq(Asks)
      /\ \A i, j \in DOMAIN pending' : pending'[i] = pending'[j] => i = j
      /\ \A b \in Asks : InMap(b)' <=> InMap(b) /\ ~(b = a /\ at = "over")
  <2>1. CASE at = "over"
    BY <1>0, <1>2, <2>1, WithoutLists
  <2>2. CASE at # "over"
    BY <1>0, <1>2, <2>2 DEF TypeOK, Listed, InMap
  <2> QED  BY <2>1, <2>2
<1>5. TypeOK'
  BY <1>0, <1>1, <1>3, <1>4 DEF TypeOK, env
<1>6. Listed'
  BY <1>0, <1>1, <1>2, <1>3, <1>4 DEF Listed
<1>7. AskMoves(a)
  BY <1>1, <1>3, <1>4 DEF AskMoves, Keeps
<1>8. \A p \in Replies : Fits(p)'
  BY <1>3, <1>4, <1>7, AskMovesFit
<1> QED  BY <1>5, <1>6, <1>8 DEF IInv

-----------------------------------------------------------------------------
(* Replies *)

\* What a step of a reply may do to everything but that reply.
ReplyMoves(p) ==
  /\ UNCHANGED <<env, ask>>
  /\ reply' \in [Replies -> ReplyStates] /\ \A q \in Replies \ {p} : reply'[q] = reply[q]
  /\ \A b \in Asks : InMap(b)' => InMap(b)

LEMMA ReplyMovesFit ==
  ASSUME IInv, NEW p \in Replies, ReplyMoves(p), Fits(p)'
  PROVE  \A q \in Replies : Fits(q)'
<1> SUFFICES ASSUME NEW q \in Replies, q # p
             PROVE  Fits(q)'
  OBVIOUS
<1>1. Fits(q) /\ TypeOK /\ reply'[q] = reply[q]
  BY DEF IInv, ReplyMoves
<1>2. Keeps(q) /\ AsksKept /\ EnvGrows
  BY <1>1 DEF Keeps, AsksKept, EnvGrows, ReplyMoves, env
<1>3. Cleared(q)'
  <2>1. Cleared(q)
    BY <1>1 DEF Fits
  <2> QED  BY <1>1, <2>1 DEF Cleared, ReplyMoves, env, RulesFor, RulesUnder, Denied
<1> QED  BY <1>1, <1>2, <1>3, FitsStill

\* An entry is answered and removed.
Answers(a, how) == deferred' = Complete(a, how) /\ pending' = Without(a)

LEMMA AnswersList ==
  ASSUME TypeOK, Listed, NEW a \in Asks, NEW how \in {"allowed", "declined"},
         Answers(a, how), UNCHANGED ask
  PROVE  /\ deferred' \in [Asks -> {"open", "allowed", "declined"}]
         /\ pending' \in Seq(Asks)
         /\ \A b \in Asks : InMap(b)' <=> InMap(b) /\ b # a
         /\ Listed'
<1>1. /\ pending' \in Seq(Asks)
      /\ \A i, j \in DOMAIN pending' : pending'[i] = pending'[j] => i = j
      /\ \A b \in Asks : InMap(b)' <=> InMap(b) /\ b # a
  BY WithoutLists DEF Answers
<1>2. deferred \in [Asks -> {"open", "allowed", "declined"}]
  BY DEF TypeOK
<1>3. /\ deferred' \in [Asks -> {"open", "allowed", "declined"}]
      /\ deferred'[a] # "open" /\ \A b \in Asks \ {a} : deferred'[b] = deferred[b]
  BY <1>2 DEF Answers, Complete
<1>4. Listed'
  BY <1>1, <1>3 DEF Listed
<1> QED  BY <1>1, <1>3, <1>4

LEMMA PlacedKind ==
  ASSUME IInv, NEW p \in Replies
  PROVE  /\ reply[p] \in ReplyStates /\ Fits(p) /\ Placed(p)
         /\ reply \in [Replies -> ReplyStates]
BY DEF IInv, Fits, TypeOK

LEMMA ReturnedFits ==
  ASSUME NEW p \in Replies, reply'[p] = Returned(p)
  PROVE  Fits(p)'
BY DEF Fits, Placed, Cleared, Grounded, Walked, Returned, NoReply, Walking

LEMMA ReturnedTyped == ASSUME NEW p \in Replies PROVE Returned(p) \in ReplyStates
BY DEF Returned, NoReply, ReplyStates

LEMMA ReplyKeeps ==
  ASSUME IInv, NEW p \in Replies, NEW a \in Asks, NEW says \in {"once", "always", "reject"},
         Reply(p, a, says)
  PROVE  IInv'
<1>0. TypeOK /\ Listed /\ reply \in [Replies -> ReplyStates]
  BY PlacedKind DEF IInv
<1>1. UNCHANGED <<env, saved, pending, ask, deferred>> /\ InMap(a)
  BY DEF Reply
<1>2. reply' = [reply EXCEPT ![p] = [NoReply EXCEPT !.at = "replying", !.says = says, !.to = a]]
  BY DEF Reply
<1>3. /\ reply' \in [Replies -> ReplyStates] /\ \A q \in Replies \ {p} : reply'[q] = reply[q]
      /\ reply'[p].at = "replying" /\ reply'[p].says = says /\ reply'[p].to = a
      /\ reply'[p].standing = {} /\ reply'[p].seen = {}
  BY <1>0, <1>2 DEF NoReply, ReplyStates
<1>4. ask'[a].req \in Requests
  BY <1>0, <1>1, ListedAsks
<1>5. Fits(p)'
  BY <1>3, <1>4 DEF Fits, Placed, Cleared, Grounded, Walked, Walking
<1>6. TypeOK' /\ Listed'
  BY <1>0, <1>1, <1>3 DEF TypeOK, Listed, env, InMap
<1>7. ReplyMoves(p)
  BY <1>1, <1>3 DEF ReplyMoves, InMap
<1> QED  BY <1>5, <1>6, <1>7, ReplyMovesFit DEF IInv

LEMMA SaveKeeps ==
  ASSUME IInv, NEW p \in Replies, Save(p)
  PROVE  IInv'
<1>0. TypeOK /\ Listed /\ reply \in [Replies -> ReplyStates] /\ Placed(p)
  BY PlacedKind DEF IInv
<1>1. UNCHANGED <<env, pending, ask, deferred>> /\ reply[p].at = "replying" /\ reply[p].says = "always"
  BY DEF Save, SaysAlways
<1>2. reply' = [reply EXCEPT ![p].at = "saved", ![p].clear = Undenied(agent)]
  BY DEF Save
<1>3. /\ reply' \in [Replies -> ReplyStates] /\ \A q \in Replies \ {p} : reply'[q] = reply[q]
      /\ reply'[p].at = "saved" /\ reply'[p].says = "always" /\ reply'[p].to = reply[p].to
      /\ reply'[p].standing = {} /\ reply'[p].seen = {} /\ reply'[p].clear = Undenied(agent)
  <2>1. Undenied(agent) \subseteq Asks
    BY DEF Undenied
  <2>2. reply[p].standing = {} /\ reply[p].seen = {}
    BY <1>0, <1>1 DEF Placed
  <2>3. reply'[p] = [reply[p] EXCEPT !.at = "saved", !.clear = Undenied(agent)]
    BY <1>0, <1>2
  <2>4. reply'[p] \in ReplyStates
    BY <1>0, <2>1, <2>3 DEF ReplyStates, Walking
  <2> QED  BY <1>0, <1>1, <1>2, <2>2, <2>3, <2>4 DEF ReplyStates
<1>4. Fits(p)'
  <2>1. Placed(p)'
    BY <1>0, <1>1, <1>3 DEF Placed
  <2>2. Cleared(p)'
    BY <1>1, <1>3 DEF Cleared, Undenied, env, RulesFor, RulesUnder, Denied
  <2> QED  BY <1>3, <2>1, <2>2 DEF Fits, Grounded, Walked
<1>5. saved' \subseteq SUBSET Resources
  <2>1. ask[reply[p].to].req \in Requests
    BY <1>0, <1>1 DEF Placed
  <2> QED  BY <1>0, <2>1, RequestsAssumption DEF Save, TypeOK
<1>6. TypeOK' /\ Listed'
  BY <1>0, <1>1, <1>3, <1>5 DEF TypeOK, Listed, env, InMap
<1>7. ReplyMoves(p)
  BY <1>1, <1>3 DEF ReplyMoves, InMap
<1> QED  BY <1>4, <1>6, <1>7, ReplyMovesFit DEF IInv

LEMMA ApproveKeeps ==
  ASSUME IInv, NEW p \in Replies, Approve(p)
  PROVE  IInv'
<1>0. TypeOK /\ Listed /\ reply \in [Replies -> ReplyStates] /\ Placed(p) /\ reply[p].to \in Asks
  BY PlacedKind DEF IInv, Approve, Placed
<1>1. UNCHANGED <<env, saved, ask>> /\ Answers(reply[p].to, "allowed")
  BY DEF Approve, Answers
<1>2. /\ deferred' \in [Asks -> {"open", "allowed", "declined"}] /\ pending' \in Seq(Asks)
      /\ \A b \in Asks : InMap(b)' => InMap(b)
      /\ Listed'
  BY <1>0, <1>1, AnswersList
<1>3. CASE reply' = [reply EXCEPT ![p] = Returned(p)]
  <2>1. /\ reply'[p] = Returned(p) /\ \A q \in Replies \ {p} : reply'[q] = reply[q]
        /\ reply' \in [Replies -> ReplyStates]
    BY <1>0, <1>3, ReturnedTyped
  <2>2. TypeOK' /\ ReplyMoves(p) /\ Fits(p)'
    BY <1>0, <1>1, <1>2, <2>1, ReturnedFits DEF TypeOK, ReplyMoves, env
  <2> QED  BY <1>2, <2>2, ReplyMovesFit DEF IInv
<1>4. CASE reply[p].at = "saved" /\ reply' = [reply EXCEPT ![p].at = "listing"]
  <2>1. /\ reply' \in [Replies -> ReplyStates] /\ \A q \in Replies \ {p} : reply'[q] = reply[q]
        /\ reply'[p] = [reply[p] EXCEPT !.at = "listing"]
    BY <1>0, <1>4 DEF ReplyStates, Walking
  <2>2. /\ reply'[p].at = "listing" /\ reply'[p].says = reply[p].says /\ reply'[p].to = reply[p].to
        /\ reply'[p].standing = reply[p].standing /\ reply'[p].seen = reply[p].seen
        /\ reply'[p].clear = reply[p].clear
    BY <1>0, <2>1 DEF ReplyStates
  <2>3. Placed(p)'
    BY <1>0, <1>1, <1>4, <2>2 DEF Placed, Walking
  <2>4. Cleared(p)'
    <3>1. Cleared(p) /\ reply[p].at \in Walking
      BY <1>4, PlacedKind DEF Fits, Walking
    <3> QED  BY <1>1, <2>2, <3>1 DEF Cleared, env, RulesFor, RulesUnder, Denied
  <2>5. Fits(p)'
    BY <2>2, <2>3, <2>4 DEF Fits, Grounded, Walked
  <2>6. TypeOK' /\ ReplyMoves(p)
    BY <1>0, <1>1, <1>2, <2>1 DEF TypeOK, ReplyMoves, env
  <2> QED  BY <1>2, <2>5, <2>6, ReplyMovesFit DEF IInv
<1> QED  BY <1>3, <1>4 DEF Approve

-----------------------------------------------------------------------------
(* The walks *)

\* What the reply has to settle is gone, or its session changed meanwhile.
Settled(p, a) ==
  ~InMap(a)' \/ (reply[p].says = "always" /\ ask[a].req.session \in removed \cup switched)

\* A reply that goes on to its next entry leaves none behind that it has to
\* settle; when there is no next, it has settled them all.
Goes(p, standing) ==
  /\ reply' \in [Replies -> ReplyStates] /\ \A q \in Replies \ {p} : reply'[q] = reply[q]
  /\ Fits(p)'
  /\ reply'[p].at = "done" => \A a \in standing : Settled(p, a)

LEMMA DeclineNextGoes ==
  ASSUME IInv, NEW p \in Replies, reply[p].at \in {"replying", "declining"},
         UNCHANGED ask, pending' \in Seq(Asks), Listed',
         NEW seen \in SUBSET Asks, NEW standing \in SUBSET Asks,
         \A a \in standing :
           /\ ask[a].at # "evaluating" /\ ask[a].req \in Requests
           /\ ask[a].req.session = ask[reply[p].to].req.session
           /\ InMap(a)' => a \notin seen,
         DeclineNext(p, seen, standing)
  PROVE  Goes(p, standing)
<1> DEFINE session == ask[reply[p].to].req.session
           mine == ToDecline(pending', seen, session)
           i == First(mine)
           passed == {pending'[j] : j \in 1..i}
<1>0. /\ reply \in [Replies -> ReplyStates] /\ Placed(p)
      /\ reply[p].to \in Asks /\ ask[reply[p].to].req \in Requests
  BY PlacedKind DEF Placed
<1>1. mine \subseteq DOMAIN pending' /\ DOMAIN pending' = 1..Len(pending') /\ Len(pending') \in Nat
  BY DEF ToDecline, Ahead
<1>2. \A j \in DOMAIN pending' : pending'[j] \in Asks
  OBVIOUS
<1>3. \A a \in standing : InMap(a)' =>
         \E j \in mine : pending'[j] = a
  BY DEF InMap, ToDecline, Ahead
<1>4. CASE mine = {}
  <2>1. reply' = [reply EXCEPT ![p] = Returned(p)]
    BY <1>4 DEF DeclineNext
  <2>2. /\ reply'[p] = Returned(p) /\ \A q \in Replies \ {p} : reply'[q] = reply[q]
        /\ reply' \in [Replies -> ReplyStates]
    BY <1>0, <2>1, ReturnedTyped
  <2> QED  BY <1>3, <1>4, <2>2, ReturnedFits DEF Goes, Settled
<1>5. CASE mine # {}
  <2>1. i \in mine /\ \A j \in mine : i <= j
    BY <1>1, <1>5, FirstOf
  <2>2. reply' = [reply EXCEPT ![p] = [@ EXCEPT !.at = "declining", !.cur = pending'[i],
                                  !.seen = seen \cup passed, !.standing = standing]]
    BY <1>5 DEF DeclineNext
  <2> HIDE DEF i, mine
  <2>3. passed \subseteq Asks /\ pending'[i] \in Asks
    BY <1>1, <1>2, <2>1
  <2> HIDE DEF passed
  <2>4. /\ reply'[p].at = "declining" /\ reply'[p].cur = pending'[i] /\ reply'[p].to = reply[p].to
        /\ reply'[p].seen = seen \cup passed /\ reply'[p].standing = standing
        /\ reply' \in [Replies -> ReplyStates] /\ \A q \in Replies \ {p} : reply'[q] = reply[q]
    <3>1. reply'[p] = [reply[p] EXCEPT !.at = "declining", !.cur = pending'[i],
                                       !.seen = seen \cup passed, !.standing = standing]
      BY <1>0, <2>2
    <3>2. reply[p] \in ReplyStates /\ seen \cup passed \in SUBSET Asks
      BY <1>0, <2>3
    <3>3. reply'[p] \in ReplyStates
      BY <2>3, <3>1, <3>2 DEF ReplyStates
    <3> QED  BY <1>0, <2>2, <3>1, <3>2, <3>3 DEF ReplyStates
  <2>5. ask'[pending'[i]].req \in Requests
    BY <1>1, <2>1, <2>3 DEF Listed, InMap
  <2>6. Placed(p)'
    BY <1>0, <2>3, <2>4, <2>5 DEF Placed, Walking
  <2>7. Walked(p)'
    <3> SUFFICES ASSUME NEW a \in standing, InMap(a)', a \in passed
                 PROVE  a = pending'[i]
      BY <2>4 DEF Walked, NotPassed
    <3>1. PICK k \in mine : pending'[k] = a
      BY <1>3
    <3>2. PICK j \in 1..i : pending'[j] = a
      BY DEF passed
    <3>3. j = k
      BY <1>1, <2>1, <3>1, <3>2 DEF Listed
    <3> QED  BY <1>1, <2>1, <3>1, <3>2, <3>3
  <2>8. Fits(p)'
    BY <2>4, <2>6, <2>7 DEF Fits, Cleared, Grounded, Walking
  <2> QED  BY <2>4, <2>8 DEF Goes
<1> QED  BY <1>4, <1>5

LEMMA CheckNextGoes ==
  ASSUME IInv, NEW p \in Replies, reply[p].at \in {"listing", "checking", "granting"},
         UNCHANGED <<env, ask>>, pending' \in Seq(Asks), Listed',
         NEW walk \in ReplyStates, walk.says = reply[p].says, walk.to = reply[p].to,
         walk.clear = reply[p].clear,
         \A a \in walk.standing :
           /\ ask[a].at # "evaluating" /\ ask[a].req \in Requests
           /\ \/ ask[a].req.session \in removed \cup switched
              \/ Covered(ask[a].req, walk.rules) /\ (InMap(a)' => a \notin walk.seen),
         CheckNext(p, walk)
  PROVE  Goes(p, walk.standing)
<1> DEFINE ahead == Ahead(pending', walk.seen)
<1>0. /\ reply \in [Replies -> ReplyStates] /\ Placed(p) /\ Cleared(p)
      /\ reply[p].to \in Asks /\ ask[reply[p].to].req \in Requests /\ reply[p].says = "always"
  BY PlacedKind DEF Placed, Fits, Walking
<1>1. ahead \subseteq Nat /\ ahead \subseteq DOMAIN pending'
  BY DEF Ahead
<1>2. \A a \in Asks : InMap(a)' /\ a \notin walk.seen => ahead # {}
  BY DEF InMap, Ahead
<1>3. CASE ahead = {}
  <2>1. reply' = [reply EXCEPT ![p] = Returned(p)]
    BY <1>3 DEF CheckNext
  <2>2. /\ reply'[p] = Returned(p) /\ \A q \in Replies \ {p} : reply'[q] = reply[q]
        /\ reply' \in [Replies -> ReplyStates]
    BY <1>0, <2>1, ReturnedTyped
  <2>3. \A a \in walk.standing : Settled(p, a)
    BY <1>0, <1>2, <1>3 DEF Settled, ReplyStates
  <2> QED  BY <2>2, <2>3, ReturnedFits DEF Goes
<1>4. CASE ahead # {}
  <2>1. First(ahead) \in ahead
    BY <1>1, <1>4, FirstOf
  <2>1a. PICK next \in Asks : next = pending'[First(ahead)]
    BY <1>1, <2>1
  <2>2. reply' = [reply EXCEPT ![p] = [walk EXCEPT !.at = "checking", !.cur = next,
                                                  !.seen = @ \cup {next}]]
    BY <1>4, <2>1a DEF CheckNext
  <2>3. InMap(next)'
    BY <1>1, <2>1, <2>1a DEF InMap
  <2>4. ask'[next].req \in Requests
    BY <2>3 DEF Listed
  <2>5. /\ reply' \in [Replies -> ReplyStates] /\ \A q \in Replies \ {p} : reply'[q] = reply[q]
        /\ reply'[p] = [walk EXCEPT !.at = "checking", !.cur = next, !.seen = @ \cup {next}]
    <3>1. [walk EXCEPT !.at = "checking", !.cur = next, !.seen = @ \cup {next}] \in ReplyStates
      BY <2>3 DEF ReplyStates, Walking
    <3> QED  BY <1>0, <2>2, <3>1
  <2>6. /\ reply'[p].at = "checking" /\ reply'[p].cur = next /\ reply'[p].seen = walk.seen \cup {next}
        /\ reply'[p].says = walk.says /\ reply'[p].to = walk.to /\ reply'[p].clear = walk.clear
        /\ reply'[p].standing = walk.standing /\ reply'[p].rules = walk.rules
    BY <2>5 DEF ReplyStates
  <2>7. Placed(p)'
    BY <1>0, <2>3, <2>4, <2>6 DEF Placed, Walking
  <2>8. Cleared(p)'
    BY <1>0, <2>6 DEF Cleared, env, RulesFor, RulesUnder, Denied, Walking
  <2>9. Walked(p)'
    <3> SUFFICES ASSUME NEW a \in walk.standing
                 PROVE  \/ ask'[a].req.session \in removed' \cup switched'
                        \/ Covered(ask[a].req, reply[p].rules)' /\ NotPassed(p, a)'
      BY <2>6 DEF Walked
    <3>1. Covered(ask[a].req, walk.rules) => Covered(ask[a].req, reply[p].rules)'
      <4>1. RulesFor(ask[a].req)' = RulesFor(ask[a].req) /\ ask'[a].req = ask[a].req
        BY DEF env, RulesFor, RulesUnder
      <4>2. reply'[p].rules = walk.rules
        BY <2>6
      <4> QED  BY <4>1, <4>2 DEF Covered
    <3>2. (InMap(a)' => a \notin walk.seen) => NotPassed(p, a)'
      BY <2>6 DEF NotPassed
    <3> QED  BY <3>1, <3>2 DEF env
  <2>10. Fits(p)'
    BY <2>6, <2>7, <2>8, <2>9 DEF Fits, Grounded
  <2> QED  BY <2>5, <2>6, <2>10 DEF Goes
<1> QED  BY <1>3, <1>4

\* A step of a walk.
Walks(p) ==
  /\ UNCHANGED <<env, saved, ask>>
  /\ deferred' \in [Asks -> {"open", "allowed", "declined"}]
  /\ pending' \in Seq(Asks) /\ \A b \in Asks : InMap(b)' => InMap(b)
  /\ Listed'
  /\ Goes(p, ToSettle(p))

LEMMA WalksKeeps ==
  ASSUME IInv, NEW p \in Replies, Walks(p)
  PROVE  IInv'
<1>1. TypeOK'
  BY DEF IInv, TypeOK, Walks, Goes, env
<1>2. ReplyMoves(p) /\ Fits(p)'
  BY DEF Walks, Goes, ReplyMoves
<1> QED  BY <1>1, <1>2, ReplyMovesFit DEF IInv, Walks

LEMMA RejectWalks ==
  ASSUME IInv, NEW p \in Replies, Reject(p)
  PROVE  Walks(p)
<1>0. TypeOK /\ Listed /\ Placed(p) /\ reply[p].at = "replying" /\ reply[p].to \in Asks
  BY PlacedKind DEF IInv, Reject, Placed
<1>1. UNCHANGED <<env, saved, ask>> /\ Answers(reply[p].to, "declined")
  BY DEF Reject, Answers
<1>2. /\ deferred' \in [Asks -> {"open", "allowed", "declined"}] /\ pending' \in Seq(Asks)
      /\ \A b \in Asks : InMap(b)' => InMap(b)
      /\ Listed'
  BY <1>0, <1>1, AnswersList
<1>3. ToSettle(p) = {b \in Asks \ {reply[p].to} :
                       InMap(b) /\ ask[b].req.session = ask[reply[p].to].req.session}
  BY <1>0 DEF ToSettle
<1>4. \A a \in ToSettle(p) :
        /\ ask[a].at # "evaluating" /\ ask[a].req \in Requests
        /\ ask[a].req.session = ask[reply[p].to].req.session
  BY <1>0, <1>3, ListedAsks
<1>5. Goes(p, ToSettle(p))
  BY <1>0, <1>1, <1>2, <1>3, <1>4, DeclineNextGoes DEF Reject
<1> QED  BY <1>1, <1>2, <1>5 DEF Walks

LEMMA DeclineWalks ==
  ASSUME IInv, NEW p \in Replies, Decline(p)
  PROVE  Walks(p)
<1>0. /\ TypeOK /\ Listed /\ Placed(p) /\ Walked(p) /\ reply[p] \in ReplyStates
      /\ reply[p].at = "declining" /\ reply[p].cur \in Asks
  BY PlacedKind DEF IInv, Decline, Placed, Fits
<1>1. UNCHANGED <<env, saved, ask>> /\ Answers(reply[p].cur, "declined")
  BY DEF Decline, Answers
<1>2. /\ deferred' \in [Asks -> {"open", "allowed", "declined"}] /\ pending' \in Seq(Asks)
      /\ \A b \in Asks : InMap(b)' <=> InMap(b) /\ b # reply[p].cur
      /\ Listed'
  BY <1>0, <1>1, AnswersList
<1>3. ToSettle(p) = reply[p].standing /\ reply[p].standing \subseteq Asks /\ reply[p].seen \subseteq Asks
  BY <1>0 DEF ToSettle, ReplyStates
<1>4. \A a \in reply[p].standing :
        /\ ask[a].at # "evaluating" /\ ask[a].req \in Requests
        /\ ask[a].req.session = ask[reply[p].to].req.session
        /\ InMap(a)' => a \notin reply[p].seen
  BY <1>0, <1>2, <1>3 DEF Placed, Walked, NotPassed
<1>5. Goes(p, reply[p].standing)
  BY <1>0, <1>1, <1>2, <1>3, <1>4, DeclineNextGoes DEF Decline
<1> QED  BY <1>1, <1>2, <1>3, <1>5 DEF Walks

LEMMA ListWalks ==
  ASSUME IInv, NEW p \in Replies, List(p)
  PROVE  Walks(p)
<1> DEFINE walk == [reply[p] EXCEPT !.rules = saved, !.standing = ToSettle(p)]
<1>0. /\ TypeOK /\ Listed /\ Placed(p) /\ reply[p] \in ReplyStates
      /\ reply[p].at = "listing" /\ reply[p].seen = {}
  BY PlacedKind DEF IInv, List, Placed
<1>1. UNCHANGED <<env, saved, pending, ask, deferred>>
  BY DEF List
<1>2. /\ deferred' \in [Asks -> {"open", "allowed", "declined"}] /\ pending' \in Seq(Asks)
      /\ \A b \in Asks : InMap(b)' <=> InMap(b)
      /\ Listed'
  BY <1>0, <1>1 DEF TypeOK, Listed, InMap
<1>3. ToSettle(p) = {b \in Asks : InMap(b) /\ Covered(ask[b].req, saved)}
  BY <1>0 DEF ToSettle
<1>4. /\ walk \in ReplyStates /\ walk.says = reply[p].says /\ walk.to = reply[p].to
      /\ walk.clear = reply[p].clear /\ walk.standing = ToSettle(p)
      /\ walk.rules = saved /\ walk.seen = {}
  BY <1>0, <1>3 DEF ReplyStates, TypeOK
<1> HIDE DEF walk
<1>5. \A a \in walk.standing :
        /\ ask[a].at # "evaluating" /\ ask[a].req \in Requests
        /\ Covered(ask[a].req, walk.rules) /\ a \notin walk.seen
  BY <1>0, <1>3, <1>4, ListedAsks
<1>6. CheckNext(p, walk)
  BY DEF List, walk
<1>7. Goes(p, walk.standing)
  BY <1>0, <1>1, <1>2, <1>4, <1>5, <1>6, CheckNextGoes
<1> QED  BY <1>1, <1>2, <1>4, <1>7 DEF Walks

\* The entry at hand is not covered, or it is granted; then it goes on.
LEMMA PassWalks ==
  ASSUME IInv, NEW p \in Replies, reply[p].at \in {"checking", "granting"},
         UNCHANGED <<env, saved, ask>>, pending' \in Seq(Asks), Listed',
         \A b \in Asks : InMap(b)' => InMap(b),
         NEW cur \in Asks, cur = reply[p].cur,
         ~InMap(cur)' \/ ask[cur].req.session \in removed \/ ~Covered(ask[cur].req, reply[p].rules),
         CheckNext(p, reply[p])
  PROVE  Goes(p, ToSettle(p))
<1>0. TypeOK /\ Placed(p) /\ Walked(p) /\ reply[p] \in ReplyStates
  BY PlacedKind DEF IInv, Fits
<1>1. ToSettle(p) = reply[p].standing /\ reply[p].standing \subseteq Asks
  BY <1>0 DEF ToSettle, ReplyStates
<1>2. \A a \in reply[p].standing :
        /\ ask[a].at # "evaluating" /\ ask[a].req \in Requests
        /\ \/ ask[a].req.session \in removed \cup switched
           \/ Covered(ask[a].req, reply[p].rules) /\ (InMap(a)' => a \notin reply[p].seen)
  <2> SUFFICES ASSUME NEW a \in reply[p].standing, ask[a].req.session \notin removed \cup switched
               PROVE  Covered(ask[a].req, reply[p].rules) /\ (InMap(a)' => a \notin reply[p].seen)
    BY <1>0 DEF Placed
  <2>1. Covered(ask[a].req, reply[p].rules) /\ NotPassed(p, a)
    BY <1>0 DEF Walked
  <2>2. a = cur => ~InMap(cur)'
    BY <2>1
  <2>3. InMap(a)' => a # cur
    BY <2>2
  <2> QED  BY <1>1, <2>1, <2>3 DEF NotPassed
<1> QED  BY <1>0, <1>1, <1>2, CheckNextGoes

LEMMA GrantWalks ==
  ASSUME IInv, NEW p \in Replies, Grant(p)
  PROVE  Walks(p)
<1>0. TypeOK /\ Listed /\ Placed(p) /\ reply[p].at = "granting" /\ reply[p].cur \in Asks
  BY PlacedKind DEF IInv, Grant, Placed
<1>1. UNCHANGED <<env, saved, ask>> /\ Answers(reply[p].cur, "allowed")
  BY DEF Grant, Answers
<1>2. /\ deferred' \in [Asks -> {"open", "allowed", "declined"}] /\ pending' \in Seq(Asks)
      /\ \A b \in Asks : InMap(b)' <=> InMap(b) /\ b # reply[p].cur
      /\ Listed'
  BY <1>0, <1>1, AnswersList
<1>3. PICK cur \in Asks : cur = reply[p].cur
  BY <1>0
<1>4. Goes(p, ToSettle(p))
  BY <1>0, <1>1, <1>2, <1>3, PassWalks DEF Grant
<1> QED  BY <1>1, <1>2, <1>4 DEF Walks

\* A covered entry is granted: its grounds are a saved approval or the rules
\* of the agent it was judged by, for each resource.
LEMMA CoveredGrounds ==
  ASSUME IInv, NEW p \in Replies, reply[p].at \in Walking, NEW a \in Asks, ask[a].req \in Requests,
         Covered(ask[a].req, reply[p].rules)
  PROVE  Grounds(p, a)
<1>0. TypeOK /\ Cleared(p)
  BY PlacedKind DEF IInv, Fits
<1>1. a \in reply[p].clear
  BY <1>0, NoRequestIsNone DEF Cleared, Covered
<1>2. PICK g \in Agents : RulesFor(ask[a].req) = Rules[g]
  BY <1>0, RequestsAssumption DEF RulesFor, RulesUnder, TypeOK
<1>3. ASSUME NEW r \in ask[a].req.resources
      PROVE  (\E approval \in reply[p].rules : r \in approval) \/ Evaluate(r, Rules[g]) = "allow"
  <2>1. WithSaved(r, Rules[g], reply[p].rules) = "allow"
    BY <1>2 DEF Covered, Effects
  <2> QED  BY <2>1 DEF WithSaved
<1> QED  BY <1>1, <1>3 DEF Grounds

LEMMA CheckKeeps ==
  ASSUME IInv, NEW p \in Replies, Check(p)
  PROVE  IInv' /\ (reply'[p].at = "done" => \A a \in ToSettle(p) : Settled(p, a))
<1>0. /\ TypeOK /\ Listed /\ Fits(p) /\ Placed(p)
      /\ reply[p] \in ReplyStates /\ reply \in [Replies -> ReplyStates]
      /\ reply[p].at = "checking" /\ reply[p].cur \in Asks
  BY PlacedKind DEF IInv, Check, Placed
<1>1. UNCHANGED <<env, saved, pending, ask, deferred>>
  BY DEF Check
<1>2. /\ deferred' \in [Asks -> {"open", "allowed", "declined"}] /\ pending' \in Seq(Asks)
      /\ \A b \in Asks : InMap(b)' <=> InMap(b)
      /\ Listed'
  BY <1>0, <1>1 DEF TypeOK, Listed, InMap
<1>3. PICK cur \in Asks : cur = reply[p].cur
  BY <1>0
<1>4. CASE ask[cur].req.session \notin removed /\ Covered(ask[cur].req, reply[p].rules)
  <2>1. reply' = [reply EXCEPT ![p].at = "granting"]
    BY <1>3, <1>4 DEF Check
  <2>2. /\ reply' \in [Replies -> ReplyStates] /\ \A q \in Replies \ {p} : reply'[q] = reply[q]
        /\ reply'[p] = [reply[p] EXCEPT !.at = "granting"]
    BY <1>0, <2>1 DEF ReplyStates, Walking
  <2>3. /\ reply'[p].at = "granting" /\ reply'[p].says = reply[p].says /\ reply'[p].to = reply[p].to
        /\ reply'[p].cur = cur /\ reply'[p].seen = reply[p].seen /\ reply'[p].rules = reply[p].rules
        /\ reply'[p].standing = reply[p].standing /\ reply'[p].clear = reply[p].clear
    BY <1>0, <1>3, <2>2 DEF ReplyStates
  <2>4. Placed(p)'
    BY <1>0, <1>1, <1>3, <2>3 DEF Placed, Walking
  <2>5. Cleared(p)'
    BY <1>0, <1>1, <2>3 DEF Fits, Cleared, env, RulesFor, RulesUnder, Denied, Walking
  <2>6. Grounded(p)'
    <3>1. Grounds(p, cur)
      BY <1>0, <1>3, <1>4, CoveredGrounds DEF Placed, Walking
    <3> QED  BY <1>1, <2>3, <3>1 DEF Grounded, Grounds
  <2>7. Walked(p)'
    <3> SUFFICES ASSUME NEW a \in reply[p].standing
                 PROVE  \/ ask'[a].req.session \in removed' \cup switched'
                        \/ Covered(ask[a].req, reply[p].rules)' /\ NotPassed(p, a)'
      BY <2>3 DEF Walked
    <3>0. a \in Asks
      BY <1>0 DEF ReplyStates
    <3>1. RulesFor(ask[a].req)' = RulesFor(ask[a].req) /\ ask'[a].req = ask[a].req
      BY <1>1 DEF env, RulesFor, RulesUnder
    <3>2. Covered(ask[a].req, reply[p].rules) => Covered(ask[a].req, reply[p].rules)'
      BY <2>3, <3>1 DEF Covered
    <3>3. NotPassed(p, a) => NotPassed(p, a)'
      BY <1>2, <2>3, <1>3, <3>0 DEF NotPassed
    <3>4. ask[a].req.session \in removed \cup switched \/ (Covered(ask[a].req, reply[p].rules) /\ NotPassed(p, a))
      BY <1>0 DEF Fits, Walked
    <3> QED  BY <1>1, <3>2, <3>3, <3>4 DEF env
  <2>8. Fits(p)'
    BY <2>4, <2>5, <2>6, <2>7 DEF Fits
  <2>9. TypeOK' /\ ReplyMoves(p)
    BY <1>0, <1>1, <1>2, <2>2 DEF TypeOK, ReplyMoves, env
  <2> QED  BY <1>2, <2>3, <2>8, <2>9, ReplyMovesFit DEF IInv
<1>5. CASE ~(ask[cur].req.session \notin removed /\ Covered(ask[cur].req, reply[p].rules))
  <2>1. CheckNext(p, reply[p])
    BY <1>3, <1>5 DEF Check
  <2>2. Goes(p, ToSettle(p))
    BY <1>0, <1>1, <1>2, <1>3, <1>5, <2>1, PassWalks
  <2>3. Walks(p)
    BY <1>1, <1>2, <2>2 DEF Walks
  <2> QED  BY <2>2, <2>3, WalksKeeps DEF Goes
<1> QED  BY <1>4, <1>5

-----------------------------------------------------------------------------
(* Around the service *)

\* The user revokes an approval, deletes a session or switches its agent.
Around ==
  \/ \E approval \in saved : Revoke(approval)
  \/ \E s \in Sessions : RemoveSession(s)
  \/ \E s \in Sessions, g \in Agents : SwitchAgent(s, g)

LEMMA AroundKeeps ==
  ASSUME IInv, Around
  PROVE  IInv' /\ \A p \in Replies : reply'[p].at = reply[p].at
<1>0. TypeOK /\ Listed /\ \A p \in Replies : Fits(p)
  BY DEF IInv
<1>1. UNCHANGED <<pending, ask, deferred>> /\ \A b \in Asks : InMap(b)' <=> InMap(b)
  BY DEF Around, Revoke, RemoveSession, SwitchAgent, InMap
<1>2. changes' \in 0..MaxChanges
  BY <1>0, ChangesAssumption DEF Around, Revoke, RemoveSession, SwitchAgent, Changed, TypeOK
<1>3. Listed'
  BY <1>0, <1>1 DEF Listed
<1>4. AsksKept
  BY <1>1 DEF AsksKept
<1>5. SUFFICES TypeOK' /\ EnvGrows /\ \A p \in Replies : Keeps(p) /\ Cleared(p)'
  BY <1>0, <1>3, <1>4, FitsStill DEF IInv, Keeps
<1>6. CASE UNCHANGED <<agent, switched, reply>> /\ removed \subseteq removed' /\ removed' \subseteq Sessions
           /\ saved' \subseteq SUBSET Resources
  <2>1. TypeOK'
    BY <1>0, <1>1, <1>2, <1>6 DEF TypeOK
  <2>2. EnvGrows /\ \A p \in Replies : Keeps(p)
    BY <1>6 DEF EnvGrows, Keeps
  <2>3. \A p \in Replies : Cleared(p)'
    BY <1>0, <1>1, <1>6 DEF Fits, Cleared, RulesFor, RulesUnder, Denied
  <2> QED  BY <2>1, <2>2, <2>3
<1>7. ASSUME NEW s \in Sessions, NEW g \in Agents, SwitchAgent(s, g)
      PROVE  TypeOK' /\ EnvGrows /\ \A p \in Replies : Keeps(p) /\ Cleared(p)'
  <2>1. /\ agent' = [agent EXCEPT ![s] = g] /\ switched' = switched \cup {s}
        /\ Clears(Undenied(agent')) /\ UNCHANGED <<removed, saved>>
    BY <1>7 DEF SwitchAgent
  <2>2. Undenied(agent') \in SUBSET Asks
    BY DEF Undenied
  <2>3. /\ reply' \in [Replies -> ReplyStates]
        /\ \A p \in Replies :
              /\ Keeps(p)
              /\ reply[p].at \in Walking => reply'[p].clear = reply[p].clear \cup Undenied(agent')
    BY <1>0, <2>1, <2>2, ClearsKeep
  <2>4. agent' \in [Sessions -> Agents] /\ switched' \subseteq Sessions
        /\ \A t \in Sessions \ switched' : agent'[t] = agent[t]
    BY <1>0, <2>1 DEF TypeOK
  <2>5. TypeOK' /\ EnvGrows
    BY <1>0, <1>1, <1>2, <2>1, <2>3, <2>4 DEF TypeOK, EnvGrows
  <2>6. ASSUME NEW p \in Replies
        PROVE  Cleared(p)'
    <3> SUFFICES ASSUME reply[p].at \in Walking, NEW b \in Asks, ask'[b].req # NoRequest,
                        ~Denied(ask[b].req, RulesFor(ask[b].req))'
                 PROVE  b \in reply'[p].clear
      BY <2>3 DEF Cleared, Keeps
    <3>1. RulesFor(ask[b].req)' = RulesUnder(ask[b].req, agent')
      BY <1>1 DEF RulesFor, RulesUnder
    <3>2. b \in Undenied(agent')
      BY <1>1, <3>1 DEF Undenied
    <3> QED  BY <2>3, <3>2
  <2> QED  BY <2>3, <2>5, <2>6
<1>8. ASSUME NEW approval \in saved, Revoke(approval)
      PROVE  /\ UNCHANGED <<agent, switched, reply>> /\ removed \subseteq removed'
             /\ removed' \subseteq Sessions /\ saved' \subseteq SUBSET Resources
  BY <1>0, <1>8 DEF Revoke, TypeOK
<1>9. ASSUME NEW s \in Sessions, RemoveSession(s)
      PROVE  /\ UNCHANGED <<agent, switched, reply>> /\ removed \subseteq removed'
             /\ removed' \subseteq Sessions /\ saved' \subseteq SUBSET Resources
  BY <1>0, <1>9 DEF RemoveSession, TypeOK
<1> QED  BY <1>6, <1>7, <1>8, <1>9 DEF Around

-----------------------------------------------------------------------------
(* Theorems *)

LEMMA InitFits == Init => IInv
<1> SUFFICES ASSUME Init
             PROVE  IInv
  OBVIOUS
<1>1. TypeOK
  BY RulesAssumption, ChangesAssumption
     DEF Init, TypeOK, AskStates, ReplyStates, NoReply
<1>2. Listed
  BY DEF Init, Listed, InMap
<1>3. \A p \in Replies : Fits(p)
  BY DEF Init, NoReply, Fits, Placed, Cleared, Grounded, Walked, Walking
<1> QED  BY <1>1, <1>2, <1>3 DEF IInv

LEMMA IdleKeeps ==
  ASSUME IInv, UNCHANGED vars
  PROVE  IInv'
<1>0. TypeOK /\ Listed /\ \A p \in Replies : Fits(p)
  BY DEF IInv
<1>1. TypeOK' /\ Listed' /\ AsksKept /\ EnvGrows /\ \A p \in Replies : Keeps(p)
  BY <1>0 DEF TypeOK, Listed, InMap, AsksKept, EnvGrows, Keeps, vars, env
<1>2. \A p \in Replies : Cleared(p)'
  BY <1>0 DEF Fits, Cleared, RulesFor, RulesUnder, Denied, vars, env
<1> QED  BY <1>0, <1>1, <1>2, FitsStill DEF IInv

\* Every step keeps the invariant; a reply that returns, other than by an
\* approval of its request alone, has settled what it had to.
LEMMA StepFits ==
  ASSUME IInv, [Next]_vars
  PROVE  /\ IInv'
         /\ \A p \in Replies :
              reply'[p].at = "done" /\ (reply[p].at = "replying" => reply[p].says = "reject") =>
                \A a \in ToSettle(p) : Settled(p, a)
<1> DEFINE Settles == \A p \in Replies :
              reply'[p].at = "done" /\ (reply[p].at = "replying" => reply[p].says = "reject") =>
                \A a \in ToSettle(p) : Settled(p, a)
<1>1. ASSUME NEW p \in Replies, reply[p].at = "done"
      PROVE  ToSettle(p) = {}
  BY <1>1, PlacedKind DEF ToSettle, Placed
<1>2. ASSUME \A p \in Replies : reply'[p].at = reply[p].at
      PROVE  Settles
  BY <1>1, <1>2
<1>3. ASSUME NEW a \in Asks, AskStep(a)
      PROVE  IInv' /\ \A p \in Replies : reply'[p].at = reply[p].at
  <2>1. ASSUME NEW req \in Requests, Configured(a, req)
        PROVE  \A p \in Replies : reply'[p].at = reply[p].at
    <3>1. CASE UNCHANGED reply
      BY <3>1
    <3>2. CASE Clears({a})
      BY <3>2, ClearsKeep DEF Keeps, IInv
    <3> QED  BY <2>1, <3>1, <3>2 DEF Configured
  <2>2. ASSUME Evaluated(a) \/ Asked(a) \/ AskFails(a) \/ Resumes(a)
        PROVE  UNCHANGED reply
    BY <2>2 DEF Evaluated, Asked, AskFails, Resumes
  <2>3. IInv'
    BY <1>3, ConfiguredKeeps, EvaluatedKeeps, ReturnsKeep DEF AskStep
  <2> QED  BY <1>3, <2>1, <2>2, <2>3 DEF AskStep
<1>4. ASSUME NEW p \in Replies, ReplyStep(p)
      PROVE  IInv' /\ Settles
  <2>1. \A q \in Replies \ {p} : reply'[q] = reply[q]
    <3>1. reply \in [Replies -> ReplyStates]
      BY PlacedKind
    <3> QED  BY <1>4, <3>1 DEF ReplyStep, Reply, Reject, Decline, Save, Approve, List, Check, Grant,
                               DeclineNext, CheckNext
  <2>2. SUFFICES IInv' /\ (reply'[p].at = "done" /\ (reply[p].at = "replying" => reply[p].says = "reject") =>
                             \A a \in ToSettle(p) : Settled(p, a))
    BY <1>1, <2>1
  <2>3. CASE \E a \in Asks, says \in {"once", "always", "reject"} : Reply(p, a, says)
    <3>1. IInv'
      BY <2>3, ReplyKeeps
    <3>2. reply'[p].at = "replying"
      BY <2>3, PlacedKind DEF Reply, NoReply
    <3> QED  BY <3>1, <3>2
  <2>4. CASE Save(p)
    <3>1. reply'[p].at = "saved"
      BY <2>4, PlacedKind DEF Save, ReplyStates
    <3> QED  BY <2>4, <3>1, SaveKeeps
  <2>5. CASE Approve(p)
    <3>1. \/ reply[p].at = "replying" /\ reply[p].says # "reject"
          \/ reply'[p].at = "listing"
      BY <2>5, PlacedKind DEF Approve, ReplyStates
    <3> QED  BY <2>5, <3>1, ApproveKeeps
  <2>6. CASE Reject(p) \/ Decline(p) \/ List(p) \/ Grant(p)
    BY <2>6, RejectWalks, DeclineWalks, ListWalks, GrantWalks, WalksKeeps DEF Walks, Goes
  <2>7. CASE Check(p)
    BY <2>7, CheckKeeps
  <2> QED  BY <1>4, <2>3, <2>4, <2>5, <2>6, <2>7 DEF ReplyStep
<1>5. CASE Around
  BY <1>2, <1>5, AroundKeeps
<1>6. CASE UNCHANGED vars
  BY <1>2, <1>6, IdleKeeps DEF vars
<1> QED  BY <1>2, <1>3, <1>4, <1>5, <1>6 DEF Next, Around

\* Every reachable state satisfies the inductive invariant.
THEOREM PermissionInductive == Spec => []IInv
<1>1. IInv /\ [Next]_vars => IInv'
  BY StepFits
<1> QED  BY <1>1, InitFits, PTL DEF Spec

\* Whoever waits for an answer has its request listed, where a reply finds it
\* (permission.ts:208-214, 223).
THEOREM EveryWaiterAnswerable == Spec => []WaitersAnswerable
<1>1. IInv => WaitersAnswerable
  BY DEF IInv, Listed, WaitersAnswerable
<1> QED  BY <1>1, PermissionInductive, PTL

\* A request that another request's approval grants was not denied all the
\* time since that approval was saved, and each of its resources is covered by
\* an approval or by an agent's rules (permission.ts:155-162, 262-282).
THEOREM NoGrantWithoutGrounds == Spec => GrantedOnGrounds
<1> DEFINE Granted ==
      \A a \in Asks : \A p \in Replies :
         /\ deferred[a] = "open" /\ deferred'[a] = "allowed"
         /\ reply[p].at = "granting" /\ reply[p].cur = a /\ reply'[p] # reply[p]
         => /\ a \in reply[p].clear
            /\ \A r \in ask[a].req.resources :
                 \/ \E approval \in reply[p].rules : r \in approval
                 \/ \E g \in Agents : Evaluate(r, Rules[g]) = "allow"
<1>1. IInv => Granted
  BY PlacedKind DEF Fits, Grounded, Grounds
<1>2. IInv /\ [Next]_vars => [Granted]_vars
  BY <1>1
<1> QED  BY <1>2, PermissionInductive, PTL DEF Spec, GrantedOnGrounds

\* A reply returns only when all it had to settle is settled: a rejection's
\* session waits for nothing it waited for, and an approval that was saved left
\* no request it covers (permission.ts:236-246, 261-283).
THEOREM RepliesSettleAll == Spec => RepliesSettle
<1> DEFINE Settles ==
      \A p \in Replies : reply'[p].at = "done" /\ (reply[p].at = "replying" => reply[p].says = "reject") =>
         \A a \in ToSettle(p) :
            LET s == ask[a].req.session IN
            \/ ~InMap(a)'
            \/ reply[p].says = "always" /\ s \in removed \cup switched
<1>1. IInv /\ [Next]_vars => [Settles]_vars
  BY StepFits DEF Settled
<1> QED  BY <1>1, PermissionInductive, PTL DEF Spec, RepliesSettle
=============================================================================
