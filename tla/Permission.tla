----------------------------- MODULE Permission -----------------------------
(***************************************************************************)
(* The permission service of one location (core/src/permission.ts) and the *)
(* approvals it saves (core/src/permission/saved.ts).  A request is        *)
(* evaluated against its session's configured rules and the saved ones;    *)
(* when they say "ask" it waits in `pending` for a reply.  A rejection     *)
(* also declines whatever else its session waits for, and an approval that *)
(* is saved also grants whatever else it now covers; both walk the live    *)
(* Map, suspending at each entry while others come and go.                 *)
(*                                                                         *)
(* A resource stands for an action together with a resource; what a        *)
(* wildcard pattern matches is the set of resources it covers.  Saved      *)
(* rules only allow, so their order does not matter.                       *)
(***************************************************************************)
EXTENDS Naturals, Sequences

CONSTANTS Asks,       \* calls of assert and ask, one request ID each
          Replies,    \* calls of reply
          Sessions, Agents,
          DefaultAgent,  \* the agent of a session that names none
          Resources,
          Rules,      \* Rules[g]: the permissions of agent g
          Requests,   \* what may be asked
          MaxChanges, \* bound: how often the user changes something around
          None

ASSUME RulesAssumption ==
    /\ DefaultAgent \in Agents
    /\ \A g \in Agents : \A i \in DOMAIN Rules[g] :
            Rules[g][i].covers \subseteq Resources /\ Rules[g][i].effect \in {"allow", "ask", "deny"}

ASSUME ChangesAssumption == MaxChanges \in Nat

ASSUME RequestsAssumption ==
    /\ None \notin Sessions
    /\ \A q \in Requests :
        /\ q.session \in Sessions /\ q.agent \in Agents \cup {None}
        /\ q.resources \subseteq Resources
        /\ q.save \subseteq SUBSET Resources /\ q.waits \in BOOLEAN

VARIABLES removed,   \* sessions that were deleted
          agent,     \* the agent each session is with
          switched,  \* sessions that changed it
          changes,   \* how often the user changed any of these, or an approval
          saved,     \* the saved approvals: sets of resources
          pending,   \* the requests in the Map, in insertion order
          ask,       \* where each request is
          deferred,  \* how each request's deferred was completed
          reply      \* where each reply is

env == <<removed, agent, switched, changes>>
vars == <<env, saved, pending, ask, deferred, reply>>

-----------------------------------------------------------------------------
(* Evaluation *)

(* The last rule that covers the resource decides; without one, ask.        *)
Evaluate(resource, rules) ==
    LET covering == {i \in DOMAIN rules : resource \in rules[i].covers} IN
    IF covering = {} THEN "ask" ELSE rules[CHOOSE i \in covering : \A j \in covering : j <= i].effect

Denied(req, rules) == \E r \in req.resources : Evaluate(r, rules) = "deny"

(* The configured rules followed by the saved ones.                         *)
WithSaved(resource, rules, approvals) ==
    IF \E p \in approvals : resource \in p THEN "allow" ELSE Evaluate(resource, rules)

Effects(req, rules, approvals) == {WithSaved(r, rules, approvals) : r \in req.resources}

Effect(req, rules, approvals) ==
    LET effects == Effects(req, rules, approvals) IN
    IF "deny" \in effects THEN "deny" ELSE IF "ask" \in effects THEN "ask" ELSE "allow"

-----------------------------------------------------------------------------
(* Shapes and pieces *)

NoRequest == [session |-> None, agent |-> None, resources |-> {}, save |-> {}, waits |-> FALSE]

(* configured: the rules of the agent the request names, else of the        *)
(* session's agent at the time.                                             *)
RulesUnder(req, agents) == Rules[IF req.agent # None THEN req.agent ELSE agents[req.session]]

RulesFor(req) == RulesUnder(req, agent)

InMap(a) == \E i \in DOMAIN pending : pending[i] = a

Without(a) ==
    IF ~InMap(a) THEN pending
    ELSE LET i == CHOOSE i \in DOMAIN pending : pending[i] = a
         IN SubSeq(pending, 1, i - 1) \o SubSeq(pending, i + 1, Len(pending))

Complete(a, how) == IF deferred[a] = "open" THEN [deferred EXCEPT ![a] = how] ELSE deferred

Go(a, place) == ask' = [ask EXCEPT ![a].at = place]

(* A reply: its answer, its request, the entry its walk is at, the entries  *)
(* it has passed and the approvals as they were when the walk began; and,   *)
(* as history, what it has to settle beyond its own request and which       *)
(* requests were not denied at some time since it saved.                    *)
NoReply == [at |-> "ready", says |-> "none", to |-> None, cur |-> None, seen |-> {}, rules |-> {},
            standing |-> {}, clear |-> {}]

Returned(p) == [NoReply EXCEPT !.at = "done"]

Walking == {"saved", "listing", "checking", "granting"}

(* The walk of a live Map: the positions of the entries that are there now  *)
(* and not passed yet; the first of them comes next.                        *)
Ahead(queue, seen) == {i \in DOMAIN queue : queue[i] \notin seen}

First(positions) == CHOOSE i \in positions : \A j \in positions : i <= j

(* History: what a walk under way may grant, now that these are not denied. *)
Clears(asks) ==
    reply' = [p \in Replies |->
                IF reply[p].at \in Walking THEN [reply[p] EXCEPT !.clear = @ \cup asks] ELSE reply[p]]

-----------------------------------------------------------------------------
(* assert and ask *)

(* The session is looked up and its rules are read; a denial is final.      *)
Configured(a, req) ==
    /\ ask[a].at = "new"
    /\ \/ req.session \in removed /\ Go(a, "over") /\ UNCHANGED reply
       \/ req.session \notin removed /\ Denied(req, RulesFor(req)) /\ Go(a, "over") /\ UNCHANGED reply
       \/ /\ req.session \notin removed /\ ~Denied(req, RulesFor(req))
          /\ ask' = [ask EXCEPT ![a] = [at |-> "evaluating", req |-> req, rules |-> RulesFor(req)]]
          /\ Clears({a})
    /\ UNCHANGED <<env, saved, pending, deferred>>

(* The saved rules are read: decided at once, or queued and announced.      *)
Evaluated(a) ==
    /\ ask[a].at = "evaluating"
    /\ LET asks == Effect(ask[a].req, ask[a].rules, saved) = "ask" IN
       /\ ask' = [ask EXCEPT ![a].at = IF asks THEN "asking" ELSE "over", ![a].rules = << >>]
       /\ pending' = IF asks THEN Append(pending, a) ELSE pending
    /\ UNCHANGED <<env, saved, deferred, reply>>

(* Asked is out: assert waits for the deferred, ask returns.                *)
Asked(a) ==
    /\ ask[a].at = "asking"
    /\ Go(a, IF ask[a].req.waits THEN "waiting" ELSE "queued")
    /\ UNCHANGED <<env, saved, pending, deferred, reply>>

(* Publishing Asked failed: the request is taken back.                      *)
AskFails(a) ==
    /\ ask[a].at = "asking"
    /\ Go(a, "over")
    /\ pending' = Without(a)
    /\ UNCHANGED <<env, saved, deferred, reply>>

(* The waiting assert has its answer, or its fiber is interrupted: it       *)
(* leaves the Map either way.                                               *)
Resumes(a) ==
    /\ ask[a].at = "waiting"
    /\ Go(a, "over")
    /\ pending' = Without(a)
    /\ UNCHANGED <<env, saved, deferred, reply>>

-----------------------------------------------------------------------------
(* reply *)

(* Mutant: the configured denial is not looked at again.                    *)
CoveredDespiteDenial(req, approvals) == Effects(req, RulesFor(req), approvals) \subseteq {"allow"}

Covered(req, approvals) ==
    /\ ~Denied(req, RulesFor(req))
    /\ Effects(req, RulesFor(req), approvals) \subseteq {"allow"}

(* History: what a reply has to settle by its end, beyond its own request,  *)
(* fixed as its walk begins.                                                *)
ToSettle(p) ==
    LET a == reply[p].to IN
    CASE reply[p].at = "replying" ->
           {b \in Asks \ {a} : InMap(b) /\ ask[b].req.session = ask[a].req.session}
      [] reply[p].at = "listing" -> {b \in Asks : InMap(b) /\ Covered(ask[b].req, saved)}
      [] OTHER -> reply[p].standing

(* The request is looked up and Replied published; a reply that finds no    *)
(* request fails and changes nothing.                                       *)
Reply(p, a, says) ==
    /\ reply[p].at = "ready" /\ InMap(a)
    /\ reply' = [reply EXCEPT ![p] = [NoReply EXCEPT !.at = "replying", !.says = says, !.to = a]]
    /\ UNCHANGED <<env, saved, pending, ask, deferred>>

SaysAlways(p) == reply[p].says = "always" /\ ask[reply[p].to].req.save # {}

(* Mutant: the walk ends at the first request of another session.           *)
ToDeclineUpToOther(queue, seen, session) ==
    {i \in Ahead(queue, seen) :
        \A j \in Ahead(queue, seen) : j <= i => ask[queue[j]].req.session = session}

(* What a rejection's walk has yet to decline: its session's entries.       *)
ToDecline(queue, seen, session) ==
    {i \in Ahead(queue, seen) : ask[queue[i]].req.session = session}

(* On to that entry, passing those of other sessions; Replied is published  *)
(* for it.                                                                  *)
DeclineNext(p, seen, standing) ==
    LET mine == ToDecline(pending', seen, ask[reply[p].to].req.session)
        i == First(mine)
    IN reply' = [reply EXCEPT ![p] =
                   IF mine = {} THEN Returned(p)
                   ELSE [@ EXCEPT !.at = "declining", !.cur = pending'[i],
                                  !.seen = seen \cup {pending'[j] : j \in 1..i},
                                  !.standing = standing]]

Reject(p) ==
    LET a == reply[p].to IN
    /\ reply[p].at = "replying" /\ reply[p].says = "reject"
    /\ deferred' = Complete(a, "declined")
    /\ pending' = Without(a)
    /\ DeclineNext(p, {}, ToSettle(p))
    /\ UNCHANGED <<env, saved, ask>>

(* Mutant: the entries a rejection walks over are only removed.             *)
DeclineSilently(p) ==
    /\ reply[p].at = "declining"
    /\ pending' = Without(reply[p].cur)
    /\ DeclineNext(p, reply[p].seen, ToSettle(p))
    /\ UNCHANGED <<env, saved, ask, deferred>>

Decline(p) ==
    /\ reply[p].at = "declining"
    /\ deferred' = Complete(reply[p].cur, "declined")
    /\ pending' = Without(reply[p].cur)
    /\ DeclineNext(p, reply[p].seen, ToSettle(p))
    /\ UNCHANGED <<env, saved, ask>>

(* The requests under way that the rules do not deny.                       *)
Undenied(agents) ==
    {a \in Asks : ask[a].req # NoRequest /\ ~Denied(ask[a].req, RulesUnder(ask[a].req, agents))}

(* "always" saves what the request asked to save; the row is committed      *)
(* before the reply goes on.                                                *)
Save(p) ==
    /\ reply[p].at = "replying" /\ SaysAlways(p)
    /\ saved' = saved \cup ask[reply[p].to].req.save
    /\ reply' = [reply EXCEPT ![p].at = "saved", ![p].clear = Undenied(agent)]
    /\ UNCHANGED <<env, pending, ask, deferred>>

Approve(p) ==
    LET a == reply[p].to IN
    /\ \/ reply[p].at = "replying" /\ reply[p].says # "reject" /\ ~SaysAlways(p)
          /\ reply' = [reply EXCEPT ![p] = Returned(p)]
       \/ reply[p].at = "saved"
          /\ reply' = [reply EXCEPT ![p].at = "listing"]
    /\ deferred' = Complete(a, "allowed")
    /\ pending' = Without(a)
    /\ UNCHANGED <<env, saved, ask>>

(* On to the next entry of an approval's walk, whose session is looked up.  *)
CheckNext(p, walk) ==
    LET ahead == Ahead(pending', walk.seen)
        next == pending'[First(ahead)]
    IN reply' = [reply EXCEPT ![p] =
                   IF ahead = {} THEN Returned(p)
                   ELSE [walk EXCEPT !.at = "checking", !.cur = next, !.seen = @ \cup {next}]]

List(p) ==
    /\ reply[p].at = "listing"
    /\ UNCHANGED <<env, saved, pending, ask, deferred>>
    /\ CheckNext(p, [reply[p] EXCEPT !.rules = saved,
                                     !.standing = ToSettle(p)])

Check(p) ==
    LET req == ask[reply[p].cur].req IN
    /\ reply[p].at = "checking"
    /\ UNCHANGED <<env, saved, pending, ask, deferred>>
    /\ IF req.session \notin removed /\ Covered(req, reply[p].rules)
       THEN reply' = [reply EXCEPT ![p].at = "granting"]
       ELSE CheckNext(p, reply[p])

(* Replied is out for a covered entry.                                      *)
Grant(p) ==
    /\ reply[p].at = "granting"
    /\ deferred' = Complete(reply[p].cur, "allowed")
    /\ pending' = Without(reply[p].cur)
    /\ CheckNext(p, reply[p])
    /\ UNCHANGED <<env, saved, ask>>

-----------------------------------------------------------------------------
(* Around the service *)

Changed == changes < MaxChanges /\ changes' = changes + 1

(* PermissionSaved.remove: the user takes an approval back.                 *)
Revoke(approval) ==
    /\ approval \in saved /\ Changed
    /\ saved' = saved \ {approval}
    /\ UNCHANGED <<removed, agent, switched, pending, ask, deferred, reply>>

RemoveSession(s) ==
    /\ s \notin removed /\ Changed
    /\ removed' = removed \cup {s}
    /\ UNCHANGED <<agent, switched, saved, pending, ask, deferred, reply>>

SwitchAgent(s, g) ==
    /\ agent[s] # g /\ Changed
    /\ agent' = [agent EXCEPT ![s] = g]
    /\ switched' = switched \cup {s}
    /\ Clears(Undenied(agent'))
    /\ UNCHANGED <<removed, saved, pending, ask, deferred>>

(* Where a request is, and where a reply is.                                *)
AskStates ==
    [at : {"new", "evaluating", "asking", "waiting", "queued", "over"},
     req : Requests \cup {NoRequest}, rules : {Rules[g] : g \in Agents} \cup {<< >>}]
ReplyStates ==
    [at : {"ready", "replying", "declining", "done"} \cup Walking,
     says : {"none", "once", "always", "reject"},
     to : Asks \cup {None}, cur : Asks \cup {None}, seen : SUBSET Asks,
     rules : SUBSET SUBSET Resources, standing : SUBSET Asks, clear : SUBSET Asks]

TypeOK ==
    /\ removed \subseteq Sessions /\ switched \subseteq Sessions
    /\ agent \in [Sessions -> Agents]
    /\ changes \in 0..MaxChanges
    /\ saved \subseteq SUBSET Resources
    /\ pending \in Seq(Asks)
    /\ ask \in [Asks -> AskStates]
    /\ deferred \in [Asks -> {"open", "allowed", "declined"}]
    /\ reply \in [Replies -> ReplyStates]

Init ==
    /\ removed = {}
    /\ agent = [s \in Sessions |-> DefaultAgent]
    /\ switched = {} /\ changes = 0
    /\ saved = {}
    /\ pending = <<>>
    /\ ask = [a \in Asks |-> [at |-> "new", req |-> NoRequest, rules |-> << >>]]
    /\ deferred = [a \in Asks |-> "open"]
    /\ reply = [p \in Replies |-> NoReply]

AskStep(a) ==
    \/ \E req \in Requests : Configured(a, req)
    \/ Evaluated(a) \/ Asked(a) \/ AskFails(a) \/ Resumes(a)

ReplyStep(p) ==
    \/ \E a \in Asks, says \in {"once", "always", "reject"} : Reply(p, a, says)
    \/ Reject(p) \/ Decline(p) \/ Save(p) \/ Approve(p) \/ List(p) \/ Check(p) \/ Grant(p)

Next ==
    \/ \E a \in Asks : AskStep(a)
    \/ \E p \in Replies : ReplyStep(p)
    \/ \E approval \in saved : Revoke(approval)
    \/ \E s \in Sessions : RemoveSession(s)
    \/ \E s \in Sessions, g \in Agents : SwitchAgent(s, g)

Spec == Init /\ [][Next]_vars

-----------------------------------------------------------------------------
(* Properties *)

(* Whoever is granted without a reply of its own is covered, resource by    *)
(* resource, by an approval that was saved or by some agent's rules, and    *)
(* its session's rules did not deny it all the time since the reply that    *)
(* grants it saved: an approval never widens what a configured denial       *)
(* forbids (permission.ts:155-162, 262-282).                                *)
GrantedOnGrounds ==
    [][\A a \in Asks : \A p \in Replies :
         /\ deferred[a] = "open" /\ deferred'[a] = "allowed"
         /\ reply[p].at = "granting" /\ reply[p].cur = a /\ reply'[p] # reply[p]
         => /\ a \in reply[p].clear
            /\ \A r \in ask[a].req.resources :
                 \/ \E approval \in reply[p].rules : r \in approval
                 \/ \E g \in Agents : Evaluate(r, Rules[g]) = "allow"]_vars

(* A reply that returns has settled all it had to: a rejection every        *)
(* request its session was waiting for, an approval that was saved every    *)
(* request it covers (of sessions that are still there and kept their       *)
(* agent), whatever came, went or was replied to during the walk            *)
(* (permission.ts:236-246, 261-283).                                        *)
RepliesSettle ==
    [][\A p \in Replies : reply'[p].at = "done" /\ (reply[p].at = "replying" => reply[p].says = "reject") =>
         \A a \in ToSettle(p) :
            LET s == ask[a].req.session IN
            \/ ~InMap(a)'
            \/ reply[p].says = "always" /\ s \in removed \cup switched]_vars

(* Whoever waits for an answer can get one: its request is listed, so that  *)
(* a reply finds it (permission.ts:208-214, 223).                           *)
WaitersAnswerable ==
    /\ TypeOK
    /\ \A a \in Asks : ask[a].at = "waiting" /\ deferred[a] = "open" => InMap(a)
=============================================================================
