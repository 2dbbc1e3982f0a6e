---------------------------- MODULE MCPermission ----------------------------
(* Two sessions of one location.  One agent has no rules, so that it asks   *)
(* about everything; the other allows everything, then denies bash.         *)
EXTENDS Permission, TLC

CONSTANTS s1, s2, build, plan, edit, bash

MCRules ==
    [g \in {build, plan} |->
        IF g = build THEN << >>
        ELSE << [covers |-> {edit, bash}, effect |-> "allow"], [covers |-> {bash}, effect |-> "deny"] >>]

Request(s, g, resources, save, waits) ==
    [session |-> s, agent |-> g, resources |-> resources, save |-> save, waits |-> waits]

(* An edit, approved for good with a wildcard; a command of another         *)
(* session; both, of an agent the caller names, which is only listed.       *)
MCRequests ==
    {Request(s1, None, {edit}, {{edit, bash}}, TRUE),
     Request(s2, None, {bash}, {{bash}}, TRUE),
     Request(s1, build, {edit, bash}, {}, FALSE)}

Symmetry == Permutations(Asks) \cup Permutations(Replies)
=============================================================================
