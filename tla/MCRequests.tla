----------------------------- MODULE MCRequests -----------------------------
(* Requests with constants for TLC: the instances of the cfg files.         *)
EXTENDS RequestProperties, TLC

CONSTANTS home, branch, ann, bob, noKey, k1, k2, p1, p2

\* Ann works with the books, Bob manages access.
WorkPermits ==
  (ann :> {"erp.finance.view", "erp.finance.post", "erp.finance.close"})
  @@ (bob :> {"erp.finance.manage_access"})

\* Ann starts with both legal entities, Bob with the branch; Ann's grant of home
\* comes and goes.
BothForAnn == {(ann :> {home, branch}) @@ (bob :> {branch})}
AnnsHome == {<<ann, home>>}

\* Ann asks for anything but access, Bob for access and for what he is not
\* granted.  Every operation is tried with everything that may be wrong with its
\* request; the second key is for another reversal.
Sensible(c) ==
  /\ c.op \in AccessOps <=> c.caller = bob /\ c.op # "ReverseEntry"
  /\ c.key = k2 => c.op = "ReverseEntry" /\ c.lacks = "nothing"
Ordinary(c) == c.lacks = "nothing" /\ c.op \notin {"GrantAccess", "RevokeAccess"}
Flawed(c) == c.lacks # "nothing" /\ c.entry \in {0, 1}

\* One request of any kind, while Ann's grant changes beside it.
AnyBesideGrants(p, c) ==
  /\ Sensible(c)
  /\ IF p = p1 THEN Ordinary(c) \/ Flawed(c)
     ELSE c.lacks = "nothing" /\ c.op \in {"GrantAccess", "RevokeAccess"}
============================================================================
