----------------------------- MODULE Approvals -----------------------------
(***************************************************************************)
(* The approval rules one connection sees (approval/manager.go): the       *)
(* session's own, kept in memory, and the persistent ones, mirrored to the *)
(* key-value store.  Every method is one critical section of Manager.mu.   *)
(* A persistent change is written before it is kept, so a write that fails *)
(* leaves everything as it was.                                            *)
(***************************************************************************)
CONSTANTS
  None,     \* nothing: no answer, no rule
  Request,  \* authorization requests; a rule is named after the one it came of
  Scope     \* what a rule admits, up to reflect.DeepEqual

TTL == {"once", "session", "persistent"}
Rule == [by : Request, scope : Scope, ttl : TTL]

VARIABLE rules

RulesInit == rules = {}

\* The rules Match may answer with: the session's before the persistent ones.
\* Which of several comes first is the order they were recorded in, left open.
Admitting(s) ==
  LET matching == {x \in rules : x.scope = s}
      own == {x \in matching : x.ttl # "persistent"}
  IN IF own # {} THEN own ELSE matching

\* For the mutant: a rule for one use is matched and kept.
SpendNothing(x) == rules' = rules

\* A rule for one use goes with its use.
Spend(x) == rules' = IF x.ttl = "once" THEN rules \ {x} ELSE rules

RecordRule(x) == rules' = rules \cup {x}

\* Revoke by a client, or expireLocked once the eight hours of a session's
\* rule are over.
WithdrawRule == \E x \in rules : rules' = rules \ {x}
=============================================================================
