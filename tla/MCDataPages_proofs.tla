-------------------------- MODULE MCDataPages_proofs --------------------------
(* Proofs about the pages about data: the retention rules, the presets and   *)
(* schedules, the gaps, the composites, the collections and tags, and the    *)
(* fetch tab.                                                                *)
EXTENDS MCDataPages, SequenceTheorems, TLAPS

-----------------------------------------------------------------------------
(* The requests. *)

IsRequest(q) == q \in [n : {q.n}, op : {q.op}, id : {q.id}, val : {q.val},
                       state : {"sent", "ok", "failed"}, here : BOOLEAN]

\* Sending adds a request.
LEMMA Sent ==
    ASSUME NEW op, NEW id, NEW val, Send(op, id, val)
    PROVE  \E r : /\ reqs' = reqs \cup {r} /\ left' = left /\ IsRequest(r)
                  /\ r.op = op /\ r.id = id /\ r.val = val /\ r.state = "sent" /\ r.here
<1> DEFINE r == [n |-> sent', op |-> op, id |-> id, val |-> val, state |-> "sent", here |-> TRUE]
<1>1. reqs' = reqs \cup {r} /\ left' = left
  BY DEF Send
<1>2. /\ IsRequest(r) /\ r.op = op /\ r.id = id /\ r.val = val /\ r.state = "sent" /\ r.here
  BY DEF IsRequest
<1> QED BY <1>1, <1>2

\* A response changes its state, and the id where it brings one.
LEMMA Answered ==
    ASSUME NEW q \in reqs, IsRequest(q), NEW state \in {"sent", "ok", "failed"}, NEW id,
           RespondWith(q, state, id)
    PROVE  \E r : /\ reqs' = (reqs \ {q}) \cup {r} /\ left' = left /\ IsRequest(r)
                  /\ r.op = q.op /\ r.id = id /\ r.val = q.val /\ r.state = state
                  /\ r.here = q.here /\ q.state = "sent"
<1> DEFINE r == [q EXCEPT !.state = state, !.id = id]
<1>1. reqs' = (reqs \ {q}) \cup {r} /\ left' = left /\ q.state = "sent"
  BY DEF RespondWith
<1>2. /\ IsRequest(r) /\ r.op = q.op /\ r.id = id /\ r.val = q.val /\ r.state = state
      /\ r.here = q.here
  BY DEF IsRequest
<1> QED BY <1>1, <1>2

\* What was in flight goes on unobserved.
LEMMA Unmounted ==
    ASSUME Unmount, \A q \in reqs : IsRequest(q)
    PROVE  /\ \A r \in reqs' : \E q \in reqs :
                 /\ IsRequest(r) /\ r.op = q.op /\ r.id = q.id /\ r.val = q.val
                 /\ r.state = q.state /\ r.here = FALSE
           /\ left' = (left \/ reqs # {})
<1>1. reqs' = {[q EXCEPT !.here = FALSE] : q \in reqs} /\ left' = (left \/ reqs # {})
  BY DEF Unmount
<1>2. \A q \in reqs : LET r == [q EXCEPT !.here = FALSE]
                      IN  /\ IsRequest(r) /\ r.op = q.op /\ r.id = q.id /\ r.val = q.val
                          /\ r.state = q.state /\ r.here = FALSE
  BY DEF IsRequest
<1> QED BY <1>1, <1>2

-----------------------------------------------------------------------------
(* Rows kept in a sequence. *)

LEMMA RowPut ==
    ASSUME NEW S, NEW s \in Seq(S), NEW i \in DOMAIN s, NEW x \in S
    PROVE  LET t == [s EXCEPT ![i] = x]
           IN  /\ t \in Seq(S) /\ Len(t) = Len(s) /\ DOMAIN t = DOMAIN s /\ t[i] = x
               /\ \A j \in DOMAIN s : j # i => t[j] = s[j]
OBVIOUS

LEMMA RowAdded ==
    ASSUME NEW S, NEW s \in Seq(S), NEW x \in S
    PROVE  LET t == Append(s, x)
           IN  /\ t \in Seq(S) /\ Len(t) = Len(s) + 1 /\ t[Len(s) + 1] = x
               /\ DOMAIN t = DOMAIN s \cup {Len(s) + 1} /\ Len(s) \in Nat
               /\ \A j \in DOMAIN s : t[j] = s[j]
OBVIOUS

-----------------------------------------------------------------------------
(* The retention rules. *)

RuleStates == {"active", "inactive", "deleted"}
RuleRequest(q) ==
    /\ IsRequest(q) /\ q.op \in {"create", "toggle", "delete", "run"}
    /\ q.op \in {"toggle", "delete"} => q.id \in DOMAIN ruleDb
    /\ q.op = "toggle" => q.val \in {"active", "inactive"}
    /\ q.op = "delete" => q.val = "deleted"

\* As long as the page was not left with a request in flight: one switch is under
\* way at a time, and it is to what the last click asked for.
SwitchInv ==
    /\ \A q \in reqs : q.here
    /\ \A p, q \in reqs : p.op = "toggle" /\ q.op = "toggle" => p = q
    /\ \A q \in reqs : q.op = "toggle" =>
          /\ cleanup.asked[q.id] = q.val
          /\ q.state = "ok" => ruleDb[q.id] \in {q.val, "deleted"}

CleanupInv ==
    /\ ruleDb \in Seq(RuleStates) /\ Len(ruleDb) <= MaxRules
    /\ cleanup \in [create : BOOLEAN, confirm : BOOLEAN, preview : BOOLEAN,
                    shown : Seq(RuleStates),
                    asked : [1..MaxRules -> {"any", "active", "inactive"}]]
    /\ Len(cleanup.shown) <= Len(ruleDb)
    /\ \A r \in 1..MaxRules : r > Len(ruleDb) => cleanup.asked[r] = "any"
    /\ \A q \in reqs : RuleRequest(q)
    /\ left \/ SwitchInv
    /\ SwitchTakesEffect

RulePanels == [create : BOOLEAN, confirm : BOOLEAN, preview : BOOLEAN, shown : Seq(RuleStates),
               asked : [1..MaxRules -> {"any", "active", "inactive"}]]

LEMMA CleanupFresh ==
    ASSUME CleanupInit
    PROVE  /\ cleanup \in RulePanels /\ ruleDb \in Seq(RuleStates) /\ Len(ruleDb) <= MaxRules
           /\ Len(cleanup.shown) <= Len(ruleDb) /\ \A r \in 1..MaxRules : cleanup.asked[r] = "any"
           /\ SwitchTakesEffect
<1>1. MaxRules \in Nat \ {0}
  BY CleanupAssumption
<1>2. PICK shown \in {<<"active">>, <<"inactive">>} :
        cleanup = [create |-> FALSE, confirm |-> FALSE, preview |-> FALSE, shown |-> shown,
                   asked |-> [r \in 1..MaxRules |-> "any"]]
  BY DEF CleanupInit
<1>3. ruleDb = <<"active">> /\ ruleDb \in Seq(RuleStates) /\ Len(ruleDb) = 1
  BY DEF CleanupInit, RuleStates
<1>4. shown \in Seq(RuleStates) /\ Len(shown) = 1
  <2>1. CASE shown = <<"active">>
    BY <1>3, <2>1
  <2>2. CASE shown = <<"inactive">>
    <3>1. <<"inactive">> \in Seq(RuleStates) /\ Len(<<"inactive">>) = 1
      BY DEF RuleStates
    <3> QED BY <2>2, <3>1
  <2> QED BY <2>1, <2>2
<1>5. /\ cleanup \in RulePanels /\ cleanup.shown = shown
      /\ \A r \in 1..MaxRules : cleanup.asked[r] = "any"
  BY <1>2, <1>4 DEF RulePanels
<1>6. SwitchTakesEffect
  BY <1>1, <1>3, <1>5 DEF SwitchTakesEffect
<1>7. Len(ruleDb) <= MaxRules
  BY <1>1, <1>3
<1>8. Len(cleanup.shown) <= Len(ruleDb)
  <2>1. Len(cleanup.shown) = 1
    BY <1>4, <1>5
  <2> QED BY <1>3, <2>1
<1> QED BY <1>3, <1>5, <1>6, <1>7, <1>8

LEMMA CleanupInitially == ASSUME CleanupInit, reqs = {}, left = FALSE PROVE CleanupInv
<1>1. SwitchInv
  BY DEF SwitchInv
<1> QED BY <1>1, CleanupFresh DEF CleanupInv, RulePanels

\* Steps after which every switch is where it was, or the page was left.
LEMMA CleanupKept ==
    ASSUME CleanupInv, cleanup' \in RulePanels, Len(cleanup'.shown) <= Len(ruleDb),
           cleanup'.asked = cleanup.asked, ruleDb' = ruleDb,
           \A r \in reqs' : \/ r \in reqs
                            \/ RuleRequest(r) /\ (~left' => r.here /\ r.op # "toggle"),
           ~left' => ~left /\ reqs \subseteq reqs'
    PROVE  CleanupInv'
<1>1. \A r \in reqs' : RuleRequest(r)'
  <2>1. \A r \in reqs' : RuleRequest(r)
    BY DEF CleanupInv
  <2> QED BY <2>1 DEF RuleRequest, IsRequest
<1>2. left' \/ SwitchInv'
  BY DEF CleanupInv, SwitchInv
<1>3. SwitchTakesEffect'
  BY DEF CleanupInv, SwitchTakesEffect
<1> QED BY <1>1, <1>2, <1>3 DEF CleanupInv, RulePanels

LEMMA CleanupStep == ASSUME CleanupInv, CleanupNext PROVE CleanupInv'
<1>0. /\ ruleDb \in Seq(RuleStates) /\ Len(ruleDb) <= MaxRules /\ MaxRules \in Nat
      /\ cleanup \in RulePanels /\ Len(cleanup.shown) <= Len(ruleDb)
      /\ \A r \in 1..MaxRules : r > Len(ruleDb) => cleanup.asked[r] = "any"
      /\ \A q \in reqs : RuleRequest(q)
  BY CleanupAssumption DEF CleanupInv, RulePanels
<1>f. /\ cleanup.create \in BOOLEAN /\ cleanup.confirm \in BOOLEAN
      /\ cleanup.asked \in [1..MaxRules -> {"any", "active", "inactive"}]
      /\ cleanup.shown \in Seq(RuleStates) /\ Len(ruleDb) \in Nat /\ DOMAIN ruleDb = 1..Len(ruleDb)
      /\ Len(cleanup.shown) \in Nat /\ DOMAIN cleanup.shown = 1..Len(cleanup.shown)
  BY <1>0 DEF RulePanels
<1>i. \A q \in reqs : IsRequest(q) /\ q.op \in {"create", "toggle", "delete", "run"}
  BY <1>0 DEF RuleRequest
<1>1. CASE OpenDialog
  <2>1. cleanup' \in RulePanels /\ cleanup'.asked = cleanup.asked /\ cleanup'.shown = cleanup.shown
    BY <1>0, <1>f, <1>1 DEF OpenDialog, RulePanels
  <2>2. UNCHANGED <<ruleDb, reqs, left>>
    BY <1>1 DEF OpenDialog, reqVars
  <2> QED BY <1>0, <2>1, <2>2, CleanupKept
<1>2. CASE createRule
  <2>1. Send("create", 0, "active") /\ cleanup' = cleanup /\ ruleDb' = ruleDb
    BY <1>2 DEF createRule, cleanupVars
  <2>2. PICK r : /\ reqs' = reqs \cup {r} /\ left' = left /\ IsRequest(r)
                 /\ r.op = "create" /\ r.here
    BY <2>1, Sent
  <2>3. RuleRequest(r)
    BY <2>2 DEF RuleRequest
  <2> QED BY <1>0, <2>1, <2>2, <2>3, CleanupKept
<1>3. CASE runCleanup
  <2>1. Send("run", 0, "none") /\ cleanup' = [cleanup EXCEPT !.confirm = FALSE] /\ ruleDb' = ruleDb
    BY <1>3 DEF runCleanup
  <2>2. PICK r : /\ reqs' = reqs \cup {r} /\ left' = left /\ IsRequest(r)
                 /\ r.op = "run" /\ r.here
    BY <2>1, Sent
  <2>3. RuleRequest(r)
    BY <2>2 DEF RuleRequest
  <2>4. cleanup' \in RulePanels /\ cleanup'.asked = cleanup.asked /\ cleanup'.shown = cleanup.shown
    BY <1>0, <2>1 DEF RulePanels
  <2> QED BY <1>0, <2>1, <2>2, <2>3, <2>4, CleanupKept
<1>4. CASE LeaveCleanup
  <2>1. Unmount /\ ruleDb' = ruleDb /\ cleanup' = [cleanup EXCEPT !.create = FALSE, !.confirm = FALSE]
    BY <1>4 DEF LeaveCleanup
  <2>2. cleanup' \in RulePanels /\ cleanup'.asked = cleanup.asked /\ cleanup'.shown = cleanup.shown
    BY <1>0, <2>1 DEF RulePanels
  <2>3. /\ \A r \in reqs' : \E q \in reqs :
              /\ IsRequest(r) /\ r.op = q.op /\ r.id = q.id /\ r.val = q.val
        /\ left' = (left \/ reqs # {})
    BY <1>i, <2>1, Unmounted
  <2>4. \A r \in reqs' : RuleRequest(r)
    BY <1>0, <2>3 DEF RuleRequest
  <2>5. ~left' => ~left /\ reqs = {} /\ reqs' = {}
    BY <2>3
  <2> QED BY <1>0, <2>1, <2>2, <2>4, <2>5, CleanupKept
<1>5. ASSUME NEW r \in DOMAIN cleanup.shown, toggleRule(r) PROVE CleanupInv'
  <2>1. PICK asked \in {"active", "inactive"} :
          Send("toggle", r, asked) /\ cleanup' = [cleanup EXCEPT !.asked[r] = asked]
    BY <1>5 DEF toggleRule
  <2>2. r \in DOMAIN ruleDb /\ r \in 1..MaxRules /\ ruleDb' = ruleDb
        /\ \A q \in reqs : q.op = "toggle" => ~q.here
    BY <1>0, <1>f, <1>5 DEF toggleRule, CanToggle, isPending
  <2>3. PICK new : /\ reqs' = reqs \cup {new} /\ left' = left /\ IsRequest(new)
                   /\ new.op = "toggle" /\ new.id = r /\ new.val = asked
                   /\ new.state = "sent" /\ new.here
    BY <2>1, Sent
  <2>4. /\ cleanup' \in RulePanels /\ cleanup'.shown = cleanup.shown /\ cleanup'.asked[r] = asked
        /\ \A s \in 1..MaxRules : s # r => cleanup'.asked[s] = cleanup.asked[s]
    BY <1>0, <1>f, <2>1, <2>2 DEF RulePanels
  <2>5. \A q \in reqs' : RuleRequest(q)'
    BY <1>0, <2>2, <2>3 DEF RuleRequest, IsRequest
  <2>6. left' \/ SwitchInv'
    <3>1. ~left => SwitchInv /\ \A q \in reqs : q.op # "toggle"
      BY <2>2 DEF CleanupInv, SwitchInv
    <3> QED BY <2>2, <2>3, <2>4, <3>1 DEF SwitchInv
  <2>7. SwitchTakesEffect'
    <3>1. \A s \in DOMAIN ruleDb : s # r => cleanup'.asked[s] = cleanup.asked[s]
      BY <1>0, <1>f, <2>4
    <3> QED BY <2>2, <2>3, <2>4, <3>1 DEF CleanupInv, SwitchTakesEffect
  <2>8. \A s \in 1..MaxRules : s > Len(ruleDb) => cleanup'.asked[s] = "any"
    BY <1>0, <1>f, <2>2, <2>4
  <2> QED BY <1>0, <2>2, <2>4, <2>5, <2>6, <2>7, <2>8 DEF CleanupInv, RulePanels
<1>6. ASSUME NEW r \in DOMAIN cleanup.shown, deleteRule(r) PROVE CleanupInv'
  <2>1. Send("delete", r, "deleted") /\ cleanup' = cleanup /\ ruleDb' = ruleDb
    BY <1>6 DEF deleteRule, cleanupVars
  <2>2. PICK new : /\ reqs' = reqs \cup {new} /\ left' = left /\ IsRequest(new)
                   /\ new.op = "delete" /\ new.id = r /\ new.val = "deleted" /\ new.here
    BY <2>1, Sent
  <2>3. RuleRequest(new)
    BY <1>0, <1>f, <2>2 DEF RuleRequest
  <2> QED BY <1>0, <2>1, <2>2, <2>3, CleanupKept
<1>7. ASSUME NEW q \in reqs, ServeRule(q) PROVE CleanupInv'
  <2>0. cleanup' = cleanup /\ RuleRequest(q) /\ IsRequest(q)
    BY <1>0, <1>i, <1>7 DEF ServeRule
  <2>1. PICK state \in {"ok", "failed"} :
          /\ RespondWith(q, state, q.id)
          /\ \/ AcceptsRule(q) /\ ruleDb' = ApplyRule(q)
             \/ state = "failed" /\ ruleDb' = ruleDb
    BY <1>7 DEF ServeRule, Respond
  <2>2. PICK r : /\ reqs' = (reqs \ {q}) \cup {r} /\ left' = left /\ IsRequest(r)
                 /\ r.op = q.op /\ r.id = q.id /\ r.val = q.val /\ r.state = state
                 /\ r.here = q.here /\ q.state = "sent"
    BY <2>0, <2>1, Answered
  <2>3. ASSUME ruleDb' \in Seq(RuleStates), Len(ruleDb') <= MaxRules, Len(ruleDb) <= Len(ruleDb'),
               \A s \in DOMAIN ruleDb' : \/ s \in DOMAIN ruleDb /\ ruleDb'[s] = ruleDb[s]
                                         \/ s > Len(ruleDb)
                                         \/ ruleDb'[s] = "deleted"
                                         \/ q.op = "toggle" /\ s = q.id,
               state = "ok" /\ q.op = "toggle" => ruleDb'[q.id] \in {q.val, "deleted"}
        PROVE  CleanupInv'
    <3>1. DOMAIN ruleDb' = 1..Len(ruleDb') /\ Len(ruleDb') \in Nat /\ DOMAIN ruleDb \subseteq DOMAIN ruleDb'
      BY <1>f, <2>3
    <3>2. \A p \in reqs' : RuleRequest(p)'
      BY <1>0, <2>0, <2>2, <3>1 DEF RuleRequest, IsRequest
    <3>3. left' \/ SwitchInv'
      <4>1. CASE ~left
        <5>1. SwitchInv
          BY <4>1 DEF CleanupInv
        <5>2. \A p \in reqs' : p.here
          BY <2>2, <5>1 DEF SwitchInv
        <5>3. \A p \in reqs' : p.op = "toggle" => (IF q.op = "toggle" THEN p = r ELSE p \in reqs)
          BY <2>2, <5>1 DEF SwitchInv
        <5>4. ASSUME NEW p \in reqs', p.op = "toggle"
              PROVE  /\ cleanup'.asked[p.id] = p.val
                     /\ p.state = "ok" => ruleDb'[p.id] \in {p.val, "deleted"}
          <6>1. CASE q.op = "toggle"
            BY <2>0, <2>2, <2>3, <5>1, <5>3, <5>4, <6>1 DEF SwitchInv
          <6>2. CASE q.op # "toggle"
            <7>1. p \in reqs /\ p.id \in DOMAIN ruleDb /\ p.id \in DOMAIN ruleDb'
              BY <1>0, <3>1, <5>3, <5>4, <6>2 DEF RuleRequest
            <7>2. /\ cleanup.asked[p.id] = p.val
                  /\ p.state = "ok" => ruleDb[p.id] \in {p.val, "deleted"}
              BY <5>1, <5>4, <7>1 DEF SwitchInv
            <7>3. ruleDb'[p.id] = ruleDb[p.id] \/ ruleDb'[p.id] = "deleted"
              BY <1>f, <2>3, <6>2, <7>1
            <7> QED BY <2>0, <7>2, <7>3
          <6> QED BY <6>1, <6>2
        <5>5. \A p1, p2 \in reqs' : p1.op = "toggle" /\ p2.op = "toggle" => p1 = p2
          BY <5>1, <5>3 DEF SwitchInv
        <5> QED BY <5>2, <5>4, <5>5 DEF SwitchInv
      <4> QED BY <2>2, <4>1
    <3>4. SwitchTakesEffect'
      <4> SUFFICES ASSUME NEW s \in DOMAIN ruleDb', ~left', cleanup'.asked[s] # "any",
                          ruleDb'[s] # "deleted",
                          \A p \in reqs' : p.op = "toggle" => p.id # s
                   PROVE  ruleDb'[s] = cleanup'.asked[s]
        BY DEF SwitchTakesEffect
      <4>1. s <= Len(ruleDb) /\ s \in DOMAIN ruleDb
        BY <1>0, <1>f, <2>0, <2>3, <3>1
      <4>2. ~(q.op = "toggle" /\ s = q.id)
        BY <2>2
      <4>3. ruleDb'[s] = ruleDb[s]
        BY <1>f, <2>3, <4>1, <4>2
      <4>4. \A p \in reqs : p.op = "toggle" => p.id # s
        BY <2>2, <4>2
      <4> QED BY <2>0, <2>2, <4>1, <4>3, <4>4 DEF CleanupInv, SwitchTakesEffect
    <3>5. \A s \in 1..MaxRules : s > Len(ruleDb') => cleanup'.asked[s] = "any"
      BY <1>0, <1>f, <2>0, <2>3, <3>1
    <3> QED BY <1>0, <1>f, <2>0, <2>3, <3>1, <3>2, <3>3, <3>4, <3>5 DEF CleanupInv, RulePanels
  <2>4. CASE ruleDb' = ruleDb /\ (state = "failed" \/ q.op # "toggle")
    BY <1>0, <1>f, <2>3, <2>4
  <2>5. CASE AcceptsRule(q) /\ ruleDb' = ApplyRule(q)
    <3>1. CASE q.op = "create"
      <4>1. ruleDb' = Append(ruleDb, "active") /\ Len(ruleDb) < MaxRules
        BY <2>5, <3>1 DEF ApplyRule, AcceptsRule
      <4>2. "active" \in RuleStates
        BY DEF RuleStates
      <4>3. /\ ruleDb' \in Seq(RuleStates) /\ Len(ruleDb') = Len(ruleDb) + 1
            /\ DOMAIN ruleDb' = DOMAIN ruleDb \cup {Len(ruleDb) + 1}
            /\ \A j \in DOMAIN ruleDb : ruleDb'[j] = ruleDb[j]
        BY <1>0, <4>1, <4>2, RowAdded
      <4> QED BY <1>0, <1>f, <2>3, <3>1, <4>1, <4>3
    <3>2. CASE q.op = "run"
      BY <2>4, <2>5, <3>2 DEF ApplyRule
    <3>3. CASE q.op \in {"toggle", "delete"}
      <4>1. ruleDb' = [ruleDb EXCEPT ![q.id] = q.val] /\ q.id \in DOMAIN ruleDb
            /\ q.val \in RuleStates
        BY <2>0, <2>5, <3>3 DEF ApplyRule, RuleRequest, RuleStates
      <4>2. /\ ruleDb' \in Seq(RuleStates) /\ Len(ruleDb') = Len(ruleDb)
            /\ DOMAIN ruleDb' = DOMAIN ruleDb /\ ruleDb'[q.id] = q.val
            /\ \A j \in DOMAIN ruleDb : j # q.id => ruleDb'[j] = ruleDb[j]
        BY <1>0, <4>1, RowPut
      <4>3. q.op = "delete" => q.val = "deleted"
        BY <2>0 DEF RuleRequest
      <4> QED BY <1>0, <1>f, <2>3, <3>3, <4>2, <4>3
    <3> QED BY <2>0, <3>1, <3>2, <3>3 DEF RuleRequest
  <2> QED BY <2>1, <2>4, <2>5
<1>8. ASSUME NEW q \in reqs, AnswerRule(q) PROVE CleanupInv'
  <2>0. ruleDb' = ruleDb /\ reqs' = reqs \ {q} /\ left' = left /\ q.state # "sent"
        /\ RuleRequest(q) /\ q.state \in {"ok", "failed"}
    BY <1>0, <1>i, <1>8 DEF AnswerRule, Settle, IsRequest
  <2>1. CASE q.state = "failed" /\ q.op = "toggle"
    <3>1. cleanup' = [cleanup EXCEPT !.asked[q.id] = "any"] /\ q.id \in DOMAIN ruleDb
          /\ q.id \in 1..MaxRules
      BY <1>0, <1>f, <1>8, <2>0, <2>1 DEF AnswerRule, RuleRequest
    <3>2. /\ cleanup' \in RulePanels /\ cleanup'.shown = cleanup.shown
          /\ cleanup'.asked[q.id] = "any"
          /\ \A s \in 1..MaxRules : s # q.id => cleanup'.asked[s] = cleanup.asked[s]
      BY <1>0, <1>f, <3>1 DEF RulePanels
    <3>3. \A p \in reqs' : RuleRequest(p)'
      BY <1>0, <2>0 DEF RuleRequest, IsRequest
    <3>4. left' \/ SwitchInv'
      <4>1. ~left => SwitchInv /\ \A p \in reqs' : p.op # "toggle"
        BY <2>0, <2>1 DEF CleanupInv, SwitchInv
      <4> QED BY <2>0, <4>1 DEF SwitchInv
    <3>5. SwitchTakesEffect'
      <4>1. \A s \in DOMAIN ruleDb : s # q.id => cleanup'.asked[s] = cleanup.asked[s]
        BY <1>0, <1>f, <3>2
      <4> QED BY <2>0, <3>2, <4>1 DEF CleanupInv, SwitchTakesEffect
    <3>6. \A s \in 1..MaxRules : s > Len(ruleDb) => cleanup'.asked[s] = "any"
      BY <1>0, <3>2
    <3> QED BY <1>0, <2>0, <3>2, <3>3, <3>4, <3>5, <3>6 DEF CleanupInv, RulePanels
  <2>2. CASE ~(q.state = "failed" /\ q.op = "toggle")
    <3>1. cleanup' \in RulePanels /\ cleanup'.shown = cleanup.shown /\ cleanup'.asked = cleanup.asked
      BY <1>0, <1>f, <1>8, <2>0, <2>2 DEF AnswerRule, RulePanels
    <3>2. \A p \in reqs' : RuleRequest(p)'
      BY <1>0, <2>0 DEF RuleRequest, IsRequest
    <3>3. left' \/ SwitchInv'
      BY <2>0, <3>1 DEF CleanupInv, SwitchInv
    <3>4. SwitchTakesEffect'
      <4>1. ~left /\ q.op = "toggle" => ruleDb[q.id] \in {cleanup.asked[q.id], "deleted"}
        BY <2>0, <2>2 DEF CleanupInv, SwitchInv
      <4> QED BY <2>0, <3>1, <4>1 DEF CleanupInv, SwitchTakesEffect
    <3> QED BY <1>0, <2>0, <3>1, <3>2, <3>3, <3>4 DEF CleanupInv, RulePanels
  <2> QED BY <2>1, <2>2
<1>9. CASE RefetchRules
  <2>1. cleanup' = [cleanup EXCEPT !.shown = ruleDb] /\ UNCHANGED <<ruleDb, reqs, left>>
    BY <1>9 DEF RefetchRules, reqVars
  <2>2. cleanup' \in RulePanels /\ cleanup'.asked = cleanup.asked /\ cleanup'.shown = ruleDb
    BY <1>0, <2>1 DEF RulePanels
  <2> QED BY <1>0, <1>f, <2>1, <2>2, CleanupKept
<1> QED BY <1>1, <1>2, <1>3, <1>4, <1>5, <1>6, <1>7, <1>8, <1>9 DEF CleanupNext, CleanupUser

LEMMA CleanupShows == ASSUME CleanupInv PROVE CleanupTypeOK /\ SwitchTakesEffect
BY DEF CleanupInv, CleanupTypeOK, RuleStates

-----------------------------------------------------------------------------
(* The presets and their schedules. *)

Configs ==
    {c \in [satellite : {"GOES-19", "Himawari-9"}, sector : {"FLDK", "FullDisk", "CONUS"},
            band : {"B13", "C02"}] :
        c.sector \in formSectors(c.satellite) /\ c.band \in formBands(c.satellite)}
SavedPresets == [config : Configs, gone : BOOLEAN]
SavedSchedules == [preset : 1..MaxSaved, active : BOOLEAN, gone : BOOLEAN]
IsSaved(s) ==
    /\ s \in [presets : Seq(SavedPresets), schedules : Seq(SavedSchedules)]
    /\ Len(s.presets) <= MaxSaved /\ Len(s.schedules) <= MaxSaved
PresetRequest(q) ==
    /\ IsRequest(q)
    /\ q.op \in {"createPreset", "updatePreset", "runPreset", "deletePreset", "createSchedule",
                 "toggleSchedule", "deleteSchedule"}
    /\ q.op \in {"createPreset", "updatePreset"} => q.val \in Configs

\* What is in a form, in a row or on its way can be fetched, as can what is saved.
PresetsInv ==
    /\ IsSaved(saved) /\ IsSaved(presets.shown)
    /\ presets \in [create : BOOLEAN, form : Configs, editing : 0..MaxSaved,
                    draft : Configs \cup {NoConfig}, scheduling : -1..MaxSaved,
                    shown : {presets.shown}]
    /\ presets.editing # 0 => presets.draft \in Configs
    /\ \A q \in reqs : PresetRequest(q)
    /\ SchedulesHavePresets

PresetForms ==
    [create : BOOLEAN, form : Configs, editing : 0..MaxSaved, draft : Configs \cup {NoConfig},
     scheduling : -1..MaxSaved, shown : {presets.shown}]

LEMMA KeptIs == ASSUME NEW t, NEW i PROVE i \in Kept(t) <=> i \in DOMAIN t /\ ~t[i].gone
BY DEF Kept, Deleted

LEMMA ConfigsAre ==
    /\ \A c : c \in Configs <=>
          /\ c \in [satellite : {"GOES-19", "Himawari-9"}, sector : {"FLDK", "FullDisk", "CONUS"},
                    band : {"B13", "C02"}]
          /\ c.sector \in formSectors(c.satellite) /\ c.band \in formBands(c.satellite)
    /\ resetForm \in Configs
<1>1. \A c : c \in Configs <=>
        /\ c \in [satellite : {"GOES-19", "Himawari-9"}, sector : {"FLDK", "FullDisk", "CONUS"},
                  band : {"B13", "C02"}]
        /\ c.sector \in formSectors(c.satellite) /\ c.band \in formBands(c.satellite)
  BY DEF Configs
<1>2. /\ resetForm \in [satellite : {"GOES-19", "Himawari-9"}, sector : {"FLDK", "FullDisk", "CONUS"},
                        band : {"B13", "C02"}]
      /\ resetForm.satellite = "GOES-19" /\ resetForm.sector = "FullDisk" /\ resetForm.band = "C02"
  BY DEF resetForm, Config
<1>3. "FullDisk" \in formSectors("GOES-19") /\ "C02" \in formBands("GOES-19")
  BY DEF formSectors, formBands, isHimawariSatellite
<1> QED BY <1>1, <1>2, <1>3

LEMMA PresetsFresh ==
    ASSUME PresetsInit
    PROVE  /\ IsSaved(saved) /\ presets \in PresetForms /\ presets.editing = 0
           /\ presets.shown = saved /\ SchedulesHavePresets
<1> DEFINE p == [config |-> resetForm, gone |-> FALSE]
           s == [preset |-> 1, active |-> TRUE, gone |-> FALSE]
<1>1. /\ saved = [presets |-> <<p>>, schedules |-> <<s>>]
      /\ presets = [create |-> FALSE, form |-> resetForm, editing |-> 0, draft |-> NoConfig,
                    scheduling |-> -1, shown |-> saved]
  BY DEF PresetsInit
<1>2. MaxSaved \in Nat \ {0}
  BY PresetsAssumption
<1>3. p \in SavedPresets /\ s \in SavedSchedules
  BY <1>2, ConfigsAre DEF SavedPresets, SavedSchedules
<1>4. ~p.gone /\ s.preset = 1
  OBVIOUS
<1> HIDE DEF p, s
<1>5. /\ <<p>> \in Seq(SavedPresets) /\ Len(<<p>>) = 1 /\ <<p>>[1] = p /\ DOMAIN <<p>> = {1}
      /\ <<s>> \in Seq(SavedSchedules) /\ Len(<<s>>) = 1 /\ <<s>>[1] = s /\ DOMAIN <<s>> = {1}
  BY <1>3
<1>6. IsSaved(saved)
  BY <1>1, <1>2, <1>5 DEF IsSaved
<1>7. SchedulesHavePresets
  BY <1>1, <1>4, <1>5, KeptIs DEF SchedulesHavePresets
<1>8. presets \in PresetForms /\ presets.editing = 0 /\ presets.shown = saved
  BY <1>1, <1>2, ConfigsAre DEF PresetForms
<1> QED BY <1>6, <1>7, <1>8

LEMMA PresetsInitially == ASSUME PresetsInit, reqs = {} PROVE PresetsInv
BY PresetsFresh DEF PresetsInv, PresetForms

\* Whatever the three selects are set to, the form fits.
LEMMA EditsFit == ASSUME NEW form \in Configs, NEW e \in Edits(form) PROVE e \in Configs
<1> DEFINE Fields == [satellite : {"GOES-19", "Himawari-9"}, sector : {"FLDK", "FullDisk", "CONUS"},
                      band : {"B13", "C02"}]
<1>0. /\ form \in Fields /\ form.sector \in formSectors(form.satellite)
      /\ form.band \in formBands(form.satellite)
  BY ConfigsAre
<1>1. ASSUME NEW s \in {"GOES-19", "Himawari-9"}, e = handleSatelliteChange(form, s)
      PROVE  e \in Configs
  <2> DEFINE band == IF isHimawariSatellite(s) THEN "B13" ELSE "C02"
             sector == getDefaultSector(s)
  <2>1. band \in {"B13", "C02"} /\ band \in formBands(s)
    BY DEF formBands
  <2>2. sector \in {"FLDK", "CONUS"} /\ sector \in formSectors(s)
    BY DEF formSectors, getDefaultSector
  <2>3. e = Config(s, sector, band)
    BY <1>1 DEF handleSatelliteChange
  <2> HIDE DEF band, sector
  <2>4. e \in Fields /\ e.satellite = s /\ e.sector = sector /\ e.band = band
    BY <2>1, <2>2, <2>3 DEF Config
  <2> QED BY <2>1, <2>2, <2>4, ConfigsAre
<1>2. ASSUME NEW s \in formSectors(form.satellite), e = [form EXCEPT !.sector = s]
      PROVE  e \in Configs
  <2>1. s \in {"FLDK", "FullDisk", "CONUS"}
    BY DEF formSectors
  <2>2. e \in Fields /\ e.satellite = form.satellite /\ e.sector = s /\ e.band = form.band
    BY <1>0, <1>2, <2>1
  <2> QED BY <1>0, <2>2, ConfigsAre
<1>3. ASSUME NEW b \in formBands(form.satellite), e = [form EXCEPT !.band = b]
      PROVE  e \in Configs
  <2>1. b \in {"B13", "C02"}
    BY DEF formBands
  <2>2. e \in Fields /\ e.satellite = form.satellite /\ e.sector = form.sector /\ e.band = b
    BY <1>0, <1>3, <2>1
  <2> QED BY <1>0, <2>2, ConfigsAre
<1> QED BY <1>1, <1>2, <1>3 DEF Edits

\* The rows after a request was carried out.
LEMMA RowsKept ==
    ASSUME PresetsInv, NEW P \in Seq(SavedPresets), NEW S \in Seq(SavedSchedules),
           Len(P) <= MaxSaved, Len(S) <= MaxSaved, saved' = [presets |-> P, schedules |-> S],
           \A s \in DOMAIN S : ~S[s].gone => S[s].preset \in DOMAIN P /\ ~P[S[s].preset].gone
    PROVE  IsSaved(saved') /\ SchedulesHavePresets'
<1>1. saved'.presets = P /\ saved'.schedules = S
  OBVIOUS
<1>2. IsSaved(saved')
  BY DEF IsSaved
<1>3. \A s \in Kept(S) : S[s].preset \in Kept(P)
  BY KeptIs
<1> QED BY <1>1, <1>2, <1>3 DEF SchedulesHavePresets

\* No request that is accepted leaves a schedule without its preset, or saves a
\* preset that does not fit.
LEMMA PresetApplied ==
    ASSUME PresetsInv, NEW q \in reqs, AcceptsPreset(q), saved' = ApplyPreset(q)
    PROVE  IsSaved(saved') /\ SchedulesHavePresets'
<1> DEFINE P == saved.presets
           S == saved.schedules
<1>0. /\ P \in Seq(SavedPresets) /\ S \in Seq(SavedSchedules)
      /\ Len(P) <= MaxSaved /\ Len(S) <= MaxSaved /\ MaxSaved \in Nat
      /\ saved = [presets |-> P, schedules |-> S] /\ Len(P) \in Nat
      /\ DOMAIN P = 1..Len(P) /\ DOMAIN S = 1..Len(S)
  BY PresetsAssumption DEF PresetsInv, IsSaved
<1>h. \A s \in DOMAIN S : ~S[s].gone => S[s].preset \in DOMAIN P /\ ~P[S[s].preset].gone
  BY KeptIs DEF PresetsInv, SchedulesHavePresets
<1>q. PresetRequest(q)
  BY DEF PresetsInv
<1>t. /\ \A i \in DOMAIN P : P[i] \in SavedPresets
      /\ \A i \in DOMAIN S : S[i] \in SavedSchedules
  BY <1>0
<1>1. CASE q.op = "createPreset"
  <2> DEFINE x == [config |-> q.val, gone |-> FALSE]
  <2>1. saved' = [saved EXCEPT !.presets = Append(P, x)] /\ Len(P) < MaxSaved
    BY <1>1 DEF ApplyPreset, AcceptsPreset
  <2>2. x \in SavedPresets
    BY <1>1, <1>q DEF PresetRequest, SavedPresets
  <2> HIDE DEF x, P, S
  <2>3. saved' = [presets |-> Append(P, x), schedules |-> S]
    BY <1>0, <2>1
  <2>4. /\ Append(P, x) \in Seq(SavedPresets) /\ Len(Append(P, x)) = Len(P) + 1
        /\ DOMAIN Append(P, x) = DOMAIN P \cup {Len(P) + 1}
        /\ \A j \in DOMAIN P : Append(P, x)[j] = P[j]
    BY <1>0, <2>2, RowAdded
  <2>5. Len(Append(P, x)) <= MaxSaved
    BY <1>0, <2>1, <2>4
  <2> QED BY <1>0, <1>h, <2>3, <2>4, <2>5, RowsKept
<1>2. CASE q.op = "updatePreset"
  <2> DEFINE b == [P[q.id] EXCEPT !.config = q.val]
  <2>1. q.id \in DOMAIN P
    BY <1>2, KeptIs DEF AcceptsPreset
  <2>2. b \in SavedPresets /\ b.gone = P[q.id].gone
    <3>1. q.val \in Configs /\ P[q.id] \in SavedPresets
      BY <1>2, <1>q, <1>t, <2>1 DEF PresetRequest
    <3> QED BY <3>1 DEF SavedPresets
  <2>3. saved' = [saved EXCEPT !.presets = [P EXCEPT ![q.id] = b]]
    BY <1>0, <1>2, <2>1 DEF ApplyPreset
  <2> HIDE DEF b, P, S
  <2>4. saved' = [presets |-> [P EXCEPT ![q.id] = b], schedules |-> S]
    BY <1>0, <2>3
  <2> DEFINE R == [P EXCEPT ![q.id] = b]
  <2>5. /\ R \in Seq(SavedPresets) /\ Len(R) = Len(P) /\ DOMAIN R = DOMAIN P
        /\ R[q.id] = b /\ \A j \in DOMAIN P : j # q.id => R[j] = P[j]
    BY <1>0, <2>1, <2>2, RowPut
  <2> HIDE DEF R
  <2>6. \A s \in DOMAIN S : ~S[s].gone => S[s].preset \in DOMAIN R /\ ~R[S[s].preset].gone
    BY <1>h, <2>2, <2>5
  <2> QED BY <1>0, <2>4, <2>5, <2>6, RowsKept DEF R
<1>3. CASE q.op = "deletePreset"
  <2> DEFINE b == [P[q.id] EXCEPT !.gone = TRUE]
             R == [P EXCEPT ![q.id] = b]
             T == [s \in DOMAIN S |-> IF S[s].preset = q.id THEN [S[s] EXCEPT !.gone = TRUE] ELSE S[s]]
  <2>1. q.id \in DOMAIN P
    BY <1>3, KeptIs DEF AcceptsPreset
  <2>2. b \in SavedPresets
    <3>1. P[q.id] \in SavedPresets
      BY <1>t, <2>1
    <3> QED BY <3>1 DEF SavedPresets
  <2>3. saved' = [presets |-> [P EXCEPT ![q.id].gone = TRUE], schedules |-> T]
    BY <1>3 DEF ApplyPreset, WithoutPreset
  <2>4. saved' = [presets |-> R, schedules |-> T]
    BY <1>0, <2>1, <2>3
  <2>5. \A s \in DOMAIN S : /\ T[s] \in SavedSchedules
                            /\ ~T[s].gone => T[s] = S[s] /\ S[s].preset # q.id
    <3> HIDE DEF P
    <3> TAKE s \in DOMAIN S
    <3>1. S[s] \in SavedSchedules
      BY <1>t
    <3> DEFINE g == [S[s] EXCEPT !.gone = TRUE]
    <3>2. g \in SavedSchedules /\ g.gone
      BY <3>1 DEF SavedSchedules
    <3>3. T[s] = IF S[s].preset = q.id THEN g ELSE S[s]
      OBVIOUS
    <3> HIDE DEF g, T
    <3> QED BY <3>1, <3>2, <3>3
  <2>6. T \in Seq(SavedSchedules) /\ Len(T) = Len(S) /\ DOMAIN T = DOMAIN S
    <3>1. DOMAIN T = 1..Len(S) /\ Len(S) \in Nat
      BY <1>0
    <3> HIDE DEF T, P, S
    <3>2. T \in [1..Len(S) -> SavedSchedules]
      <4>1. T = [s \in 1..Len(S) |-> T[s]]
        BY <3>1 DEF T
      <4> QED BY <1>0, <2>5, <4>1
    <3> QED BY <1>0, <3>1, <3>2
  <2> HIDE DEF b, T, P, S
  <2>7. /\ R \in Seq(SavedPresets) /\ Len(R) = Len(P) /\ DOMAIN R = DOMAIN P
        /\ \A j \in DOMAIN P : j # q.id => R[j] = P[j]
    BY <1>0, <2>1, <2>2, RowPut
  <2> HIDE DEF R
  <2>8. \A s \in DOMAIN T : ~T[s].gone => T[s].preset \in DOMAIN R /\ ~R[T[s].preset].gone
    BY <1>h, <2>5, <2>6, <2>7
  <2> QED BY <1>0, <2>4, <2>6, <2>7, <2>8, RowsKept
<1>4. CASE q.op = "createSchedule"
  <2> DEFINE x == [preset |-> q.id, active |-> TRUE, gone |-> FALSE]
  <2>1. /\ saved' = [saved EXCEPT !.schedules = Append(S, x)] /\ Len(S) < MaxSaved
        /\ q.id \in DOMAIN P /\ ~P[q.id].gone
    BY <1>4, KeptIs DEF ApplyPreset, AcceptsPreset
  <2>2. x \in SavedSchedules /\ x.preset = q.id
    <3>1. q.id \in 1..MaxSaved
      BY <1>0, <2>1
    <3> QED BY <3>1 DEF SavedSchedules
  <2> HIDE DEF x, P, S
  <2>3. saved' = [presets |-> P, schedules |-> Append(S, x)]
    BY <1>0, <2>1
  <2> DEFINE T == Append(S, x)
  <2>4. /\ T \in Seq(SavedSchedules) /\ Len(T) = Len(S) + 1 /\ Len(S) \in Nat
        /\ DOMAIN T = DOMAIN S \cup {Len(S) + 1} /\ T[Len(S) + 1] = x
        /\ \A j \in DOMAIN S : T[j] = S[j]
    BY <1>0, <2>2, RowAdded
  <2> HIDE DEF T
  <2>5. Len(T) <= MaxSaved
    BY <1>0, <2>1, <2>4
  <2>6. \A s \in DOMAIN T : ~T[s].gone => T[s].preset \in DOMAIN P /\ ~P[T[s].preset].gone
    BY <1>h, <2>1, <2>2, <2>4
  <2> QED BY <1>0, <2>3, <2>4, <2>5, <2>6, RowsKept DEF T
<1>s. ASSUME NEW b \in SavedSchedules, q.id \in DOMAIN S, b.gone \/ ~S[q.id].gone,
             b.preset = S[q.id].preset, saved' = [saved EXCEPT !.schedules = [S EXCEPT ![q.id] = b]]
      PROVE  IsSaved(saved') /\ SchedulesHavePresets'
  <2> HIDE DEF P, S
  <2> DEFINE T == [S EXCEPT ![q.id] = b]
  <2>1. saved' = [presets |-> P, schedules |-> T]
    BY <1>0, <1>s
  <2>2. /\ T \in Seq(SavedSchedules) /\ Len(T) = Len(S) /\ DOMAIN T = DOMAIN S
        /\ T[q.id] = b /\ \A j \in DOMAIN S : j # q.id => T[j] = S[j]
    BY <1>0, <1>s, RowPut
  <2> HIDE DEF T
  <2>3. \A s \in DOMAIN T : ~T[s].gone => T[s].preset \in DOMAIN P /\ ~P[T[s].preset].gone
    BY <1>h, <1>s, <2>2
  <2> QED BY <1>0, <2>1, <2>2, <2>3, RowsKept
<1>5. CASE q.op = "toggleSchedule"
  <2> DEFINE b == [S[q.id] EXCEPT !.active = ~@]
  <2>1. q.id \in DOMAIN S /\ ~S[q.id].gone
    BY <1>5, KeptIs DEF AcceptsPreset
  <2>2. b \in SavedSchedules /\ b.preset = S[q.id].preset
    <3>1. S[q.id] \in SavedSchedules
      BY <1>t, <2>1
    <3> QED BY <3>1 DEF SavedSchedules
  <2>3. saved' = [saved EXCEPT !.schedules = [S EXCEPT ![q.id] = b]]
    BY <1>0, <1>5, <2>1 DEF ApplyPreset
  <2> QED BY <1>s, <2>1, <2>2, <2>3
<1>6. CASE q.op = "deleteSchedule"
  <2> DEFINE b == [S[q.id] EXCEPT !.gone = TRUE]
  <2>1. q.id \in DOMAIN S
    BY <1>6, KeptIs DEF AcceptsPreset
  <2>2. b \in SavedSchedules /\ b.preset = S[q.id].preset /\ b.gone
    <3>1. S[q.id] \in SavedSchedules
      BY <1>t, <2>1
    <3> QED BY <3>1 DEF SavedSchedules
  <2>3. saved' = [saved EXCEPT !.schedules = [S EXCEPT ![q.id] = b]]
    BY <1>0, <1>6, <2>1 DEF ApplyPreset
  <2> QED BY <1>s, <2>1, <2>2, <2>3
<1>7. CASE q.op = "runPreset"
  <2>1. saved' = saved
    BY <1>7 DEF ApplyPreset
  <2> QED BY <2>1 DEF PresetsInv, SchedulesHavePresets
<1> QED BY <1>1, <1>2, <1>3, <1>4, <1>5, <1>6, <1>7, <1>q DEF PresetRequest

LEMMA PresetsStep == ASSUME PresetsInv, PresetsNext PROVE PresetsInv'
<1>0. /\ presets \in PresetForms /\ IsSaved(saved) /\ IsSaved(presets.shown)
      /\ presets.editing # 0 => presets.draft \in Configs
      /\ (\A q \in reqs : PresetRequest(q) /\ IsRequest(q)) /\ MaxSaved \in Nat /\ SchedulesHavePresets
  BY PresetsAssumption DEF PresetsInv, PresetForms, PresetRequest
<1>f. /\ presets.create \in BOOLEAN /\ presets.form \in Configs /\ presets.editing \in 0..MaxSaved
      /\ presets.draft \in Configs \cup {NoConfig} /\ presets.scheduling \in -1..MaxSaved
      /\ resetForm \in Configs /\ NoConfig \in Configs \cup {NoConfig} /\ 0 \in 0..MaxSaved
  BY <1>0, ConfigsAre DEF PresetForms
<1>u. ASSUME presets' \in PresetForms, presets'.editing # 0 => presets'.draft \in Configs,
             saved' = saved, \A r \in reqs' : PresetRequest(r)
      PROVE  PresetsInv'
  <2>1. presets'.shown = presets.shown
    BY <1>u DEF PresetForms
  <2>2. presets' \in [create : BOOLEAN, form : Configs, editing : 0..MaxSaved,
                      draft : Configs \cup {NoConfig}, scheduling : -1..MaxSaved,
                      shown : {presets'.shown}]
    BY <1>u, <2>1 DEF PresetForms
  <2>3. SchedulesHavePresets'
    BY <1>0, <1>u DEF SchedulesHavePresets
  <2> QED BY <1>0, <1>u, <2>1, <2>2, <2>3 DEF PresetsInv
<1>k. ASSUME reqs' = reqs PROVE \A r \in reqs' : PresetRequest(r)
  BY <1>0, <1>k
\* A step of the forms: what it sets them to.
<1>e. ASSUME NEW create \in BOOLEAN, NEW form \in Configs, NEW editing \in 0..MaxSaved,
             NEW draft \in Configs \cup {NoConfig}, NEW scheduling \in -1..MaxSaved,
             editing # 0 => draft \in Configs, saved' = saved, \A r \in reqs' : PresetRequest(r),
             presets' = [presets EXCEPT !.create = create, !.form = form, !.editing = editing,
                                        !.draft = draft, !.scheduling = scheduling]
      PROVE  PresetsInv'
  <2>1. presets' \in PresetForms /\ presets'.editing = editing /\ presets'.draft = draft
    BY <1>0, <1>e DEF PresetForms
  <2> QED BY <1>e, <1>u, <2>1
<1>s. ASSUME NEW op, NEW id, NEW val, Send(op, id, val),
             op \in {"createPreset", "updatePreset", "runPreset", "deletePreset", "createSchedule",
                    "toggleSchedule", "deleteSchedule"},
             op \in {"createPreset", "updatePreset"} => val \in Configs
      PROVE  \A r \in reqs' : PresetRequest(r)
  <2>1. PICK r : reqs' = reqs \cup {r} /\ IsRequest(r) /\ r.op = op /\ r.val = val
    BY <1>s, Sent
  <2>2. PresetRequest(r)
    BY <1>s, <2>1 DEF PresetRequest
  <2> QED BY <1>0, <2>1, <2>2
<1>p. ASSUME NEW p \in Kept(presets.shown.presets)
      PROVE  p \in 1..MaxSaved /\ presets.shown.presets[p].config \in Configs
  <2> DEFINE t == presets.shown.presets
  <2>1. t \in Seq(SavedPresets) /\ Len(t) <= MaxSaved /\ p \in DOMAIN t
    BY <1>0, <1>p, KeptIs DEF IsSaved
  <2> HIDE DEF t
  <2>2. p \in 1..MaxSaved /\ t[p] \in SavedPresets
    BY <1>0, <2>1
  <2> QED BY <2>2 DEF SavedPresets, t
<1>1. CASE PresetForm
  <2>0. saved' = saved /\ reqs' = reqs
    BY <1>1 DEF PresetForm, reqVars
  <2>1. ASSUME NEW open \in BOOLEAN, presets' = [presets EXCEPT !.create = open, !.form = resetForm]
        PROVE  PresetsInv'
    <3>1. /\ presets' \in PresetForms /\ presets'.editing = presets.editing
          /\ presets'.draft = presets.draft
      BY <1>0, <1>f, <2>1 DEF PresetForms
    <3> QED BY <1>0, <1>k, <1>u, <2>0, <3>1
  <2>2. ASSUME NEW form \in Edits(presets.form), presets' = [presets EXCEPT !.form = form]
        PROVE  PresetsInv'
    <3>1. form \in Configs
      BY <1>f, EditsFit
    <3>2. /\ presets' \in PresetForms /\ presets'.editing = presets.editing
          /\ presets'.draft = presets.draft
      BY <1>0, <1>f, <2>2, <3>1 DEF PresetForms
    <3> QED BY <1>0, <1>k, <1>u, <2>0, <3>2
  <2>3. ASSUME presets.editing # 0, NEW draft \in Edits(presets.draft),
               presets' = [presets EXCEPT !.draft = draft]
        PROVE  PresetsInv'
    <3>1. draft \in Configs
      BY <1>0, <2>3, EditsFit
    <3>2. presets' \in PresetForms /\ presets'.draft = draft
      BY <1>0, <1>f, <2>3, <3>1 DEF PresetForms
    <3> QED BY <1>0, <1>k, <1>u, <2>0, <3>1, <3>2
  <2> QED BY <1>1, <2>1, <2>2, <2>3 DEF PresetForm
<1>2. CASE EditPreset
  <2>0. saved' = saved /\ reqs' = reqs
    BY <1>2 DEF EditPreset, reqVars
  <2>1. CASE presets' = [presets EXCEPT !.editing = 0, !.draft = NoConfig]
    <3>1. presets' \in PresetForms /\ presets'.editing = 0
      BY <1>0, <1>f, <2>1 DEF PresetForms
    <3> QED BY <1>0, <1>k, <1>u, <2>0, <3>1
  <2>2. ASSUME NEW p \in Kept(presets.shown.presets),
               presets' = [presets EXCEPT !.editing = p, !.draft = presets.shown.presets[p].config]
        PROVE  PresetsInv'
    <3> DEFINE draft == presets.shown.presets[p].config
    <3>1. p \in 0..MaxSaved /\ draft \in Configs
      BY <1>0, <1>p
    <3>2. presets' = [presets EXCEPT !.editing = p, !.draft = draft]
      BY <2>2
    <3> HIDE DEF draft
    <3>3. presets' \in PresetForms /\ presets'.draft = draft
      BY <1>0, <1>f, <3>1, <3>2 DEF PresetForms
    <3> QED BY <1>0, <1>k, <1>u, <2>0, <3>1, <3>3
  <2> QED BY <1>2, <2>1, <2>2 DEF EditPreset
<1>3. CASE ScheduleForm
  <2>0. saved' = saved /\ reqs' = reqs
    BY <1>3 DEF ScheduleForm, reqVars
  <2>1. PICK scheduling \in -1..MaxSaved : presets' = [presets EXCEPT !.scheduling = scheduling]
    <3>1. CASE presets' = [presets EXCEPT !.scheduling = -1]
      BY <1>0, <3>1
    <3>2. CASE presets' = [presets EXCEPT !.scheduling = IF @ = -1 THEN 0 ELSE @]
      <4> DEFINE to == IF presets.scheduling = -1 THEN 0 ELSE presets.scheduling
      <4>1. to \in -1..MaxSaved /\ presets' = [presets EXCEPT !.scheduling = to]
        BY <1>0, <1>f, <3>2
      <4> QED BY <4>1
    <3>3. ASSUME NEW p \in Kept(presets.shown.presets), presets' = [presets EXCEPT !.scheduling = p]
          PROVE  \E scheduling \in -1..MaxSaved : presets' = [presets EXCEPT !.scheduling = scheduling]
      <4>1. p \in -1..MaxSaved
        BY <1>0, <1>p
      <4> QED BY <3>3, <4>1
    <3> QED BY <1>3, <3>1, <3>2, <3>3 DEF ScheduleForm
  <2>2. /\ presets' \in PresetForms /\ presets'.editing = presets.editing
        /\ presets'.draft = presets.draft
    BY <1>0, <1>f, <2>1 DEF PresetForms
  <2> QED BY <1>0, <1>k, <1>u, <2>0, <2>2
<1>4. CASE SavePreset \/ createSchedule \/ (\E p \in Kept(presets.shown.presets) : PresetButtons(p))
           \/ (\E s \in Kept(presets.shown.schedules) : ScheduleButtons(s))
  <2>1. presets' = presets /\ saved' = saved
    BY <1>4 DEF SavePreset, createSchedule, PresetButtons, ScheduleButtons, presetVars
  <2>2. \A r \in reqs' : PresetRequest(r)
    <3>1. CASE SavePreset
      <4>1. \/ Send("createPreset", 0, presets.form)
            \/ presets.editing # 0 /\ Send("updatePreset", presets.editing, presets.draft)
        BY <3>1 DEF SavePreset
      <4> QED BY <1>0, <1>f, <1>s, <4>1
    <3>2. CASE createSchedule
      BY <1>s, <3>2 DEF createSchedule
    <3>3. ASSUME NEW p, PresetButtons(p) PROVE \A r \in reqs' : PresetRequest(r)
      <4>1. Send("runPreset", p, NoConfig) \/ Send("deletePreset", p, NoConfig)
        BY <3>3 DEF PresetButtons
      <4> QED BY <1>s, <4>1
    <3>4. ASSUME NEW s, ScheduleButtons(s) PROVE \A r \in reqs' : PresetRequest(r)
      <4>1. Send("toggleSchedule", s, NoConfig) \/ Send("deleteSchedule", s, NoConfig)
        BY <3>4 DEF ScheduleButtons
      <4> QED BY <1>s, <4>1
    <3> QED BY <1>4, <3>1, <3>2, <3>3, <3>4
  <2> QED BY <1>0, <1>u, <2>1, <2>2
<1>5. CASE LeavePresets
  <2>1. /\ Unmount /\ saved' = saved
        /\ presets' = [presets EXCEPT !.create = FALSE, !.form = resetForm, !.editing = 0,
                                      !.draft = NoConfig, !.scheduling = -1]
    BY <1>5 DEF LeavePresets
  <2>2. \A r \in reqs' : PresetRequest(r)
    <3>1. \A r \in reqs' : \E q \in reqs : IsRequest(r) /\ r.op = q.op /\ r.val = q.val
      BY <1>0, <2>1, Unmounted
    <3> QED BY <1>0, <3>1 DEF PresetRequest
  <2>3. 0 \in 0..MaxSaved /\ -1 \in -1..MaxSaved
    BY <1>0
  <2> QED BY <1>e, <1>f, <2>1, <2>2, <2>3
<1>6. ASSUME NEW q \in reqs, ServePreset(q) PROVE PresetsInv'
  <2>1. PICK state \in {"ok", "failed"} : RespondWith(q, state, q.id)
    BY <1>6 DEF ServePreset, Respond
  <2>2. \A r \in reqs' : PresetRequest(r)
    <3>1. PICK r : reqs' = (reqs \ {q}) \cup {r} /\ IsRequest(r) /\ r.op = q.op /\ r.val = q.val
      BY <1>0, <2>1, Answered
    <3>2. PresetRequest(r)
      BY <1>0, <3>1 DEF PresetRequest
    <3> QED BY <1>0, <3>1, <3>2
  <2>3. presets' = presets
    BY <1>6 DEF ServePreset
  <2>4. CASE AcceptsPreset(q) /\ saved' = ApplyPreset(q)
    <3>1. IsSaved(saved') /\ SchedulesHavePresets'
      BY <2>4, PresetApplied
    <3> QED BY <1>0, <2>2, <2>3, <3>1 DEF PresetsInv, PresetForms
  <2>5. CASE saved' = saved
    BY <1>0, <1>u, <2>2, <2>3, <2>5
  <2> QED BY <1>6, <2>4, <2>5 DEF ServePreset
<1>7. ASSUME NEW q \in reqs, AnswerPreset(q) PROVE PresetsInv'
  <2>1. saved' = saved /\ \A r \in reqs' : PresetRequest(r)
    BY <1>0, <1>7 DEF AnswerPreset, Settle
  <2>2. CASE presets' = presets
    BY <1>0, <1>u, <2>1, <2>2
  <2>3. CASE presets' = [presets EXCEPT !.create = FALSE, !.form = resetForm]
    <3>1. /\ presets' \in PresetForms /\ presets'.editing = presets.editing
          /\ presets'.draft = presets.draft
      BY <1>0, <1>f, <2>3 DEF PresetForms
    <3> QED BY <1>0, <1>u, <2>1, <3>1
  <2>4. CASE presets' = [presets EXCEPT !.editing = 0, !.draft = NoConfig]
    <3>1. presets' \in PresetForms /\ presets'.editing = 0
      BY <1>0, <1>f, <2>4 DEF PresetForms
    <3> QED BY <1>0, <1>u, <2>1, <3>1
  <2>5. CASE presets' = [presets EXCEPT !.scheduling = -1]
    <3>0. -1 \in -1..MaxSaved
      BY <1>0
    <3>1. /\ presets' \in PresetForms /\ presets'.editing = presets.editing
          /\ presets'.draft = presets.draft
      BY <1>0, <1>f, <2>5, <3>0 DEF PresetForms
    <3> QED BY <1>0, <1>u, <2>1, <3>1
  <2> QED BY <1>7, <2>2, <2>3, <2>4, <2>5 DEF AnswerPreset
<1>8. CASE RefetchPresets
  <2>0. saved' = saved /\ reqs' = reqs
    BY <1>8 DEF RefetchPresets, reqVars
  <2>1. PICK part \in {"presets", "schedules"} : presets' = [presets EXCEPT !.shown[part] = saved[part]]
    BY <1>8 DEF RefetchPresets
  <2> DEFINE shown == [presets.shown EXCEPT ![part] = saved[part]]
  <2>2. IsSaved(shown)
    BY <1>0 DEF IsSaved
  <2>3. presets' = [presets EXCEPT !.shown = shown]
    BY <2>1
  <2> HIDE DEF shown
  <2>4. /\ presets' \in [create : BOOLEAN, form : Configs, editing : 0..MaxSaved,
                         draft : Configs \cup {NoConfig}, scheduling : -1..MaxSaved,
                         shown : {shown}]
        /\ presets'.shown = shown /\ presets'.editing = presets.editing
        /\ presets'.draft = presets.draft
    BY <1>0, <2>3 DEF PresetForms
  <2>5. SchedulesHavePresets'
    BY <1>0, <2>0 DEF SchedulesHavePresets
  <2> QED BY <1>0, <1>k, <2>0, <2>2, <2>4, <2>5 DEF PresetsInv
<1> QED BY <1>1, <1>2, <1>3, <1>4, <1>5, <1>6, <1>7, <1>8 DEF PresetsNext

LEMMA PresetsShow ==
    ASSUME IsSaved(saved), presets \in PresetForms
    PROVE  PresetsTypeOK /\ PresetsServable
<1>1. PresetsTypeOK
  BY DEF IsSaved, PresetForms, PresetsTypeOK
<1>2. ASSUME NEW p \in Kept(saved.presets)
      PROVE  saved.presets[p].config \in Configs
  <2>1. saved.presets \in Seq(SavedPresets) /\ p \in DOMAIN saved.presets
    BY <1>2, KeptIs DEF IsSaved
  <2>2. saved.presets[p] \in SavedPresets
    BY <2>1
  <2> QED BY <2>2 DEF SavedPresets
<1>3. PresetsServable
  BY <1>2, ConfigsAre DEF PresetsServable
<1> QED BY <1>1, <1>3

-----------------------------------------------------------------------------
(* The gaps. *)

GapsInv ==
    /\ missing \in [Selections -> BOOLEAN]
    /\ gaps \in [selection : Selections, dialog : {"none", "one", "all"}, of : Selections,
                 failed : BOOLEAN, coverage : [Selections -> {"none", "complete", "gaps"}]]
    /\ \A q \in reqs : IsRequest(q) /\ q.op \in {"detect", "backfill"} /\ q.id \in Selections
    /\ BackfillAfterDetection

LEMMA GapsInitially == ASSUME GapsInit, reqs = {} PROVE GapsInv
BY DEF GapsInit, GapsInv, BackfillAfterDetection

\* What was looked up stays known, whatever is asked, answered or left.
LEMMA GapsKeep ==
    ASSUME GapsInv,
           gaps' \in [selection : Selections, dialog : {"none", "one", "all"}, of : Selections,
                      failed : BOOLEAN, coverage : [Selections -> {"none", "complete", "gaps"}]],
           missing' \in [Selections -> BOOLEAN],
           \A s \in Selections : gaps.coverage[s] # "none" => gaps'.coverage[s] # "none",
           \A r \in reqs' : \/ \E q \in reqs : IsRequest(r) /\ r.op = q.op /\ r.id = q.id
                            \/ /\ IsRequest(r) /\ r.op \in {"detect", "backfill"} /\ r.id \in Selections
                               /\ r.op = "backfill" => gaps'.coverage[r.id] # "none"
    PROVE  GapsInv'
BY DEF GapsInv, BackfillAfterDetection

LEMMA GapsStep == ASSUME GapsInv, GapsNext PROVE GapsInv'
<1> DEFINE Gaps == [selection : Selections, dialog : {"none", "one", "all"}, of : Selections,
                    failed : BOOLEAN, coverage : [Selections -> {"none", "complete", "gaps"}]]
<1>0. /\ gaps \in Gaps /\ missing \in [Selections -> BOOLEAN] /\ \A q \in reqs : IsRequest(q)
      /\ \A q \in reqs : q.op \in {"detect", "backfill"} /\ q.id \in Selections
  BY DEF GapsInv
<1>f. /\ gaps.selection \in Selections /\ gaps.of \in Selections /\ gaps.failed \in BOOLEAN
      /\ gaps.coverage \in [Selections -> {"none", "complete", "gaps"}]
      /\ gaps.dialog \in {"none", "one", "all"}
  BY <1>0
<1>k. ASSUME UNCHANGED reqs PROVE \A r \in reqs' : \E q \in reqs : IsRequest(r) /\ r.op = q.op /\ r.id = q.id
  BY <1>0, <1>k
<1>1. ASSUME NEW s \in Selections, SelectGaps(s) PROVE GapsInv'
  <2>1. gaps' \in Gaps /\ gaps'.coverage = gaps.coverage /\ UNCHANGED <<missing, reqs>>
    BY <1>0, <1>1 DEF SelectGaps, reqVars
  <2> QED BY <1>0, <1>k, <2>1, GapsKeep
<1>2. CASE DetectGaps
  <2>1. /\ gaps' = gaps /\ missing' = missing
        /\ \E r : reqs' = reqs \cup {r} /\ IsRequest(r) /\ r.op = "detect" /\ r.id = gaps.selection
    <3>1. (\E val : Send("detect", gaps.selection, val)) /\ gaps' = gaps /\ missing' = missing
      BY <1>2 DEF DetectGaps, gapVars
    <3> QED BY <3>1, Sent
  <2> QED BY <1>0, <1>f, <2>1, GapsKeep
<1>3. ASSUME NEW dialog \in {"none", "one", "all"}, OpenBackfill(dialog) PROVE GapsInv'
  <2>1. UNCHANGED <<missing, reqs>>
        /\ \E of \in {gaps.selection, gaps.of} : gaps' = [gaps EXCEPT !.dialog = dialog, !.of = of]
    BY <1>3 DEF OpenBackfill, reqVars
  <2>2. gaps' \in Gaps /\ gaps'.coverage = gaps.coverage
    BY <1>0, <1>f, <2>1
  <2> QED BY <1>0, <1>k, <2>1, <2>2, GapsKeep
<1>4. CASE executeBackfill
  <2>1. /\ gaps' = gaps /\ missing' = missing /\ gaps.coverage[gaps.selection] # "none"
        /\ \E r : reqs' = reqs \cup {r} /\ IsRequest(r) /\ r.op = "backfill" /\ r.id = gaps.selection
    <3>1. /\ (\E val : Send("backfill", gaps.selection, val)) /\ gaps' = gaps /\ missing' = missing
          /\ gaps.coverage[gaps.selection] # "none"
      BY <1>4 DEF executeBackfill, gapVars, OffersBackfill, Shown
    <3> QED BY <3>1, Sent
  <2> QED BY <1>0, <1>f, <2>1, GapsKeep
<1>5. CASE LeaveGaps
  <2>1. gaps' \in Gaps /\ gaps'.coverage = gaps.coverage /\ missing' = missing
    <3>1. PICK first \in Selections :
            gaps' = [gaps EXCEPT !.selection = first, !.dialog = "none", !.of = first, !.failed = FALSE]
      BY <1>5 DEF LeaveGaps
    <3>2. gaps' \in Gaps /\ gaps'.coverage = gaps.coverage
      BY <1>0, <3>1
    <3> QED BY <1>5, <3>2 DEF LeaveGaps
  <2>2. \A r \in reqs' : \E q \in reqs : IsRequest(r) /\ r.op = q.op /\ r.id = q.id
    <3>1. Unmount
      BY <1>5 DEF LeaveGaps
    <3> QED BY <1>0, <3>1, Unmounted
  <2> QED BY <1>0, <2>1, <2>2, GapsKeep
<1>6. ASSUME NEW q \in reqs, ServeGaps(q) PROVE GapsInv'
  <2>1. /\ gaps' = gaps /\ missing' = missing
        /\ \E r : reqs' = (reqs \ {q}) \cup {r} /\ IsRequest(r) /\ r.op = q.op /\ r.id = q.id
    BY <1>0, <1>6, Answered DEF ServeGaps, gapVars, Respond
  <2> QED BY <1>0, <2>1, GapsKeep
<1>7. ASSUME NEW s \in Selections, BackfillRuns(s) PROVE GapsInv'
  <2>1. gaps' = gaps /\ missing' \in [Selections -> BOOLEAN] /\ reqs' = reqs
    BY <1>0, <1>7 DEF BackfillRuns, reqVars
  <2> QED BY <1>0, <1>k, <2>1, GapsKeep
<1>8. ASSUME NEW q \in reqs, AnswerGaps(q) PROVE GapsInv'
  <2>1. missing' = missing /\ \A r \in reqs' : r \in reqs
    BY <1>8 DEF AnswerGaps, Settle
  <2>2. \A r \in reqs' : \E p \in reqs : IsRequest(r) /\ r.op = p.op /\ r.id = p.id
    BY <1>0, <2>1
  <2>3. /\ q.id \in Selections /\ q.state \in {"sent", "ok", "failed"} /\ q.state # "sent"
        /\ q.op \in {"detect", "backfill"}
    BY <1>0, <1>8 DEF AnswerGaps, Settle, IsRequest
  <2>4. /\ gaps' \in Gaps
        /\ \A s \in Selections : gaps.coverage[s] # "none" => gaps'.coverage[s] # "none"
    <3>1. CASE q.op = "detect" /\ q.state = "ok"
      <4> DEFINE told == IF missing[q.id] THEN "gaps" ELSE "complete"
      <4>1. gaps' = [gaps EXCEPT !.coverage[q.id] = told]
        BY <1>8, <3>1 DEF AnswerGaps
      <4>2. told \in {"complete", "gaps"}
        OBVIOUS
      <4> HIDE DEF told
      <4> QED BY <1>0, <1>f, <2>3, <4>1, <4>2
    <3>2. CASE q.op = "detect" /\ q.state = "failed"
      <4>1. gaps' = [gaps EXCEPT !.failed = @ \/ q.id = gaps.selection]
        BY <1>8, <3>2 DEF AnswerGaps
      <4> QED BY <1>0, <1>f, <4>1
    <3>3. CASE q.op = "backfill" /\ q.state = "ok" /\ q.here
      BY <1>0, <1>8, <3>3 DEF AnswerGaps
    <3>4. CASE q.op = "backfill" /\ ~(q.state = "ok" /\ q.here)
      <4>1. gaps' = gaps
        BY <1>8, <3>4 DEF AnswerGaps
      <4> QED BY <1>0, <4>1
    <3> QED BY <2>3, <3>1, <3>2, <3>3, <3>4
  <2> QED BY <1>0, <2>1, <2>2, <2>4, GapsKeep
<1> QED BY <1>1, <1>2, <1>3, <1>4, <1>5, <1>6, <1>7, <1>8 DEF GapsNext, GapsUser, GapsServer

LEMMA GapsShow == ASSUME GapsInv PROVE GapsTypeOK /\ BackfillAfterDetection
BY DEF GapsInv, GapsTypeOK

-----------------------------------------------------------------------------
(* The composites. *)

Fits(satellite, sector) ==
    <<satellite, sector>> \in {<<"GOES-19", "CONUS">>, <<"Himawari-9", "FLDK">>}
Makers == [satellite : {"GOES-19", "Himawari-9"}, sector : {"CONUS", "FLDK"},
           status : {"pending", "completed", "failed"}]

\* What a poll has shown: some of the composites, by their number.
ShownPages == UNION {[S -> Makers] : S \in SUBSET (1..MaxComposites)}

MakerInv ==
    /\ composites \in Seq(Makers) /\ Len(composites) <= MaxComposites
    /\ \A c \in DOMAIN composites : Fits(composites[c].satellite, composites[c].sector)
    /\ maker \in [recipe : BOOLEAN, satellite : {"GOES-19", "Himawari-9"},
                  sector : {"CONUS", "FLDK"}, timed : BOOLEAN, shown : ShownPages]
    /\ Fits(maker.satellite, maker.sector) /\ DOMAIN maker.shown \subseteq DOMAIN composites
    /\ \A q \in reqs : IsRequest(q) /\ q.op = "compose" /\ Fits(q.id, q.val)

LEMMA MakerInitially == ASSUME MakerInit, reqs = {} PROVE MakerInv
<1>1. composites \in Seq(Makers) /\ Len(composites) <= MaxComposites /\ composites = <<>>
  BY CompositesAssumption DEF MakerInit
<1>2. <<>> \in ShownPages /\ DOMAIN <<>> = {}
  <2>1. <<>> \in [{} -> Makers]
    OBVIOUS
  <2> QED BY <2>1 DEF ShownPages
<1>3. /\ maker \in [recipe : BOOLEAN, satellite : {"GOES-19", "Himawari-9"},
                    sector : {"CONUS", "FLDK"}, timed : BOOLEAN, shown : ShownPages]
      /\ maker.satellite = "GOES-19" /\ maker.sector = "CONUS" /\ maker.shown = <<>>
  BY <1>2 DEF MakerInit
<1> QED BY <1>1, <1>2, <1>3 DEF MakerInv, Fits

\* What the form has, what is on its way and what is made fits: each is copied from
\* the one before, and the form changes its sector with its satellite.
LEMMA MakerStep == ASSUME MakerInv, MakerNext PROVE MakerInv'
<1> DEFINE Forms == [recipe : BOOLEAN, satellite : {"GOES-19", "Himawari-9"},
                     sector : {"CONUS", "FLDK"}, timed : BOOLEAN, shown : ShownPages]
<1>0. /\ composites \in Seq(Makers) /\ Len(composites) <= MaxComposites /\ maker \in Forms
      /\ \A c \in DOMAIN composites : Fits(composites[c].satellite, composites[c].sector)
      /\ Fits(maker.satellite, maker.sector) /\ DOMAIN maker.shown \subseteq DOMAIN composites
      /\ \A q \in reqs : IsRequest(q) /\ q.op = "compose" /\ Fits(q.id, q.val)
      /\ MaxComposites \in Nat
  BY CompositesAssumption DEF MakerInv
<1>f. ASSUME maker' \in Forms, Fits(maker'.satellite, maker'.sector), maker'.shown = maker.shown,
             composites' = composites,
             \A r \in reqs' : \/ \E q \in reqs : IsRequest(r) /\ r.op = q.op /\ r.id = q.id /\ r.val = q.val
                              \/ IsRequest(r) /\ r.op = "compose" /\ Fits(r.id, r.val)
      PROVE  MakerInv'
  BY <1>0, <1>f DEF MakerInv
<1>1. CASE EditComposite
  <2>1. reqs' = reqs /\ composites' = composites
    BY <1>1 DEF EditComposite, reqVars
  <2>2. CASE maker' = [maker EXCEPT !.recipe = TRUE]
    BY <1>0, <1>f, <2>1, <2>2
  <2>3. ASSUME NEW s \in {"GOES-19", "Himawari-9"}, maker' = ChangeMakerSatellite(maker, s)
        PROVE  MakerInv'
    <3>1. getDefaultSector(s) \in {"CONUS", "FLDK"} /\ Fits(s, getDefaultSector(s))
      BY DEF getDefaultSector, isHimawariSatellite, Fits
    <3>2. maker' = [maker EXCEPT !.satellite = s, !.sector = getDefaultSector(s)]
      BY <2>3 DEF ChangeMakerSatellite
    <3> QED BY <1>0, <1>f, <2>1, <3>1, <3>2
  <2>4. ASSUME NEW s \in sectorOptions, maker' = [maker EXCEPT !.sector = s] PROVE MakerInv'
    <3>1. s \in {"CONUS", "FLDK"} /\ Fits(maker.satellite, s)
      BY <1>0 DEF sectorOptions, isHimawariSatellite, Fits
    <3> QED BY <1>0, <1>f, <2>1, <2>4, <3>1
  <2>5. CASE maker' = [maker EXCEPT !.timed = ~@]
    BY <1>0, <1>f, <2>1, <2>5
  <2> QED BY <1>1, <2>2, <2>3, <2>4, <2>5 DEF EditComposite
<1>2. CASE GenerateComposite
  <2>1. Send("compose", maker.satellite, maker.sector) /\ maker' = maker /\ composites' = composites
    BY <1>2 DEF GenerateComposite, makerVars
  <2>2. PICK r : reqs' = reqs \cup {r} /\ IsRequest(r) /\ r.op = "compose"
                 /\ r.id = maker.satellite /\ r.val = maker.sector
    BY <2>1, Sent
  <2> QED BY <1>0, <1>f, <2>1, <2>2
<1>3. CASE LeaveComposites
  <2>1. Unmount /\ composites' = composites
        /\ maker' = [maker EXCEPT !.recipe = FALSE, !.satellite = "GOES-19", !.sector = "CONUS",
                                  !.timed = FALSE]
    BY <1>3 DEF LeaveComposites
  <2>2. maker' \in Forms /\ Fits(maker'.satellite, maker'.sector) /\ maker'.shown = maker.shown
    BY <1>0, <2>1 DEF Fits
  <2>3. \A r \in reqs' : \E q \in reqs : IsRequest(r) /\ r.op = q.op /\ r.id = q.id /\ r.val = q.val
    BY <1>0, <2>1, Unmounted
  <2> QED BY <1>f, <2>1, <2>2, <2>3
<1>4. ASSUME NEW q \in reqs, ServeComposite(q) PROVE MakerInv'
  <2>1. PICK state \in {"ok", "failed"} : RespondWith(q, state, q.id)
    BY <1>4 DEF ServeComposite, Respond
  <2>2. \A r \in reqs' : \E p \in reqs : IsRequest(r) /\ r.op = p.op /\ r.id = p.id /\ r.val = p.val
    <3>1. \E r : reqs' = (reqs \ {q}) \cup {r} /\ IsRequest(r) /\ r.op = q.op /\ r.id = q.id /\ r.val = q.val
      BY <1>0, <2>1, Answered
    <3> QED BY <1>0, <3>1
  <2>3. CASE composites' = composites
    BY <1>0, <1>4, <1>f, <2>2, <2>3 DEF ServeComposite
  <2> DEFINE made == [satellite |-> q.id, sector |-> q.val, status |-> "pending"]
  <2>4. CASE composites' = Append(composites, made) /\ Len(composites) < MaxComposites
    <3>1. made \in Makers /\ Fits(made.satellite, made.sector)
      BY <1>0 DEF Makers, Fits
    <3> HIDE DEF made
    <3>2. /\ composites' \in Seq(Makers) /\ Len(composites') = Len(composites) + 1
          /\ composites'[Len(composites) + 1] = made /\ Len(composites) \in Nat
          /\ DOMAIN composites' = DOMAIN composites \cup {Len(composites) + 1}
          /\ \A j \in DOMAIN composites : composites'[j] = composites[j]
      BY <1>0, <2>4, <3>1, RowAdded
    <3>3. \A c \in DOMAIN composites' : Fits(composites'[c].satellite, composites'[c].sector)
      BY <1>0, <3>1, <3>2
    <3>4. maker' = maker
      BY <1>4 DEF ServeComposite
    <3>6. Len(composites') <= MaxComposites /\ DOMAIN maker.shown \subseteq DOMAIN composites'
      BY <1>0, <2>4, <3>2
    <3> QED BY <1>0, <2>2, <3>2, <3>3, <3>4, <3>6 DEF MakerInv
  <2> QED BY <1>4, <2>3, <2>4 DEF ServeComposite
<1>5. ASSUME NEW q \in reqs, AnswerComposite(q) PROVE MakerInv'
  <2>1. maker' = maker /\ composites' = composites /\ \A r \in reqs' : r \in reqs
    BY <1>5 DEF AnswerComposite, Settle, makerVars
  <2> QED BY <1>0, <1>f, <2>1
<1>6. ASSUME NEW c \in DOMAIN composites, CompositeRuns(c) PROVE MakerInv'
  <2>1. PICK end \in {"completed", "failed"} : composites' = [composites EXCEPT ![c].status = end]
    BY <1>6 DEF CompositeRuns
  <2> DEFINE b == [composites[c] EXCEPT !.status = end]
  <2>2. composites[c] \in Makers /\ b \in Makers /\ Fits(b.satellite, b.sector)
    <3>1. composites[c] \in Makers /\ Fits(composites[c].satellite, composites[c].sector)
      BY <1>0
    <3>2. /\ b \in Makers /\ b.satellite = composites[c].satellite
          /\ b.sector = composites[c].sector
      BY <3>1 DEF Makers
    <3> QED BY <3>1, <3>2
  <2>3. composites' = [composites EXCEPT ![c] = b]
    BY <2>1
  <2> HIDE DEF b
  <2>4. /\ composites' \in Seq(Makers) /\ Len(composites') = Len(composites)
        /\ DOMAIN composites' = DOMAIN composites /\ composites'[c] = b
        /\ \A j \in DOMAIN composites : j # c => composites'[j] = composites[j]
    BY <1>0, <2>2, <2>3, RowPut
  <2>5. maker' = maker /\ reqs' = reqs
    BY <1>6 DEF CompositeRuns, reqVars
  <2>6. \A j \in DOMAIN composites' : Fits(composites'[j].satellite, composites'[j].sector)
    BY <1>0, <2>2, <2>4
  <2> QED BY <1>0, <2>4, <2>5, <2>6 DEF MakerInv
<1>7. CASE PollComposites
  <2> DEFINE page == [c \in ListedComposites |-> composites[c]]
  <2>1. maker' = [maker EXCEPT !.shown = page] /\ composites' = composites /\ reqs' = reqs
    BY <1>7 DEF PollComposites, reqVars
  <2>2. ListedComposites \subseteq DOMAIN composites /\ ListedComposites \in SUBSET (1..MaxComposites)
    BY <1>0 DEF ListedComposites
  <2>3. page \in ShownPages /\ DOMAIN page \subseteq DOMAIN composites
    <3>1. page \in [ListedComposites -> Makers]
      BY <1>0, <2>2
    <3> QED BY <2>2, <3>1 DEF ShownPages
  <2> HIDE DEF page
  <2>4. maker' \in Forms /\ maker'.satellite = maker.satellite /\ maker'.sector = maker.sector
        /\ maker'.shown = page
    BY <1>0, <2>1, <2>3
  <2> QED BY <1>0, <2>1, <2>3, <2>4 DEF MakerInv
<1> QED BY <1>1, <1>2, <1>3, <1>4, <1>5, <1>6, <1>7 DEF MakerNext, MakerServer

LEMMA MakerShows == ASSUME MakerInv PROVE MakerTypeOK /\ CompositesServable
<1>1. \A c \in DOMAIN composites : Fits(composites[c].satellite, composites[c].sector)
  BY DEF MakerInv
<1>2. CompositesServable
  BY <1>1 DEF CompositesServable, Fits, isHimawariSatellite
<1>3. MakerTypeOK
  BY DEF MakerInv, MakerTypeOK
<1> QED BY <1>2, <1>3

-----------------------------------------------------------------------------
(* The collections. *)

AlbumStates == {"empty", "filled", "gone"}
AlbumRequest(q) ==
    /\ IsRequest(q)
    /\ q.op \in {"create", "rename", "delete", "frames", "createAndAdd", "add", "createTag", "tag"}
    /\ q.op \in {"rename", "delete", "frames", "add"} => q.id \in DOMAIN shelf.collections
    /\ q.op = "createAndAdd" => q.id \in 0..Len(shelf.collections)
    /\ q.op = "createTag" /\ q.state = "ok" => q.id \in 1..shelf.tags
    /\ q.op \in {"add", "createAndAdd"} /\ q.state = "ok" =>
          q.id \in DOMAIN shelf.collections /\ shelf.collections[q.id] # "empty"
    /\ q.op = "frames" /\ q.here =>
          q.id = album.lastAsked /\ album.loading = q.id /\ album.player = 0

AlbumInv ==
    /\ shelf \in [collections : Seq(AlbumStates), tags : 0..MaxCollections]
    /\ Len(shelf.collections) <= MaxCollections
    /\ album \in [dialog : {"none", "collect", "tag"}, editing : 0..MaxCollections,
                  loading : 0..MaxCollections, player : 0..MaxCollections,
                  lastAsked : 0..MaxCollections, shown : Seq(AlbumStates),
                  picked : SUBSET (1..shelf.tags)]
    /\ Len(album.shown) <= Len(shelf.collections)
    /\ \A q \in reqs : AlbumRequest(q)
    /\ \A p, q \in reqs : p.op = "frames" /\ q.op = "frames" /\ p.here /\ q.here => p = q
    /\ PlayerOfLastAsked

LEMMA AlbumInitially == ASSUME AlbumInit, reqs = {} PROVE AlbumInv
<1>1. MaxCollections \in Nat \ {0}
  BY CollectionsAssumption
<1>2. <<"filled">> \in Seq(AlbumStates) /\ Len(<<"filled">>) = 1
  BY DEF AlbumStates
<1>3. /\ shelf = [collections |-> <<"filled">>, tags |-> 0]
      /\ album = [dialog |-> "none", editing |-> 0, loading |-> 0, player |-> 0,
                  lastAsked |-> 0, shown |-> <<"filled">>, picked |-> {}]
  BY DEF AlbumInit
<1>4. /\ shelf \in [collections : Seq(AlbumStates), tags : 0..MaxCollections]
      /\ shelf.collections = <<"filled">> /\ shelf.tags = 0 /\ 0 \in 0..MaxCollections
      /\ {} \in SUBSET (1..shelf.tags)
  BY <1>1, <1>2, <1>3
<1>5. /\ album \in [dialog : {"none", "collect", "tag"}, editing : 0..MaxCollections,
                    loading : 0..MaxCollections, player : 0..MaxCollections,
                    lastAsked : 0..MaxCollections, shown : Seq(AlbumStates),
                    picked : SUBSET (1..shelf.tags)]
      /\ album.shown = <<"filled">> /\ album.player = 0
  BY <1>2, <1>3, <1>4
<1> QED BY <1>1, <1>2, <1>4, <1>5 DEF AlbumInv, PlayerOfLastAsked

Albums(tags) ==
    [dialog : {"none", "collect", "tag"}, editing : 0..MaxCollections,
     loading : 0..MaxCollections, player : 0..MaxCollections, lastAsked : 0..MaxCollections,
     shown : Seq(AlbumStates), picked : SUBSET (1..tags)]
Shelves == [collections : Seq(AlbumStates), tags : 0..MaxCollections]

\* Collections are never emptied or forgotten and tags never lost, and the player
\* at most closes.
AlbumMoves ==
    /\ shelf' \in Shelves /\ Len(shelf'.collections) <= MaxCollections
    /\ Len(shelf.collections) <= Len(shelf'.collections) /\ shelf.tags <= shelf'.tags
    /\ \A c \in DOMAIN shelf.collections :
          shelf.collections[c] # "empty" => shelf'.collections[c] # "empty"
    /\ album' \in Albums(shelf'.tags) /\ Len(album'.shown) <= Len(shelf'.collections)
    /\ album'.lastAsked = album.lastAsked /\ album'.loading = album.loading
    /\ album'.player \in {0, album.player}

\* What was true of a request stays true of it, answered or not.
LEMMA StaysTrue ==
    ASSUME AlbumInv, AlbumMoves, NEW q \in reqs, NEW r, IsRequest(r), r.op = q.op, r.id = q.id,
           r.state = q.state, r.here => q.here
    PROVE  AlbumRequest(r)'
<1>1. AlbumRequest(q)
  BY DEF AlbumInv
<1>2. /\ shelf.collections \in Seq(AlbumStates) /\ shelf'.collections \in Seq(AlbumStates)
      /\ shelf.tags \in Int /\ shelf'.tags \in Int
  BY DEF AlbumInv, Shelves, AlbumMoves
<1>3. /\ DOMAIN shelf.collections \subseteq DOMAIN shelf'.collections
      /\ 0..Len(shelf.collections) \subseteq 0..Len(shelf'.collections)
      /\ 1..shelf.tags \subseteq 1..shelf'.tags
  BY <1>2 DEF AlbumMoves
<1> QED BY <1>1, <1>3 DEF AlbumRequest, AlbumMoves

LEMMA AlbumKept == ASSUME AlbumInv, AlbumMoves, reqs' \subseteq reqs PROVE AlbumInv'
<1>1. \A q \in reqs : AlbumRequest(q)'
  <2>1. \A q \in reqs : IsRequest(q)
    BY DEF AlbumInv, AlbumRequest
  <2> QED BY <2>1, StaysTrue
<1>2. PlayerOfLastAsked'
  BY DEF AlbumInv, AlbumMoves, PlayerOfLastAsked
<1> QED BY <1>1, <1>2 DEF AlbumInv, AlbumMoves, Albums, Shelves

LEMMA AlbumSent ==
    ASSUME AlbumInv, AlbumMoves, NEW x, reqs' = reqs \cup {x}, AlbumRequest(x)', x.op # "frames"
    PROVE  AlbumInv'
<1>1. \A q \in reqs : AlbumRequest(q)'
  <2>1. \A q \in reqs : IsRequest(q)
    BY DEF AlbumInv, AlbumRequest
  <2> QED BY <2>1, StaysTrue
<1>2. PlayerOfLastAsked'
  BY DEF AlbumInv, AlbumMoves, PlayerOfLastAsked
<1> QED BY <1>1, <1>2 DEF AlbumInv, AlbumMoves, Albums, Shelves

LEMMA AlbumServed ==
    ASSUME AlbumInv, AlbumMoves, NEW q \in reqs, NEW x, reqs' = (reqs \ {q}) \cup {x},
           AlbumRequest(x)', x.op = q.op, x.here = q.here
    PROVE  AlbumInv'
<1>1. \A r \in reqs : AlbumRequest(r)'
  <2>1. \A r \in reqs : IsRequest(r)
    BY DEF AlbumInv, AlbumRequest
  <2> QED BY <2>1, StaysTrue
<1>2. PlayerOfLastAsked'
  BY DEF AlbumInv, AlbumMoves, PlayerOfLastAsked
<1> QED BY <1>1, <1>2 DEF AlbumInv, AlbumMoves, Albums, Shelves

LEMMA AlbumStep == ASSUME AlbumInv, AlbumNext PROVE AlbumInv'
<1>0. /\ shelf \in Shelves /\ album \in Albums(shelf.tags) /\ MaxCollections \in Nat
      /\ Len(shelf.collections) <= MaxCollections /\ Len(album.shown) <= Len(shelf.collections)
      /\ (\A q \in reqs : AlbumRequest(q) /\ IsRequest(q)) /\ PlayerOfLastAsked
  BY CollectionsAssumption DEF AlbumInv, Albums, Shelves, AlbumRequest
<1>f. /\ shelf.collections \in Seq(AlbumStates) /\ shelf.tags \in 0..MaxCollections
      /\ shelf = [collections |-> shelf.collections, tags |-> shelf.tags]
      /\ album.shown \in Seq(AlbumStates) /\ album.picked \in SUBSET (1..shelf.tags)
      /\ album.editing \in 0..MaxCollections /\ 0 \in 0..MaxCollections
      /\ DOMAIN shelf.collections = 1..Len(shelf.collections) /\ Len(shelf.collections) \in Nat
  BY <1>0 DEF Shelves, Albums
<1>c. ASSUME NEW c \in There(album.shown)
      PROVE  c \in DOMAIN shelf.collections /\ c \in 0..MaxCollections /\ c # 0
  BY <1>0, <1>c, <1>f DEF There
<1>m. ASSUME shelf' = shelf, album' \in Albums(shelf.tags), album'.shown = album.shown,
             album'.lastAsked = album.lastAsked, album'.loading = album.loading,
             album'.player \in {0, album.player}
      PROVE  AlbumMoves
  BY <1>0, <1>f, <1>m DEF AlbumMoves
<1>u. ASSUME shelf' = shelf, album' = album PROVE AlbumMoves
  BY <1>0, <1>m, <1>u
\* Requests that wait for their id, or have one of the list.
<1>s. ASSUME NEW op, NEW id, NEW val, Send(op, id, val), shelf' = shelf, album' = album,
             \/ op \in {"create", "createAndAdd", "createTag", "tag"} /\ id = 0
             \/ op \in {"rename", "delete", "add"} /\ id \in DOMAIN shelf.collections
      PROVE  AlbumInv'
  <2>1. PICK x : /\ reqs' = reqs \cup {x} /\ IsRequest(x) /\ x.op = op /\ x.id = id
                 /\ x.state = "sent"
    BY <1>s, Sent
  <2>2. AlbumRequest(x)'
    BY <1>f, <1>s, <2>1 DEF AlbumRequest
  <2> QED BY <1>s, <1>u, <2>1, <2>2, AlbumSent
<1>1. CASE CreateCollection
  <2>1. Send("create", 0, "empty") /\ shelf' = shelf /\ album' = album
    BY <1>1 DEF CreateCollection, albumVars
  <2> QED BY <1>s, <2>1
<1>2. ASSUME NEW c \in There(album.shown), EditName(c) \/ DeleteCollection(c) PROVE AlbumInv'
  <2>1. CASE Send("rename", c, "none") /\ shelf' = shelf /\ album' = album
    BY <1>c, <1>s, <2>1
  <2>2. CASE Send("delete", c, "gone") /\ shelf' = shelf /\ album' = album
    BY <1>c, <1>s, <2>2
  <2>3. ASSUME NEW e \in {0, c}, album' = [album EXCEPT !.editing = e], shelf' = shelf, reqs' = reqs
        PROVE  AlbumInv'
    <3>1. e \in 0..MaxCollections
      BY <1>c, <1>f
    <3>2. /\ album' \in Albums(shelf.tags) /\ album'.shown = album.shown
          /\ album'.lastAsked = album.lastAsked /\ album'.loading = album.loading
          /\ album'.player = album.player
      BY <1>0, <2>3, <3>1 DEF Albums
    <3> QED BY <1>m, <2>3, <3>2, AlbumKept
  <2>4. (\E e \in {0, c} : album' = [album EXCEPT !.editing = e] /\ shelf' = shelf /\ reqs' = reqs)
        \/ (Send("rename", c, "none") /\ shelf' = shelf /\ album' = album)
        \/ (Send("delete", c, "gone") /\ shelf' = shelf /\ album' = album)
    BY <1>2 DEF EditName, DeleteCollection, albumVars, reqVars
  <2> QED BY <2>1, <2>2, <2>3, <2>4
<1>3. ASSUME NEW c \in There(album.shown), handleAnimate(c) PROVE AlbumInv'
  <2>1. /\ album.player = 0 /\ album.loading = 0 /\ Send("frames", c, "none") /\ shelf' = shelf
        /\ album' = [album EXCEPT !.loading = c, !.lastAsked = c]
    BY <1>3 DEF handleAnimate, CanAnimate
  <2>2. /\ album' \in Albums(shelf.tags) /\ album'.shown = album.shown /\ album'.lastAsked = c
        /\ album'.loading = c /\ album'.player = 0
    BY <1>0, <1>c, <2>1 DEF Albums
  <2>3. PICK x : /\ reqs' = reqs \cup {x} /\ IsRequest(x) /\ x.op = "frames" /\ x.id = c
                 /\ x.state = "sent"
    BY <2>1, Sent
  <2>4. AlbumRequest(x)'
    BY <1>c, <2>1, <2>2, <2>3 DEF AlbumRequest
  <2>5. \A q \in reqs : ~(q.op = "frames" /\ q.here)
    BY <1>0, <1>f, <2>1 DEF AlbumRequest
  <2>6. \A q \in reqs : AlbumRequest(q)'
    BY <1>0, <2>1, <2>5 DEF AlbumRequest
  <2> QED BY <1>0, <2>1, <2>2, <2>3, <2>4, <2>5, <2>6
          DEF AlbumInv, PlayerOfLastAsked, Albums, Shelves
<1>4. CASE ClosePlayer
  <2>1. album' = [album EXCEPT !.player = 0] /\ shelf' = shelf /\ reqs' = reqs
    BY <1>4 DEF ClosePlayer, reqVars
  <2>2. /\ album' \in Albums(shelf.tags) /\ album'.shown = album.shown
        /\ album'.lastAsked = album.lastAsked /\ album'.loading = album.loading
        /\ album'.player = 0
    BY <1>0, <1>f, <2>1 DEF Albums
  <2> QED BY <1>m, <2>1, <2>2, AlbumKept
\* The dialogs and what is picked in them.
<1>d. ASSUME NEW dialog \in {"none", "collect", "tag"}, NEW editing \in 0..MaxCollections,
             NEW picked \in SUBSET (1..shelf.tags), shelf' = shelf, reqs' \subseteq reqs,
             album' = [album EXCEPT !.dialog = dialog, !.editing = editing, !.picked = picked]
      PROVE  AlbumInv'
  <2>1. /\ album' \in Albums(shelf.tags) /\ album'.shown = album.shown
        /\ album'.lastAsked = album.lastAsked /\ album'.loading = album.loading
        /\ album'.player = album.player
    BY <1>0, <1>d DEF Albums
  <2> QED BY <1>d, <1>m, <2>1, AlbumKept
<1>g. /\ album.dialog \in {"none", "collect", "tag"} /\ {} \in SUBSET (1..shelf.tags)
      /\ \A d, e, t : [album EXCEPT !.dialog = d] = [album EXCEPT !.dialog = d, !.editing = album.editing, !.picked = album.picked]
                     /\ [album EXCEPT !.picked = t] = [album EXCEPT !.dialog = album.dialog, !.editing = album.editing, !.picked = t]
                     /\ [album EXCEPT !.editing = e] = [album EXCEPT !.dialog = album.dialog, !.editing = e, !.picked = album.picked]
                     /\ [album EXCEPT !.dialog = d, !.picked = t] = [album EXCEPT !.dialog = d, !.editing = album.editing, !.picked = t]
  BY <1>0 DEF Albums
<1>5. CASE OpenAlbumDialog
  <2>1. PICK dialog \in {"none", "collect", "tag"} :
          album' = [album EXCEPT !.dialog = dialog, !.picked = {}]
    BY <1>5 DEF OpenAlbumDialog
  <2>2. shelf' = shelf /\ reqs' = reqs
    BY <1>5 DEF OpenAlbumDialog, reqVars
  <2>3. album' = [album EXCEPT !.dialog = dialog, !.editing = album.editing, !.picked = {}]
    BY <1>g, <2>1
  <2> QED BY <1>d, <1>f, <1>g, <2>2, <2>3
<1>6. CASE AddToCollection
  <2>1. shelf' = shelf /\ album' = album
        /\ (Send("createAndAdd", 0, "none") \/ \E c \in There(album.shown) : Send("add", c, "none"))
    BY <1>6 DEF AddToCollection, albumVars
  <2> QED BY <1>c, <1>s, <2>1
<1>7. CASE PickTags
  <2>1. shelf' = shelf
    BY <1>7 DEF PickTags
  <2>2. ASSUME NEW t \in 1..shelf.tags, album' = [album EXCEPT !.picked = (@ \ {t}) \cup ({t} \ @)],
               reqs' = reqs
        PROVE  AlbumInv'
    <3> DEFINE picked == (album.picked \ {t}) \cup ({t} \ album.picked)
    <3>1. picked \in SUBSET (1..shelf.tags) /\ album' = [album EXCEPT !.picked = picked]
      BY <1>f, <2>2
    <3> HIDE DEF picked
    <3>2. /\ album' \in Albums(shelf.tags) /\ album'.shown = album.shown
          /\ album'.lastAsked = album.lastAsked /\ album'.loading = album.loading
          /\ album'.player = album.player
      BY <1>0, <3>1 DEF Albums
    <3>3. shelf' = shelf /\ reqs' \subseteq reqs
      BY <2>1, <2>2
    <3> QED BY <1>m, <3>2, <3>3, AlbumKept
  <2>3. CASE (Send("createTag", 0, "none") \/ Send("tag", 0, "none")) /\ album' = album
    BY <1>s, <2>1, <2>3
  <2> QED BY <1>7, <2>2, <2>3 DEF PickTags, reqVars
<1>8. CASE LeaveAlbum
  <2>1. /\ Unmount /\ shelf' = shelf
        /\ album' = [album EXCEPT !.dialog = "none", !.editing = 0, !.loading = 0, !.player = 0,
                                  !.lastAsked = 0, !.picked = {}]
    BY <1>8 DEF LeaveAlbum
  <2>2. album' \in Albums(shelf.tags) /\ album'.shown = album.shown /\ album'.player = 0
    BY <1>0, <1>f, <2>1 DEF Albums
  <2>3. \A r \in reqs' : \E q \in reqs : IsRequest(r) /\ r.op = q.op /\ r.id = q.id
                                       /\ r.state = q.state /\ r.here = FALSE
    BY <1>0, <2>1, Unmounted
  <2>4. \A r \in reqs' : AlbumRequest(r)' /\ r.here = FALSE
    BY <1>0, <2>1, <2>3 DEF AlbumRequest
  <2> QED BY <1>0, <2>1, <2>2, <2>4 DEF AlbumInv, PlayerOfLastAsked, Albums, Shelves
<1>9. CASE RefetchCollections
  <2>1. album' = [album EXCEPT !.shown = shelf.collections] /\ shelf' = shelf /\ reqs' = reqs
    BY <1>9 DEF RefetchCollections, reqVars
  <2>2. /\ album' \in Albums(shelf.tags) /\ album'.shown = shelf.collections
        /\ album'.lastAsked = album.lastAsked /\ album'.loading = album.loading
        /\ album'.player = album.player
    BY <1>0, <1>f, <2>1 DEF Albums
  <2>3. AlbumMoves
    BY <1>0, <1>f, <2>1, <2>2 DEF AlbumMoves
  <2> QED BY <2>1, <2>3, AlbumKept
\* The server: a request that got its answer.
<1>r. ASSUME NEW q \in reqs, NEW state \in {"sent", "ok", "failed"}, NEW id,
             RespondWith(q, state, id), AlbumMoves,
             q.op \in {"rename", "delete", "frames", "add"} => id = q.id,
             q.op = "createAndAdd" => id \in 0..Len(shelf'.collections),
             q.op = "createTag" /\ state = "ok" => id \in 1..shelf'.tags,
             q.op \in {"add", "createAndAdd"} /\ state = "ok" =>
                 id \in DOMAIN shelf'.collections /\ shelf'.collections[id] # "empty"
      PROVE  AlbumInv'
  <2>1. PICK x : /\ reqs' = (reqs \ {q}) \cup {x} /\ IsRequest(x) /\ x.op = q.op /\ x.id = id
                 /\ x.state = state /\ x.here = q.here
    BY <1>0, <1>r, Answered
  <2>2. AlbumRequest(q)'
    BY <1>0, <1>r, StaysTrue
  <2>3. AlbumRequest(x)'
    BY <1>r, <2>1, <2>2 DEF AlbumRequest
  <2> QED BY <1>r, <2>1, <2>3, AlbumServed
<1>10. ASSUME NEW q \in reqs, ServeCreate(q) PROVE AlbumInv'
  <2> DEFINE s == Append(shelf.collections, "empty")
  <2>1. /\ q.op \in {"create", "createAndAdd"} /\ Len(shelf.collections) < MaxCollections
        /\ shelf' = [shelf EXCEPT !.collections = s] /\ album' = album
    BY <1>10 DEF ServeCreate
  <2>2. PICK state \in {AfterCreate(q), "failed"} : RespondWith(q, state, Len(shelf'.collections))
    BY <1>10 DEF ServeCreate
  <2>3. /\ s \in Seq(AlbumStates) /\ Len(s) = Len(shelf.collections) + 1
        /\ \A c \in DOMAIN shelf.collections : s[c] = shelf.collections[c]
    BY <1>f, RowAdded DEF AlbumStates
  <2> HIDE DEF s
  <2>4. shelf' \in Shelves /\ shelf'.collections = s /\ shelf'.tags = shelf.tags
    BY <1>f, <2>1, <2>3 DEF Shelves
  <2>5. AlbumMoves
    <3>1. Len(album.shown) \in Nat
      BY <1>f
    <3>2. Len(album.shown) <= Len(s) /\ Len(shelf.collections) <= Len(s) /\ Len(s) <= MaxCollections
      BY <1>0, <1>f, <2>1, <2>3, <3>1
    <3>3. shelf.tags <= shelf.tags
      BY <1>0, <1>f
    <3> QED BY <1>0, <2>1, <2>3, <2>4, <3>2, <3>3 DEF AlbumMoves
  <2>6. Len(s) \in 0..Len(s)
    BY <1>f, <2>3
  <2>7. q.op = "createAndAdd" => state # "ok"
    BY DEF AfterCreate
  <2>8. state \in {"sent", "ok", "failed"}
    BY DEF AfterCreate
  <2> QED BY <1>r, <2>1, <2>2, <2>4, <2>5, <2>6, <2>7, <2>8
<1>11. ASSUME NEW q \in reqs, ServeChange(q) PROVE AlbumInv'
  <2>1. /\ q.op \in {"add", "createAndAdd", "rename", "delete"} /\ album' = album
        /\ q.id \in DOMAIN shelf.collections
    BY <1>11 DEF ServeChange, There
  <2>2. PICK state \in {"ok", "failed"} : RespondWith(q, state, q.id)
    BY <1>11 DEF ServeChange, Respond
  <2>3. /\ AlbumMoves /\ DOMAIN shelf'.collections = DOMAIN shelf.collections
        /\ Len(shelf'.collections) = Len(shelf.collections)
        /\ q.op \in {"add", "createAndAdd"} => shelf'.collections[q.id] # "empty"
    <3>1. CASE q.op = "rename"
      <4>1. shelf' = shelf
        BY <1>11, <3>1 DEF ServeChange
      <4> QED BY <1>u, <2>1, <3>1, <4>1
    <3>2. CASE q.op \in {"add", "createAndAdd", "delete"}
      <4> DEFINE to == IF q.op = "delete" THEN "gone" ELSE "filled"
                 s == [shelf.collections EXCEPT ![q.id] = to]
      <4>1. shelf' = [shelf EXCEPT !.collections[q.id] = to]
        BY <1>11, <3>2 DEF ServeChange
      <4>2. to \in AlbumStates /\ to # "empty"
        BY DEF AlbumStates
      <4> HIDE DEF to
      <4>3. shelf' = [shelf EXCEPT !.collections = s]
        BY <4>1
      <4>4. /\ s \in Seq(AlbumStates) /\ Len(s) = Len(shelf.collections)
            /\ DOMAIN s = DOMAIN shelf.collections /\ s[q.id] = to
            /\ \A c \in DOMAIN shelf.collections : c # q.id => s[c] = shelf.collections[c]
        BY <1>f, <2>1, <4>2, RowPut
      <4> HIDE DEF s
      <4>5. shelf' \in Shelves /\ shelf'.collections = s /\ shelf'.tags = shelf.tags
        BY <1>f, <4>3, <4>4 DEF Shelves
      <4>6. shelf.tags <= shelf.tags /\ Len(shelf.collections) <= Len(shelf.collections)
        BY <1>0, <1>f
      <4>7. AlbumMoves
        BY <1>0, <2>1, <4>2, <4>4, <4>5, <4>6 DEF AlbumMoves
      <4> QED BY <4>2, <4>4, <4>5, <4>7
    <3> QED BY <2>1, <3>1, <3>2
  <2>4. AlbumRequest(q) /\ (q.op = "createAndAdd" => q.id \in 0..Len(shelf'.collections))
    BY <1>0, <2>3 DEF AlbumRequest
  <2> QED BY <1>r, <2>1, <2>2, <2>3, <2>4
<1>12. ASSUME NEW q \in reqs, ServeTags(q) PROVE AlbumInv'
  <2>1. CASE q.op \in {"tag", "frames"} /\ shelf' = shelf /\ \E state \in {"ok", "failed"} : Respond(q, state)
    <3>1. PICK state \in {"ok", "failed"} : RespondWith(q, state, q.id)
      BY <2>1 DEF Respond
    <3>2. album' = album
      BY <1>12 DEF ServeTags
    <3> QED BY <1>r, <1>u, <2>1, <3>1, <3>2
  <2>2. CASE q.op = "createTag" /\ shelf.tags < MaxCollections
             /\ shelf' = [shelf EXCEPT !.tags = @ + 1]
             /\ \E state \in {"ok", "failed"} : RespondWith(q, state, shelf'.tags)
    <3>1. PICK state \in {"ok", "failed"} : RespondWith(q, state, shelf'.tags)
      BY <2>2
    <3>2. album' = album
      BY <1>12 DEF ServeTags
    <3>3. /\ shelf' \in Shelves /\ shelf'.collections = shelf.collections
          /\ shelf'.tags = shelf.tags + 1
      BY <1>0, <1>f, <2>2 DEF Shelves
    <3>4. /\ shelf.tags <= shelf'.tags /\ 1..shelf.tags \subseteq 1..shelf'.tags
          /\ shelf'.tags \in 1..shelf'.tags /\ Len(shelf.collections) <= Len(shelf.collections)
      BY <1>0, <1>f, <3>3
    <3>5. album' \in Albums(shelf'.tags)
      BY <1>0, <3>2, <3>4 DEF Albums
    <3>6. AlbumMoves
      BY <1>0, <3>2, <3>3, <3>4, <3>5 DEF AlbumMoves
    <3> QED BY <1>r, <2>2, <3>1, <3>4, <3>6
  <2> QED BY <1>12, <2>1, <2>2 DEF ServeTags
<1>13. ASSUME NEW q \in reqs, RefuseAlbum(q) PROVE AlbumInv'
  <2>1. RespondWith(q, "failed", q.id) /\ album' = album /\ shelf' = shelf
    BY <1>13 DEF RefuseAlbum, Respond, albumVars
  <2>2. q.op = "createAndAdd" => q.id \in 0..Len(shelf.collections)
    BY <1>0 DEF AlbumRequest
  <2> QED BY <1>r, <1>u, <2>1, <2>2
<1>14. ASSUME NEW q \in reqs, AnswerFrames(q) PROVE AlbumInv'
  <2>1. q.op = "frames" /\ reqs' = reqs \ {q} /\ shelf' = shelf
    BY <1>14 DEF AnswerFrames, Settle
  <2>2. CASE ~q.here
    <3>1. album' = album
      BY <1>14, <2>2 DEF AnswerFrames
    <3> QED BY <1>u, <2>1, <3>1, AlbumKept
  <2>3. CASE q.here
    <3>1. AlbumRequest(q)
      BY <1>0
    <3>2. q.id = album.lastAsked /\ q.id \in DOMAIN shelf.collections /\ album.player = 0
      BY <2>1, <2>3, <3>1 DEF AlbumRequest
    <3>3. PICK player \in {0, q.id} : album' = [album EXCEPT !.player = player, !.loading = 0]
      <4> DEFINE filled == q.state = "ok" /\ shelf.collections[q.id] = "filled"
                 player == IF filled THEN q.id ELSE album.player
      <4>1. album' = [album EXCEPT !.player = player, !.loading = 0]
        BY <1>14, <2>3 DEF AnswerFrames, Loaded
      <4>2. player \in {0, q.id}
        BY <3>2
      <4> QED BY <4>1, <4>2
    <3>4. player \in 0..MaxCollections
      BY <1>0, <1>f, <3>2
    <3>5. /\ album' \in Albums(shelf.tags) /\ album'.shown = album.shown
          /\ album'.player = player /\ album'.lastAsked = album.lastAsked
      BY <1>0, <1>f, <3>3, <3>4 DEF Albums
    <3>6. \A r \in reqs' : ~(r.op = "frames" /\ r.here)
      BY <2>1, <2>3 DEF AlbumInv
    <3>7. \A r \in reqs' : AlbumRequest(r)'
      BY <1>0, <2>1, <3>6 DEF AlbumRequest
    <3>8. PlayerOfLastAsked'
      BY <3>2, <3>3, <3>5 DEF PlayerOfLastAsked
    <3> QED BY <1>0, <2>1, <3>5, <3>6, <3>7, <3>8 DEF AlbumInv, Albums, Shelves
  <2> QED BY <2>2, <2>3
<1>15. ASSUME NEW q \in reqs, AnswerAlbum(q) PROVE AlbumInv'
  <2>1. reqs' \subseteq reqs /\ shelf' = shelf /\ q.state # "sent"
    BY <1>15 DEF AnswerAlbum, Settle
  <2>2. CASE album' = album
    BY <1>u, <2>1, <2>2, AlbumKept
  <2>3. CASE album' = [album EXCEPT !.dialog = "none"]
    <3>1. album' = [album EXCEPT !.dialog = "none", !.editing = album.editing, !.picked = album.picked]
      BY <1>g, <2>3
    <3> QED BY <1>d, <1>f, <2>1, <3>1
  <2>4. CASE album' = [album EXCEPT !.dialog = "none", !.picked = {}]
    <3>1. album' = [album EXCEPT !.dialog = "none", !.editing = album.editing, !.picked = {}]
      BY <1>g, <2>4
    <3> QED BY <1>d, <1>f, <1>g, <2>1, <3>1
  <2>5. CASE /\ album' = [album EXCEPT !.picked = @ \cup {q.id}] /\ q.op = "createTag"
             /\ q.state = "ok"
    <3>1. q.id \in 1..shelf.tags
      BY <1>0, <2>5 DEF AlbumRequest
    <3> DEFINE picked == album.picked \cup {q.id}
    <3>2. picked \in SUBSET (1..shelf.tags) /\ album' = [album EXCEPT !.picked = picked]
      BY <1>f, <2>5, <3>1
    <3> HIDE DEF picked
    <3>3. album' = [album EXCEPT !.dialog = album.dialog, !.editing = album.editing, !.picked = picked]
      BY <1>g, <3>2
    <3> QED BY <1>d, <1>f, <1>g, <2>1, <3>2, <3>3
  <2>6. CASE album' = [album EXCEPT !.editing = 0]
    <3>1. album' = [album EXCEPT !.dialog = album.dialog, !.editing = 0, !.picked = album.picked]
      BY <1>g, <2>6
    <3> QED BY <1>d, <1>f, <1>g, <2>1, <3>1
  <2>7. q.state \in {"sent", "ok", "failed"}
    BY <1>0 DEF IsRequest
  <2>8. CASE q.state = "failed" \/ ~q.here
    BY <1>15, <2>2, <2>8 DEF AnswerAlbum
  <2>9. CASE q.state = "ok" /\ q.here
    BY <1>15, <2>2, <2>3, <2>4, <2>5, <2>6, <2>9 DEF AnswerAlbum
  <2> QED BY <2>1, <2>7, <2>8, <2>9
<1> QED BY <1>1, <1>2, <1>3, <1>4, <1>5, <1>6, <1>7, <1>8, <1>9, <1>10, <1>11, <1>12, <1>13,
           <1>14, <1>15 DEF AlbumNext, AlbumUser, AlbumServer

LEMMA AlbumShows == ASSUME AlbumInv PROVE AlbumTypeOK /\ PlayerOfLastAsked /\ AddedMeansAdded
BY DEF AlbumInv, AlbumRequest, AlbumTypeOK, AlbumStates, AddedMeansAdded

-----------------------------------------------------------------------------
(* The fetch tab. *)

Choices ==
    {c \in [open : BOOLEAN, step : 0..2, satellite : {"", "GOES-19", "Himawari-9"},
            sector : {"CONUS", "FLDK"}, band : {"B13", "C02"},
            image : {"single", "true_color"}] :
        /\ c.band \in bandsOf(c.satellite)
        /\ ~isHimawariSatellite(c.satellite) => c.sector \in productSectors}
FetchRequest(q) ==
    /\ IsRequest(q) /\ q.op \in {"fetch", "quick", "runPreset", "sample"}
    /\ q.op = "fetch" => q.val \in Choices /\ (q.state = "ok" => wizard.accepted)
    /\ q.op = "quick" => /\ q.id \in 0..ChipPosts /\ (q.state = "ok" => q.id = ChipPosts)
                         /\ q.state = "sent" => q.id < ChipPosts

WizardInv ==
    /\ wizard \in [choice : Choices, confirm : BOOLEAN, quick : {"none", "quick", "runPreset"},
                   stored : Choices, accepted : BOOLEAN]
    /\ ReloadRestoresWork
    /\ \A q \in reqs : FetchRequest(q)

LEMMA NoChoiceIs == NoChoice \in Choices /\ ~NoChoice.open
<1>1. /\ NoChoice \in [open : BOOLEAN, step : 0..2, satellite : {"", "GOES-19", "Himawari-9"},
                       sector : {"CONUS", "FLDK"}, band : {"B13", "C02"},
                       image : {"single", "true_color"}]
      /\ NoChoice.satellite = "" /\ NoChoice.band = "C02" /\ NoChoice.sector = "CONUS"
      /\ ~NoChoice.open
  BY DEF NoChoice, FreshChoice
<1>2. "C02" \in bandsOf("") /\ "CONUS" \in productSectors
  BY DEF bandsOf, isHimawariSatellite, productSectors
<1> QED BY <1>1, <1>2 DEF Choices

LEMMA WizardInitially == ASSUME WizardInit, reqs = {} PROVE WizardInv
BY NoChoiceIs DEF WizardInit, WizardInv, ReloadRestoresWork

Wizards == [choice : Choices, confirm : BOOLEAN, quick : {"none", "quick", "runPreset"},
            stored : Choices, accepted : BOOLEAN]

\* A change is stored at once; the same choice again changes nothing.
LEMMA Chosen ==
    ASSUME wizard \in Wizards, ReloadRestoresWork, NEW choice \in Choices, Choose(choice)
    PROVE  wizard' \in Wizards /\ ReloadRestoresWork' /\ wizard'.accepted = wizard.accepted
<1>1. CASE Persists(wizard.choice, choice)
  <2>1. PICK stored \in Choices :
          /\ stored = IF choice.open THEN choice ELSE NoChoice
          /\ wizard' = [wizard EXCEPT !.choice = choice, !.stored = stored]
    BY <1>1, NoChoiceIs DEF Choose
  <2>2. /\ wizard' \in Wizards /\ wizard'.choice = choice /\ wizard'.stored = stored
        /\ wizard'.accepted = wizard.accepted
    BY <2>1 DEF Wizards
  <2> QED BY <2>1, <2>2, NoChoiceIs DEF ReloadRestoresWork
<1>2. CASE ~Persists(wizard.choice, choice)
  <2>1. wizard.choice = choice
    BY <1>2 DEF Persists
  <2>2. wizard' = [wizard EXCEPT !.choice = choice]
    BY <1>2 DEF Choose
  <2>3. wizard' \in Wizards /\ wizard'.choice = wizard.choice /\ wizard'.stored = wizard.stored
        /\ wizard'.accepted = wizard.accepted
    BY <2>1, <2>2 DEF Wizards
  <2> QED BY <2>3 DEF ReloadRestoresWork
<1> QED BY <1>1, <1>2

\* The steps of the wizard, each of which chooses what fits.
LEMMA StepsChoose ==
    ASSUME wizard \in Wizards,
           ProductsDefault \/ ToggleAdvanced \/ GoToStep \/ SatelliteStep \/ WhatStep
    PROVE  (\E choice \in Choices : Choose(choice)) /\ reqs' = reqs
<1> DEFINE Fields == [open : BOOLEAN, step : 0..2, satellite : {"", "GOES-19", "Himawari-9"},
                      sector : {"CONUS", "FLDK"}, band : {"B13", "C02"},
                      image : {"single", "true_color"}]
           Fits2(d) == /\ d.band \in bandsOf(d.satellite)
                       /\ ~isHimawariSatellite(d.satellite) => d.sector \in productSectors
           c == wizard.choice
<1>0. c \in Fields /\ c.band \in bandsOf(c.satellite)
      /\ (~isHimawariSatellite(c.satellite) => c.sector \in productSectors)
  BY DEF Wizards, Choices
<1> HIDE DEF c
<1>c. \A d \in Fields : Fits2(d) => d \in Choices
  BY DEF Choices
<1>1. CASE ProductsDefault
  <2>1. c.satellite = "" /\ Choose([c EXCEPT !.satellite = "GOES-19"]) /\ reqs' = reqs
    BY <1>1 DEF ProductsDefault, reqVars, c
  <2> DEFINE d == [c EXCEPT !.satellite = "GOES-19"]
  <2>2. d \in Fields /\ d.satellite = "GOES-19" /\ d.band = c.band /\ d.sector = c.sector
    BY <1>0
  <2>3. Fits2(d)
    BY <1>0, <2>1, <2>2 DEF bandsOf, isHimawariSatellite
  <2> QED BY <1>c, <2>1, <2>2, <2>3
<1>2. CASE ToggleAdvanced
  <2> DEFINE d == [c EXCEPT !.open = ~@]
  <2>1. Choose(d) /\ reqs' = reqs
    BY <1>2 DEF ToggleAdvanced, reqVars, c
  <2>2. d \in Fields /\ d.satellite = c.satellite /\ d.band = c.band
          /\ d.sector = c.sector
    BY <1>0
  <2> QED BY <1>0, <1>c, <2>1, <2>2
<1>3. CASE GoToStep
  <2>1. PICK step \in 0..2 : Choose([c EXCEPT !.step = step]) /\ reqs' = reqs
    BY <1>3 DEF GoToStep, reqVars, c
  <2> DEFINE d == [c EXCEPT !.step = step]
  <2>2. d \in Fields /\ d.satellite = c.satellite /\ d.band = c.band
          /\ d.sector = c.sector
    BY <1>0
  <2> QED BY <1>0, <1>c, <2>1, <2>2
<1>4. CASE SatelliteStep
  <2>1. PICK s \in {"GOES-19", "Himawari-9"} : Choose(handleWizardSatellite(c, s)) /\ reqs' = reqs
    BY <1>4 DEF SatelliteStep, reqVars, c
  <2> DEFINE band == IF isHimawariSatellite(s) THEN "B13" ELSE "C02"
             sector == IF isHimawariSatellite(s) THEN "FLDK" ELSE "CONUS"
             d == [c EXCEPT !.satellite = s, !.sector = sector, !.band = band]
  <2>2. /\ band \in {"B13", "C02"} /\ band \in bandsOf(s)
        /\ sector \in {"CONUS", "FLDK"}
        /\ ~isHimawariSatellite(s) => sector \in productSectors
    BY DEF bandsOf, productSectors
  <2> HIDE DEF band, sector
  <2>3. d \in Fields /\ d.satellite = s /\ d.band = band /\ d.sector = sector
    BY <1>0, <2>2
  <2>4. Choose(d)
    BY <2>1 DEF handleWizardSatellite, band, sector
  <2> QED BY <1>c, <2>1, <2>2, <2>3, <2>4
<1>5. CASE WhatStep
  <2>1. ASSUME NEW image \in {"single", "true_color"}, Choose([c EXCEPT !.image = image])
        PROVE  \E choice \in Choices : Choose(choice)
    <3> DEFINE d == [c EXCEPT !.image = image]
    <3>1. d \in Fields /\ d.satellite = c.satellite /\ d.band = c.band
          /\ d.sector = c.sector
      BY <1>0
    <3> QED BY <1>0, <1>c, <2>1, <3>1
  <2>2. ASSUME NEW b \in bandsOf(c.satellite), Choose([c EXCEPT !.band = b])
        PROVE  \E choice \in Choices : Choose(choice)
    <3> DEFINE d == [c EXCEPT !.band = b]
    <3>1. b \in {"B13", "C02"}
      BY DEF bandsOf
    <3>2. d \in Fields /\ d.satellite = c.satellite /\ d.band = b /\ d.sector = c.sector
      BY <1>0, <3>1
    <3> QED BY <1>0, <1>c, <2>2, <3>2
  <2>3. ASSUME NEW s \in productSectors, Choose([c EXCEPT !.sector = s])
        PROVE  \E choice \in Choices : Choose(choice)
    <3> DEFINE d == [c EXCEPT !.sector = s]
    <3>1. s \in {"CONUS", "FLDK"}
      BY DEF productSectors
    <3>2. d \in Fields /\ d.satellite = c.satellite /\ d.band = c.band /\ d.sector = s
      BY <1>0, <3>1
    <3> QED BY <1>0, <1>c, <2>3, <3>2
  <2> QED BY <1>5, <2>1, <2>2, <2>3 DEF WhatStep, reqVars, c
<1> QED BY <1>1, <1>2, <1>3, <1>4, <1>5

\* A restored wizard starts from what is stored: a choice that is open, or none.
LEMMA RestoredIs ==
    ASSUME wizard \in Wizards, ReloadRestoresWork, NEW accepted \in BOOLEAN,
           wizard' = [Restored EXCEPT !.accepted = accepted]
    PROVE  wizard' \in Wizards /\ ReloadRestoresWork' /\ wizard'.accepted = accepted
<1>1. /\ wizard' \in Wizards /\ wizard'.choice = wizard.stored /\ wizard'.stored = wizard.stored
      /\ wizard'.accepted = accepted
  BY DEF Wizards, Restored
<1> QED BY <1>1, NoChoiceIs DEF ReloadRestoresWork

LEMMA WizardStep == ASSUME WizardInv, WizardNext PROVE WizardInv'
<1>0. wizard \in Wizards /\ ReloadRestoresWork /\ (\A q \in reqs : FetchRequest(q) /\ IsRequest(q))
  BY DEF WizardInv, Wizards, FetchRequest
<1>i. ASSUME wizard' \in Wizards, ReloadRestoresWork', \A r \in reqs' : FetchRequest(r)'
      PROVE WizardInv'
  BY <1>i DEF WizardInv, Wizards
<1>m. ASSUME NEW r, FetchRequest(r), wizard.accepted => wizard'.accepted PROVE FetchRequest(r)'
  BY <1>m DEF FetchRequest
<1>k. ASSUME NEW confirm \in BOOLEAN, NEW quick \in {"none", "quick", "runPreset"},
             wizard' = [wizard EXCEPT !.confirm = confirm, !.quick = quick]
      PROVE  wizard' \in Wizards /\ ReloadRestoresWork' /\ wizard'.accepted = wizard.accepted
  <2>1. wizard' \in Wizards /\ wizard'.choice = wizard.choice /\ wizard'.stored = wizard.stored
        /\ wizard'.accepted = wizard.accepted
    BY <1>0, <1>k DEF Wizards
  <2> QED BY <1>0, <2>1 DEF ReloadRestoresWork
<1>f. /\ wizard.confirm \in BOOLEAN /\ wizard.quick \in {"none", "quick", "runPreset"}
      /\ wizard.choice \in Choices /\ NoChoice \in Choices /\ wizard.accepted \in BOOLEAN
  BY <1>0, NoChoiceIs DEF Wizards
<1>s. ASSUME NEW op \in {"fetch", "quick", "runPreset", "sample"}, NEW val \in Choices,
             Send(op, 0, val)
      PROVE  \A r \in reqs' : FetchRequest(r)
  <2>1. PICK r : /\ reqs' = reqs \cup {r} /\ IsRequest(r)
                 /\ r.op = op /\ r.id = 0 /\ r.val = val /\ r.state = "sent"
    BY <1>s, Sent
  <2>2. FetchRequest(r)
    BY <2>1 DEF FetchRequest, ChipPosts
  <2> QED BY <1>0, <2>1, <2>2
<1>u. ASSUME wizard' = wizard PROVE wizard' \in Wizards /\ ReloadRestoresWork'
  BY <1>0, <1>u DEF ReloadRestoresWork
<1>1. CASE ProductsDefault \/ ToggleAdvanced \/ GoToStep \/ SatelliteStep \/ WhatStep
  <2>1. PICK choice \in Choices : Choose(choice)
    BY <1>0, <1>1, StepsChoose
  <2>2. reqs' = reqs
    BY <1>0, <1>1, StepsChoose
  <2>3. wizard' \in Wizards /\ ReloadRestoresWork' /\ wizard'.accepted = wizard.accepted
    BY <1>0, <2>1, Chosen
  <2> QED BY <1>0, <1>i, <1>m, <2>2, <2>3
<1>2. CASE WhenStep
  <2>1. wizard' = [wizard EXCEPT !.confirm = TRUE] /\ reqs' = reqs
    BY <1>2 DEF WhenStep, reqVars
  <2>2. wizard' = [wizard EXCEPT !.confirm = TRUE, !.quick = wizard.quick]
    BY <1>0, <2>1 DEF Wizards
  <2>3. wizard' \in Wizards /\ ReloadRestoresWork' /\ wizard'.accepted = wizard.accepted
    BY <1>f, <1>k, <2>2
  <2> QED BY <1>0, <1>i, <1>m, <2>1, <2>3
<1>3. CASE ConfirmDialog
  <2>1. CASE wizard' = [wizard EXCEPT !.confirm = FALSE] /\ UNCHANGED reqVars
    <3>1. wizard' = [wizard EXCEPT !.confirm = FALSE, !.quick = wizard.quick] /\ reqs' = reqs
      BY <1>0, <2>1 DEF Wizards, reqVars
    <3>2. wizard' \in Wizards /\ ReloadRestoresWork' /\ wizard'.accepted = wizard.accepted
      BY <1>f, <1>k, <3>1
    <3> QED BY <1>0, <1>i, <1>m, <3>1, <3>2
  <2>2. CASE Send("fetch", 0, wizard.choice) /\ wizard' = wizard
    <3>1. \A r \in reqs' : FetchRequest(r)
      BY <1>f, <1>s, <2>2
    <3> QED BY <1>i, <1>m, <1>u, <2>2, <3>1
  <2> QED BY <1>3, <2>1, <2>2 DEF ConfirmDialog
<1>4. CASE QuickFetch
  <2>1. PICK chip \in {"quick", "runPreset"} :
          Send(chip, 0, NoChoice) /\ wizard' = [wizard EXCEPT !.quick = chip]
    BY <1>4 DEF QuickFetch
  <2>2. wizard' = [wizard EXCEPT !.confirm = wizard.confirm, !.quick = chip]
    BY <1>0, <2>1 DEF Wizards
  <2>3. wizard' \in Wizards /\ ReloadRestoresWork' /\ wizard'.accepted = wizard.accepted
    BY <1>f, <1>k, <2>2
  <2>4. \A r \in reqs' : FetchRequest(r)
    BY <1>f, <1>s, <2>1
  <2> QED BY <1>i, <1>m, <2>3, <2>4
<1>5. CASE fetchSample
  <2>1. Send("sample", 0, NoChoice) /\ wizard' = wizard
    BY <1>5 DEF fetchSample
  <2>2. \A r \in reqs' : FetchRequest(r)
    BY <1>f, <1>s, <2>1
  <2> QED BY <1>i, <1>m, <1>u, <2>1, <2>2
<1>6. CASE LeaveFetch
  <2>1. Unmount /\ wizard' = Restored
    BY <1>6 DEF LeaveFetch
  <2>2. \A r \in reqs' : FetchRequest(r)
    <3>1. \A r \in reqs' : \E q \in reqs : /\ IsRequest(r) /\ r.op = q.op /\ r.id = q.id
                                          /\ r.val = q.val /\ r.state = q.state
      BY <1>0, <2>1, Unmounted
    <3> QED BY <1>0, <3>1 DEF FetchRequest
  <2>3. wizard' = [Restored EXCEPT !.accepted = wizard.accepted]
    BY <1>0, <2>1 DEF Restored, Wizards
  <2>4. wizard' \in Wizards /\ ReloadRestoresWork' /\ wizard'.accepted = wizard.accepted
    BY <1>0, <1>f, <2>3, RestoredIs
  <2> QED BY <1>i, <1>m, <2>2, <2>4
<1>7. CASE ReloadFetch
  <2>1. reqs' = {} /\ wizard' = [Restored EXCEPT !.accepted = FALSE]
    BY <1>7 DEF ReloadFetch
  <2> QED BY <1>0, <1>i, <2>1, RestoredIs
<1>a. ASSUME NEW q \in reqs, NEW state \in {"sent", "ok", "failed"}, NEW id,
             RespondWith(q, state, id), wizard.accepted => wizard'.accepted,
             q.op = "fetch" => (state = "ok" => wizard'.accepted),
             q.op = "quick" => /\ id \in 0..ChipPosts /\ (state = "ok" => id = ChipPosts)
                               /\ state = "sent" => id < ChipPosts
      PROVE  \A r \in reqs' : FetchRequest(r)'
  <2>1. PICK r : /\ reqs' = (reqs \ {q}) \cup {r} /\ IsRequest(r)
                 /\ r.op = q.op /\ r.id = id /\ r.val = q.val /\ r.state = state
    BY <1>0, <1>a, Answered
  <2>2. FetchRequest(q)
    BY <1>0
  <2>3. FetchRequest(r)'
    BY <1>a, <2>1, <2>2 DEF FetchRequest
  <2> QED BY <1>0, <1>a, <1>m, <2>1, <2>3
<1>8. ASSUME NEW q \in reqs, ServeFetch(q) PROVE WizardInv'
  <2>1. q.op # "quick"
    BY <1>8 DEF ServeFetch
  <2>2. ASSUME NEW state \in {"ok", "failed"}, RespondWith(q, state, q.id), wizard' = wizard,
               q.op = "fetch" => state = "failed"
        PROVE  WizardInv'
    BY <1>a, <1>i, <1>u, <2>1, <2>2
  <2>3. CASE q.op = "fetch" /\ RespondWith(q, "ok", q.id) /\ wizard' = [wizard EXCEPT !.accepted = TRUE]
    <3>1. wizard' \in Wizards /\ wizard'.choice = wizard.choice /\ wizard'.stored = wizard.stored
          /\ wizard'.accepted = TRUE
      BY <1>0, <2>3 DEF Wizards
    <3>2. ReloadRestoresWork'
      BY <1>0, <3>1 DEF ReloadRestoresWork
    <3>3. \A r \in reqs' : FetchRequest(r)'
      BY <1>a, <2>1, <2>3, <3>1
    <3> QED BY <1>i, <3>1, <3>2, <3>3
  <2> QED BY <1>8, <2>2, <2>3 DEF ServeFetch, Respond
<1>9. ASSUME NEW q \in reqs, ServeQuick(q) PROVE WizardInv'
  <2>1. PICK accepted \in BOOLEAN :
          RespondWith(q, AfterQuickPost(q, accepted), IF accepted THEN q.id + 1 ELSE q.id)
    BY <1>9 DEF ServeQuick
  <2> DEFINE state == AfterQuickPost(q, accepted)
             id == IF accepted THEN q.id + 1 ELSE q.id
  <2>2. q.op = "quick" /\ wizard' = wizard /\ q.state = "sent"
    BY <1>9 DEF ServeQuick, RespondWith
  <2>3. q.id \in 0..ChipPosts /\ q.id < ChipPosts
    BY <1>0, <2>2 DEF FetchRequest
  <2>4. state \in {"sent", "ok", "failed"}
    BY DEF AfterQuickPost
  <2>5. /\ id \in 0..ChipPosts /\ (state = "ok" => id = ChipPosts)
        /\ state = "sent" => id < ChipPosts
    BY <2>3 DEF AfterQuickPost, ChipPosts
  <2> HIDE DEF state, id
  <2>6. \A r \in reqs' : FetchRequest(r)'
    <3>1. RespondWith(q, state, id)
      BY <2>1 DEF state, id
    <3> QED BY <1>a, <2>2, <2>4, <2>5, <3>1
  <2> QED BY <1>i, <1>u, <2>2, <2>6
<1>10. ASSUME NEW q \in reqs, AnswerFetch(q) PROVE WizardInv'
  <2>1. \A r \in reqs' : FetchRequest(r)
    BY <1>0, <1>10 DEF AnswerFetch, Settle
  <2>2. /\ q.here \in BOOLEAN /\ q.op \in {"fetch", "quick", "runPreset", "sample"}
        /\ q.op = "fetch" => (q.state = "ok" => wizard.accepted)
    BY <1>0 DEF FetchRequest, IsRequest
  <2>3. wizard' \in Wizards /\ ReloadRestoresWork' /\ wizard'.accepted = wizard.accepted
    <3>1. CASE q.op = "fetch"
      <4> DEFINE closed == [wizard EXCEPT !.confirm = @ /\ ~q.here]
      <4>1. /\ closed \in Wizards /\ closed.choice = wizard.choice /\ closed.stored = wizard.stored
            /\ closed.accepted = wizard.accepted
        BY <1>0, <1>f, <2>2 DEF Wizards
      <4>2. wizard' = IF q.state = "ok" THEN [closed EXCEPT !.stored = NoChoice] ELSE closed
        BY <1>10, <3>1 DEF AnswerFetch
      <4> HIDE DEF closed
      <4>3. CASE q.state = "ok"
        <5>1. wizard' \in Wizards /\ wizard'.stored = NoChoice /\ wizard'.accepted = wizard.accepted
          BY <1>f, <4>1, <4>2, <4>3 DEF Wizards
        <5> QED BY <2>2, <3>1, <4>3, <5>1 DEF ReloadRestoresWork
      <4>4. CASE q.state # "ok"
        <5>1. wizard' = closed
          BY <4>2, <4>4
        <5> QED BY <1>0, <4>1, <5>1 DEF ReloadRestoresWork
      <4> QED BY <4>3, <4>4
    <3>2. CASE q.op \in {"quick", "runPreset"} /\ q.here
      <4>1. wizard' = [wizard EXCEPT !.quick = "none"]
        BY <1>10, <3>2 DEF AnswerFetch, ReleasesChip
      <4>2. wizard' = [wizard EXCEPT !.confirm = wizard.confirm, !.quick = "none"]
        BY <1>0, <4>1 DEF Wizards
      <4> QED BY <1>f, <1>k, <4>2
    <3>3. CASE q.op = "sample" \/ (q.op \in {"quick", "runPreset"} /\ ~q.here)
      <4>1. wizard' = wizard
        BY <1>10, <3>3 DEF AnswerFetch
      <4> QED BY <1>u, <4>1
    <3> QED BY <2>2, <3>1, <3>2, <3>3
  <2> QED BY <1>i, <1>m, <2>1, <2>3
<1> QED BY <1>1, <1>2, <1>3, <1>4, <1>5, <1>6, <1>7, <1>8, <1>9, <1>10
        DEF WizardNext, WizardUser, WizardServer

LEMMA WizardShows ==
    ASSUME WizardInv
    PROVE  WizardTypeOK /\ ReloadRestoresWork /\ WizardServable /\ QuickFetchComplete
<1>1. wizard \in Wizards /\ wizard.choice \in Choices
  BY DEF WizardInv, Wizards
<1>2. WizardTypeOK
  BY <1>1 DEF Wizards, Choices, WizardTypeOK, productSectors
<1>3. \A q \in reqs : q.op = "fetch" => q.val \in Choices
  BY DEF WizardInv, FetchRequest
<1>4. QuickFetchComplete
  BY DEF WizardInv, FetchRequest, QuickFetchComplete
<1>5. WizardServable
  BY <1>3 DEF WizardServable, Choices, Served
<1> QED BY <1>2, <1>4, <1>5 DEF WizardInv

-----------------------------------------------------------------------------
(* The pages. *)

DataPagesInv ==
    /\ focus \in {"cleanup", "presets", "gaps", "composites", "collections", "fetch"}
    /\ IF focus = "cleanup" THEN CleanupInv ELSE CleanupInit
    /\ IF focus = "presets" THEN PresetsInv ELSE PresetsInit
    /\ IF focus = "gaps" THEN GapsInv ELSE GapsInit
    /\ IF focus = "composites" THEN MakerInv ELSE MakerInit
    /\ IF focus = "collections" THEN AlbumInv ELSE AlbumInit
    /\ IF focus = "fetch" THEN WizardInv ELSE WizardInit

\* A page that is not used is as it was, and what it promises holds of it.
LEMMA UnusedHarmless ==
    /\ CleanupInit => CleanupTypeOK /\ SwitchTakesEffect
    /\ PresetsInit => PresetsTypeOK /\ PresetsServable /\ SchedulesHavePresets
    /\ GapsInit => GapsTypeOK
    /\ MakerInit => MakerTypeOK /\ CompositesServable
    /\ AlbumInit => AlbumTypeOK /\ PlayerOfLastAsked
    /\ WizardInit => WizardTypeOK /\ ReloadRestoresWork
<1>1. CleanupInit => CleanupTypeOK /\ SwitchTakesEffect
  BY CleanupFresh DEF CleanupTypeOK, RulePanels, RuleStates
<1>2. PresetsInit => PresetsTypeOK /\ PresetsServable /\ SchedulesHavePresets
  BY PresetsFresh, PresetsShow
<1>3. GapsInit => GapsTypeOK
  BY DEF GapsInit, GapsTypeOK
<1>4. MakerInit => MakerTypeOK /\ CompositesServable
  BY CompositesAssumption DEF MakerInit, MakerTypeOK, CompositesServable
<1>5. AlbumInit => AlbumTypeOK /\ PlayerOfLastAsked
  <2>1. <<"filled">> \in Seq({"empty", "filled", "gone"}) /\ 0 \in 0..MaxCollections
    BY CollectionsAssumption
  <2> QED BY <2>1 DEF AlbumInit, AlbumTypeOK, PlayerOfLastAsked
<1>6. WizardInit => WizardTypeOK /\ ReloadRestoresWork
  <2>1. /\ NoChoice.step \in 0..2 /\ NoChoice.satellite \in {"", "GOES-19", "Himawari-9"}
        /\ NoChoice.sector \in productSectors \cup {"FLDK"} /\ ~NoChoice.open
    BY NoChoiceIs DEF Choices, productSectors
  <2>2. ASSUME WizardInit
        PROVE  /\ wizard.choice = NoChoice /\ wizard.stored = NoChoice /\ ~wizard.confirm
               /\ ~wizard.accepted /\ wizard.quick = "none"
               /\ wizard.confirm \in BOOLEAN /\ wizard.accepted \in BOOLEAN
    BY <2>2 DEF WizardInit
  <2>3. WizardInit => WizardTypeOK
    BY <2>1, <2>2 DEF WizardTypeOK
  <2>4. WizardInit => ReloadRestoresWork
    BY <2>1, <2>2 DEF ReloadRestoresWork
  <2> QED BY <2>3, <2>4
<1> QED BY <1>1, <1>2, <1>3, <1>4, <1>5, <1>6

\* The requests are those of the page that is used.
LEMMA RequestsOfUsed ==
    ASSUME DataPagesInv, NEW q \in reqs
    PROVE  /\ q.op \in {"add", "createAndAdd"} => focus = "collections"
           /\ q.op = "backfill" => focus = "gaps"
           /\ q.op \in {"fetch", "quick"} => focus = "fetch"
<1>1. CASE focus = "cleanup"
  BY <1>1 DEF DataPagesInv, CleanupInv, RuleRequest
<1>2. CASE focus = "presets"
  BY <1>2 DEF DataPagesInv, PresetsInv, PresetRequest
<1>3. CASE focus = "gaps"
  BY <1>3 DEF DataPagesInv, GapsInv
<1>4. CASE focus = "composites"
  BY <1>4 DEF DataPagesInv, MakerInv
<1>5. CASE focus = "collections"
  BY <1>5 DEF DataPagesInv, AlbumInv, AlbumRequest
<1>6. CASE focus = "fetch"
  BY <1>6 DEF DataPagesInv, WizardInv, FetchRequest
<1> QED BY <1>1, <1>2, <1>3, <1>4, <1>5, <1>6 DEF DataPagesInv

LEMMA DataPagesShow ==
    ASSUME DataPagesInv
    PROVE  /\ DataPagesTypeOK /\ RequestsServable /\ ReportsAreTrue /\ LateAnswersDoNoHarm
           /\ ReloadRestoresWork
<1>1. CleanupTypeOK /\ SwitchTakesEffect
  BY UnusedHarmless, CleanupShows DEF DataPagesInv
<1>2. PresetsTypeOK /\ PresetsServable /\ SchedulesHavePresets
  <2>1. PresetsInv => IsSaved(saved) /\ presets \in PresetForms /\ SchedulesHavePresets
    BY DEF PresetsInv, PresetForms
  <2> QED BY <2>1, UnusedHarmless, PresetsShow DEF DataPagesInv
<1>3. GapsTypeOK /\ BackfillAfterDetection
  <2>1. CASE focus = "gaps"
    BY <2>1, GapsShow DEF DataPagesInv
  <2>2. CASE focus # "gaps"
    BY <2>2, UnusedHarmless, RequestsOfUsed DEF DataPagesInv, BackfillAfterDetection
  <2> QED BY <2>1, <2>2
<1>4. MakerTypeOK /\ CompositesServable
  BY UnusedHarmless, MakerShows DEF DataPagesInv
<1>5. AlbumTypeOK /\ PlayerOfLastAsked /\ AddedMeansAdded
  <2>1. CASE focus = "collections"
    BY <2>1, AlbumShows DEF DataPagesInv
  <2>2. CASE focus # "collections"
    BY <2>2, UnusedHarmless, RequestsOfUsed DEF DataPagesInv, AddedMeansAdded
  <2> QED BY <2>1, <2>2
<1>6. WizardTypeOK /\ ReloadRestoresWork /\ WizardServable /\ QuickFetchComplete
  <2>1. CASE focus = "fetch"
    BY <2>1, WizardShows DEF DataPagesInv
  <2>2. CASE focus # "fetch"
    BY <2>2, UnusedHarmless, RequestsOfUsed DEF DataPagesInv, WizardServable, QuickFetchComplete
  <2> QED BY <2>1, <2>2
<1> QED BY <1>1, <1>2, <1>3, <1>4, <1>5, <1>6
        DEF DataPagesTypeOK, RequestsServable, ReportsAreTrue, LateAnswersDoNoHarm

LEMMA DataPagesInit == Init => DataPagesInv
<1> SUFFICES ASSUME Init PROVE DataPagesInv
  OBVIOUS
<1>1. reqs = {} /\ left = FALSE
  BY DEF Init, RequestsInit
<1>2. CleanupInv /\ PresetsInv /\ GapsInv /\ MakerInv /\ AlbumInv /\ WizardInv
  BY <1>1, CleanupInitially, PresetsInitially, GapsInitially, MakerInitially, AlbumInitially,
     WizardInitially DEF Init
<1> QED BY <1>1, <1>2 DEF Init, DataPagesInv

\* A page that is not used stays as it is.
LEMMA UnusedStays ==
    /\ CleanupInit /\ UNCHANGED cleanupVars => CleanupInit'
    /\ PresetsInit /\ UNCHANGED presetVars => PresetsInit'
    /\ GapsInit /\ UNCHANGED gapVars => GapsInit'
    /\ MakerInit /\ UNCHANGED makerVars => MakerInit'
    /\ AlbumInit /\ UNCHANGED albumVars => AlbumInit'
    /\ WizardInit /\ UNCHANGED wizard => WizardInit'
<1>1. CleanupInit /\ UNCHANGED cleanupVars => CleanupInit'
  BY DEF CleanupInit, cleanupVars
<1>2. PresetsInit /\ UNCHANGED presetVars => PresetsInit'
  BY DEF PresetsInit, presetVars
<1>3. GapsInit /\ UNCHANGED gapVars => GapsInit'
  BY DEF GapsInit, gapVars
<1>4. MakerInit /\ UNCHANGED makerVars => MakerInit'
  BY DEF MakerInit, makerVars
<1>5. AlbumInit /\ UNCHANGED albumVars => AlbumInit'
  BY DEF AlbumInit, albumVars
<1>6. WizardInit /\ UNCHANGED wizard => WizardInit'
  BY DEF WizardInit
<1> QED BY <1>1, <1>2, <1>3, <1>4, <1>5, <1>6

\* So does the used one while nothing happens.
LEMMA UsedStays ==
    /\ CleanupInv /\ UNCHANGED <<reqVars, cleanupVars>> => CleanupInv'
    /\ PresetsInv /\ UNCHANGED <<reqVars, presetVars>> => PresetsInv'
    /\ GapsInv /\ UNCHANGED <<reqVars, gapVars>> => GapsInv'
    /\ MakerInv /\ UNCHANGED <<reqVars, makerVars>> => MakerInv'
    /\ AlbumInv /\ UNCHANGED <<reqVars, albumVars>> => AlbumInv'
    /\ WizardInv /\ UNCHANGED <<reqVars, wizard>> => WizardInv'
<1>1. CleanupInv /\ UNCHANGED <<reqVars, cleanupVars>> => CleanupInv'
  BY DEF CleanupInv, SwitchInv, RuleRequest, SwitchTakesEffect, reqVars, cleanupVars
<1>2. PresetsInv /\ UNCHANGED <<reqVars, presetVars>> => PresetsInv'
  BY DEF PresetsInv, SchedulesHavePresets, Kept, reqVars, presetVars
<1>3. GapsInv /\ UNCHANGED <<reqVars, gapVars>> => GapsInv'
  BY DEF GapsInv, BackfillAfterDetection, reqVars, gapVars
<1>4. MakerInv /\ UNCHANGED <<reqVars, makerVars>> => MakerInv'
  BY DEF MakerInv, reqVars, makerVars
<1>5. AlbumInv /\ UNCHANGED <<reqVars, albumVars>> => AlbumInv'
  BY DEF AlbumInv, AlbumRequest, PlayerOfLastAsked, reqVars, albumVars
<1>6. WizardInv /\ UNCHANGED <<reqVars, wizard>> => WizardInv'
  BY DEF WizardInv, ReloadRestoresWork, FetchRequest, reqVars
<1> QED BY <1>1, <1>2, <1>3, <1>4, <1>5, <1>6

LEMMA DataPagesStep == ASSUME DataPagesInv, [Next]_vars PROVE DataPagesInv'
<1>1. CASE UNCHANGED vars
  <2>1. UNCHANGED <<focus, reqVars, cleanupVars, presetVars, gapVars, makerVars, albumVars, wizard>>
    BY <1>1 DEF vars
  <2> QED BY <2>1, UsedStays, UnusedStays DEF DataPagesInv
<1>2. CASE Next
  <2>0. focus' = focus
    BY <1>2 DEF Next
  <2>1. CASE focus = "cleanup"
    <3>1. CleanupNext /\ UNCHANGED <<presetVars, gapVars, makerVars, albumVars, wizard>>
      BY <1>2, <2>1 DEF Next
    <3> QED BY <2>0, <2>1, <3>1, CleanupStep, UnusedStays DEF DataPagesInv
  <2>2. CASE focus = "presets"
    <3>1. PresetsNext /\ UNCHANGED <<cleanupVars, gapVars, makerVars, albumVars, wizard>>
      BY <1>2, <2>2 DEF Next
    <3> QED BY <2>0, <2>2, <3>1, PresetsStep, UnusedStays DEF DataPagesInv
  <2>3. CASE focus = "gaps"
    <3>1. GapsNext /\ UNCHANGED <<cleanupVars, presetVars, makerVars, albumVars, wizard>>
      BY <1>2, <2>3 DEF Next
    <3> QED BY <2>0, <2>3, <3>1, GapsStep, UnusedStays DEF DataPagesInv
  <2>4. CASE focus = "composites"
    <3>1. MakerNext /\ UNCHANGED <<cleanupVars, presetVars, gapVars, albumVars, wizard>>
      BY <1>2, <2>4 DEF Next
    <3> QED BY <2>0, <2>4, <3>1, MakerStep, UnusedStays DEF DataPagesInv
  <2>5. CASE focus = "collections"
    <3>1. AlbumNext /\ UNCHANGED <<cleanupVars, presetVars, gapVars, makerVars, wizard>>
      BY <1>2, <2>5 DEF Next
    <3> QED BY <2>0, <2>5, <3>1, AlbumStep, UnusedStays DEF DataPagesInv
  <2>6. CASE focus = "fetch"
    <3>1. WizardNext /\ UNCHANGED <<cleanupVars, presetVars, gapVars, makerVars, albumVars>>
      BY <1>2, <2>6 DEF Next
    <3> QED BY <2>0, <2>6, <3>1, WizardStep, UnusedStays DEF DataPagesInv
  <2> QED BY <2>1, <2>2, <2>3, <2>4, <2>5, <2>6 DEF DataPagesInv
<1> QED BY <1>1, <1>2

LEMMA DataPagesAlways == Spec => []DataPagesInv
BY DataPagesInit, DataPagesStep, PTL DEF Spec

\* The state of the data pages keeps its types: no rule, preset, composite or
\* collection is shown that the server never had, whatever order answers come in.
THEOREM DataPagesTyped == Spec => []DataPagesTypeOK
BY DataPagesAlways, DataPagesShow, PTL

\* Presets, composites and fetches ask only for what can be served: every handler of
\* a satellite in PresetsTab.tsx, CompositesTab.tsx and FetchTab.tsx moves sector and
\* band with it, a draft is copied whole, and what a reload restores was chosen so.
THEOREM ServableCorrect == Spec => []RequestsServable
BY DataPagesAlways, DataPagesShow, PTL

\* A creation that also adds frames, and a chip that posts several fetches, reports
\* success only after the last of its requests was accepted.
THEOREM ReportsCorrect == Spec => []ReportsAreTrue
BY DataPagesAlways, DataPagesShow, PTL

\* Answers late or out of order do no harm to what the last click asked for: the
\* switch of a retention rule, the preset of a schedule, the detection before a
\* backfill, and the collection in the player.
THEOREM LateAnswersCorrect == Spec => []LateAnswersDoNoHarm
BY DataPagesAlways, DataPagesShow, PTL

\* What FetchTab.tsx stores is the wizard as it is shown or nothing, and nothing of an
\* open one only when the server has accepted a fetch, after every step of the wizard,
\* of its chips and of the answers, late ones included.
THEOREM ReloadCorrect == Spec => []ReloadRestoresWork
BY DataPagesAlways, DataPagesShow, PTL
=============================================================================
