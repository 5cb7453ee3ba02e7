------------------------- MODULE AgentThread_proofs -------------------------
(***************************************************************************)
(* Theorems about the Agent's conversation, for any number of turns,       *)
(* threads and events: the active turn is awaited, a record keeps the      *)
(* turns that ended, a deleted thread stays deleted, and a turn that       *)
(* completed is not shown as failed.  The last two assume that the run     *)
(* leaves out the race that breaks them ("resurrect", "overtake").         *)
(*                                                                         *)
(* A queue of events is folded into the screen by recursion over its       *)
(* length.  The recursion is reasoned about with a principle of induction  *)
(* that follows from the pigeonhole: an invariant set of screens is closed *)
(* under every step, hence under Flush and Reduced (FlushStays,            *)
(* ReducedStays).  Then come the reducer, the queue, the events on their   *)
(* way, and one section for each theorem.                                  *)
(***************************************************************************)
EXTENDS AgentThread, FiniteSetTheorems, SequenceTheorems, TLAPS

-----------------------------------------------------------------------------
(* Induction and recursion *)

(* Otherwise m is not in S: k -> k + 1 would map the elements of S below m   *)
(* into one element fewer.                                                   *)
LEMMA Induction ==
    ASSUME NEW S \in SUBSET Nat, 0 \in S, \A n \in S : n + 1 \in S
    PROVE  S = Nat
<1> SUFFICES ASSUME NEW m \in Nat, m \notin S PROVE FALSE
  OBVIOUS
<1> DEFINE below == (0 .. m) \cap S
           rest == below \ {0}
           next == [k \in below |-> k + 1]
<1>1. /\ IsFiniteSet(below) /\ IsFiniteSet(rest)
      /\ Cardinality(rest) = Cardinality(below) - 1 /\ Cardinality(below) \in Nat
  <2>1. IsFiniteSet(0 .. m)
    BY FS_Interval
  <2>2. IsFiniteSet(below)
    BY <2>1, FS_Subset
  <2>3. 0 \in below
    OBVIOUS
  <2> QED BY <2>2, <2>3, FS_RemoveElement, FS_CardinalityType
<1>2. next \in Injection(below, rest)
  <2>1. ASSUME NEW k \in below PROVE k + 1 \in rest
    OBVIOUS
  <2> QED BY <2>1 DEF Injection, IsInjective
<1>3. Cardinality(below) <= Cardinality(rest)
  <2> HIDE DEF below, rest, next
  <2> QED BY <1>1, <1>2, FS_Injection
<1> QED BY <1>1, <1>3

(* The steps of a recursion in S, and a function that follows them.          *)
Steps(S, N) == [1 .. N -> [S -> S]]
Follows(f, S, first, N, step) ==
    /\ f \in [0 .. N -> S]
    /\ f[0] = first
    /\ \A n \in 1 .. N : f[n] = step[n][f[n - 1]]

(* A recursive function on the first numbers exists and stays in its range.  *)
LEMMA Recursion ==
    ASSUME NEW S, NEW first \in S, NEW N \in Nat, NEW step \in Steps(S, N)
    PROVE  \E f : Follows(f, S, first, N, step)
<1> DEFINE Upto(m) ==
        \E f \in [0 .. m -> S] :
            f[0] = first /\ \A n \in 1 .. m : f[n] = step[n][f[n - 1]]
        Reached == {m \in Nat : m <= N => Upto(m)}
<1>1. 0 \in Reached
  <2> DEFINE f == [n \in 0 .. 0 |-> first]
  <2>1. f \in [0 .. 0 -> S]
    OBVIOUS
  <2>2. f[0] = first /\ \A n \in 1 .. 0 : f[n] = step[n][f[n - 1]]
    OBVIOUS
  <2>3. Upto(0)
    BY <2>1, <2>2
  <2> QED BY <2>3
<1>2. ASSUME NEW m \in Reached PROVE m + 1 \in Reached
  <2> SUFFICES ASSUME m + 1 <= N PROVE Upto(m + 1)
    BY m + 1 \in Nat
  <2>0. m <= N
    OBVIOUS
  <2>1. PICK f \in [0 .. m -> S] :
              f[0] = first /\ \A n \in 1 .. m : f[n] = step[n][f[n - 1]]
    BY <2>0
  <2> DEFINE g == [n \in 0 .. m + 1 |-> IF n = m + 1 THEN step[m + 1][f[m]] ELSE f[n]]
  <2>2. step[m + 1][f[m]] \in S
    BY m + 1 \in 1 .. N DEF Steps
  <2>3. g \in [0 .. m + 1 -> S]
    BY <2>2
  <2>4. g[0] = first
    BY <2>1
  <2>5. ASSUME NEW n \in 1 .. m + 1 PROVE g[n] = step[n][g[n - 1]]
    <3>1. CASE n \in 1 .. m
      <4>1. n # m + 1 /\ n - 1 # m + 1 /\ n - 1 \in 0 .. m + 1 /\ n \in 0 .. m + 1
        BY <3>1
      <4> QED BY <2>1, <3>1, <4>1
    <3>2. CASE n = m + 1
      BY <3>2
    <3> QED BY <3>1, <3>2
  <2> HIDE DEF g
  <2> QED BY <2>3, <2>4, <2>5
<1>3. Reached = Nat
  BY <1>1, <1>2, Induction
<1>4. N \in Reached
  BY <1>3
<1> QED BY <1>4 DEF Follows

Due(w, t) == {p \in w.pending[t] : p.sequence = w.next[t]}
Next1(w, t) == IF Due(w, t) = {} THEN w ELSE Process(w, t, CHOOSE p \in Due(w, t) : TRUE)

LEMMA FlushStays ==
    ASSUME NEW S, NEW v, NEW t, NEW e, Process(v, t, e) \in S,
           \A w \in S : Next1(w, t) \in S,
           Cardinality(v.pending[t]) \in Nat
    PROVE  Flush(v, t, e) \in S
<1> DEFINE N == Cardinality(v.pending[t])
           due(w) == {p \in w.pending[t] : p.sequence = w.next[t]}
           after[n \in 0 .. N] ==
              IF n = 0 THEN Process(v, t, e)
              ELSE IF due(after[n - 1]) = {} THEN after[n - 1]
              ELSE Process(after[n - 1], t, CHOOSE p \in due(after[n - 1]) : TRUE)
           step == [n \in 1 .. N |-> [w \in S |-> Next1(w, t)]]
           Body(g) ==
              [n \in 0 .. N |->
                 IF n = 0 THEN Process(v, t, e)
                 ELSE IF due(g[n - 1]) = {} THEN g[n - 1]
                 ELSE Process(g[n - 1], t, CHOOSE p \in due(g[n - 1]) : TRUE)]
<1>0. N \in Nat
  OBVIOUS
<1>1. step \in Steps(S, N)
  BY DEF Steps
<1>2. PICK f : Follows(f, S, Process(v, t, e), N, step)
  <2>1. Process(v, t, e) \in S
    OBVIOUS
  <2> HIDE DEF N, step
  <2> QED BY <1>0, <1>1, <2>1, Recursion
<1>3. ASSUME NEW n \in 1 .. N PROVE step[n][f[n - 1]] = Next1(f[n - 1], t)
  <2>1. f[n - 1] \in S
    BY <1>2, n - 1 \in 0 .. N DEF Follows
  <2> HIDE DEF N
  <2> QED BY <2>1
<1>4. f = Body(f)
  <2>1. \A n \in 0 .. N : n # 0 => n \in 1 .. N
    OBVIOUS
  <2> HIDE DEF step, N
  <2>2. f = [n \in 0 .. N |-> f[n]]
    BY <1>2 DEF Follows
  <2>3. \A n \in 0 .. N : f[n] = Body(f)[n]
    BY <1>2, <1>3, <2>1 DEF Next1, Due, Follows
  <2> QED BY <2>2, <2>3
<1>5. after = CHOOSE g : g = Body(g)
  OBVIOUS
<1>6. after = Body(after)
  <2> HIDE DEF Body, after
  <2> QED BY <1>4, <1>5
<1>7. Flush(v, t, e) = after[N]
  BY DEF Flush
<1>8. {m \in Nat : m <= N => after[m] \in S} = Nat
  <2> DEFINE Inside == {m \in Nat : m <= N => after[m] \in S}
  <2> HIDE DEF after, N
  <2>1. 0 \in Inside
    BY <1>0, <1>6
  <2>2. ASSUME NEW m \in Inside PROVE m + 1 \in Inside
    <3> SUFFICES ASSUME m + 1 <= N PROVE after[m + 1] \in S
      BY m + 1 \in Nat
    <3>1. m + 1 # 0 /\ (m + 1) - 1 = m /\ m + 1 \in 0 .. N /\ m <= N
      BY <1>0
    <3>2. after[m + 1] = Body(after)[m + 1]
      <4> HIDE DEF Body
      <4> QED BY <1>6
    <3>3. after[m + 1] = Next1(after[m], t)
      BY <3>1, <3>2 DEF Next1, Due
    <3> QED BY <3>1, <3>3
  <2> HIDE DEF Inside
  <2>3. Inside \in SUBSET Nat
    BY DEF Inside
  <2>4. Inside = Nat
    BY <2>1, <2>2, <2>3, Induction
  <2> QED BY <2>4 DEF Inside
<1>9. N \in {m \in Nat : m <= N => after[m] \in S}
  <2> HIDE DEF after, N
  <2> QED BY <1>0, <1>8
<1> QED
  <2> HIDE DEF after, N
  <2> QED BY <1>0, <1>7, <1>9

(* A property that every event of the queue takes one further holds of the   *)
(* state after the queue; Q[n] is what holds after n of them.                *)
LEMMA ReducedStays ==
    ASSUME NEW v, NEW queue, Len(queue) \in Nat,
           NEW Q, v \in Q[0],
           \A n \in 1 .. Len(queue) : \A w \in Q[n - 1] :
              Reduce(w, queue[n].turn, queue[n].event) \in Q[n]
    PROVE  Reduced(v, queue) \in Q[Len(queue)]
<1> DEFINE N == Len(queue)
           after[n \in 0 .. N] ==
              IF n = 0 THEN v
              ELSE Reduce(after[n - 1], queue[n].turn, queue[n].event)
           S == UNION {Q[n] : n \in 0 .. N}
           Step(n, w) ==
              IF w \in Q[n - 1] THEN Reduce(w, queue[n].turn, queue[n].event) ELSE v
           step == [n \in 1 .. N |-> [w \in S |-> Step(n, w)]]
           Body(g) ==
              [n \in 0 .. N |->
                 IF n = 0 THEN v
                 ELSE Reduce(g[n - 1], queue[n].turn, queue[n].event)]
<1>0. N \in Nat
  OBVIOUS
<1>a. v \in S
  BY <1>0
<1>1. step \in Steps(S, N)
  <2>1. ASSUME NEW n \in 1 .. N, NEW w \in S PROVE Step(n, w) \in S
    BY <1>a, n \in 0 .. N
  <2> HIDE DEF S, Step
  <2> QED BY <2>1 DEF Steps
<1>2. PICK f : Follows(f, S, v, N, step)
  <2> HIDE DEF N, step, S
  <2> QED BY <1>0, <1>1, <1>a, Recursion
<1>3. {m \in Nat : m <= N => f[m] \in Q[m]} = Nat
  <2> DEFINE Inside == {m \in Nat : m <= N => f[m] \in Q[m]}
  <2>1. 0 \in Inside
    BY <1>2 DEF Follows
  <2>2. ASSUME NEW m \in Inside PROVE m + 1 \in Inside
    <3> SUFFICES ASSUME m + 1 <= N PROVE f[m + 1] \in Q[m + 1]
      BY m + 1 \in Nat
    <3>1. (m + 1) - 1 = m /\ m + 1 \in 1 .. N /\ m <= N /\ m \in 0 .. N
      BY <1>0
    <3>2. f[m] \in S
      BY <1>2, <3>1 DEF Follows
    <3>3. f[m + 1] = Step(m + 1, f[m])
      <4> HIDE DEF Step, S, N
      <4> QED BY <1>2, <3>1, <3>2 DEF Follows
    <3>4. f[m] \in Q[m]
      BY <3>1
    <3> QED BY <3>1, <3>3, <3>4
  <2> HIDE DEF Inside
  <2>3. Inside \in SUBSET Nat
    BY DEF Inside
  <2>4. Inside = Nat
    BY <2>1, <2>2, <2>3, Induction
  <2> QED BY <2>4 DEF Inside
<1>4. ASSUME NEW n \in 1 .. N
      PROVE  f[n] = Reduce(f[n - 1], queue[n].turn, queue[n].event)
  <2>1. n - 1 \in 0 .. N /\ n - 1 \in Nat /\ n - 1 <= N
    BY <1>0
  <2>2. f[n - 1] \in Q[n - 1] /\ f[n - 1] \in S
    BY <1>2, <1>3, <2>1 DEF Follows
  <2>3. f[n] = Step(n, f[n - 1])
    <3> HIDE DEF Step, S, N
    <3> QED BY <1>2, <2>2 DEF Follows
  <2> QED BY <2>2, <2>3
<1>5. f = Body(f)
  <2>1. \A n \in 0 .. N : n # 0 => n \in 1 .. N
    OBVIOUS
  <2> HIDE DEF step, N, S
  <2>2. f = [n \in 0 .. N |-> f[n]]
    BY <1>2 DEF Follows
  <2>3. \A n \in 0 .. N : f[n] = Body(f)[n]
    BY <1>2, <1>4, <2>1 DEF Follows
  <2> QED BY <2>2, <2>3
<1>6. after = CHOOSE g : g = Body(g)
  OBVIOUS
<1>7. after = Body(after)
  <2> HIDE DEF Body, after
  <2> QED BY <1>5, <1>6
<1>8. {m \in Nat : m <= N => after[m] \in Q[m]} = Nat
  <2> DEFINE Inside == {m \in Nat : m <= N => after[m] \in Q[m]}
  <2> HIDE DEF after, N
  <2>1. 0 \in Inside
    BY <1>0, <1>7
  <2>2. ASSUME NEW m \in Inside PROVE m + 1 \in Inside
    <3> SUFFICES ASSUME m + 1 <= N PROVE after[m + 1] \in Q[m + 1]
      BY m + 1 \in Nat
    <3>1. m + 1 # 0 /\ (m + 1) - 1 = m /\ m + 1 \in 0 .. N /\ m + 1 \in 1 .. N /\ m <= N
      BY <1>0
    <3>2. after[m + 1] = Body(after)[m + 1]
      <4> HIDE DEF Body
      <4> QED BY <1>7
    <3>3. after[m + 1] = Reduce(after[m], queue[m + 1].turn, queue[m + 1].event)
      BY <3>1, <3>2
    <3>4. after[m] \in Q[m]
      BY <3>1
    <3> QED BY <3>1, <3>3, <3>4 DEF N
  <2> HIDE DEF Inside
  <2>3. Inside \in SUBSET Nat
    BY DEF Inside
  <2>4. Inside = Nat
    BY <2>1, <2>2, <2>3, Induction
  <2> QED BY <2>4 DEF Inside
<1>9. after[N] \in Q[N]
  <2> HIDE DEF after, N
  <2> QED BY <1>0, <1>8
<1>10. Reduced(v, queue) = after[N]
  BY DEF Reduced
<1> QED
  <2> HIDE DEF after
  <2> QED BY <1>9, <1>10

-----------------------------------------------------------------------------
(* The reducer *)

Fine(w) ==
    /\ w \in View
    /\ \A t \in Turn : IsFiniteSet(w.pending[t]) /\ \A p \in w.pending[t] : p.kind # "started"
    /\ w.active # NoTurn => home[w.active] = w.thread /\ w.turns[w.active] = "running"

Same(w, v, t) ==
    /\ w.turns[t] = v.turns[t] /\ w.next[t] = v.next[t]
    /\ w.pending[t] = v.pending[t] /\ w.approval[t] = v.approval[t]

HasFailed(v, t) == v.turns[t] = "failed" \/ \E p \in v.pending[t] : p.kind = "failed"

(* What an event of t may change of v.                                       *)
Takes(w, v, t, e) ==
    /\ Fine(w)
    /\ w.thread = v.thread
    /\ \A u \in Turn \ {t} : Same(w, v, u)
    /\ v.turns[t] \in Terminal => w.turns[t] = v.turns[t]
    /\ w.turns[t] = "failed" => HasFailed(v, t) \/ e.kind = "failed"
    /\ \A p \in w.pending[t] : p = e \/ p \in v.pending[t]
    /\ w.active \in {v.active, NoTurn} \/ (w.active = t /\ e.kind = "started")

LEMMA ProcessTakes ==
    ASSUME NEW v, Fine(v), NEW t \in Turn, home[t] = v.thread, NEW e \in Event
    PROVE  LET w == Process(v, t, e)
           IN  /\ Takes(w, v, t, e)
               /\ w.pending[t] = v.pending[t] \ {e}
               /\ w.next[t] = e.sequence + 1
               /\ e.kind \in Terminal /\ w.active = t => FALSE
               /\ e.kind \in Terminal /\ v.turns[t] = "running" => w.turns[t] = e.kind
               /\ w.active = t /\ e.kind = "approvalResolved" => w.approval[t] = "decided"
<1> DEFINE w == Process(v, t, e)
           o == Ordered(v, t, e.kind)
<1>0. /\ v \in View /\ e.sequence \in Nat /\ e.kind \in Kinds /\ v.thread \in Thread
      /\ v.turns \in [Turn -> Status] /\ v.next \in [Turn -> Nat]
      /\ v.pending \in [Turn -> SUBSET Event] /\ v.approval \in [Turn -> Approval]
      /\ v.active \in Turn \cup {NoTurn} /\ NoTurn \notin Turn
  BY ThreadAssumption DEF Fine, View, Event
<1>1. /\ o \in View /\ o.thread = v.thread /\ o.next = v.next /\ o.pending = v.pending
      /\ \A u \in Turn \ {t} : o.turns[u] = v.turns[u] /\ o.approval[u] = v.approval[u]
      /\ v.turns[t] \in Terminal => o.turns[t] = v.turns[t]
      /\ o.turns[t] = "failed" => v.turns[t] = "failed" \/ e.kind = "failed"
      /\ o.active \in {v.active, NoTurn} \/ (o.active = t /\ e.kind = "started")
      /\ o.active # NoTurn => home[o.active] = o.thread /\ o.turns[o.active] = "running"
      /\ e.kind \in Terminal /\ o.active = t => FALSE
      /\ e.kind \in Terminal /\ v.turns[t] = "running" => o.turns[t] = e.kind
      /\ o.active = t /\ e.kind = "approvalResolved" => o.approval[t] = "decided"
  <2>1. CASE e.kind = "started" /\ v.turns[t] = "absent"
    <3>1. o = [v EXCEPT !.turns[t] = "running", !.active = t]
      BY <2>1 DEF Ordered
    <3> HIDE DEF o
    <3> QED BY <1>0, <2>1, <3>1 DEF View, Status, Terminal
  <2>2. CASE v.turns[t] = "running" /\ e.kind \in Terminal
    <3>1. o = [v EXCEPT !.turns[t] = e.kind, !.active = IF @ = t THEN NoTurn ELSE @]
      BY <2>2 DEF Ordered, Terminal
    <3> HIDE DEF o
    <3> QED BY <1>0, <2>2, <3>1 DEF Fine, View, Status, Terminal
  <2>3. CASE v.turns[t] = "running" /\ e.kind = "approvalRequested"
    <3>1. o = [v EXCEPT !.approval[t] = "pending"]
      BY <2>3 DEF Ordered, Terminal
    <3> HIDE DEF o
    <3> QED BY <1>0, <2>3, <3>1 DEF Fine, View, Approval, Terminal
  <2>4. CASE v.turns[t] = "running" /\ e.kind = "approvalResolved"
    <3>1. o = [v EXCEPT !.approval[t] = "decided"]
      BY <2>4 DEF Ordered, Terminal
    <3> HIDE DEF o
    <3> QED BY <1>0, <2>4, <3>1 DEF Fine, View, Approval, Terminal
  <2>5. CASE /\ ~(e.kind = "started" /\ v.turns[t] = "absent")
             /\ ~(v.turns[t] = "running" /\ e.kind \in Terminal)
             /\ ~(v.turns[t] = "running" /\ e.kind = "approvalRequested")
             /\ ~(v.turns[t] = "running" /\ e.kind = "approvalResolved")
    <3>1. o = v
      BY <2>5 DEF Ordered
    <3> HIDE DEF o
    <3> QED BY <1>0, <2>5, <3>1 DEF Fine, Terminal
  <2> QED BY <2>1, <2>2, <2>3, <2>4, <2>5
<1>2. w = [o EXCEPT !.next[t] = e.sequence + 1, !.pending[t] = @ \ {e}]
  BY DEF Process
<1> HIDE DEF w, o
<1>3. /\ o.turns \in [Turn -> Status] /\ o.approval \in [Turn -> Approval]
      /\ o.active \in Turn \cup {NoTurn}
  BY <1>1 DEF View
<1>a. /\ [v.next EXCEPT ![t] = e.sequence + 1] \in [Turn -> Nat]
      /\ [v.pending EXCEPT ![t] = @ \ {e}] \in [Turn -> SUBSET Event]
      /\ o.thread \in Thread
  BY <1>0, <1>1
<1>b. w = [thread |-> o.thread, turns |-> o.turns, next |-> [v.next EXCEPT ![t] = e.sequence + 1],
           pending |-> [v.pending EXCEPT ![t] = @ \ {e}], approval |-> o.approval,
           active |-> o.active]
  BY <1>1, <1>2 DEF View
<1>4. /\ w \in View /\ w.thread = o.thread /\ w.turns = o.turns
      /\ w.approval = o.approval /\ w.active = o.active
      /\ w.next[t] = e.sequence + 1 /\ w.pending[t] = v.pending[t] \ {e}
      /\ \A u \in Turn \ {t} : w.next[u] = v.next[u] /\ w.pending[u] = v.pending[u]
  BY <1>0, <1>3, <1>a, <1>b DEF View
<1>5. \A u \in Turn : IsFiniteSet(w.pending[u]) /\ \A p \in w.pending[u] : p.kind # "started"
  <2>1. IsFiniteSet(w.pending[t])
    BY <1>4, FS_Subset DEF Fine
  <2> QED BY <1>4, <2>1 DEF Fine
<1>6. Takes(w, v, t, e)
  BY <1>1, <1>4, <1>5 DEF Takes, Fine, Same, HasFailed
<1> QED BY <1>1, <1>4, <1>6 DEF w

LEMMA FlushTakes ==
    ASSUME NEW v, Fine(v), NEW t \in Turn, home[t] = v.thread, NEW e \in Event
    PROVE  /\ Takes(Flush(v, t, e), v, t, e)
           /\ e.kind \in Terminal /\ v.turns[t] = "running" => Flush(v, t, e).active # t
<1> DEFINE Closes == e.kind \in Terminal /\ v.turns[t] = "running"
           S == {w \in View : /\ Takes(w, v, t, e)
                              /\ Closes => w.turns[t] = e.kind /\ w.active # t}
<1>1. Process(v, t, e) \in S
  BY ProcessTakes DEF Takes, Fine
<1>2. ASSUME NEW w \in S PROVE Next1(w, t) \in S
  <2>1. CASE Due(w, t) = {}
    BY <2>1 DEF Next1
  <2>2. CASE Due(w, t) # {}
    <3>1. PICK p : p = (CHOOSE q \in Due(w, t) : TRUE)
      OBVIOUS
    <3>2. p \in w.pending[t]
      BY <2>2, <3>1 DEF Due
    <3>3. Fine(w) /\ home[t] = w.thread /\ p \in Event /\ p.kind # "started"
      BY <3>2 DEF Takes, Fine, View
    <3> DEFINE x == Process(w, t, p)
    <3>4. /\ Takes(x, w, t, p)
          /\ x.pending[t] = w.pending[t] \ {p}
      BY <3>3, ProcessTakes
    <3>5. Next1(w, t) = x
      BY <2>2, <3>1 DEF Next1
    <3> HIDE DEF x
    <3>6. Takes(w, v, t, e)
      OBVIOUS
    <3>7. Fine(x) /\ x \in View
      BY <3>4 DEF Takes, Fine
    <3>8. x.turns[t] = "failed" => HasFailed(v, t) \/ e.kind = "failed"
      BY <3>2, <3>4, <3>6 DEF Takes, HasFailed
    <3>9. Takes(x, v, t, e)
      BY <3>3, <3>4, <3>6, <3>7, <3>8 DEF Takes, Same
    <3>10. Closes => x.turns[t] = e.kind /\ x.active # t
      BY <3>3, <3>4, ThreadAssumption DEF Takes
    <3> QED BY <3>5, <3>7, <3>9, <3>10
  <2> QED BY <2>1, <2>2
<1>3. Cardinality(v.pending[t]) \in Nat
  BY FS_CardinalityType DEF Fine
<1>4. Flush(v, t, e) \in S
  <2> HIDE DEF S
  <2> QED BY <1>1, <1>2, <1>3, FlushStays
<1> QED BY <1>4

(* With nothing buffered, the event is all that is applied.                  *)
LEMMA FlushAlone ==
    ASSUME NEW v, NEW t \in Turn, v.pending[t] = {}, NEW e, Fine(v), home[t] = v.thread,
           e \in Event
    PROVE  Flush(v, t, e) = Process(v, t, e)
<1> DEFINE S == {Process(v, t, e)}
<1>1. Process(v, t, e).pending[t] = {}
  BY ProcessTakes
<1>2. \A w \in S : Next1(w, t) \in S
  BY <1>1 DEF Next1, Due
<1>3. Cardinality(v.pending[t]) \in Nat
  BY FS_EmptySet
<1>4. Flush(v, t, e) \in S
  <2>1. Process(v, t, e) \in S
    OBVIOUS
  <2> HIDE DEF S
  <2> QED BY <1>2, <1>3, <2>1, FlushStays
<1> QED BY <1>4

(* Only the event that begins a turn has the number 0.                       *)
Numbered(e) == e \in Event /\ (e.kind = "started" => e.sequence = 0)

LEMMA ReduceTakes ==
    ASSUME NEW v, Fine(v), NEW t \in Turn, NEW e, Numbered(e)
    PROVE  LET w == Reduce(v, t, e)
           IN  /\ Takes(w, v, t, e)
               /\ home[t] # v.thread => w = v
<1>0. /\ e \in Event /\ e.sequence \in Nat /\ v \in View /\ v.next[t] \in Nat
      /\ v.pending \in [Turn -> SUBSET Event]
  BY DEF Numbered, Event, Fine, View
<1>1. CASE home[t] # v.thread \/ e.sequence < v.next[t]
  <2>1. Reduce(v, t, e) = v
    BY <1>0, <1>1 DEF Reduce
  <2> QED BY <2>1 DEF Takes, Same, HasFailed
<1>2. CASE home[t] = v.thread /\ ~(e.sequence < v.next[t]) /\ e.sequence = v.next[t]
  <2>1. Reduce(v, t, e) = Flush(v, t, e)
    BY <1>2 DEF Reduce
  <2> QED BY <1>0, <1>2, <2>1, FlushTakes
<1>3. CASE home[t] = v.thread /\ ~(e.sequence < v.next[t]) /\ e.sequence # v.next[t]
  <2>1. CASE \E p \in v.pending[t] : p.sequence = e.sequence
    <3>1. Reduce(v, t, e) = v
      BY <1>3, <2>1 DEF Reduce
    <3> QED BY <1>3, <3>1 DEF Takes, Same, HasFailed
  <2>2. CASE ~ \E p \in v.pending[t] : p.sequence = e.sequence
    <3>1. PICK w : w = [v EXCEPT !.pending[t] = @ \cup {e}]
      OBVIOUS
    <3>2. Reduce(v, t, e) = w
      BY <1>3, <2>2, <3>1 DEF Reduce
    <3>3. /\ w \in View /\ w.thread = v.thread /\ w.turns = v.turns /\ w.next = v.next
          /\ w.approval = v.approval /\ w.active = v.active
          /\ w.pending[t] = v.pending[t] \cup {e}
          /\ \A u \in Turn \ {t} : w.pending[u] = v.pending[u]
      BY <1>0, <3>1 DEF View
    <3>4. IsFiniteSet(w.pending[t])
      BY <3>3, FS_AddElement DEF Fine
    <3>5. e.kind # "started"
      BY <1>0, <1>3 DEF Numbered
    <3>6. Fine(w)
      BY <3>3, <3>4, <3>5 DEF Fine
    <3> QED BY <1>3, <3>2, <3>3, <3>6 DEF Takes, Same, HasFailed
  <2> QED BY <2>1, <2>2
<1> QED BY <1>1, <1>2, <1>3

(***************************************************************************)
(* What a queue of events may change of v.                                 *)
(***************************************************************************)
Entry == [turn : Turn, event : Event]
Queue(q) == q \in Seq(Entry) /\ \A n \in 1 .. Len(q) : Numbered(q[n].event)

LEMMA QueueHolds ==
    ASSUME NEW q, Queue(q)
    PROVE  /\ Len(q) \in Nat
           /\ \A n \in 1 .. Len(q) :
                 q[n].turn \in Turn /\ q[n].event \in Event /\ Numbered(q[n].event)
<1>1. Len(q) \in Nat /\ \A n \in 1 .. Len(q) : q[n] \in Entry
  <2> HIDE DEF Entry
  <2> QED BY DEF Queue
<1> QED BY <1>1 DEF Queue, Entry

TakesAll(w, v, q) ==
    /\ Fine(w)
    /\ w.thread = v.thread
    /\ \A t \in Turn :
          /\ (\A n \in 1 .. Len(q) : q[n].turn # t) => Same(w, v, t)
          /\ v.turns[t] \in Terminal => w.turns[t] = v.turns[t]
          /\ HasFailed(w, t)
                => \/ HasFailed(v, t)
                   \/ \E n \in 1 .. Len(q) : q[n].turn = t /\ q[n].event.kind = "failed"
    /\ \/ w.active \in {v.active, NoTurn}
       \/ \E n \in 1 .. Len(q) : q[n].turn = w.active /\ q[n].event.kind = "started"

LEMMA ReducedTakes ==
    ASSUME NEW v, Fine(v), NEW q, Queue(q)
    PROVE  TakesAll(Reduced(v, q), v, q)
<1> DEFINE S == {w \in View : TakesAll(w, v, q)}
           Q == [n \in 0 .. Len(q) |-> S]
<1>0. Len(q) \in Nat /\ \A n \in 1 .. Len(q) :
          q[n].turn \in Turn /\ q[n].event \in Event /\ Numbered(q[n].event)
  BY QueueHolds
<1>1. v \in S
  BY DEF TakesAll, Same, Fine
<1>2. ASSUME NEW n \in 1 .. Len(q), NEW w \in S
      PROVE  Reduce(w, q[n].turn, q[n].event) \in S
  <2> DEFINE t == q[n].turn
             e == q[n].event
             x == Reduce(w, t, e)
  <2>1. t \in Turn /\ e \in Event /\ Numbered(e)
    BY <1>0
  <2>2. TakesAll(w, v, q)
    OBVIOUS
  <2>3. Fine(w)
    BY <2>2 DEF TakesAll
  <2>4. Takes(x, w, t, e)
    BY <2>1, <2>3, ReduceTakes
  <2> HIDE DEF x
  <2>5. Fine(x) /\ x.thread = v.thread /\ x \in View
    BY <2>2, <2>4 DEF Takes, TakesAll, Fine
  <2>6. ASSUME NEW u \in Turn
        PROVE  /\ (\A m \in 1 .. Len(q) : q[m].turn # u) => Same(x, v, u)
               /\ v.turns[u] \in Terminal => x.turns[u] = v.turns[u]
               /\ HasFailed(x, u)
                    => \/ HasFailed(v, u)
                       \/ \E m \in 1 .. Len(q) : q[m].turn = u /\ q[m].event.kind = "failed"
    <3>1. CASE u = t
      <4>1. v.turns[u] \in Terminal => x.turns[u] = v.turns[u]
        BY <2>1, <2>2, <2>4, <3>1 DEF Takes, TakesAll
      <4>2. HasFailed(x, u) => HasFailed(w, u) \/ e.kind = "failed"
        BY <2>1, <2>4, <3>1 DEF Takes, HasFailed
      <4>3. HasFailed(w, u) => \/ HasFailed(v, u)
                               \/ \E m \in 1 .. Len(q) : q[m].turn = u /\ q[m].event.kind = "failed"
        BY <2>2 DEF TakesAll
      <4> QED BY <3>1, <4>1, <4>2, <4>3
    <3>2. CASE u # t
      <4>1. Same(x, w, u)
        BY <2>4, <3>2 DEF Takes
      <4> QED BY <2>2, <4>1 DEF TakesAll, Same, HasFailed
    <3> QED BY <3>1, <3>2
  <2>7. \/ x.active \in {v.active, NoTurn}
        \/ \E m \in 1 .. Len(q) : q[m].turn = x.active /\ q[m].event.kind = "started"
    BY <2>2, <2>4 DEF Takes, TakesAll
  <2> QED BY <2>5, <2>6, <2>7 DEF TakesAll, x
<1>3. v \in Q[0] /\ \A n \in 1 .. Len(q) : \A w \in Q[n - 1] :
          Reduce(w, q[n].turn, q[n].event) \in Q[n]
  <2>1. \A n \in 1 .. Len(q) : n \in 0 .. Len(q) /\ n - 1 \in 0 .. Len(q)
    BY <1>0
  <2>2. 0 \in 0 .. Len(q)
    BY <1>0
  <2> HIDE DEF S
  <2> QED BY <1>1, <1>2, <2>1, <2>2
<1>4. Reduced(v, q) \in Q[Len(q)]
  <2> HIDE DEF Q
  <2> QED BY <1>0, <1>3, ReducedStays
<1>5. Len(q) \in 0 .. Len(q)
  BY <1>0
<1> QED BY <1>4, <1>5

(***************************************************************************)
(* A queue whose events of t come in the order of their numbers, none too  *)
(* early for v.                                                            *)
(***************************************************************************)
Chained(v, q, t) ==
    \A n \in 1 .. Len(q) : q[n].turn = t =>
        \/ q[n].event.sequence <= v.next[t]
        \/ \E m \in 1 .. Len(q) :
              m < n /\ q[m].turn = t /\ q[n].event.sequence = q[m].event.sequence + 1

(* All of it is taken, and what is buffered stays empty.                     *)
AllTaken(w, v, q, t, upto) ==
    /\ w.pending[t] = {}
    /\ w.next[t] >= v.next[t]
    /\ \A m \in 1 .. upto : q[m].turn = t => w.next[t] > q[m].event.sequence
    /\ \/ w.next[t] = v.next[t] /\ w.approval[t] = v.approval[t]
       \/ \E m \in 1 .. upto :
             /\ q[m].turn = t
             /\ w.next[t] = q[m].event.sequence + 1
             /\ w.active = t =>
                   /\ q[m].event.kind \notin Terminal
                   /\ q[m].event.kind = "approvalResolved" => w.approval[t] = "decided"

LEMMA ReducedInOrder ==
    ASSUME NEW v, Fine(v), NEW q, Queue(q), NEW t \in Turn,
           home[t] = v.thread, v.pending[t] = {}, Chained(v, q, t)
    PROVE  AllTaken(Reduced(v, q), v, q, t, Len(q))
<1> DEFINE Upto(n) == {w \in View : Fine(w) /\ w.thread = v.thread /\ AllTaken(w, v, q, t, n)}
           Q == [n \in 0 .. Len(q) |-> Upto(n)]
<1>0. Len(q) \in Nat /\ \A n \in 1 .. Len(q) :
        /\ q[n].turn \in Turn /\ q[n].event \in Event /\ Numbered(q[n].event)
        /\ q[n].event.sequence \in Nat
  BY QueueHolds DEF Event
<1>1. v \in Upto(0)
  BY DEF AllTaken, Fine, View
<1>2. ASSUME NEW n \in 1 .. Len(q), NEW w \in Upto(n - 1)
      PROVE  Reduce(w, q[n].turn, q[n].event) \in Upto(n)
  <2> DEFINE u == q[n].turn
             e == q[n].event
             x == Reduce(w, u, e)
  <2>1. /\ u \in Turn /\ e \in Event /\ Numbered(e) /\ n \in Nat /\ n - 1 \in Nat
        /\ e.sequence \in Nat
    BY <1>0
  <2>2. /\ Fine(w) /\ w.thread = v.thread /\ AllTaken(w, v, q, t, n - 1)
        /\ w.next[t] \in Nat /\ v.next[t] \in Nat /\ w.pending[t] = {}
    BY DEF Fine, View, AllTaken
  <2>3. Takes(x, w, u, e)
    BY <2>1, <2>2, ReduceTakes
  <2>4. Fine(x) /\ x.thread = v.thread /\ x \in View
    <3> HIDE DEF x
    <3> QED BY <2>2, <2>3 DEF Takes, Fine
  <2>5. CASE u # t
    <3>1. Same(x, w, t)
      <4> HIDE DEF x
      <4> QED BY <2>3, <2>5 DEF Takes
    <3>2. x.active = t => w.active = t
      <4> HIDE DEF x
      <4> QED BY <2>3, <2>5, ThreadAssumption DEF Takes
    <3>3. \A m \in 1 .. n : q[m].turn = t => m \in 1 .. n - 1
      BY <2>1, <2>5
    <3>4. \A m \in 1 .. n - 1 : m \in 1 .. n
      BY <2>1
    <3> HIDE DEF x, u, e
    <3>5. AllTaken(x, v, q, t, n)
      BY <2>2, <3>1, <3>2, <3>3, <3>4 DEF AllTaken, Same
    <3> QED BY <2>4, <3>5 DEF x, u, e
  <2>6. CASE u = t
    <3>1. e.sequence <= w.next[t]
      <4>1. CASE e.sequence <= v.next[t]
        BY <2>1, <2>2, <4>1 DEF AllTaken
      <4>2. CASE \E m \in 1 .. Len(q) :
                    m < n /\ q[m].turn = t /\ e.sequence = q[m].event.sequence + 1
        <5>1. PICK m \in 1 .. n - 1 : q[m].turn = t /\ e.sequence = q[m].event.sequence + 1
          BY <2>1, <4>2
        <5>2. w.next[t] > q[m].event.sequence /\ q[m].event.sequence \in Nat
          BY <1>0, <2>1, <2>2, <5>1 DEF AllTaken
        <5> QED BY <2>1, <2>2, <5>1, <5>2
      <4> QED BY <2>6, <4>1, <4>2 DEF Chained
    <3>2. CASE e.sequence < w.next[t]
      <4>1. x = w
        BY <2>1, <2>2, <2>6, <3>2 DEF Reduce
      <4>2. \A m \in 1 .. n : m = n \/ m \in 1 .. n - 1
        BY <2>1
      <4>3. \A m \in 1 .. n - 1 : m \in 1 .. n
        BY <2>1
      <4>4. AllTaken(w, v, q, t, n)
        BY <2>2, <3>2, <4>2, <4>3 DEF AllTaken
      <4> QED BY <2>4, <4>1, <4>4
    <3>3. CASE e.sequence = w.next[t]
      <4>1. x = Process(w, t, e)
        <5>1. x = Flush(w, t, e)
          BY <2>1, <2>2, <2>6, <3>3 DEF Reduce
        <5> HIDE DEF x, u, e
        <5> QED BY <2>1, <2>2, <5>1, FlushAlone
      <4>2. /\ x.pending[t] = {} /\ x.next[t] = e.sequence + 1
            /\ e.kind \in Terminal /\ x.active = t => FALSE
            /\ x.active = t /\ e.kind = "approvalResolved" => x.approval[t] = "decided"
        BY <2>1, <2>2, <4>1, ProcessTakes
      <4> HIDE DEF x
      <4>3. \A m \in 1 .. n : q[m].turn = t => x.next[t] > q[m].event.sequence
        <5> SUFFICES ASSUME NEW m \in 1 .. n, q[m].turn = t
                     PROVE  x.next[t] > q[m].event.sequence
          OBVIOUS
        <5>1. CASE m = n
          BY <2>1, <4>2, <5>1
        <5>2. CASE m \in 1 .. n - 1
          <6>1. w.next[t] > q[m].event.sequence /\ q[m].event.sequence \in Nat
            BY <1>0, <2>1, <2>2, <5>2 DEF AllTaken
          <6> QED BY <2>1, <2>2, <3>3, <4>2, <6>1
        <5> QED BY <2>1, <5>1, <5>2
      <4>4. x.next[t] >= v.next[t]
        BY <2>1, <2>2, <3>3, <4>2 DEF AllTaken
      <4>5. n \in 1 .. n
        BY <2>1
      <4>6. AllTaken(x, v, q, t, n)
        BY <2>6, <4>2, <4>3, <4>4, <4>5 DEF AllTaken
      <4> QED BY <2>4, <4>6 DEF x
    <3> QED BY <2>1, <2>2, <3>1, <3>2, <3>3
  <2> QED BY <2>5, <2>6
<1>3. v \in Q[0] /\ \A n \in 1 .. Len(q) : \A w \in Q[n - 1] :
          Reduce(w, q[n].turn, q[n].event) \in Q[n]
  <2>1. \A n \in 1 .. Len(q) : n \in 0 .. Len(q) /\ n - 1 \in 0 .. Len(q)
    BY <1>0
  <2>2. 0 \in 0 .. Len(q)
    BY <1>0
  <2> HIDE DEF Upto
  <2> QED BY <1>1, <1>2, <2>1, <2>2
<1>4. Reduced(v, q) \in Q[Len(q)]
  <2> HIDE DEF Q
  <2> QED BY <1>0, <1>3, ReducedStays
<1>5. Len(q) \in 0 .. Len(q)
  BY <1>0
<1> QED BY <1>4, <1>5

-----------------------------------------------------------------------------
(* The events on their way *)

(* A channel holds the last events of its turn, in order.                    *)
EventsInOrder ==
    /\ \A n \in 1 .. Len(frame) : frame[n].event.kind = "delta"
    /\ \A t \in Turn :
        /\ Len(channel[t]) <= sent[t]
        /\ channel[t] # <<>> => t \in linked
        /\ \A i \in 1 .. Len(channel[t]) :
              /\ channel[t][i].sequence = sent[t] - Len(channel[t]) + i - 1
              /\ Numbered(channel[t][i])
              /\ channel[t][i].kind = "failed" => native[t] \in {"failed", "cancelled"}
              /\ native[t] = "completed" =>
                    \/ channel[t][i].kind \in Terminal
                    \/ channel[t][i].sequence <= sent[t] - 2

Phases ==
    \A t \in Turn :
        /\ t \in linked => pc[t] = "running"
        /\ pc[t] \in {"new", "titling"} \/ native[t] = "idle" => sent[t] = 0
        /\ pc[t] \in {"new", "titling"} => native[t] = "idle"
        /\ native[t] \in {"running", "approving", "cancelled"} => sent[t] >= 1
        /\ native[t] = "completed" => sent[t] >= 3
        /\ t \in answered \/ pc[t] \in {"disposing", "over"} => native[t] \in Terminal

(* The thread that is being deleted can be shown again.                      *)
DeletionIsIdle == deleting # NoRecord => deleting.old.active = NoTurn /\ Fine(deleting.old)

EventInv ==
    /\ TypeOK
    /\ Fine(view)
    /\ DeletionIsIdle
    /\ EventsInOrder
    /\ Phases

LEMMA InitEvents == Init => EventInv
<1> SUFFICES ASSUME Init PROVE EventInv
  OBVIOUS
<1>1. /\ view \in View /\ \A t \in Turn : view.pending[t] = {}
      /\ view.active = NoTurn
  BY ThreadAssumption DEF Init, Shown, Empty, View, Status, Approval
<1>2. Fine(view)
  BY <1>1, FS_EmptySet DEF Fine
<1>3. Empty \in Record
  BY DEF Empty, Record
<1>a. view \in View
  BY <1>1
<1>4. TypeOK
  <2>1. saved \in [Thread -> Record \cup {NoRecord}]
    BY <1>3 DEF Init
  <2>2. /\ channel \in [Turn -> Seq(Event)] /\ sent \in [Turn -> Nat]
        /\ frame \in Seq([turn : Turn, event : Event])
    BY DEF Init
  <2> QED BY <1>a, <2>1, <2>2, ThreadAssumption DEF Init, TypeOK
<1> QED BY <1>2, <1>4 DEF Init, EventInv, DeletionIsIdle, EventsInOrder, Phases

(* What a turn sends.                                                        *)
Sent(t, kinds) == [i \in DOMAIN kinds |-> [sequence |-> sent[t] + i - 1, kind |-> kinds[i]]]

LEMMA SendsEvents ==
    ASSUME TypeOK, NEW t \in Turn, NEW kinds \in Seq(Kinds), Sends(t, kinds)
    PROVE  /\ channel' \in [Turn -> Seq(Event)] /\ sent' \in [Turn -> Nat]
           /\ \A u \in Turn \ {t} : channel'[u] = channel[u] /\ sent'[u] = sent[u]
           /\ sent'[t] = sent[t] + Len(kinds)
           /\ t \notin linked => channel'[t] = <<>>
           /\ t \in linked =>
                 /\ Len(channel'[t]) = Len(channel[t]) + Len(kinds)
                 /\ \A i \in 1 .. Len(channel[t]) : channel'[t][i] = channel[t][i]
                 /\ \A i \in 1 .. Len(kinds) :
                       /\ channel'[t][Len(channel[t]) + i].sequence = sent[t] + i - 1
                       /\ channel'[t][Len(channel[t]) + i].kind = kinds[i]
<1>1. /\ channel \in [Turn -> Seq(Event)] /\ sent \in [Turn -> Nat] /\ sent[t] \in Nat
      /\ channel[t] \in Seq(Event) /\ Len(channel[t]) \in Nat
  BY DEF TypeOK
<1>2. /\ Len(kinds) \in Nat /\ DOMAIN kinds = 1 .. Len(kinds)
      /\ \A i \in 1 .. Len(kinds) : kinds[i] \in Kinds
  OBVIOUS
<1> DEFINE ns == Sent(t, kinds)
<1>3. ns \in Seq(Event) /\ Len(ns) = Len(kinds)
      /\ \A i \in 1 .. Len(kinds) : ns[i].sequence = sent[t] + i - 1 /\ ns[i].kind = kinds[i]
  <2>1. \A i \in 1 .. Len(kinds) : [sequence |-> sent[t] + i - 1, kind |-> kinds[i]] \in Event
    BY <1>1, <1>2 DEF Event
  <2>2. ns = [i \in 1 .. Len(kinds) |-> [sequence |-> sent[t] + i - 1, kind |-> kinds[i]]]
    BY <1>2 DEF Sent
  <2>3. ns \in [1 .. Len(kinds) -> Event]
    BY <2>1, <2>2
  <2>a. \A i \in 1 .. Len(kinds) : ns[i].sequence = sent[t] + i - 1 /\ ns[i].kind = kinds[i]
    BY <2>2
  <2> HIDE DEF ns
  <2>4. ns \in Seq(Event)
    BY <1>2, <2>3
  <2>5. Len(ns) = Len(kinds)
    BY <1>2, <2>3, <2>4
  <2> QED BY <2>a, <2>4, <2>5
<1>4. /\ channel' = [channel EXCEPT ![t] = IF t \in linked THEN channel[t] \o ns ELSE <<>>]
      /\ sent' = [sent EXCEPT ![t] = sent[t] + Len(kinds)]
  BY <1>1 DEF Sends, Hears, Sent
<1> HIDE DEF ns
<1>5. /\ channel[t] \o ns \in Seq(Event)
      /\ Len(channel[t] \o ns) = Len(channel[t]) + Len(kinds)
      /\ \A i \in 1 .. Len(channel[t]) : (channel[t] \o ns)[i] = channel[t][i]
      /\ \A i \in 1 .. Len(kinds) : (channel[t] \o ns)[Len(channel[t]) + i] = ns[i]
  <2>1. /\ channel[t] \o ns \in Seq(Event)
        /\ Len(channel[t] \o ns) = Len(channel[t]) + Len(ns)
        /\ \A i \in 1 .. Len(channel[t]) + Len(ns) : (channel[t] \o ns)[i] =
                IF i <= Len(channel[t]) THEN channel[t][i] ELSE ns[i - Len(channel[t])]
    <3>1. channel[t] \in Seq(Event) /\ ns \in Seq(Event)
      BY <1>1, <1>3
    <3> QED BY ONLY <3>1, ConcatProperties
  <2>2. Len(channel[t]) \in Nat /\ Len(kinds) \in Nat /\ Len(ns) = Len(kinds)
    BY <1>1, <1>2, <1>3
  <2>3. ASSUME NEW i \in 1 .. Len(kinds)
        PROVE  (channel[t] \o ns)[Len(channel[t]) + i] = ns[i]
    <3>1. /\ Len(channel[t]) + i \in 1 .. Len(channel[t]) + Len(ns)
          /\ ~(Len(channel[t]) + i <= Len(channel[t]))
          /\ (Len(channel[t]) + i) - Len(channel[t]) = i
      BY <2>2
    <3> QED BY <2>1, <3>1
  <2>4. ASSUME NEW i \in 1 .. Len(channel[t]) PROVE (channel[t] \o ns)[i] = channel[t][i]
    <3>1. i \in 1 .. Len(channel[t]) + Len(ns) /\ i <= Len(channel[t])
      BY <2>2
    <3> QED BY <2>1, <3>1
  <2> QED BY <2>1, <2>2, <2>3, <2>4
<1>6. <<>> \in Seq(Event)
  OBVIOUS
<1>7. CASE t \in linked
  <2>1. channel' = [channel EXCEPT ![t] = channel[t] \o ns]
    BY <1>4, <1>7
  <2>2. channel'[t] = channel[t] \o ns
    BY <1>1, <2>1
  <2>3. channel' \in [Turn -> Seq(Event)]
    BY <1>1, <1>5, <2>1
  <2>4. /\ \A u \in Turn \ {t} : channel'[u] = channel[u] /\ sent'[u] = sent[u]
        /\ sent'[t] = sent[t] + Len(kinds) /\ sent' \in [Turn -> Nat]
    BY <1>1, <1>2, <1>4, <2>1
  <2>5. ASSUME NEW i \in 1 .. Len(kinds)
        PROVE  /\ channel'[t][Len(channel[t]) + i].sequence = sent[t] + i - 1
               /\ channel'[t][Len(channel[t]) + i].kind = kinds[i]
    <3>1. channel'[t][Len(channel[t]) + i] = ns[i]
      BY <1>5, <2>2
    <3>2. ns[i].sequence = sent[t] + i - 1 /\ ns[i].kind = kinds[i]
      BY <1>3
    <3> QED BY <3>1, <3>2
  <2> QED BY <1>5, <1>7, <2>2, <2>3, <2>4, <2>5
<1>8. CASE t \notin linked
  BY <1>1, <1>2, <1>4, <1>6, <1>8
<1> QED BY <1>7, <1>8

(* Sending keeps the events in order, if what is sent may be sent.           *)
LEMMA SendsInOrder ==
    ASSUME TypeOK, EventsInOrder, NEW t \in Turn, NEW kinds \in Seq(Kinds), Sends(t, kinds),
           UNCHANGED <<frame, linked>>,
           \A u \in Turn \ {t} : native'[u] = native[u],
           \A i \in 1 .. Len(kinds) :
              /\ kinds[i] = "started" => sent[t] = 0 /\ i = 1
              /\ kinds[i] = "failed" => native'[t] \in {"failed", "cancelled"},
           native[t] \notin {"failed", "cancelled", "completed"},
           native'[t] = "completed" =>
              Len(kinds) = 2 /\ kinds[2] \in Terminal
    PROVE  EventsInOrder'
<1>0. Len(kinds) \in Nat
  OBVIOUS
<1>1. /\ \A u \in Turn \ {t} : channel'[u] = channel[u] /\ sent'[u] = sent[u]
      /\ sent'[t] = sent[t] + Len(kinds)
      /\ t \notin linked => channel'[t] = <<>>
      /\ t \in linked =>
            /\ Len(channel'[t]) = Len(channel[t]) + Len(kinds)
            /\ \A i \in 1 .. Len(channel[t]) : channel'[t][i] = channel[t][i]
            /\ \A i \in 1 .. Len(kinds) :
                  /\ channel'[t][Len(channel[t]) + i].sequence = sent[t] + i - 1
                  /\ channel'[t][Len(channel[t]) + i].kind = kinds[i]
      /\ channel' \in [Turn -> Seq(Event)]
  BY SendsEvents
<1>2. /\ sent[t] \in Nat /\ Len(channel[t]) \in Nat /\ Len(channel[t]) <= sent[t]
      /\ channel'[t] \in Seq(Event)
  BY <1>1 DEF TypeOK, EventsInOrder
<1>b. sent'[t] \in Nat /\ Len(channel'[t]) \in Nat
  BY <1>0, <1>1, <1>2
<1>3. ASSUME NEW i \in 1 .. Len(channel'[t])
      PROVE  /\ channel'[t][i].sequence = sent'[t] - Len(channel'[t]) + i - 1
             /\ Numbered(channel'[t][i])
             /\ channel'[t][i].kind = "failed" => native'[t] \in {"failed", "cancelled"}
             /\ native'[t] = "completed" =>
                   \/ channel'[t][i].kind \in Terminal
                   \/ channel'[t][i].sequence <= sent'[t] - 2
  <2>1. t \in linked
    BY <1>1
  <2>2. channel'[t][i] \in Event
    BY <1>2
  <2>a. i \in Nat /\ i >= 1 /\ i <= Len(channel'[t])
    BY <1>b
  <2>b. /\ sent'[t] = sent[t] + Len(kinds)
        /\ Len(channel'[t]) = Len(channel[t]) + Len(kinds)
    BY <1>1, <2>1
  <2>c. sent'[t] - Len(channel'[t]) = sent[t] - Len(channel[t])
    BY ONLY <1>0, <1>2, <2>b
  <2>3. CASE i \in 1 .. Len(channel[t])
    <3>1. channel'[t][i] = channel[t][i]
      BY <1>1, <2>1, <2>3
    <3>2. /\ channel[t][i].sequence = sent[t] - Len(channel[t]) + i - 1
          /\ Numbered(channel[t][i])
          /\ channel[t][i].kind # "failed"
      BY <2>3 DEF EventsInOrder
    <3>3. channel'[t][i].sequence = sent'[t] - Len(channel'[t]) + i - 1
      BY <2>c, <3>1, <3>2
    <3>4. native'[t] = "completed" => channel'[t][i].sequence <= sent'[t] - 2
      <4>1. channel[t][i].sequence <= sent[t] - 1
        BY <1>2, <2>3, <2>a, <3>2
      <4>2. native'[t] = "completed" => sent'[t] = sent[t] + 2
        BY <1>1
      <4> HIDE DEF EventsInOrder
      <4> QED BY <1>2, <3>1, <3>2, <4>1, <4>2, <2>a
    <3> QED BY <3>1, <3>2, <3>3, <3>4
  <2>4. CASE i \notin 1 .. Len(channel[t])
    <3>1. PICK k \in 1 .. Len(kinds) : i = Len(channel[t]) + k
      <4>1. i - Len(channel[t]) \in 1 .. Len(kinds) /\ i = Len(channel[t]) + (i - Len(channel[t]))
        BY ONLY <1>0, <1>2, <2>a, <2>b, <2>4
      <4> QED BY <4>1
    <3>2. channel'[t][i].sequence = sent[t] + k - 1 /\ channel'[t][i].kind = kinds[k]
      BY <1>1, <2>1, <3>1
    <3>a. k \in Nat
      BY <1>0
    <3>3. channel'[t][i].sequence = sent'[t] - Len(channel'[t]) + i - 1
      <4>1. Len(channel[t]) \in Nat /\ sent[t] \in Nat
        BY <1>2
      <4> QED BY ONLY <2>c, <3>a, <3>1, <3>2, <4>1
    <3>4. Numbered(channel'[t][i])
      BY <1>2, <2>2, <3>2 DEF Numbered
    <3>5. native'[t] = "completed" =>
             \/ channel'[t][i].kind \in Terminal
             \/ channel'[t][i].sequence <= sent'[t] - 2
      <4>1. CASE native'[t] = "completed" /\ k = 1
        <5>1. sent'[t] = sent[t] + 2
          BY <1>1, <4>1
        <5> QED BY <1>2, <3>2, <4>1, <5>1
      <4>2. CASE native'[t] = "completed" /\ k = 2
        BY <3>2, <4>2
      <4>3. native'[t] = "completed" => k = 1 \/ k = 2
        <5>1. native'[t] = "completed" => Len(kinds) = 2
          OBVIOUS
        <5>2. Len(kinds) = 2 => k = 1 \/ k = 2
          BY <3>a
        <5> QED BY <5>1, <5>2
      <4> QED BY <4>1, <4>2, <4>3
    <3> QED BY <3>2, <3>3, <3>4, <3>5
  <2> QED BY <2>3, <2>4
<1>4. Len(channel'[t]) <= sent'[t] /\ (channel'[t] # <<>> => t \in linked)
  BY <1>0, <1>1, <1>2
<1>5. frame' = frame /\ linked' = linked
  OBVIOUS
<1>6. ASSUME NEW u \in Turn \ {t}
      PROVE  /\ channel'[u] = channel[u] /\ sent'[u] = sent[u] /\ native'[u] = native[u]
             /\ linked' = linked
  BY <1>1, <1>5
<1>7. ASSUME NEW u \in Turn \ {t}
      PROVE  /\ Len(channel'[u]) <= sent'[u]
             /\ channel'[u] # <<>> => u \in linked'
             /\ \A i \in 1 .. Len(channel'[u]) :
                   /\ channel'[u][i].sequence = sent'[u] - Len(channel'[u]) + i - 1
                   /\ Numbered(channel'[u][i])
                   /\ channel'[u][i].kind = "failed" => native'[u] \in {"failed", "cancelled"}
                   /\ native'[u] = "completed" =>
                         \/ channel'[u][i].kind \in Terminal
                         \/ channel'[u][i].sequence <= sent'[u] - 2
  BY <1>6 DEF EventsInOrder
<1>8. \A n \in 1 .. Len(frame') : frame'[n].event.kind = "delta"
  BY <1>5 DEF EventsInOrder
<1> QED BY <1>3, <1>4, <1>5, <1>7, <1>8 DEF EventsInOrder

-----------------------------------------------------------------------------
(* What happens to the screen *)

LEMMA FrameIsQueue ==
    ASSUME TypeOK, EventsInOrder
    PROVE  Queue(frame)
<1>1. frame \in Seq(Entry)
  BY DEF TypeOK, Entry
<1>2. ASSUME NEW n \in 1 .. Len(frame) PROVE Numbered(frame[n].event)
  <2>1. frame[n] \in Entry
    BY <1>1
  <2> QED BY <2>1 DEF Entry, Numbered, EventsInOrder
<1> QED BY <1>1, <1>2 DEF Queue

LEMMA QueueGrows ==
    ASSUME NEW q, Queue(q), NEW t \in Turn, NEW e, Numbered(e)
    PROVE  LET r == Append(q, [turn |-> t, event |-> e])
           IN  /\ Queue(r)
               /\ Len(r) = Len(q) + 1
               /\ \A n \in 1 .. Len(q) : r[n] = q[n]
               /\ r[Len(q) + 1].turn = t /\ r[Len(q) + 1].event = e
<1> DEFINE x == [turn |-> t, event |-> e]
           r == Append(q, x)
<1>1. x \in Entry /\ x.turn = t /\ x.event = e
  BY DEF Entry, Numbered
<1>2. q \in Seq(Entry) /\ Len(q) \in Nat
  BY DEF Queue
<1> HIDE DEF x
<1>3. /\ r \in Seq(Entry) /\ Len(r) = Len(q) + 1
      /\ \A n \in 1 .. Len(q) : r[n] = q[n]
      /\ r[Len(q) + 1] = x
  BY <1>1, <1>2, AppendProperties
<1>4. ASSUME NEW n \in 1 .. Len(r) PROVE Numbered(r[n].event)
  <2>1. n \in 1 .. Len(q) \/ n = Len(q) + 1
    BY <1>2, <1>3
  <2> HIDE DEF r
  <2> QED BY <1>1, <1>3, <2>1 DEF Queue
<1> QED BY <1>1, <1>3, <1>4 DEF Queue, x

LEMMA ShowArms ==
    ASSUME TypeOK, NEW v, Show(v)
    PROVE  view' = v /\ timer' \in BOOLEAN
  BY DEF Show, TypeOK

(* A delta waits for the frame; other events are taken with what waits.      *)
LEMMA EmitTakes ==
    ASSUME TypeOK, EventsInOrder, Fine(view), NEW t \in Turn, NEW e, Numbered(e), Emit(t, e),
           home' = home
    PROVE  LET q == Append(frame, [turn |-> t, event |-> e])
           IN  /\ Queue(q) /\ Queue(frame)'
               /\ \A n \in 1 .. Len(frame') : frame'[n].event.kind = "delta"
               /\ Fine(view)' /\ timer' \in BOOLEAN
               /\ \/ e.kind = "delta" /\ frame' = q /\ view' = view
                  \/ e.kind # "delta" /\ frame' = <<>> /\ view' = Reduced(view, q)
<1> DEFINE x == [turn |-> t, event |-> e]
           q == Append(frame, x)
<1>1. Queue(frame)
  BY FrameIsQueue
<1>2. /\ Queue(q) /\ Len(q) = Len(frame) + 1 /\ Len(frame) \in Nat
      /\ \A n \in 1 .. Len(frame) : q[n] = frame[n]
      /\ q[Len(frame) + 1].event = e
  BY <1>1, QueueGrows DEF Queue
<1>3. CASE e.kind = "delta"
  <2>1. frame' = q /\ view' = view /\ timer' = timer
    BY <1>3 DEF Emit
  <2> HIDE DEF q
  <2>2. Queue(frame)'
    BY <1>2, <2>1 DEF Queue, Numbered
  <2>3. ASSUME NEW n \in 1 .. Len(frame') PROVE frame'[n].event.kind = "delta"
    <3>1. n \in 1 .. Len(frame) \/ n = Len(frame) + 1
      BY <1>2, <2>1
    <3> QED BY <1>2, <1>3, <2>1, <3>1 DEF EventsInOrder
  <2>4. Fine(view)'
    BY <2>1 DEF Fine
  <2> QED BY <1>2, <1>3, <2>1, <2>2, <2>3, <2>4 DEF TypeOK, q
<1>4. CASE e.kind # "delta"
  <2>1. frame' = <<>> /\ Show(Reduced(view, q))
    BY <1>4 DEF Emit
  <2>2. view' = Reduced(view, q) /\ timer' \in BOOLEAN
    BY <2>1, ShowArms
  <2>3. Fine(Reduced(view, q))
    <3> HIDE DEF q
    <3> QED BY <1>2, ReducedTakes DEF TakesAll
  <2> HIDE DEF q
  <2>4. Fine(view)'
    BY <2>2, <2>3 DEF Fine
  <2>5. Queue(frame)' /\ Len(frame') = 0
    BY <2>1 DEF Queue, Numbered
  <2> QED BY <1>2, <1>4, <2>1, <2>2, <2>4, <2>5 DEF q
<1> QED BY <1>3, <1>4

(* After it the turn is not the active one.                                  *)
LEMMA SettleTakes ==
    ASSUME TypeOK, Fine(view), NEW t \in Turn, NEW outcome \in Terminal, SettleTurn(t, outcome),
           home' = home
    PROVE  /\ frame' = frame /\ timer' \in BOOLEAN
           /\ Fine(view)'
           /\ view'.active # t
           /\ \/ view' = view
              \/ /\ view.active = t
                 /\ \E e : e.kind = outcome /\ Takes(view', view, t, e)
<1> DEFINE w == Settled(view, t, outcome)
           e == [sequence |-> view.next[t], kind |-> outcome]
<1>1. frame' = frame /\ view' = w /\ timer' \in BOOLEAN
  BY ShowArms DEF SettleTurn
<1>2. t # NoTurn
  BY ThreadAssumption
<1>3. CASE view.active = t
  <2>1. view.turns[t] = "running" /\ home[t] = view.thread
    BY <1>2, <1>3 DEF Fine
  <2>2. w = Reduce(view, t, e)
    BY <1>3, <2>1 DEF Settled
  <2>3. e \in Event /\ e.kind = outcome /\ e.sequence = view.next[t] /\ view.next[t] \in Nat
    BY DEF Event, Kinds, Fine, View, Terminal
  <2> HIDE DEF e, w
  <2>4. w = Flush(view, t, e)
    BY <2>1, <2>2, <2>3 DEF Reduce
  <2>5. Takes(w, view, t, e) /\ w.active # t
    BY <2>1, <2>3, <2>4, FlushTakes
  <2>6. Fine(view)'
    BY <1>1, <2>5 DEF Takes, Fine
  <2> QED BY <1>1, <1>3, <2>3, <2>5, <2>6
<1>4. CASE view.active # t
  <2>1. w = view
    BY <1>4 DEF Settled
  <2> HIDE DEF w
  <2>2. Fine(view)'
    BY <1>1, <2>1 DEF Fine
  <2> QED BY <1>1, <1>4, <2>1, <2>2
<1> QED BY <1>3, <1>4

LEMMA ShownIsFine ==
    ASSUME NEW th \in Thread, NEW record \in Record
    PROVE  /\ Fine(Shown(th, record))
           /\ Shown(th, record).thread = th /\ Shown(th, record).turns = record
           /\ Shown(th, record).active = NoTurn
           /\ \A t \in Turn : /\ Shown(th, record).pending[t] = {}
                              /\ Shown(th, record).next[t] = 0
<1> DEFINE w == Shown(th, record)
<1>1. /\ w.thread = th /\ w.turns = record /\ w.active = NoTurn
      /\ \A t \in Turn : w.pending[t] = {} /\ w.next[t] = 0
  BY DEF Shown
<1>2. record \in [Turn -> Status]
  BY DEF Record, Status, Terminal
<1>3. w \in View
  BY <1>2 DEF Shown, View, Approval
<1> HIDE DEF w
<1>4. Fine(w)
  BY <1>1, <1>3, FS_EmptySet DEF Fine
<1> QED BY <1>1, <1>4 DEF w

LEMMA EmptyIsRecord == Empty \in Record
  BY DEF Empty, Record

LEMMA PersistedIsRecord ==
    ASSUME NEW v, v \in View
    PROVE  Persisted(v) \in Record
  BY DEF Persisted, Record

-----------------------------------------------------------------------------
(* Every step keeps the events in order *)

ViewSame == UNCHANGED <<view, home>>
LEMMA SameIsFine == Fine(view) /\ ViewSame => Fine(view)'
  BY DEF Fine, ViewSame

LEMMA SameInOrder ==
    ASSUME EventsInOrder, UNCHANGED <<frame, channel, sent, linked, native>>
    PROVE  EventsInOrder'
  BY DEF EventsInOrder

LEMMA DeletionStays == DeletionIsIdle /\ deleting' = deleting => DeletionIsIdle'
  BY DEF DeletionIsIdle, Fine

LEMMA SubmitKeepsEvents ==
    ASSUME EventInv, NEW t \in Turn, SubmitFirst(t) \/ SubmitNext(t) \/ TitleSaved(t)
    PROVE  EventInv'
<1> USE DEF EventInv
<1>1. CASE SubmitFirst(t)
  <2>1. /\ pc[t] = "new" /\ view.active = NoTurn /\ home' = [home EXCEPT ![t] = view.thread]
        /\ pc' = [pc EXCEPT ![t] = "titling"]
        /\ saved' = [saved EXCEPT ![view.thread] = Persisted(view)]
        /\ timer' = TRUE
        /\ UNCHANGED <<native, sent, channel, answered, panelVars, frame, view,
                       used, resuming, deleting, deletedIds, gone>>
    BY <1>1 DEF SubmitFirst, Submits, Save
  <2>2. Fine(view)' /\ view.thread \in Thread /\ Persisted(view) \in Record
    BY <2>1, PersistedIsRecord DEF Fine, View
  <2>3. TypeOK'
    BY <2>1, <2>2 DEF TypeOK, panelVars
  <2>4. EventsInOrder'
    BY <2>1, SameInOrder DEF panelVars
  <2>5. Phases'
    BY <2>1 DEF Phases, panelVars, TypeOK
  <2> QED BY <2>1, <2>2, <2>3, <2>4, <2>5, DeletionStays
<1>2. CASE SubmitNext(t) \/ TitleSaved(t)
  <2>1. /\ pc[t] \in {"new", "titling"}
        /\ home' \in [Turn -> Thread] /\ (view.active # NoTurn => home' = home)
        /\ pc' = [pc EXCEPT ![t] = "running"]
        /\ linked' = linked \cup {t}
        /\ UNCHANGED <<native, sent, channel, answered, gaveUp, cancels, deciding,
                       threadVars, historyVars>>
    BY <1>2 DEF SubmitNext, TitleSaved, Submits, StartTurn, TypeOK, Fine, View
  <2>2. Fine(view)'
    BY <2>1 DEF Fine, threadVars
  <2>3. TypeOK'
    BY <2>1 DEF TypeOK, threadVars, historyVars
  <2>4. EventsInOrder'
    BY <2>1 DEF EventsInOrder, threadVars
  <2>5. Phases'
    BY <2>1 DEF Phases, TypeOK
  <2> QED BY <2>1, <2>2, <2>3, <2>4, <2>5, DeletionStays DEF historyVars
<1> QED BY <1>1, <1>2

LEMMA NativeKeepsEvents ==
    ASSUME EventInv, NEW t \in Turn, Native(t)
    PROVE  EventInv'
<1> USE DEF EventInv
<1>0. /\ UNCHANGED <<pc, home, panelVars, threadVars, historyVars>>
      /\ native' = [native EXCEPT ![t] = native'[t]]
  BY DEF Native, NativeStarts, NativeRefuses, NativeSends, NativeAsks, NativeCompletes,
         NativeFails, NativeIsCancelled, Ends, TypeOK
<1>1. Fine(view)'
  BY <1>0, SameIsFine DEF ViewSame, threadVars
<1>2. CASE NativeRefuses(t)
  <2>1. /\ pc[t] = "running" /\ native[t] = "idle"
        /\ native' = [native EXCEPT ![t] = "failed"] /\ answered' = answered \cup {t}
        /\ UNCHANGED <<sent, channel>>
    BY <1>2 DEF NativeRefuses
  <2>2. TypeOK'
    BY <1>0, <2>1 DEF TypeOK, panelVars, threadVars, historyVars, Terminal
  <2>3. EventsInOrder'
    BY <1>0, <2>1 DEF EventsInOrder, panelVars, threadVars, TypeOK
  <2>4. Phases'
    BY <1>0, <2>1 DEF Phases, panelVars, TypeOK, Terminal
  <2> QED BY <1>0, <1>1, <2>2, <2>3, <2>4, DeletionStays DEF historyVars
<1> DEFINE MaySend(kinds) ==
              /\ kinds \in Seq(Kinds) /\ Len(kinds) >= 1
              /\ Sends(t, kinds)
              /\ \A i \in 1 .. Len(kinds) :
                    /\ kinds[i] = "started" => i = 1 /\ sent[t] = 0
                    /\ kinds[i] = "failed" => native'[t] \in {"failed", "cancelled"}
              /\ native'[t] = "completed" =>
                    Len(kinds) = 2 /\ kinds[2] \in Terminal /\ native[t] = "running"
              /\ native[t] \notin {"failed", "cancelled", "completed"}
              /\ pc[t] \notin {"new", "titling"}
              /\ native'[t] \in {"running", "approving", "completed", "failed", "cancelled"}
              /\ \/ answered' = answered
                 \/ answered' = answered \cup {t} /\ native'[t] \in Terminal
<1>3. ASSUME NEW kinds, MaySend(kinds)
      PROVE  EventInv'
  <2>1. /\ channel' \in [Turn -> Seq(Event)] /\ sent' \in [Turn -> Nat]
        /\ \A u \in Turn \ {t} : channel'[u] = channel[u] /\ sent'[u] = sent[u]
        /\ sent'[t] = sent[t] + Len(kinds)
    BY <1>3, SendsEvents
  <2>2. TypeOK'
    <3>1. native' \in [Turn -> {"idle", "running", "approving"} \cup Terminal]
      BY <1>0, <1>3 DEF TypeOK, Terminal
    <3>2. answered' \subseteq Turn
      BY <1>3 DEF TypeOK
    <3> HIDE DEF MaySend
    <3> QED BY <1>0, <2>1, <3>1, <3>2 DEF TypeOK, panelVars, threadVars, historyVars
  <2>3. \A u \in Turn \ {t} : native'[u] = native[u]
    BY <1>0 DEF TypeOK
  <2>4. EventsInOrder'
    <3>1. UNCHANGED <<frame, linked>>
      BY <1>0 DEF panelVars, threadVars
    <3>2. /\ kinds \in Seq(Kinds) /\ Sends(t, kinds)
          /\ native[t] \notin {"failed", "cancelled", "completed"}
          /\ native'[t] = "completed" => Len(kinds) = 2 /\ kinds[2] \in Terminal
      BY <1>3
    <3>3. \A i \in 1 .. Len(kinds) :
             /\ kinds[i] = "started" => sent[t] = 0 /\ i = 1
             /\ kinds[i] = "failed" => native'[t] \in {"failed", "cancelled"}
      BY <1>3
    <3> HIDE DEF MaySend
    <3> QED BY <2>3, <3>1, <3>2, <3>3, SendsInOrder
  <2>5. Len(kinds) \in Nat /\ sent[t] \in Nat
    BY <1>3 DEF TypeOK
  <2>6. \A u \in Turn : native'[u] = "idle" => u # t
    BY <1>3
  <2>7. Phases'
    <3> SUFFICES ASSUME NEW u \in Turn
                 PROVE  /\ u \in linked' => pc'[u] = "running"
                        /\ pc'[u] \in {"new", "titling"} \/ native'[u] = "idle" => sent'[u] = 0
                        /\ pc'[u] \in {"new", "titling"} => native'[u] = "idle"
                        /\ native'[u] \in {"running", "approving", "cancelled"} => sent'[u] >= 1
                        /\ native'[u] = "completed" => sent'[u] >= 3
                        /\ u \in answered' \/ pc'[u] \in {"disposing", "over"}
                              => native'[u] \in Terminal
      BY DEF Phases
    <3>1. CASE u # t
      BY <1>0, <1>3, <2>1, <2>3, <3>1 DEF Phases, panelVars
    <3>2. CASE u = t
      <4>1. sent'[t] >= 1
        BY <1>3, <2>1, <2>5
      <4>2. native'[t] = "completed" => sent'[t] >= 3
        <5>1. native'[t] = "completed" => sent'[t] = sent[t] + 2 /\ sent[t] >= 1
          BY <1>3, <2>1 DEF Phases
        <5> QED BY <2>5, <5>1
      <4>3. linked' = linked /\ pc' = pc
        BY <1>0 DEF panelVars
      <4>4. t \in answered' \/ pc[t] \in {"disposing", "over"} => native'[t] \in Terminal
        BY <1>3 DEF Phases, Terminal
      <4> QED BY <1>3, <2>6, <3>2, <4>1, <4>2, <4>3, <4>4 DEF Phases
    <3> QED BY <3>1, <3>2
  <2>8. DeletionIsIdle'
    BY <1>0, DeletionStays DEF historyVars
  <2> QED BY <1>1, <2>2, <2>4, <2>7, <2>8
<1>4. CASE NativeStarts(t)
  <2>1. <<"started">> \in Seq(Kinds) /\ Sends(t, <<"started">>)
    BY <1>4 DEF NativeStarts, Kinds
  <2>2. pc[t] = "running" /\ native[t] = "idle" /\ native'[t] = "running" /\ answered' = answered
    BY <1>4 DEF NativeStarts, TypeOK
  <2>3. sent[t] = 0
    BY <2>2 DEF Phases
  <2>4. Len(<<"started">>) = 1 /\ <<"started">>[1] = "started"
    OBVIOUS
  <2>5. MaySend(<<"started">>)
    BY <2>1, <2>2, <2>3, <2>4 DEF Terminal
  <2> HIDE DEF MaySend
  <2> QED BY <1>3, <2>5
<1>5. CASE NativeSends(t)
  <2>1. <<"delta">> \in Seq(Kinds) /\ Sends(t, <<"delta">>)
    BY <1>5 DEF NativeSends, Kinds
  <2>2. native[t] = "running" /\ native'[t] = "running" /\ answered' = answered
    BY <1>5 DEF NativeSends
  <2>3. pc[t] \notin {"new", "titling"}
    BY <2>2 DEF Phases
  <2>4. Len(<<"delta">>) = 1 /\ <<"delta">>[1] = "delta"
    OBVIOUS
  <2>5. MaySend(<<"delta">>)
    BY <2>1, <2>2, <2>3, <2>4 DEF Terminal
  <2> HIDE DEF MaySend
  <2> QED BY <1>3, <2>5
<1>6. CASE NativeAsks(t)
  <2>1. <<"approvalRequested">> \in Seq(Kinds) /\ Sends(t, <<"approvalRequested">>)
    BY <1>6 DEF NativeAsks, Kinds
  <2>2. native[t] = "running" /\ native'[t] = "approving" /\ answered' = answered
    BY <1>6 DEF NativeAsks, TypeOK
  <2>3. pc[t] \notin {"new", "titling"}
    BY <2>2 DEF Phases
  <2>4. Len(<<"approvalRequested">>) = 1 /\ <<"approvalRequested">>[1] = "approvalRequested"
    OBVIOUS
  <2>5. MaySend(<<"approvalRequested">>)
    BY <2>1, <2>2, <2>3, <2>4 DEF Terminal
  <2> HIDE DEF MaySend
  <2> QED BY <1>3, <2>5
<1>7. CASE NativeCompletes(t)
  <2>1. <<"item", "completed">> \in Seq(Kinds) /\ Sends(t, <<"item", "completed">>)
    BY <1>7 DEF NativeCompletes, Ends, Kinds, Terminal
  <2>2. native[t] = "running" /\ native'[t] = "completed" /\ answered' = answered \cup {t}
    BY <1>7 DEF NativeCompletes, Ends, TypeOK
  <2>3. pc[t] \notin {"new", "titling"}
    BY <2>2 DEF Phases
  <2>4. /\ Len(<<"item", "completed">>) = 2 /\ <<"item", "completed">>[1] = "item"
        /\ <<"item", "completed">>[2] = "completed"
    OBVIOUS
  <2>5. MaySend(<<"item", "completed">>)
    BY <2>1, <2>2, <2>3, <2>4 DEF Terminal
  <2> HIDE DEF MaySend
  <2> QED BY <1>3, <2>5
<1>8. CASE NativeFails(t)
  <2>1. <<"failed">> \in Seq(Kinds) /\ Sends(t, <<"failed">>)
    BY <1>8 DEF NativeFails, Ends, Kinds, Terminal
  <2>2. native[t] = "running" /\ native'[t] = "failed" /\ answered' = answered \cup {t}
    BY <1>8 DEF NativeFails, Ends, TypeOK
  <2>3. pc[t] \notin {"new", "titling"}
    BY <2>2 DEF Phases
  <2>4. Len(<<"failed">>) = 1 /\ <<"failed">>[1] = "failed"
    OBVIOUS
  <2>5. MaySend(<<"failed">>)
    BY <2>1, <2>2, <2>3, <2>4 DEF Terminal
  <2> HIDE DEF MaySend
  <2> QED BY <1>3, <2>5
<1>9. CASE NativeIsCancelled(t)
  <2>1. <<"cancelled">> \in Seq(Kinds) /\ Sends(t, <<"cancelled">>)
    BY <1>9 DEF NativeIsCancelled, Ends, Kinds, Terminal
  <2>2. /\ native[t] \in {"running", "approving"} /\ native'[t] = "cancelled"
        /\ answered' = answered \cup {t}
    BY <1>9 DEF NativeIsCancelled, Ends, TypeOK
  <2>3. pc[t] \notin {"new", "titling"}
    BY <2>2 DEF Phases
  <2>4. Len(<<"cancelled">>) = 1 /\ <<"cancelled">>[1] = "cancelled"
    OBVIOUS
  <2>5. MaySend(<<"cancelled">>)
    BY <2>1, <2>2, <2>3, <2>4 DEF Terminal
  <2> HIDE DEF MaySend
  <2> QED BY <1>3, <2>5
<1> QED BY <1>2, <1>4, <1>5, <1>6, <1>7, <1>8, <1>9 DEF Native

LEMMA UnlinkKeepsOrder ==
    ASSUME TypeOK, EventsInOrder, NEW t \in Turn, Unlink(t), UNCHANGED <<sent, native>>,
           \A n \in 1 .. Len(frame') : frame'[n].event.kind = "delta"
    PROVE  /\ EventsInOrder'
           /\ channel' \in [Turn -> Seq(Event)] /\ linked' \subseteq linked
           /\ channel'[t] = <<>> /\ \A u \in Turn \ {t} : channel'[u] = channel[u]
<1>1. /\ linked' = linked \ {t} /\ channel' = [channel EXCEPT ![t] = <<>>]
      /\ channel \in [Turn -> Seq(Event)] /\ sent \in [Turn -> Nat]
  BY DEF Unlink, TypeOK
<1>2. channel' \in [Turn -> Seq(Event)]
  BY <1>1
<1>3. channel'[t] = <<>> /\ \A u \in Turn \ {t} : channel'[u] = channel[u]
  BY <1>1
<1>4. EventsInOrder'
  BY <1>1, <1>3 DEF EventsInOrder
<1> QED BY <1>1, <1>2, <1>3, <1>4

LEMMA StopKeepsEvents ==
    ASSUME EventInv, NEW t \in Turn,
           Cancel(t) \/ CancelReplies(t) \/ Decide(t) \/ SubmitEnds(t)
    PROVE  EventInv'
<1> USE DEF EventInv
<1>1. CASE Cancel(t)
  <2>1. /\ gaveUp' = gaveUp \cup {t} /\ cancels' = cancels \cup {t}
        /\ UNCHANGED <<turnVars, linked, deciding, threadVars, historyVars>>
    BY <1>1 DEF Cancel
  <2>2. TypeOK'
    BY <2>1 DEF TypeOK, turnVars, threadVars, historyVars
  <2>3. Fine(view)'
    BY <2>1, SameIsFine DEF ViewSame, turnVars, threadVars
  <2>4. EventsInOrder' /\ Phases'
    BY <2>1, SameInOrder DEF Phases, turnVars, threadVars
  <2> QED BY <2>1, <2>2, <2>3, <2>4, DeletionStays DEF historyVars
<1>2. CASE CancelReplies(t)
  <2>1. /\ cancels' = cancels \ {t} /\ Unlink(t) /\ SettleTurn(t, "cancelled")
        /\ UNCHANGED <<pc, home, native, sent, answered, gaveUp, deciding, historyVars>>
    BY <1>2 DEF CancelReplies
  <2>2. frame' = frame /\ timer' \in BOOLEAN /\ Fine(view)'
    BY <2>1, SettleTakes DEF Terminal
  <2>3. EventsInOrder' /\ channel' \in [Turn -> Seq(Event)] /\ linked' \subseteq linked
    BY <2>1, <2>2, UnlinkKeepsOrder DEF EventsInOrder
  <2>4. TypeOK'
    BY <2>1, <2>2, <2>3 DEF TypeOK, historyVars, Fine
  <2>5. Phases'
    BY <2>1, <2>3 DEF Phases
  <2> QED BY <2>1, <2>2, <2>3, <2>4, <2>5, DeletionStays DEF historyVars
<1>3. CASE Decide(t)
  <2>1. /\ native[t] = "approving" /\ native' = [native EXCEPT ![t] = "running"]
        /\ deciding' = deciding \cup {[turn |-> t, sequence |-> view.next[t]]}
        /\ UNCHANGED <<pc, home, sent, channel, answered, linked, gaveUp, cancels,
                       threadVars, historyVars>>
    BY <1>3 DEF Decide
  <2>2. Fine(view)'
    BY <2>1, SameIsFine DEF ViewSame, threadVars
  <2>3. TypeOK'
    <3>1. [turn |-> t, sequence |-> view.next[t]] \in [turn : Turn, sequence : Nat]
      BY DEF Fine, View
    <3> QED BY <2>1, <3>1 DEF TypeOK, threadVars, historyVars, Terminal
  <2>4. \A u \in Turn : native'[u] = IF u = t THEN "running" ELSE native[u]
    BY <2>1 DEF TypeOK
  <2>5. EventsInOrder'
    BY <2>1, <2>4 DEF EventsInOrder, threadVars
  <2>6. Phases'
    BY <2>1, <2>4 DEF Phases, Terminal
  <2> QED BY <2>1, <2>2, <2>3, <2>5, <2>6, DeletionStays DEF historyVars
<1>4. CASE SubmitEnds(t)
  <2>1. /\ pc[t] = "disposing" /\ pc' = [pc EXCEPT ![t] = "over"]
        /\ gaveUp' = gaveUp \ {t}
        /\ \E outcome \in Terminal : SettleTurn(t, outcome)
        /\ UNCHANGED <<home, native, sent, channel, answered, linked, cancels,
                       deciding, historyVars>>
    BY <1>4 DEF SubmitEnds, Terminal
  <2>2. frame' = frame /\ timer' \in BOOLEAN /\ Fine(view)'
    BY <2>1, SettleTakes
  <2>3. TypeOK'
    BY <2>1, <2>2 DEF TypeOK, historyVars, Fine
  <2>4. EventsInOrder'
    BY <2>1, <2>2, SameInOrder
  <2>5. Phases'
    BY <2>1 DEF Phases, TypeOK
  <2> QED BY <2>1, <2>2, <2>3, <2>4, <2>5, DeletionStays DEF historyVars
<1> QED BY <1>1, <1>2, <1>3, <1>4

LEMMA DeliverKeepsEvents ==
    ASSUME EventInv, NEW t \in Turn, Deliver(t)
    PROVE  /\ EventInv'
           /\ Numbered(Head(channel[t])) /\ t \in linked
           /\ Head(channel[t]).sequence = sent[t] - Len(channel[t])
           /\ Len(channel'[t]) = Len(channel[t]) - 1
           /\ \A u \in Turn \ {t} : channel'[u] = channel[u]
           /\ Head(channel[t]) = channel[t][1] /\ 1 \in 1 .. Len(channel[t])
           /\ \A i \in 1 .. Len(channel'[t]) :
                 channel'[t][i] = channel[t][i + 1] /\ i + 1 \in 1 .. Len(channel[t])
<1> USE DEF EventInv
<1>1. /\ channel[t] # <<>>
      /\ channel' = [channel EXCEPT ![t] = Tail(channel[t])]
      /\ Emit(t, Head(channel[t]))
      /\ UNCHANGED <<pc, home, native, sent, answered, panelVars, historyVars>>
      /\ channel \in [Turn -> Seq(Event)] /\ channel[t] \in Seq(Event)
      /\ sent[t] \in Nat
  BY DEF Deliver, TypeOK
<1>2. /\ Len(channel[t]) \in Nat /\ Len(channel[t]) >= 1
      /\ Head(channel[t]) = channel[t][1]
      /\ Tail(channel[t]) \in Seq(Event)
      /\ Len(Tail(channel[t])) = Len(channel[t]) - 1
      /\ \A i \in 1 .. Len(channel[t]) - 1 : Tail(channel[t])[i] = channel[t][i + 1]
  BY <1>1
<1>3. /\ channel'[t] = Tail(channel[t]) /\ channel' \in [Turn -> Seq(Event)]
      /\ \A u \in Turn \ {t} : channel'[u] = channel[u]
  BY <1>1, <1>2
<1>4. /\ 1 \in 1 .. Len(channel[t])
      /\ channel[t][1].sequence = sent[t] - Len(channel[t]) + 1 - 1
      /\ Numbered(channel[t][1]) /\ t \in linked
      /\ Len(channel[t]) <= sent[t]
  BY <1>1, <1>2 DEF EventsInOrder
<1>5. \A i \in 1 .. Len(channel'[t]) :
        channel'[t][i] = channel[t][i + 1] /\ i + 1 \in 1 .. Len(channel[t]) /\ i \in Nat
  BY <1>2, <1>3
<1>6. /\ Queue(frame)' /\ Fine(view)' /\ timer' \in BOOLEAN
      /\ \A n \in 1 .. Len(frame') : frame'[n].event.kind = "delta"
  <2>1. home' = home
    BY <1>1
  <2> QED BY <1>1, <1>2, <1>4, <2>1, EmitTakes
<1>7. TypeOK'
  <2>1. frame' \in Seq([turn : Turn, event : Event])
    BY <1>6 DEF Queue, Entry
  <2> QED BY <1>1, <1>3, <1>6, <2>1 DEF TypeOK, panelVars, historyVars, Fine
<1>8. EventsInOrder'
  <2>1. \A i \in 1 .. Len(channel'[t]) :
          /\ channel'[t][i].sequence = sent[t] - Len(channel'[t]) + i - 1
          /\ Numbered(channel'[t][i])
          /\ channel'[t][i].kind = "failed" => native[t] \in {"failed", "cancelled"}
          /\ native[t] = "completed" =>
                \/ channel'[t][i].kind \in Terminal
                \/ channel'[t][i].sequence <= sent[t] - 2
    <3> SUFFICES ASSUME NEW i \in 1 .. Len(channel'[t])
                 PROVE  /\ channel'[t][i].sequence = sent[t] - Len(channel'[t]) + i - 1
                        /\ Numbered(channel'[t][i])
                        /\ channel'[t][i].kind = "failed" => native[t] \in {"failed", "cancelled"}
                        /\ native[t] = "completed" =>
                              \/ channel'[t][i].kind \in Terminal
                              \/ channel'[t][i].sequence <= sent[t] - 2
      OBVIOUS
    <3>1. channel'[t][i] = channel[t][i + 1] /\ i + 1 \in 1 .. Len(channel[t]) /\ i \in Nat
      BY <1>5
    <3>2. channel[t][i + 1].sequence = sent[t] - Len(channel[t]) + (i + 1) - 1
      BY <3>1 DEF EventsInOrder
    <3>3. channel'[t][i].sequence = sent[t] - Len(channel'[t]) + i - 1
      BY <1>1, <1>2, <1>3, <3>1, <3>2
    <3> QED BY <3>1, <3>3 DEF EventsInOrder
  <2>2. Len(channel'[t]) <= sent[t]
    BY <1>1, <1>2, <1>3, <1>4
  <2>3. sent' = sent /\ native' = native /\ linked' = linked
    BY <1>1 DEF panelVars
  <2>4. t \in linked
    BY <1>4
  <2>5. ASSUME NEW u \in Turn \ {t}
        PROVE  /\ Len(channel'[u]) <= sent'[u]
               /\ channel'[u] # <<>> => u \in linked'
               /\ \A i \in 1 .. Len(channel'[u]) :
                     /\ channel'[u][i].sequence = sent'[u] - Len(channel'[u]) + i - 1
                     /\ Numbered(channel'[u][i])
                     /\ channel'[u][i].kind = "failed" => native'[u] \in {"failed", "cancelled"}
                     /\ native'[u] = "completed" =>
                           \/ channel'[u][i].kind \in Terminal
                           \/ channel'[u][i].sequence <= sent'[u] - 2
    <3>1. channel'[u] = channel[u]
      BY <1>3
    <3> QED BY <2>3, <3>1 DEF EventsInOrder
  <2> QED BY <1>6, <2>1, <2>2, <2>3, <2>4, <2>5 DEF EventsInOrder
<1>9. Phases'
  BY <1>1 DEF Phases, panelVars
<1>10. channel[t][1].sequence = sent[t] - Len(channel[t])
  BY <1>1, <1>2, <1>4
<1>11. DeletionIsIdle'
  BY <1>1, DeletionStays DEF historyVars
<1> QED BY <1>2, <1>3, <1>4, <1>5, <1>6, <1>7, <1>8, <1>9, <1>10, <1>11

(* The number of the completion that a reply stands for.                     *)
Completion(t) == [sequence |-> sent[t] - 1, kind |-> "completed"]

LEMMA RepliesKeepsEvents ==
    ASSUME EventInv, NEW t \in Turn, Replies(t)
    PROVE  /\ EventInv'
           /\ native[t] = "completed" => Numbered(Completion(t))
<1> USE DEF EventInv
<1>1. /\ pc[t] = "running" /\ t \in answered /\ answered' = answered \ {t}
      /\ Unlink(t) /\ pc' = [pc EXCEPT ![t] = "disposing"]
      /\ IF native[t] = "completed" THEN Emit(t, Completion(t)) ELSE UNCHANGED threadVars
      /\ UNCHANGED <<home, native, sent, gaveUp, cancels, deciding, historyVars>>
  BY DEF Replies, SettledNumber, Completion
<1>2. native[t] = "completed" => Numbered(Completion(t))
  BY DEF Phases, TypeOK, Numbered, Completion, Event, Kinds, Terminal
<1>3. /\ Queue(frame)' /\ Fine(view)' /\ timer' \in BOOLEAN
      /\ \A n \in 1 .. Len(frame') : frame'[n].event.kind = "delta"
  <2>1. home' = home
    BY <1>1
  <2>2. CASE native[t] = "completed"
    <3> HIDE DEF Completion
    <3> QED BY <1>1, <1>2, <2>1, <2>2, EmitTakes
  <2>3. CASE native[t] # "completed"
    <3>1. UNCHANGED threadVars
      BY <1>1, <2>3
    <3>2. Fine(view)'
      BY <1>1, <3>1, SameIsFine DEF threadVars, ViewSame
    <3>3. frame' = frame /\ Queue(frame)
      BY <3>1, FrameIsQueue DEF threadVars
    <3> QED BY <3>1, <3>2, <3>3 DEF threadVars, Queue, Numbered, TypeOK, EventsInOrder
  <2> QED BY <2>2, <2>3
<1>4. EventsInOrder' /\ channel' \in [Turn -> Seq(Event)] /\ linked' = linked \ {t}
  BY <1>1, <1>3, UnlinkKeepsOrder DEF Unlink
<1>5. TypeOK'
  <2>1. frame' \in Seq([turn : Turn, event : Event])
    BY <1>3 DEF Queue, Entry
  <2> QED BY <1>1, <1>3, <1>4, <2>1 DEF TypeOK, historyVars, Fine
<1>6. Phases'
  BY <1>1, <1>4 DEF Phases, TypeOK
<1>7. DeletionIsIdle'
  BY <1>1, DeletionStays DEF historyVars
<1> QED BY <1>2, <1>3, <1>4, <1>5, <1>6, <1>7

Resolution(d) == [sequence |-> d.sequence, kind |-> "approvalResolved"]

LEMMA DecisionKeepsEvents ==
    ASSUME EventInv, NEW d \in deciding, DecisionReplies(d)
    PROVE  EventInv' /\ d.turn \in Turn /\ Numbered(Resolution(d))
<1> USE DEF EventInv
<1>1. /\ deciding' = deciding \ {d} /\ Emit(d.turn, Resolution(d))
      /\ UNCHANGED <<turnVars, linked, gaveUp, cancels, historyVars>>
  BY DEF DecisionReplies, Resolution
<1>2. d.turn \in Turn /\ Numbered(Resolution(d))
  BY DEF TypeOK, Numbered, Resolution, Event, Kinds
<1>3. /\ Queue(frame)' /\ Fine(view)' /\ timer' \in BOOLEAN
      /\ \A n \in 1 .. Len(frame') : frame'[n].event.kind = "delta"
  <2>1. home' = home
    BY <1>1 DEF turnVars
  <2> HIDE DEF Resolution
  <2> QED BY <1>1, <1>2, <2>1, EmitTakes
<1>4. TypeOK'
  <2>1. frame' \in Seq([turn : Turn, event : Event])
    BY <1>3 DEF Queue, Entry
  <2> QED BY <1>1, <1>3, <2>1 DEF TypeOK, turnVars, historyVars, Fine
<1>5. EventsInOrder' /\ Phases'
  BY <1>1, <1>3 DEF EventsInOrder, Phases, turnVars
<1>6. DeletionIsIdle'
  BY <1>1, DeletionStays DEF historyVars
<1> QED BY <1>2, <1>3, <1>4, <1>5, <1>6

LEMMA FrameKeepsEvents ==
    ASSUME EventInv, Frame
    PROVE  EventInv' /\ view' = Reduced(view, frame) /\ Queue(frame)
<1> USE DEF EventInv
<1>1. /\ frame' = <<>> /\ view' = Reduced(view, frame) /\ timer' \in BOOLEAN
      /\ UNCHANGED <<turnVars, panelVars, historyVars>>
  BY ShowArms DEF Frame
<1>2. Queue(frame)
  BY FrameIsQueue
<1>3. Fine(Reduced(view, frame))
  BY <1>2, ReducedTakes DEF TakesAll
<1>4. Fine(view)'
  BY <1>1, <1>3 DEF Fine, turnVars
<1>5. frame' \in Seq([turn : Turn, event : Event]) /\ Len(frame') = 0
  BY <1>1
<1>6. TypeOK'
  BY <1>1, <1>4, <1>5 DEF TypeOK, turnVars, panelVars, historyVars, Fine
<1>7. EventsInOrder' /\ Phases'
  BY <1>1, <1>5 DEF EventsInOrder, Phases, turnVars, panelVars
<1>8. DeletionIsIdle'
  BY <1>1, DeletionStays DEF historyVars
<1> QED BY <1>1, <1>2, <1>4, <1>6, <1>7, <1>8

LEMMA HistoryKeepsEvents ==
    ASSUME EventInv, History
    PROVE  EventInv'
<1> USE DEF EventInv
<1>1. CASE TimerFires
  <2>1. /\ timer' = FALSE /\ saved' \in {saved, [saved EXCEPT ![view.thread] = Persisted(view)]}
        /\ UNCHANGED <<turnVars, panelVars, frame, view, used, resuming, deleting, deletedIds,
                       gone>>
    BY <1>1 DEF TimerFires, Save
  <2>2. Persisted(view) \in Record
    BY PersistedIsRecord DEF Fine
  <2>a. saved' \in [Thread -> Record \cup {NoRecord}]
    <3>1. CASE saved' = saved
      BY <3>1 DEF TypeOK
    <3>2. CASE saved' = [saved EXCEPT ![view.thread] = Persisted(view)]
      BY <2>2, <3>2 DEF TypeOK
    <3> QED BY <2>1, <3>1, <3>2
  <2>3. TypeOK'
    BY <2>1, <2>a DEF TypeOK, turnVars, panelVars
  <2>4. Fine(view)'
    BY <2>1, SameIsFine DEF ViewSame, turnVars
  <2>5. EventsInOrder' /\ Phases'
    BY <2>1, SameInOrder DEF Phases, turnVars, panelVars
  <2> QED BY <2>1, <2>3, <2>4, <2>5, DeletionStays
<1>2. ASSUME NEW v, Fine(v), Show(v),
             frame' = frame \/ frame' = <<>>,
             UNCHANGED <<turnVars, panelVars>>,
             saved' \in [Thread -> Record \cup {NoRecord}], used' \subseteq Thread,
             resuming' \in [thread : Thread, record : Record] \cup {NoRecord},
             deletedIds' \subseteq Thread, gone' \subseteq Thread,
             \/ deleting' \in {deleting, NoRecord}
             \/ /\ deleting' \in Deletion /\ deleting'.old = view
                /\ view.active = NoTurn
      PROVE  EventInv'
  <2>1. view' = v /\ timer' \in BOOLEAN
    BY <1>2, ShowArms
  <2>2. DeletionIsIdle'
    <3>1. CASE deleting' = deleting
      BY <3>1, DeletionStays
    <3>2. CASE deleting' = NoRecord
      BY <3>2 DEF DeletionIsIdle
    <3>3. CASE deleting'.old = view /\ view.active = NoTurn
      BY <3>3 DEF DeletionIsIdle, Fine
    <3> QED BY <1>2, <3>1, <3>2, <3>3
  <2>3. Fine(view)'
    BY <1>2, <2>1 DEF Fine, turnVars
  <2>4. frame' \in Seq([turn : Turn, event : Event])
    <3>1. CASE frame' = frame
      BY <3>1 DEF TypeOK
    <3>2. CASE frame' = <<>>
      BY <3>2
    <3> QED BY <1>2, <3>1, <3>2
  <2>5. TypeOK'
    BY <1>2, <2>1, <2>3, <2>4 DEF TypeOK, turnVars, panelVars, Fine
  <2>6. \A n \in 1 .. Len(frame') : frame'[n].event.kind = "delta"
    <3>1. CASE frame' = frame
      BY <3>1 DEF EventsInOrder
    <3>2. CASE frame' = <<>>
      BY <3>2
    <3> QED BY <1>2, <3>1, <3>2
  <2>7. EventsInOrder' /\ Phases'
    BY <1>2, <2>6 DEF EventsInOrder, Phases, turnVars, panelVars
  <2> QED BY <2>2, <2>3, <2>5, <2>7
<1>3. CASE Resumed
  <2>1. /\ resuming # NoRecord /\ frame' = <<>> /\ resuming' = NoRecord
        /\ Show(Shown(resuming.thread, resuming.record))
        /\ UNCHANGED <<turnVars, panelVars, saved, used, deleting, deletedIds, gone>>
    BY <1>3 DEF Resumed
  <2>2. Fine(Shown(resuming.thread, resuming.record))
    BY <2>1, ShownIsFine DEF TypeOK
  <2> QED BY <1>2, <2>1, <2>2 DEF TypeOK
<1>4. ASSUME NEW th \in Thread, NewThread(th) PROVE EventInv'
  <2>1. /\ used' = used \cup {th} /\ Show(Shown(th, Empty)) /\ saved' = [saved EXCEPT ![th] = Empty]
        /\ UNCHANGED <<turnVars, panelVars, frame, resuming, deleting, deletedIds, gone>>
    BY <1>4 DEF NewThread
  <2>2. Empty \in Record /\ Fine(Shown(th, Empty))
    BY EmptyIsRecord, ShownIsFine
  <2>3. saved' \in [Thread -> Record \cup {NoRecord}]
    BY <2>1, <2>2 DEF TypeOK
  <2> QED BY <1>2, <2>1, <2>2, <2>3 DEF TypeOK
<1>5. ASSUME NEW th \in Thread, DeleteCurrent(th) PROVE EventInv'
  <2>1. /\ used' = used \cup {th} /\ Show(Shown(th, Empty)) /\ frame' = <<>>
        /\ saved' \in {saved, [saved EXCEPT ![th] = Empty]}
        /\ deletedIds' = deletedIds \cup {view.thread} /\ view.active = NoTurn
        /\ \E step \in {"saved", "unsaved"} : deleting' = [old |-> view, step |-> step]
        /\ UNCHANGED <<turnVars, panelVars, resuming, gone>>
    BY <1>5 DEF DeleteCurrent, MaySwitch
  <2>2. Empty \in Record /\ Fine(Shown(th, Empty)) /\ view \in View /\ view.thread \in Thread
    BY EmptyIsRecord, ShownIsFine DEF Fine, View
  <2>3. saved' \in [Thread -> Record \cup {NoRecord}]
    BY <2>1, <2>2 DEF TypeOK
  <2>4. used' \subseteq Thread /\ deletedIds' \subseteq Thread /\ gone' \subseteq Thread
        /\ resuming' \in [thread : Thread, record : Record] \cup {NoRecord}
    BY <2>1, <2>2 DEF TypeOK
  <2>5. deleting' \in Deletion /\ deleting'.old = view
    BY <2>1, <2>2 DEF Deletion
  <2> QED BY <1>2, <2>1, <2>2, <2>3, <2>4, <2>5
<1>6. ASSUME NEW th \in Thread, Resume(th) \/ DeleteOther(th) PROVE EventInv'
  <2>1. /\ saved' \in {saved, [saved EXCEPT ![th] = NoRecord]}
        /\ gone' \in {gone, gone \cup {th}}
        /\ \/ resuming' = resuming
           \/ resuming' = [thread |-> th, record |-> saved[th]] /\ saved[th] # NoRecord
        /\ UNCHANGED <<turnVars, panelVars, threadVars, used, deleting, deletedIds>>
    BY <1>6 DEF Resume, DeleteOther
  <2>2. Fine(view)'
    BY <2>1, SameIsFine DEF ViewSame, turnVars, threadVars
  <2>3. resuming' \in [thread : Thread, record : Record] \cup {NoRecord}
    BY <2>1 DEF TypeOK
  <2>4. TypeOK'
    BY <2>1, <2>3 DEF TypeOK, turnVars, panelVars, threadVars
  <2>5. EventsInOrder' /\ Phases'
    BY <2>1, SameInOrder DEF Phases, turnVars, panelVars, threadVars
  <2> QED BY <2>1, <2>2, <2>4, <2>5, DeletionStays
<1>7. CASE DeleteGoesOn
  <2>1. /\ deleting # NoRecord
        /\ \/ /\ saved' = [saved EXCEPT ![deleting.old.thread] = NoRecord]
              /\ gone' = gone \cup {deleting.old.thread} /\ deleting' = NoRecord
           \/ /\ deleting' = [deleting EXCEPT !.step = "undeleted"]
              /\ UNCHANGED <<saved, gone>>
        /\ UNCHANGED <<turnVars, panelVars, threadVars, used, resuming, deletedIds>>
    BY <1>7 DEF DeleteGoesOn
  <2>2. deleting \in Deletion /\ deleting.old \in View /\ deleting.old.thread \in Thread
    BY <2>1 DEF TypeOK, Deletion, View
  <2>3. Fine(view)'
    BY <2>1, SameIsFine DEF ViewSame, turnVars, threadVars
  <2>4. saved' \in [Thread -> Record \cup {NoRecord}] /\ gone' \subseteq Thread
    BY <2>1, <2>2 DEF TypeOK
  <2>5. deleting' \in Deletion \cup {NoRecord}
        /\ (deleting' # NoRecord => deleting'.old = deleting.old)
    BY <2>1, <2>2 DEF Deletion
  <2>6. TypeOK'
    BY <2>1, <2>4, <2>5 DEF TypeOK, turnVars, panelVars, threadVars
  <2>7. EventsInOrder' /\ Phases'
    BY <2>1, SameInOrder DEF Phases, turnVars, panelVars, threadVars
  <2>8. DeletionIsIdle'
    BY <2>1, <2>5 DEF DeletionIsIdle, Fine
  <2> QED BY <2>3, <2>6, <2>7, <2>8
<1>8. CASE DeleteFails
  <2>1. /\ deleting # NoRecord /\ deleting' = NoRecord
        /\ deletedIds' = deletedIds \ {deleting.old.thread}
        /\ Show(deleting.old) \/ UNCHANGED <<view, timer>>
        /\ UNCHANGED <<turnVars, panelVars, frame, saved, used, resuming, gone>>
    BY <1>8 DEF DeleteFails
  <2>2. CASE Show(deleting.old)
    <3>1. Fine(deleting.old)
      BY <2>1 DEF DeletionIsIdle
    <3> QED BY <1>2, <2>1, <2>2, <3>1 DEF TypeOK
  <2>3. CASE UNCHANGED <<view, timer>>
    <3>1. Fine(view)'
      BY <2>1, <2>3, SameIsFine DEF ViewSame, turnVars
    <3>2. TypeOK'
      BY <2>1, <2>3 DEF TypeOK, turnVars, panelVars
    <3>3. EventsInOrder' /\ Phases'
      BY <2>1, SameInOrder DEF Phases, turnVars, panelVars
    <3>4. DeletionIsIdle'
      BY <2>1 DEF DeletionIsIdle
    <3> QED BY <3>1, <3>2, <3>3, <3>4
  <2> QED BY <2>1, <2>2, <2>3
<1> QED BY <1>1, <1>3, <1>4, <1>5, <1>6, <1>7, <1>8 DEF History

LEMMA StepKeepsEvents == EventInv /\ [Next]_vars => EventInv'
<1> SUFFICES ASSUME EventInv, [Next]_vars PROVE EventInv'
  OBVIOUS
<1>1. ASSUME NEW t \in Turn, Panel(t) PROVE EventInv'
  BY <1>1, SubmitKeepsEvents, StopKeepsEvents, DeliverKeepsEvents, RepliesKeepsEvents DEF Panel
<1>2. ASSUME NEW t \in Turn, Native(t) PROVE EventInv'
  BY <1>2, NativeKeepsEvents
<1>3. ASSUME NEW d \in deciding, DecisionReplies(d) PROVE EventInv'
  BY <1>3, DecisionKeepsEvents
<1>4. CASE UNCHANGED vars
  BY <1>4 DEF vars, turnVars, panelVars, threadVars, historyVars, EventInv, TypeOK, Fine,
              DeletionIsIdle, EventsInOrder, Phases
<1> QED BY <1>1, <1>2, <1>3, <1>4, FrameKeepsEvents, HistoryKeepsEvents DEF Next

(* What is on its way to the screen is typed and in order: a channel holds   *)
(* the last events of its turn under consecutive numbers, and only deltas    *)
(* wait for the frame.                                                       *)
THEOREM EventsStayInOrder == Spec => []EventInv
<1> QED BY InitEvents, StepKeepsEvents, PTL DEF Spec

(* The types hold in every reachable state.                                  *)
THEOREM TypeCorrect == Spec => []TypeOK
<1>1. EventInv => TypeOK
  BY DEF EventInv
<1> QED BY EventsStayInOrder, <1>1, PTL

-----------------------------------------------------------------------------
(* What a step may change of the screen *)

(* Turns outside T stay as they are, only those in F may have failed, and    *)
(* only one of S may become the active one; what has ended has ended.        *)
Changed(w, v, T, F, S) ==
    /\ Fine(w)
    /\ w.thread = v.thread
    /\ \A u \in Turn :
          /\ u \notin T => Same(w, v, u)
          /\ v.turns[u] \in Terminal => w.turns[u] = v.turns[u]
          /\ HasFailed(w, u) => HasFailed(v, u) \/ u \in F
    /\ w.active \in {v.active, NoTurn} \/ w.active \in S

Deferred == {frame[n].turn : n \in 1 .. Len(frame)}
If(kind, e, t) == IF e.kind = kind THEN {t} ELSE {}

LEMMA NothingChanges ==
    ASSUME EventInv, view' = view, home' = home, NEW T, NEW F, NEW S
    PROVE  Changed(view', view, T, F, S)
  BY DEF EventInv, Changed, Same

LEMMA FrameChanges ==
    ASSUME EventInv, Frame
    PROVE  Changed(view', view, Deferred, {}, {})
<1>1. /\ view' = Reduced(view, frame) /\ Queue(frame)
      /\ TakesAll(Reduced(view, frame), view, frame)
  BY FrameKeepsEvents, ReducedTakes DEF EventInv
<1>2. \A n \in 1 .. Len(frame) : frame[n].event.kind = "delta"
  BY DEF EventInv, EventsInOrder
<1> QED BY <1>1, <1>2 DEF TakesAll, Changed, Deferred

LEMMA EmitChanges ==
    ASSUME EventInv, NEW t \in Turn, NEW e, Numbered(e), Emit(t, e), home' = home
    PROVE  Changed(view', view, Deferred \cup {t}, If("failed", e, t), If("started", e, t))
<1> DEFINE q == Append(frame, [turn |-> t, event |-> e])
           T == Deferred \cup {t}
           F == If("failed", e, t)
           S == If("started", e, t)
<1>1. /\ Queue(q) /\ Queue(frame)
      /\ \/ view' = view
         \/ view' = Reduced(view, q)
  BY EmitTakes, FrameIsQueue DEF EventInv
<1>2. /\ Len(q) = Len(frame) + 1 /\ Len(frame) \in Nat
      /\ \A n \in 1 .. Len(frame) : q[n] = frame[n]
      /\ q[Len(frame) + 1].turn = t /\ q[Len(frame) + 1].event = e
  BY <1>1, QueueGrows DEF Queue
<1> HIDE DEF q
<1>3. \A n \in 1 .. Len(q) : \/ n \in 1 .. Len(frame) /\ q[n] = frame[n]
                             \/ q[n].turn = t /\ q[n].event = e
  <2> SUFFICES ASSUME NEW n \in 1 .. Len(q)
               PROVE  \/ n \in 1 .. Len(frame) /\ q[n] = frame[n]
                      \/ q[n].turn = t /\ q[n].event = e
    OBVIOUS
  <2>1. n \in 1 .. Len(frame) \/ n = Len(frame) + 1
    BY <1>2
  <2> QED BY <1>2, <2>1
<1>4. CASE view' = view
  BY <1>4, NothingChanges
<1>5. CASE view' = Reduced(view, q)
  <2>1. TakesAll(view', view, q)
    BY <1>1, <1>5, ReducedTakes DEF EventInv
  <2>2. \A n \in 1 .. Len(frame) : frame[n].event.kind = "delta"
    BY DEF EventInv, EventsInOrder
  <2>3. \A n \in 1 .. Len(q) :
           /\ q[n].turn \in T
           /\ q[n].event.kind = "failed" => q[n].turn \in F
           /\ q[n].event.kind = "started" => q[n].turn \in S
    BY <1>3, <2>2 DEF Deferred, If
  <2> HIDE DEF T, F, S
  <2>4. Changed(view', view, T, F, S)
    <3>1. \A u \in Turn : u \notin T => Same(view', view, u)
      BY <2>1, <2>3 DEF TakesAll
    <3>2. \A u \in Turn : /\ view.turns[u] \in Terminal => view'.turns[u] = view.turns[u]
                          /\ HasFailed(view', u) => HasFailed(view, u) \/ u \in F
      BY <2>1, <2>3 DEF TakesAll
    <3>3. view'.active \in {view.active, NoTurn} \/ view'.active \in S
      BY <2>1, <2>3 DEF TakesAll
    <3> QED BY <2>1, <3>1, <3>2, <3>3 DEF TakesAll, Changed
  <2> QED BY <2>4 DEF T, F, S
<1> QED BY <1>1, <1>4, <1>5

LEMMA SettleChanges ==
    ASSUME EventInv, NEW t \in Turn, NEW outcome \in Terminal, SettleTurn(t, outcome),
           home' = home
    PROVE  /\ Changed(view', view, {t},
                      IF outcome = "failed" /\ view.active = t THEN {t} ELSE {}, {})
           /\ view'.active # t
<1>1. /\ view'.active # t
      /\ \/ view' = view
         \/ /\ view.active = t
            /\ \E e : e.kind = outcome /\ Takes(view', view, t, e)
  BY SettleTakes DEF EventInv
<1>2. CASE view' = view
  BY <1>1, <1>2, NothingChanges
<1>3. ASSUME NEW e, view.active = t, e.kind = outcome, Takes(view', view, t, e)
      PROVE  Changed(view', view, {t},
                      IF outcome = "failed" /\ view.active = t THEN {t} ELSE {}, {})
  <2>1. HasFailed(view', t) => HasFailed(view, t) \/ outcome = "failed"
    BY <1>3 DEF Takes, HasFailed
  <2>2. \A u \in Turn \ {t} : HasFailed(view', u) => HasFailed(view, u)
    BY <1>3 DEF Takes, HasFailed, Same
  <2>3. \A u \in Turn : view.turns[u] \in Terminal => view'.turns[u] = view.turns[u]
    BY <1>3 DEF Takes, Same
  <2> QED BY <1>3, <2>1, <2>2, <2>3 DEF Takes, Changed, Terminal
<1> QED BY <1>1, <1>2, <1>3

-----------------------------------------------------------------------------
(* Who settles the active turn *)

AwaitedInv == EventInv /\ WorkingIsAwaited

LEMMA StaysAwaited ==
    ASSUME AwaitedInv, EventInv',
           \/ view'.active = NoTurn
           \/ /\ view'.active = view.active
              /\ \/ pc'[view.active] \in {"running", "disposing"} \/ view.active \in cancels'
                 \/ /\ pc'[view.active] = pc[view.active]
                    /\ view.active \in cancels => view.active \in cancels'
           \/ view'.active \in Turn /\ pc'[view'.active] = "running"
    PROVE  AwaitedInv'
  BY DEF AwaitedInv, WorkingIsAwaited, EventInv, Fine

LEMMA PanelAwaits ==
    ASSUME AwaitedInv, EventInv', NEW t \in Turn, Panel(t)
    PROVE  AwaitedInv'
<1>0. EventInv
  BY DEF AwaitedInv
<1>a. pc \in [Turn -> {"new", "titling", "running", "disposing", "over"}]
      /\ view.active \in Turn \cup {NoTurn} /\ NoTurn \notin Turn
  BY <1>0, ThreadAssumption DEF EventInv, TypeOK, Fine, View
<1>1. CASE SubmitFirst(t) \/ SubmitNext(t)
  <2>1. view.active = NoTurn /\ view' = view
    BY <1>1 DEF SubmitFirst, SubmitNext, StartTurn, Submits, threadVars
  <2> QED BY <2>1, StaysAwaited
<1>2. CASE TitleSaved(t)
  <2>1. pc' = [pc EXCEPT ![t] = "running"] /\ view' = view /\ cancels' = cancels
    BY <1>2 DEF TitleSaved, StartTurn, threadVars
  <2> QED BY <1>a, <2>1, StaysAwaited
<1>3. CASE Cancel(t) \/ Decide(t)
  <2>1. pc' = pc /\ view' = view /\ cancels \subseteq cancels'
    BY <1>3 DEF Cancel, Decide, turnVars, threadVars
  <2> QED BY <2>1, StaysAwaited
<1>4. CASE CancelReplies(t)
  <2>1. pc' = pc /\ cancels' = cancels \ {t} /\ SettleTurn(t, "cancelled") /\ home' = home
    BY <1>4 DEF CancelReplies
  <2>2. view'.active \in {view.active, NoTurn} /\ view'.active # t
    BY <1>0, <2>1, SettleChanges DEF Changed, Terminal
  <2> QED BY <2>1, <2>2, StaysAwaited
<1>5. CASE Replies(t)
  <2>1. /\ pc' = [pc EXCEPT ![t] = "disposing"] /\ cancels' = cancels /\ home' = home
        /\ IF native[t] = "completed" THEN Emit(t, Completion(t)) ELSE UNCHANGED threadVars
        /\ native[t] = "completed" => Numbered(Completion(t))
    BY <1>0, <1>5, RepliesKeepsEvents DEF Replies, SettledNumber, Completion
  <2>2. view'.active \in {view.active, NoTurn}
    <3>1. CASE native[t] = "completed"
      <4>1. Completion(t).kind # "started"
        BY DEF Completion
      <4>2. Emit(t, Completion(t)) /\ Numbered(Completion(t))
        BY <2>1, <3>1
      <4> HIDE DEF Completion
      <4> QED BY <1>0, <2>1, <4>1, <4>2, EmitChanges DEF Changed, If
    <3>2. CASE native[t] # "completed"
      BY <2>1, <3>2 DEF threadVars
    <3> QED BY <3>1, <3>2
  <2> QED BY <1>a, <2>1, <2>2, StaysAwaited
<1>6. CASE SubmitEnds(t)
  <2>1. /\ pc' = [pc EXCEPT ![t] = "over"] /\ cancels' = cancels /\ home' = home
        /\ \E outcome \in Terminal : SettleTurn(t, outcome)
    BY <1>6 DEF SubmitEnds, Terminal
  <2>2. view'.active \in {view.active, NoTurn} /\ view'.active # t
    BY <1>0, <2>1, SettleChanges DEF Changed
  <2> QED BY <1>a, <2>1, <2>2, StaysAwaited
<1>7. CASE Deliver(t)
  <2>1. /\ pc' = pc /\ cancels' = cancels /\ home' = home /\ Emit(t, Head(channel[t]))
        /\ Numbered(Head(channel[t])) /\ pc[t] = "running"
    BY <1>0, <1>7, DeliverKeepsEvents DEF Deliver, panelVars, EventInv, Phases
  <2>2. view'.active \in {view.active, NoTurn, t}
    BY <1>0, <2>1, EmitChanges DEF Changed, If
  <2> QED BY <2>1, <2>2, StaysAwaited
<1> QED BY <1>1, <1>2, <1>3, <1>4, <1>5, <1>6, <1>7 DEF Panel

LEMMA HistoryIsIdle ==
    ASSUME EventInv, History
    PROVE  /\ UNCHANGED <<turnVars, panelVars>>
           /\ view' = view \/ view'.active = NoTurn
<1>1. ASSUME NEW th, NEW record, Show(Shown(th, record)) PROVE view'.active = NoTurn
  BY <1>1 DEF Show, Shown
<1>2. ASSUME DeleteFails
      PROVE  /\ UNCHANGED <<turnVars, panelVars>>
             /\ view' = view \/ view'.active = NoTurn
  BY <1>2 DEF DeleteFails, Show, EventInv, DeletionIsIdle
<1>3. ASSUME History, ~DeleteFails
      PROVE  /\ UNCHANGED <<turnVars, panelVars>>
             /\ view' = view \/ view'.active = NoTurn
  BY <1>1, <1>3 DEF History, TimerFires, Resumed, NewThread, Resume, DeleteOther, DeleteCurrent,
                    DeleteGoesOn, threadVars
<1> QED BY <1>2, <1>3

(* A turn that the panel shows as working is settled by somebody.            *)
THEOREM WorkingStaysAwaited == Spec => []WorkingIsAwaited
<1>1. Init => AwaitedInv
  <2> SUFFICES ASSUME Init PROVE AwaitedInv
    OBVIOUS
  <2>1. view.active = NoTurn
    BY DEF Init, Shown
  <2> QED BY <2>1, InitEvents DEF AwaitedInv, WorkingIsAwaited
<1>2. AwaitedInv /\ [Next]_vars => AwaitedInv'
  <2> SUFFICES ASSUME AwaitedInv, [Next]_vars PROVE AwaitedInv'
    OBVIOUS
  <2>1. EventInv /\ EventInv'
    BY StepKeepsEvents DEF AwaitedInv
  <2>2. ASSUME NEW t \in Turn, Panel(t) PROVE AwaitedInv'
    BY <2>1, <2>2, PanelAwaits
  <2>3. ASSUME NEW t \in Turn, Native(t) PROVE AwaitedInv'
    <3>1. UNCHANGED <<pc, panelVars, threadVars>>
      BY <2>3 DEF Native, NativeStarts, NativeRefuses, NativeSends, NativeAsks, NativeCompletes,
                  NativeFails, NativeIsCancelled, Ends
    <3> QED BY <2>1, <3>1, StaysAwaited DEF panelVars, threadVars
  <2>4. ASSUME NEW d \in deciding, DecisionReplies(d) PROVE AwaitedInv'
    <3>1. /\ pc' = pc /\ cancels' = cancels /\ home' = home /\ Emit(d.turn, Resolution(d))
          /\ d.turn \in Turn /\ Numbered(Resolution(d)) /\ Resolution(d).kind = "approvalResolved"
      BY <2>1, <2>4, DecisionKeepsEvents DEF DecisionReplies, turnVars, Resolution
    <3> HIDE DEF Resolution
    <3>2. view'.active \in {view.active, NoTurn}
      BY <2>1, <3>1, EmitChanges DEF Changed, If
    <3> QED BY <2>1, <3>1, <3>2, StaysAwaited
  <2>5. CASE Frame
    <3>1. pc' = pc /\ cancels' = cancels /\ view'.active \in {view.active, NoTurn}
      BY <2>1, <2>5, FrameChanges DEF Frame, turnVars, panelVars, Changed
    <3> QED BY <2>1, <3>1, StaysAwaited
  <2>6. CASE History
    BY <2>1, <2>6, HistoryIsIdle, StaysAwaited DEF turnVars, panelVars
  <2>7. CASE UNCHANGED vars
    BY <2>1, <2>7, StaysAwaited DEF vars, turnVars, panelVars, threadVars
  <2> QED BY <2>2, <2>3, <2>4, <2>5, <2>6, <2>7 DEF Next
<1>3. AwaitedInv => WorkingIsAwaited
  BY DEF AwaitedInv
<1> QED BY <1>1, <1>2, <1>3, PTL DEF Spec

-----------------------------------------------------------------------------
(* What a record keeps *)

Keeps(record, turns) == \A t \in Turn : record[t] \in {"absent", turns[t]}

(* A thread that is on the screen, on disk, on its way or being deleted was  *)
(* handed out, and the three are different ones.                             *)
ThreadsInUse ==
    /\ view.thread \in used /\ gone \subseteq used
    /\ \A th \in Thread : saved[th] # NoRecord => th \in used
    /\ resuming # NoRecord => resuming.thread \in used /\ resuming.thread # view.thread
    /\ deleting # NoRecord =>
          /\ deleting.old.thread \in used /\ deleting.old.thread # view.thread
          /\ resuming # NoRecord => deleting.old.thread # resuming.thread

(* What the disk has of a thread, the screen has, or the record on its way,  *)
(* or the screen that a failed deletion brings back.                         *)
ShownIsKept ==
    /\ saved[view.thread] # NoRecord => Keeps(saved[view.thread], view.turns)
    /\ resuming # NoRecord /\ saved[resuming.thread] # NoRecord
          => Keeps(saved[resuming.thread], resuming.record)
    /\ deleting # NoRecord /\ saved[deleting.old.thread] # NoRecord
          => Keeps(saved[deleting.old.thread], deleting.old.turns)

KeptInv == EventInv /\ ThreadsInUse /\ ShownIsKept

HistoryStep ==
    \A th \in Thread, t \in Turn :
        saved[th] # NoRecord /\ saved'[th] # NoRecord => saved[th][t] \in {"absent", saved'[th][t]}

(* As long as the thread stays on the screen, its turns only come to an end. *)
LEMMA ScreenIsKept ==
    ASSUME KeptInv, EventInv', view'.thread = view.thread,
           \A t \in Turn : view.turns[t] \in Terminal => view'.turns[t] = view.turns[t],
           UNCHANGED <<used, resuming, deleting, gone>>,
           saved' = saved \/ saved' = [saved EXCEPT ![view.thread] = Persisted(view)]
    PROVE  KeptInv' /\ HistoryStep
<1>1. /\ saved \in [Thread -> Record \cup {NoRecord}] /\ view.thread \in Thread
      /\ resuming # NoRecord => resuming.thread \in Thread
      /\ deleting # NoRecord => deleting.old.thread \in Thread
      /\ NoRecord \in {NoRecord}
  BY DEF KeptInv, EventInv, TypeOK, Fine, Deletion, View
<1>2. \A th \in Thread, t \in Turn :
         saved[th] # NoRecord => saved[th][t] \in {"absent"} \cup Terminal
  BY <1>1 DEF Record
<1>3. CASE saved' = saved
  <2>1. saved[view.thread] # NoRecord => Keeps(saved[view.thread], view'.turns)
    BY <1>1, <1>2 DEF KeptInv, ShownIsKept, Keeps
  <2>2. ThreadsInUse'
    BY <1>3 DEF KeptInv, ThreadsInUse
  <2>3. ShownIsKept'
    BY <1>3, <2>1 DEF KeptInv, ShownIsKept, Keeps
  <2> QED BY <1>3, <2>2, <2>3 DEF KeptInv, HistoryStep
<1>4. CASE saved' = [saved EXCEPT ![view.thread] = Persisted(view)]
  <2>1. /\ saved'[view.thread] = Persisted(view)
        /\ \A th \in Thread \ {view.thread} : saved'[th] = saved[th]
    BY <1>1, <1>4
  <2>2. Keeps(Persisted(view), view'.turns)
    BY DEF Keeps, Persisted
  <2>3. saved[view.thread] # NoRecord => Keeps(saved[view.thread], Persisted(view))
    <3> SUFFICES ASSUME saved[view.thread] # NoRecord, NEW t \in Turn
                 PROVE  saved[view.thread][t] \in {"absent", Persisted(view)[t]}
      BY DEF Keeps
    <3>1. saved[view.thread][t] \in {"absent", view.turns[t]}
      BY DEF KeptInv, ShownIsKept, Keeps
    <3> QED BY <1>1, <1>2, <3>1 DEF Persisted
  <2>4. ThreadsInUse'
    <3>1. view'.thread \in used' /\ gone' \subseteq used'
      BY DEF KeptInv, ThreadsInUse
    <3>2. ASSUME NEW th \in Thread, saved'[th] # NoRecord PROVE th \in used'
      BY <2>1, <3>2 DEF KeptInv, ThreadsInUse
    <3> QED BY <3>1, <3>2 DEF KeptInv, ThreadsInUse
  <2>5. ShownIsKept'
    <3>1. /\ resuming # NoRecord => saved'[resuming.thread] = saved[resuming.thread]
          /\ deleting # NoRecord => saved'[deleting.old.thread] = saved[deleting.old.thread]
      BY <1>1, <2>1 DEF KeptInv, ThreadsInUse
    <3> QED BY <2>1, <2>2, <3>1 DEF KeptInv, ShownIsKept
  <2>6. HistoryStep
    BY <2>1, <2>3 DEF HistoryStep, Keeps
  <2> QED BY <2>4, <2>5, <2>6 DEF KeptInv
<1> QED BY <1>3, <1>4

LEMMA HistoryKeepsRecords ==
    ASSUME KeptInv, EventInv', History
    PROVE  KeptInv' /\ HistoryStep
<1>0. /\ saved \in [Thread -> Record \cup {NoRecord}] /\ view.thread \in Thread
      /\ resuming # NoRecord => resuming.thread \in Thread
      /\ deleting # NoRecord => deleting.old.thread \in Thread
      /\ view.thread \in used
  BY DEF KeptInv, EventInv, TypeOK, Fine, Deletion, View, ThreadsInUse
<1>1. CASE TimerFires
  <2>1. /\ view' = view /\ UNCHANGED <<used, resuming, deleting, gone>>
        /\ saved' = saved \/ saved' = [saved EXCEPT ![view.thread] = Persisted(view)]
    BY <1>1 DEF TimerFires, Save
  <2> QED BY <2>1, ScreenIsKept
<1>2. CASE Resumed
  <2>1. /\ resuming # NoRecord /\ resuming' = NoRecord
        /\ view' = Shown(resuming.thread, resuming.record)
        /\ UNCHANGED <<saved, used, deleting, gone>>
    BY <1>2 DEF Resumed, Show
  <2>2. view'.thread = resuming.thread /\ view'.turns = resuming.record
    BY <2>1 DEF Shown
  <2>3. ThreadsInUse'
    BY <2>1, <2>2 DEF KeptInv, ThreadsInUse
  <2>4. ShownIsKept'
    BY <2>1, <2>2 DEF KeptInv, ShownIsKept, Keeps
  <2> QED BY <2>1, <2>3, <2>4 DEF KeptInv, HistoryStep
<1>3. ASSUME NEW th \in Thread, NewThread(th) \/ DeleteCurrent(th)
      PROVE  KeptInv' /\ HistoryStep
  <2>1. /\ th \notin used /\ used' = used \cup {th} /\ view' = Shown(th, Empty)
        /\ saved' \in {saved, [saved EXCEPT ![th] = Empty]} /\ gone' = gone
        /\ resuming' = resuming
        /\ deleting' = NoRecord \/ deleting'.old = view
    BY <1>3 DEF NewThread, DeleteCurrent, Show, MaySwitch, Attended
  <2>2. view'.thread = th /\ view'.turns = Empty /\ th # view.thread
    BY <1>0, <2>1 DEF Shown
  <2>3. /\ saved'[th] \in {saved[th], Empty}
        /\ \A o \in Thread \ {th} : saved'[o] = saved[o]
    <3>1. CASE saved' = [saved EXCEPT ![th] = Empty]
      BY <1>0, <3>1
    <3>2. CASE saved' = saved
      BY <3>2
    <3> QED BY <2>1, <3>1, <3>2
  <2>4. saved[th] = NoRecord
    BY <2>1 DEF KeptInv, ThreadsInUse
  <2>5. resuming # NoRecord => resuming.thread # th
    BY <2>1 DEF KeptInv, ThreadsInUse
  <2>6. ThreadsInUse'
    <3>1. view'.thread \in used' /\ gone' \subseteq used'
      BY <1>0, <2>1, <2>2 DEF KeptInv, ThreadsInUse
    <3>2. ASSUME NEW o \in Thread, saved'[o] # NoRecord PROVE o \in used'
      BY <2>1, <2>3, <3>2 DEF KeptInv, ThreadsInUse
    <3>3. resuming' # NoRecord => resuming'.thread \in used' /\ resuming'.thread # view'.thread
      BY <2>1, <2>2, <2>5 DEF KeptInv, ThreadsInUse
    <3>4. deleting' # NoRecord =>
            /\ deleting'.old.thread \in used' /\ deleting'.old.thread # view'.thread
            /\ resuming' # NoRecord => deleting'.old.thread # resuming'.thread
      BY <1>0, <2>1, <2>2 DEF KeptInv, ThreadsInUse
    <3> QED BY <3>1, <3>2, <3>3, <3>4 DEF ThreadsInUse
  <2>7. ShownIsKept'
    <3>1. saved'[view'.thread] # NoRecord => Keeps(saved'[view'.thread], view'.turns)
      BY <2>2, <2>3, <2>4 DEF Keeps, Empty
    <3>2. resuming # NoRecord => saved'[resuming.thread] = saved[resuming.thread]
      BY <1>0, <2>3, <2>5
    <3>3. resuming' # NoRecord /\ saved'[resuming'.thread] # NoRecord
             => Keeps(saved'[resuming'.thread], resuming'.record)
      BY <2>1, <3>2 DEF KeptInv, ShownIsKept
    <3>4. saved'[view.thread] = saved[view.thread]
      BY <1>0, <2>2, <2>3
    <3>5. deleting' # NoRecord /\ saved'[deleting'.old.thread] # NoRecord
             => Keeps(saved'[deleting'.old.thread], deleting'.old.turns)
      BY <2>1, <3>4 DEF KeptInv, ShownIsKept
    <3> QED BY <3>1, <3>3, <3>5 DEF ShownIsKept, Keeps
  <2>8. HistoryStep
    BY <2>3, <2>4 DEF HistoryStep
  <2> QED BY <2>6, <2>7, <2>8 DEF KeptInv
<1>4. ASSUME NEW th \in Thread, Resume(th)
      PROVE  KeptInv' /\ HistoryStep
  <2>1. /\ th # view.thread /\ saved[th] # NoRecord
        /\ resuming' = [thread |-> th, record |-> saved[th]]
        /\ UNCHANGED <<view, saved, used, deleting, gone>> /\ deleting = NoRecord
    BY <1>4 DEF Resume, MaySwitch, Attended, threadVars
  <2>2. resuming'.thread = th /\ resuming'.record = saved[th]
    BY <2>1
  <2>3. ThreadsInUse'
    BY <2>1, <2>2 DEF KeptInv, ThreadsInUse
  <2>4. ShownIsKept'
    BY <2>1, <2>2 DEF KeptInv, ShownIsKept, Keeps
  <2> QED BY <2>1, <2>3, <2>4 DEF KeptInv, HistoryStep
<1>5. ASSUME NEW th \in Thread, DeleteOther(th)
      PROVE  KeptInv' /\ HistoryStep
  <2>1. /\ th # view.thread /\ saved[th] # NoRecord
        /\ saved' = [saved EXCEPT ![th] = NoRecord] /\ gone' = gone \cup {th}
        /\ UNCHANGED <<view, used, resuming, deleting>> /\ deleting = NoRecord
    BY <1>5 DEF DeleteOther, MaySwitch, Attended, threadVars
  <2>2. \A o \in Thread : saved'[o] = IF o = th THEN NoRecord ELSE saved[o]
    BY <1>0, <2>1
  <2>3. ThreadsInUse'
    BY <2>1, <2>2 DEF KeptInv, ThreadsInUse
  <2>4. ShownIsKept'
    BY <1>0, <2>1, <2>2 DEF KeptInv, ShownIsKept, Keeps
  <2> QED BY <2>2, <2>3, <2>4 DEF KeptInv, HistoryStep
<1>6. CASE DeleteGoesOn
  <2>1. /\ deleting # NoRecord
        /\ \/ /\ saved' = [saved EXCEPT ![deleting.old.thread] = NoRecord]
              /\ gone' = gone \cup {deleting.old.thread} /\ deleting' = NoRecord
           \/ /\ deleting'.old = deleting.old /\ UNCHANGED <<saved, gone>>
        /\ UNCHANGED <<view, used, resuming>>
    BY <1>6 DEF DeleteGoesOn, threadVars, KeptInv, EventInv, TypeOK, Deletion
  <2>2. CASE deleting'.old = deleting.old /\ UNCHANGED <<saved, gone>>
    BY <2>1, <2>2 DEF KeptInv, ThreadsInUse, ShownIsKept, HistoryStep
  <2>3. CASE /\ saved' = [saved EXCEPT ![deleting.old.thread] = NoRecord]
             /\ gone' = gone \cup {deleting.old.thread} /\ deleting' = NoRecord
    <3>1. \A o \in Thread :
             saved'[o] = IF o = deleting.old.thread THEN NoRecord ELSE saved[o]
      BY <1>0, <2>1, <2>3
    <3>2. ThreadsInUse'
      BY <2>1, <2>3, <3>1 DEF KeptInv, ThreadsInUse
    <3>3. ShownIsKept'
      BY <1>0, <2>1, <2>3, <3>1 DEF KeptInv, ShownIsKept
    <3> QED BY <3>1, <3>2, <3>3 DEF KeptInv, HistoryStep
  <2> QED BY <2>1, <2>2, <2>3
<1>7. CASE DeleteFails
  <2>1. /\ deleting # NoRecord /\ deleting' = NoRecord
        /\ view' \in {view, deleting.old} /\ UNCHANGED <<saved, used, resuming, gone>>
    BY <1>7 DEF DeleteFails, Show
  <2>2. ThreadsInUse'
    BY <2>1 DEF KeptInv, ThreadsInUse
  <2>3. ShownIsKept'
    BY <2>1 DEF KeptInv, ShownIsKept
  <2> QED BY <2>1, <2>2, <2>3 DEF KeptInv, HistoryStep
<1> QED BY <1>1, <1>2, <1>3, <1>4, <1>5, <1>6, <1>7 DEF History

(* What the other steps do to the screen: no ended turn is reopened.         *)
LEMMA ScreenGoesOn ==
    ASSUME EventInv,
           \/ \E t \in Turn : Panel(t) \/ Native(t)
           \/ \E d \in deciding : DecisionReplies(d)
           \/ Frame
    PROVE  /\ view'.thread = view.thread
           /\ \A t \in Turn : view.turns[t] \in Terminal => view'.turns[t] = view.turns[t]
           /\ UNCHANGED <<used, resuming, deleting, deletedIds, gone>>
           /\ \/ saved' = saved
              \/ /\ saved' = [saved EXCEPT ![view.thread] = Persisted(view)]
                 /\ \E t \in Turn : SubmitFirst(t)
<1> DEFINE Goes == /\ view'.thread = view.thread
                   /\ \A t \in Turn : view.turns[t] \in Terminal => view'.turns[t] = view.turns[t]
<1>1. ASSUME NEW t \in Turn, Native(t) PROVE Goes /\ UNCHANGED historyVars
  BY <1>1 DEF Native, NativeStarts, NativeRefuses, NativeSends, NativeAsks, NativeCompletes,
              NativeFails, NativeIsCancelled, Ends, threadVars
<1>2. ASSUME NEW t \in Turn,
             SubmitNext(t) \/ TitleSaved(t) \/ Cancel(t) \/ Decide(t)
      PROVE  Goes /\ UNCHANGED historyVars
  BY <1>2 DEF SubmitNext, TitleSaved, StartTurn, Cancel, Decide, threadVars
<1>3. ASSUME NEW t \in Turn, SubmitFirst(t)
      PROVE  /\ Goes /\ UNCHANGED <<used, resuming, deleting, deletedIds, gone>>
             /\ saved' = [saved EXCEPT ![view.thread] = Persisted(view)]
  BY <1>3 DEF SubmitFirst, threadVars, Save
<1>4. ASSUME NEW t \in Turn, CancelReplies(t) \/ SubmitEnds(t)
      PROVE  Goes /\ UNCHANGED historyVars
  <2>1. /\ home' = home /\ UNCHANGED historyVars
        /\ \E outcome \in Terminal : SettleTurn(t, outcome)
    BY <1>4 DEF CancelReplies, SubmitEnds, Terminal
  <2> QED BY <2>1, SettleChanges DEF Changed
<1>5. ASSUME NEW t \in Turn, Deliver(t) PROVE Goes /\ UNCHANGED historyVars
  <2>1. /\ home' = home /\ UNCHANGED historyVars /\ Emit(t, Head(channel[t]))
        /\ Numbered(Head(channel[t]))
    BY <1>5, DeliverKeepsEvents DEF Deliver
  <2> QED BY <2>1, EmitChanges DEF Changed
<1>6. ASSUME NEW t \in Turn, Replies(t) PROVE Goes /\ UNCHANGED historyVars
  <2>1. /\ home' = home /\ UNCHANGED historyVars
        /\ IF native[t] = "completed" THEN Emit(t, Completion(t)) ELSE UNCHANGED threadVars
        /\ native[t] = "completed" => Numbered(Completion(t))
    BY <1>6, RepliesKeepsEvents DEF Replies, SettledNumber, Completion
  <2>2. CASE native[t] = "completed"
    <3> HIDE DEF Completion
    <3> QED BY <2>1, <2>2, EmitChanges DEF Changed
  <2>3. CASE native[t] # "completed"
    BY <2>1, <2>3 DEF threadVars
  <2> QED BY <2>1, <2>2, <2>3
<1>7. ASSUME NEW d \in deciding, DecisionReplies(d) PROVE Goes /\ UNCHANGED historyVars
  <2>1. /\ home' = home /\ UNCHANGED historyVars /\ Emit(d.turn, Resolution(d))
        /\ d.turn \in Turn /\ Numbered(Resolution(d))
    BY <1>7, DecisionKeepsEvents DEF DecisionReplies, turnVars, Resolution
  <2> HIDE DEF Resolution
  <2> QED BY <2>1, EmitChanges DEF Changed
<1>8. ASSUME Frame PROVE Goes /\ UNCHANGED historyVars
  BY <1>8, FrameChanges DEF Changed, Frame
<1> QED BY <1>1, <1>2, <1>3, <1>4, <1>5, <1>6, <1>7, <1>8 DEF Panel, historyVars

LEMMA StepKeepsRecords == KeptInv /\ [Next]_vars => KeptInv' /\ HistoryStep
<1> SUFFICES ASSUME KeptInv, [Next]_vars PROVE KeptInv' /\ HistoryStep
  OBVIOUS
<1>1. EventInv /\ EventInv'
  BY StepKeepsEvents DEF KeptInv
<1>2. CASE \/ \E t \in Turn : Panel(t) \/ Native(t)
           \/ \E d \in deciding : DecisionReplies(d)
           \/ Frame
  BY <1>1, <1>2, ScreenGoesOn, ScreenIsKept
<1>3. CASE History
  BY <1>1, <1>3, HistoryKeepsRecords
<1>4. CASE UNCHANGED vars
  BY <1>1, <1>4, ScreenIsKept DEF vars, threadVars, historyVars
<1> QED BY <1>2, <1>3, <1>4 DEF Next

LEMMA InitKeeps == Init => KeptInv
<1> SUFFICES ASSUME Init PROVE KeptInv
  OBVIOUS
<1>1. /\ view.thread = First /\ view.turns = Empty
      /\ resuming = NoRecord /\ deleting = NoRecord
  BY DEF Init, Shown
<1>2. ThreadsInUse
  BY <1>1 DEF Init, ThreadsInUse
<1>3. ShownIsKept
  BY <1>1, ThreadAssumption DEF Init, ShownIsKept, Keeps, Empty
<1> QED BY <1>2, <1>3, InitEvents DEF KeptInv

(* No save takes an ended turn back.                                         *)
THEOREM HistoryStaysKept == Spec => HistoryIsKept
<1>1. KeptInv /\ [Next]_vars => KeptInv'
  BY StepKeepsRecords
<1>2. KeptInv /\ [Next]_vars =>
        [ \A th \in Thread, t \in Turn :
            saved[th] # NoRecord /\ saved'[th] # NoRecord
              => saved[th][t] \in {"absent", saved'[th][t]} ]_vars
  BY StepKeepsRecords DEF HistoryStep
<1> QED BY InitKeeps, <1>1, <1>2, PTL DEF Spec, HistoryIsKept

-----------------------------------------------------------------------------
(* Deleted threads *)

GoneInv ==
    /\ KeptInv
    /\ DeletedStaysDeleted
    /\ view.thread \notin gone
    /\ resuming # NoRecord => resuming.thread \notin gone
    /\ deleting # NoRecord => deleting.old.thread \notin gone

LEMMA HistoryLeavesGone ==
    ASSUME "resurrect" \notin Races, GoneInv, KeptInv', History
    PROVE  GoneInv'
<1>0. /\ saved \in [Thread -> Record \cup {NoRecord}] /\ view.thread \in Thread
      /\ resuming # NoRecord => resuming.thread \in Thread
      /\ deleting # NoRecord => deleting.old.thread \in Thread
      /\ view.thread \in used /\ gone \subseteq used /\ gone \subseteq Thread
  BY DEF GoneInv, KeptInv, EventInv, TypeOK, Fine, Deletion, View, ThreadsInUse
<1>1. CASE TimerFires
  <2>1. /\ view' = view /\ UNCHANGED <<resuming, deleting, gone>>
        /\ saved' = saved \/ saved' = [saved EXCEPT ![view.thread] = Persisted(view)]
    BY <1>1 DEF TimerFires, Save
  <2>2. \A th \in gone : saved'[th] = saved[th]
    <3>1. CASE saved' = saved
      BY <3>1
    <3>2. CASE saved' = [saved EXCEPT ![view.thread] = Persisted(view)]
      BY <1>0, <3>2 DEF GoneInv
    <3> QED BY <2>1, <3>1, <3>2
  <2> QED BY <2>1, <2>2 DEF GoneInv, DeletedStaysDeleted
<1>2. CASE Resumed
  <2>1. /\ resuming # NoRecord /\ resuming' = NoRecord
        /\ view' = Shown(resuming.thread, resuming.record) /\ UNCHANGED <<saved, deleting, gone>>
    BY <1>2 DEF Resumed, Show
  <2>2. view'.thread = resuming.thread
    BY <2>1 DEF Shown
  <2> QED BY <2>1, <2>2 DEF GoneInv, DeletedStaysDeleted
<1>3. ASSUME NEW th \in Thread, NewThread(th) PROVE GoneInv'
  <2>1. /\ th \notin used /\ view' = Shown(th, Empty)
        /\ saved' = [saved EXCEPT ![th] = Empty] /\ UNCHANGED <<gone, resuming, deleting>>
    BY <1>3 DEF NewThread, Show
  <2>2. view'.thread = th
    BY <2>1 DEF Shown
  <2>3. \A o \in gone : saved'[o] = saved[o]
    BY <1>0, <2>1
  <2> QED BY <1>0, <2>1, <2>2, <2>3 DEF GoneInv, DeletedStaysDeleted
<1>4. ASSUME NEW th \in Thread, DeleteCurrent(th) PROVE GoneInv'
  <2>1. /\ th \notin used /\ view' = Shown(th, Empty) /\ gone' = gone /\ resuming' = resuming
        /\ saved' \in {saved, [saved EXCEPT ![th] = Empty]} /\ deleting'.old = view
    BY <1>4 DEF DeleteCurrent, Show
  <2>2. view'.thread = th
    BY <2>1 DEF Shown
  <2>3. \A o \in gone : saved'[o] = saved[o]
    BY <1>0, <2>1
  <2> QED BY <1>0, <2>1, <2>2, <2>3 DEF GoneInv, DeletedStaysDeleted
<1>5. ASSUME NEW th \in Thread, Resume(th) PROVE GoneInv'
  <2>1. /\ saved[th] # NoRecord /\ resuming' = [thread |-> th, record |-> saved[th]]
        /\ UNCHANGED <<view, saved, deleting, gone>>
    BY <1>5 DEF Resume, threadVars
  <2>2. th \notin gone /\ resuming'.thread = th
    BY <2>1 DEF GoneInv, DeletedStaysDeleted
  <2> QED BY <2>1, <2>2 DEF GoneInv, DeletedStaysDeleted
<1>6. ASSUME NEW th \in Thread, DeleteOther(th) PROVE GoneInv'
  <2>1. /\ th # view.thread /\ saved' = [saved EXCEPT ![th] = NoRecord]
        /\ gone' = gone \cup {th} /\ UNCHANGED <<view, resuming, deleting>> /\ deleting = NoRecord
        /\ resuming # NoRecord => resuming.thread # th
    BY <1>6 DEF DeleteOther, MaySwitch, Attended, threadVars, Admits
  <2>2. saved'[th] = NoRecord /\ \A o \in gone : saved'[o] \in {saved[o], NoRecord}
    BY <1>0, <2>1
  <2> QED BY <1>0, <2>1, <2>2 DEF GoneInv, DeletedStaysDeleted
<1>7. CASE DeleteGoesOn
  <2>1. /\ deleting # NoRecord
        /\ \/ /\ saved' = [saved EXCEPT ![deleting.old.thread] = NoRecord]
              /\ gone' = gone \cup {deleting.old.thread} /\ deleting' = NoRecord
           \/ /\ deleting'.old = deleting.old /\ UNCHANGED <<saved, gone>>
        /\ UNCHANGED <<view, resuming>>
    BY <1>7 DEF DeleteGoesOn, threadVars, GoneInv, KeptInv, EventInv, TypeOK, Deletion
  <2>2. CASE deleting'.old = deleting.old /\ UNCHANGED <<saved, gone>>
    BY <2>1, <2>2 DEF GoneInv, DeletedStaysDeleted
  <2>3. CASE /\ saved' = [saved EXCEPT ![deleting.old.thread] = NoRecord]
             /\ gone' = gone \cup {deleting.old.thread} /\ deleting' = NoRecord
    <3>1. /\ saved'[deleting.old.thread] = NoRecord
          /\ \A o \in gone : saved'[o] \in {saved[o], NoRecord}
      BY <1>0, <2>1, <2>3
    <3>2. /\ view.thread # deleting.old.thread
          /\ resuming # NoRecord => resuming.thread # deleting.old.thread
      BY <2>1 DEF GoneInv, KeptInv, ThreadsInUse
    <3> QED BY <2>1, <2>3, <3>1, <3>2 DEF GoneInv, DeletedStaysDeleted
  <2> QED BY <2>1, <2>2, <2>3
<1>8. CASE DeleteFails
  <2>1. /\ deleting # NoRecord /\ deleting' = NoRecord
        /\ view' \in {view, deleting.old} /\ UNCHANGED <<saved, resuming, gone>>
    BY <1>8 DEF DeleteFails, Show
  <2> QED BY <2>1 DEF GoneInv, DeletedStaysDeleted
<1> QED BY <1>1, <1>2, <1>3, <1>4, <1>5, <1>6, <1>7, <1>8 DEF History

LEMMA StepLeavesGone ==
    ASSUME "resurrect" \notin Races, GoneInv, [Next]_vars
    PROVE  GoneInv'
<1>1. KeptInv /\ KeptInv' /\ EventInv
  BY StepKeepsRecords DEF GoneInv, KeptInv
<1>2. CASE \/ \E t \in Turn : Panel(t) \/ Native(t)
           \/ \E d \in deciding : DecisionReplies(d)
           \/ Frame
  <2>1. /\ view'.thread = view.thread /\ UNCHANGED <<resuming, deleting, gone>>
        /\ saved' = saved \/ saved' = [saved EXCEPT ![view.thread] = Persisted(view)]
    BY <1>1, <1>2, ScreenGoesOn
  <2>2. \A th \in gone : saved'[th] = saved[th]
    <3>1. saved \in [Thread -> Record \cup {NoRecord}] /\ gone \subseteq Thread
      BY <1>1 DEF EventInv, TypeOK
    <3>2. CASE saved' = saved
      BY <3>2
    <3>3. CASE saved' = [saved EXCEPT ![view.thread] = Persisted(view)]
      BY <3>1, <3>3 DEF GoneInv
    <3> QED BY <2>1, <3>2, <3>3
  <2> QED BY <1>1, <2>1, <2>2 DEF GoneInv, DeletedStaysDeleted
<1>3. CASE History
  BY <1>1, <1>3, HistoryLeavesGone
<1>4. CASE UNCHANGED vars
  BY <1>1, <1>4 DEF GoneInv, DeletedStaysDeleted, vars, threadVars, historyVars
<1> QED BY <1>2, <1>3, <1>4 DEF Next

(* Unless a thread is deleted while its record is on its way to the screen,  *)
(* no save brings it back.                                                   *)
THEOREM DeletedStaysGone == "resurrect" \notin Races => (Spec => []DeletedStaysDeleted)
<1> SUFFICES ASSUME "resurrect" \notin Races PROVE Spec => []DeletedStaysDeleted
  OBVIOUS
<1>1. Init => GoneInv
  <2> SUFFICES ASSUME Init PROVE GoneInv
    OBVIOUS
  <2>1. gone = {} /\ resuming = NoRecord /\ deleting = NoRecord
    BY DEF Init
  <2> QED BY <2>1, InitKeeps DEF GoneInv, DeletedStaysDeleted
<1>2. GoneInv /\ [Next]_vars => GoneInv'
  BY StepLeavesGone
<1>3. GoneInv => DeletedStaysDeleted
  BY DEF GoneInv
<1> QED BY <1>1, <1>2, <1>3, PTL DEF Spec

-----------------------------------------------------------------------------
(* A turn that did not fail is not taken for failed.  The active turn must   *)
(* be in step: nothing of it is buffered, and what was told of it, up to     *)
(* the event that its channel delivers next, is applied or waits for the     *)
(* frame without a gap.                                                      *)

HasEndedBadly(t) == native[t] \in {"failed", "cancelled"}

FailedIsTrue ==
    \A t \in Turn : ~HasEndedBadly(t) =>
        /\ ~HasFailed(view, t)
        /\ \A th \in Thread : saved[th] # NoRecord => saved[th][t] # "failed"
        /\ resuming # NoRecord => resuming.record[t] # "failed"
        /\ deleting # NoRecord => ~HasFailed(deleting.old, t)

(* The number of the next event that the channel delivers.                   *)
Told(t) == sent[t] - Len(channel[t])
Waiting(t) == {n \in 1 .. Len(frame) : frame[n].turn = t}
Number(n) == frame[n].event.sequence

Fresh(t) ==
    /\ Waiting(t) = {}
    /\ \A d \in deciding : d.turn # t
    /\ view.next[t] = 0 /\ view.pending[t] = {}
    /\ view.approval[t] # "pending" /\ view.active # t
FreshWhenDeleted(t) ==
    deleting # NoRecord =>
        /\ deleting.old.next[t] = 0 /\ deleting.old.pending[t] = {}
        /\ deleting.old.approval[t] # "pending" /\ deleting.old.active # t
UntoldIsFresh == \A t \in Turn : Told(t) = 0 => Fresh(t) /\ FreshWhenDeleted(t)

WaitingInStep(t) ==
    \A n \in Waiting(t) :
        /\ Number(n) < Told(t)
        /\ \/ Number(n) <= view.next[t]
           \/ \E m \in Waiting(t) : m < n /\ Number(n) = Number(m) + 1
ToldInStep(t) == Told(t) <= view.next[t] \/ \E n \in Waiting(t) : Told(t) = Number(n) + 1
(* A decision takes the number of the next event, so it may be one ahead.    *)
DecidedInStep(t) ==
    /\ view.approval[t] = "pending" => view.next[t] <= sent[t]
    /\ view.next[t] <= sent[t] + 1
    /\ \A d \in deciding : d.turn = t => d.sequence <= sent[t] /\ d.sequence <= view.next[t]
(* The completion itself was not applied.                                    *)
CompletedInStep(t) ==
    native[t] = "completed" =>
        /\ view.next[t] <= sent[t] - 1
        /\ \A n \in Waiting(t) : Number(n) <= sent[t] - 2
        /\ \A d \in deciding : d.turn = t => d.sequence <= sent[t] - 2
InStep(t) ==
    /\ view.pending[t] = {}
    /\ WaitingInStep(t) /\ ToldInStep(t) /\ DecidedInStep(t) /\ CompletedInStep(t)

ActiveIsInStep ==
    \A t \in Turn : view.active = t =>
        \/ t \in linked /\ InStep(t)
        \/ pc[t] = "disposing" /\ native[t] # "completed"

TruthInv == EventInv /\ FailedIsTrue /\ UntoldIsFresh /\ ActiveIsInStep

LEMMA Numbers ==
    ASSUME EventInv, NEW t \in Turn
    PROVE  /\ sent[t] \in Nat /\ Len(channel[t]) \in Nat /\ Told(t) \in Nat /\ Told(t) <= sent[t]
           /\ view.next[t] \in Nat /\ Len(frame) \in Nat
           /\ \A n \in 1 .. Len(frame) : Number(n) \in Nat /\ frame[n].turn \in Turn /\ n \in Nat
           /\ \A d \in deciding : d.sequence \in Nat /\ d.turn \in Turn
           /\ native[t] = "completed" => sent[t] >= 3
           /\ t \notin linked => Told(t) = sent[t]
<1>1. /\ channel[t] \in Seq(Event) /\ sent[t] \in Nat /\ Len(channel[t]) <= sent[t]
      /\ view.next[t] \in Nat /\ deciding \subseteq [turn : Turn, sequence : Nat]
      /\ native[t] = "completed" => sent[t] >= 3
      /\ t \notin linked => channel[t] = <<>>
  BY DEF EventInv, TypeOK, EventsInOrder, Fine, View, Phases
<1>2. Len(channel[t]) \in Nat /\ (t \notin linked => Len(channel[t]) = 0)
  BY <1>1
<1>3. Queue(frame)
  BY FrameIsQueue DEF EventInv
<1>4. /\ Len(frame) \in Nat
      /\ \A n \in 1 .. Len(frame) : Number(n) \in Nat /\ frame[n].turn \in Turn /\ n \in Nat
  BY <1>3, QueueHolds DEF Number, Event
<1> QED BY <1>1, <1>2, <1>4 DEF Told

(* What follows when the active turn's events are taken from the queue q.    *)
LEMMA TakenInStep ==
    ASSUME EventInv, NEW t \in Turn, InStep(t), home[t] = view.thread,
           NEW q, Queue(q), view' = Reduced(view, q), view'.active = t,
           Len(q) >= Len(frame), \A n \in 1 .. Len(frame) : q[n] = frame[n],
           \A n \in 1 .. Len(q) : n > Len(frame) /\ q[n].turn = t =>
              /\ \/ q[n].event.sequence <= view.next[t]
                 \/ \E m \in Waiting(t) : q[n].event.sequence = Number(m) + 1
              /\ \/ q[n].event.sequence <= sent[t] - 1
                 \/ q[n].event.kind = "approvalResolved" /\ q[n].event.sequence <= sent[t]
              /\ native[t] = "completed" /\ q[n].event.kind \notin Terminal
                    => q[n].event.sequence <= sent[t] - 2
    PROVE  /\ view'.pending[t] = {} /\ view'.next[t] >= view.next[t]
           /\ \A n \in Waiting(t) : view'.next[t] > Number(n)
           /\ \A n \in 1 .. Len(q) : q[n].turn = t => view'.next[t] > q[n].event.sequence
           /\ view'.approval[t] = "pending" => view'.next[t] <= sent[t]
           /\ view'.next[t] <= sent[t] + 1
           /\ native[t] = "completed" => view'.next[t] <= sent[t] - 1
<1>0. /\ sent[t] \in Nat /\ Told(t) \in Nat /\ Told(t) <= sent[t]
      /\ view.next[t] \in Nat /\ Len(frame) \in Nat
      /\ \A n \in 1 .. Len(frame) : Number(n) \in Nat /\ n \in Nat
      /\ native[t] = "completed" => sent[t] >= 3
  BY Numbers
<1>1. /\ Len(q) \in Nat
      /\ \A n \in 1 .. Len(q) : q[n].event.sequence \in Nat /\ n \in Nat
  BY QueueHolds DEF Event
<1>2. \A n \in 1 .. Len(q) : \/ n \in 1 .. Len(frame) /\ q[n] = frame[n]
                             \/ n > Len(frame)
  BY <1>0, <1>1
<1>3. \A m \in Waiting(t) : m \in 1 .. Len(q) /\ m <= Len(frame) /\ m \in Nat
                            /\ q[m].turn = t /\ q[m].event.sequence = Number(m)
  BY <1>0, <1>1 DEF Waiting, Number
<1>4. Chained(view, q, t)
  <2> SUFFICES ASSUME NEW n \in 1 .. Len(q), q[n].turn = t
               PROVE  \/ q[n].event.sequence <= view.next[t]
                      \/ \E m \in 1 .. Len(q) :
                            m < n /\ q[m].turn = t /\ q[n].event.sequence = q[m].event.sequence + 1
    BY DEF Chained
  <2>1. CASE n \in 1 .. Len(frame) /\ q[n] = frame[n]
    <3>1. n \in Waiting(t) /\ q[n].event.sequence = Number(n)
      BY <2>1 DEF Waiting, Number
    <3>2. \/ Number(n) <= view.next[t]
          \/ \E m \in Waiting(t) : m < n /\ Number(n) = Number(m) + 1
      BY <3>1 DEF InStep, WaitingInStep
    <3> QED BY <1>3, <3>1, <3>2
  <2>2. CASE n > Len(frame)
    <3>1. \/ q[n].event.sequence <= view.next[t]
          \/ \E m \in Waiting(t) : q[n].event.sequence = Number(m) + 1
      BY <2>2
    <3>2. \A m \in Waiting(t) : m < n
      BY <1>0, <1>1, <1>3, <2>2
    <3> QED BY <1>3, <3>1, <3>2
  <2> QED BY <1>2, <2>1, <2>2
<1>5. AllTaken(view', view, q, t, Len(q)) /\ Fine(view')
  BY <1>4, ReducedInOrder, ReducedTakes DEF EventInv, TakesAll, InStep
<1>6. view'.next[t] \in Nat
  BY <1>5 DEF Fine, View
<1>7. /\ view'.pending[t] = {} /\ view'.next[t] >= view.next[t]
      /\ \A n \in 1 .. Len(q) : q[n].turn = t => view'.next[t] > q[n].event.sequence
  BY <1>5 DEF AllTaken
<1>8. \A n \in Waiting(t) : view'.next[t] > Number(n)
  BY <1>3, <1>7
<1>9. CASE view'.next[t] = view.next[t] /\ view'.approval[t] = view.approval[t]
  BY <1>7, <1>8, <1>9 DEF InStep, DecidedInStep, CompletedInStep
<1>10. ASSUME NEW m \in 1 .. Len(q), q[m].turn = t, view'.next[t] = q[m].event.sequence + 1,
              q[m].event.kind \notin Terminal,
              q[m].event.kind = "approvalResolved" => view'.approval[t] = "decided"
       PROVE  /\ view'.approval[t] = "pending" => view'.next[t] <= sent[t]
              /\ view'.next[t] <= sent[t] + 1
              /\ native[t] = "completed" => view'.next[t] <= sent[t] - 1
  <2>1. CASE m \in 1 .. Len(frame) /\ q[m] = frame[m]
    <3>1. m \in Waiting(t) /\ q[m].event.sequence = Number(m)
      BY <1>10, <2>1 DEF Waiting, Number
    <3>2. Number(m) < Told(t) /\ (native[t] = "completed" => Number(m) <= sent[t] - 2)
      BY <3>1 DEF InStep, WaitingInStep, CompletedInStep
    <3>3. Number(m) \in Nat
      BY <1>0, <2>1
    <3> QED BY <1>0, <1>10, <3>1, <3>2, <3>3
  <2>2. CASE m > Len(frame)
    <3>1. /\ \/ q[m].event.sequence <= sent[t] - 1
             \/ q[m].event.kind = "approvalResolved" /\ q[m].event.sequence <= sent[t]
          /\ native[t] = "completed" => q[m].event.sequence <= sent[t] - 2
      BY <1>10, <2>2
    <3>2. q[m].event.sequence \in Nat
      BY <1>1
    <3>a. view'.next[t] = q[m].event.sequence + 1 /\ sent[t] \in Nat
      BY <1>0, <1>10
    <3>3. native[t] = "completed" => view'.next[t] <= sent[t] - 1
      BY ONLY <3>a, <3>1, <3>2
    <3>4. ASSUME q[m].event.sequence <= sent[t] - 1
          PROVE  /\ view'.approval[t] = "pending" => view'.next[t] <= sent[t]
                 /\ view'.next[t] <= sent[t] + 1
      BY ONLY <3>a, <3>2, <3>4
    <3>5. ASSUME q[m].event.kind = "approvalResolved", q[m].event.sequence <= sent[t]
          PROVE  /\ view'.approval[t] = "pending" => view'.next[t] <= sent[t]
                 /\ view'.next[t] <= sent[t] + 1
      BY ONLY <1>10, <3>a, <3>2, <3>5
    <3> QED BY <3>1, <3>3, <3>4, <3>5
  <2> QED BY <1>2, <2>1, <2>2
<1> QED BY <1>5, <1>7, <1>8, <1>9, <1>10 DEF AllTaken

(* What a step of the back end tells of the turn.                            *)
LEMMA NativeTells ==
    ASSUME EventInv, NEW t \in Turn, Native(t)
    PROVE  /\ UNCHANGED <<pc, home, panelVars, threadVars, historyVars>>
           /\ \A u \in Turn \ {t} : /\ native'[u] = native[u] /\ sent'[u] = sent[u]
                                    /\ Told(u)' = Told(u)
           /\ native[t] \in {"idle", "running", "approving"}
           /\ sent'[t] \in Nat /\ sent'[t] >= sent[t]
           /\ native'[t] = "completed" => sent'[t] = sent[t] + 2
           /\ t \in linked => Told(t)' = Told(t)
           /\ Told(t)' = 0 => Told(t) = 0
<1>1. /\ UNCHANGED <<pc, home, panelVars, threadVars, historyVars>>
      /\ native[t] \in {"idle", "running", "approving"}
      /\ \A u \in Turn \ {t} : native'[u] = native[u]
  BY DEF Native, NativeStarts, NativeRefuses, NativeSends, NativeAsks, NativeCompletes,
         NativeFails, NativeIsCancelled, Ends, EventInv, TypeOK
<1>2. /\ sent[t] \in Nat /\ Len(channel[t]) \in Nat /\ Told(t) \in Nat
      /\ Len(channel[t]) <= sent[t]
      /\ (t \notin linked => Told(t) = sent[t])
  BY Numbers DEF EventInv, EventsInOrder
<1>3. CASE NativeRefuses(t)
  <2>1. sent' = sent /\ channel' = channel /\ native'[t] = "failed"
    BY <1>3 DEF NativeRefuses, EventInv, TypeOK
  <2> QED BY <1>1, <1>2, <2>1 DEF Told
<1>4. ASSUME NEW kinds \in Seq(Kinds), Sends(t, kinds), Len(kinds) \in {1, 2},
             native'[t] = "completed" => Len(kinds) = 2
      PROVE  /\ \A u \in Turn \ {t} : sent'[u] = sent[u] /\ Told(u)' = Told(u)
             /\ sent'[t] \in Nat /\ sent'[t] >= sent[t]
             /\ native'[t] = "completed" => sent'[t] = sent[t] + 2
             /\ t \in linked => Told(t)' = Told(t)
             /\ Told(t)' = 0 => Told(t) = 0
  <2>1. /\ \A u \in Turn \ {t} : channel'[u] = channel[u] /\ sent'[u] = sent[u]
        /\ sent'[t] = sent[t] + Len(kinds)
        /\ t \notin linked => channel'[t] = <<>>
        /\ t \in linked => Len(channel'[t]) = Len(channel[t]) + Len(kinds)
    BY <1>4, SendsEvents DEF EventInv
  <2>2. \A u \in Turn \ {t} : Told(u)' = Told(u)
    BY <2>1 DEF Told
  <2>3. t \in linked => Told(t)' = Told(t)
    <3>1. CASE Len(kinds) = 1
      BY <1>2, <2>1, <3>1 DEF Told
    <3>2. CASE Len(kinds) = 2
      BY <1>2, <2>1, <3>2 DEF Told
    <3> QED BY <1>4, <3>1, <3>2
  <2>4. t \notin linked => Told(t)' # 0
    <3> SUFFICES ASSUME t \notin linked PROVE Told(t)' # 0
      OBVIOUS
    <3>1. channel'[t] = <<>> /\ Len(<<>>) = 0
      BY <2>1
    <3>2. Told(t)' = sent'[t] - 0
      BY <3>1 DEF Told
    <3>3. sent'[t] \in Nat /\ sent'[t] # 0
      <4>1. CASE Len(kinds) = 1
        BY <1>2, <2>1, <4>1
      <4>2. CASE Len(kinds) = 2
        BY <1>2, <2>1, <4>2
      <4> QED BY <1>4, <4>1, <4>2
    <3>4. Told(t)' = sent'[t]
      BY <3>2, <3>3
    <3> QED BY <3>3, <3>4
  <2>5. sent'[t] \in Nat /\ sent'[t] >= sent[t]
    BY <1>2, <1>4, <2>1
  <2>6. native'[t] = "completed" => sent'[t] = sent[t] + 2
    BY <1>4, <2>1
  <2>7. Told(t)' = 0 => Told(t) = 0
    BY <2>3, <2>4
  <2> QED BY <2>1, <2>2, <2>3, <2>5, <2>6, <2>7
<1>5. /\ Len(<<"started">>) = 1 /\ Len(<<"delta">>) = 1 /\ Len(<<"approvalRequested">>) = 1
      /\ Len(<<"failed">>) = 1 /\ Len(<<"cancelled">>) = 1
      /\ Len(<<"item", "completed">>) = 2
      /\ <<"started">> \in Seq(Kinds) /\ <<"delta">> \in Seq(Kinds)
      /\ <<"approvalRequested">> \in Seq(Kinds) /\ <<"failed">> \in Seq(Kinds)
      /\ <<"cancelled">> \in Seq(Kinds) /\ <<"item", "completed">> \in Seq(Kinds)
  BY DEF Kinds, Terminal
<1>6. native \in [Turn -> {"idle", "running", "approving"} \cup Terminal]
  BY DEF EventInv, TypeOK
<1>7. CASE NativeStarts(t)
  <2>1. Sends(t, <<"started">>) /\ native'[t] = "running"
    BY <1>6, <1>7 DEF NativeStarts
  <2> QED BY <1>1, <1>4, <1>5, <2>1
<1>8. CASE NativeSends(t)
  <2>1. Sends(t, <<"delta">>) /\ native'[t] = "running"
    BY <1>6, <1>8 DEF NativeSends
  <2> QED BY <1>1, <1>4, <1>5, <2>1
<1>9. CASE NativeAsks(t)
  <2>1. Sends(t, <<"approvalRequested">>) /\ native'[t] = "approving"
    BY <1>6, <1>9 DEF NativeAsks
  <2> QED BY <1>1, <1>4, <1>5, <2>1
<1>10. CASE NativeCompletes(t)
  <2>1. Sends(t, <<"item", "completed">>)
    BY <1>10 DEF NativeCompletes, Ends
  <2> QED BY <1>1, <1>4, <1>5, <2>1
<1>11. CASE NativeFails(t)
  <2>1. Sends(t, <<"failed">>) /\ native'[t] = "failed"
    BY <1>6, <1>11 DEF NativeFails, Ends
  <2> QED BY <1>1, <1>4, <1>5, <2>1
<1>12. CASE NativeIsCancelled(t)
  <2>1. Sends(t, <<"cancelled">>) /\ native'[t] = "cancelled"
    BY <1>6, <1>12 DEF NativeIsCancelled, Ends
  <2> QED BY <1>1, <1>4, <1>5, <2>1
<1> QED BY <1>3, <1>7, <1>8, <1>9, <1>10, <1>11, <1>12 DEF Native

LEMMA UnlinkTells ==
    ASSUME EventInv, NEW t \in Turn, Unlink(t), sent' = sent
    PROVE  /\ \A u \in Turn \ {t} : Told(u)' = Told(u) /\ (u \in linked' <=> u \in linked)
           /\ Told(t)' = sent[t] /\ (Told(t)' = 0 => Told(t) = 0)
<1>1. /\ linked' = linked \ {t} /\ channel' = [channel EXCEPT ![t] = <<>>]
      /\ channel \in [Turn -> Seq(Event)] /\ sent[t] \in Nat
  BY DEF Unlink, EventInv, TypeOK
<1>2. channel'[t] = <<>> /\ \A u \in Turn \ {t} : channel'[u] = channel[u]
  BY <1>1
<1>3. Told(t)' = sent[t]
  BY <1>1, <1>2 DEF Told
<1>4. Told(t) \in Nat /\ Told(t) <= sent[t]
  BY Numbers
<1>5. \A u \in Turn \ {t} : Told(u)' = Told(u)
  BY <1>2 DEF Told
<1> QED BY <1>1, <1>3, <1>4, <1>5

LEMMA DeliverTells ==
    ASSUME EventInv, NEW t \in Turn, Deliver(t)
    PROVE  /\ \A u \in Turn \ {t} : Told(u)' = Told(u)
           /\ Told(t)' = Told(t) + 1 /\ Told(t) + 1 <= sent[t]
           /\ Head(channel[t]).sequence = Told(t)
           /\ Head(channel[t]).kind = "failed" => HasEndedBadly(t)
           /\ Head(channel[t]).kind = "started" => Told(t) = 0
           /\ native[t] = "completed" /\ Head(channel[t]).kind \notin Terminal
                => Told(t) <= sent[t] - 2
<1>1. /\ Numbered(Head(channel[t]))
      /\ Head(channel[t]).sequence = sent[t] - Len(channel[t])
      /\ Len(channel'[t]) = Len(channel[t]) - 1
      /\ \A u \in Turn \ {t} : channel'[u] = channel[u]
      /\ Head(channel[t]) = channel[t][1] /\ 1 \in 1 .. Len(channel[t])
  BY DeliverKeepsEvents
<1>2. sent' = sent
  BY DEF Deliver
<1>3. sent[t] \in Nat /\ Len(channel[t]) \in Nat
  BY Numbers
<1>4. Head(channel[t]).sequence = Told(t)
  BY <1>1 DEF Told
<1>5. /\ Head(channel[t]).kind = "failed" => HasEndedBadly(t)
      /\ native[t] = "completed" /\ Head(channel[t]).kind \notin Terminal
            => Told(t) <= sent[t] - 2
  BY <1>1, <1>4 DEF EventInv, EventsInOrder, HasEndedBadly
<1>6. Head(channel[t]).kind = "started" => Told(t) = 0
  BY <1>1, <1>4 DEF Numbered
<1>7. Told(t)' = Told(t) + 1 /\ Told(t) + 1 <= sent[t]
  BY <1>1, <1>2, <1>3 DEF Told
<1>8. \A u \in Turn \ {t} : Told(u)' = Told(u)
  BY <1>1, <1>2 DEF Told
<1> QED BY <1>4, <1>5, <1>6, <1>7, <1>8

-----------------------------------------------------------------------------
(* What failed did fail *)

LEMMA OthersFailTruly ==
    ASSUME TruthInv,
           \/ \E t \in Turn : Panel(t) \/ Native(t)
           \/ \E d \in deciding : DecisionReplies(d)
           \/ Frame
    PROVE  \A u \in Turn : ~HasEndedBadly(u)' =>
              ~HasEndedBadly(u) /\ (HasFailed(view', u) => HasFailed(view, u))
<1>0. EventInv
  BY DEF TruthInv
<1> DEFINE Truly == \A u \in Turn : ~HasEndedBadly(u)' =>
                       ~HasEndedBadly(u) /\ (HasFailed(view', u) => HasFailed(view, u))
<1>1. ASSUME NEW t \in Turn, Native(t) PROVE Truly
  BY <1>0, <1>1, NativeTells DEF HasEndedBadly, threadVars
<1>2. ASSUME native' = native, view' = view PROVE Truly
  BY <1>2 DEF HasEndedBadly
<1>3. ASSUME NEW t \in Turn,
             SubmitFirst(t) \/ SubmitNext(t) \/ TitleSaved(t) \/ Cancel(t)
      PROVE  Truly
  BY <1>2, <1>3 DEF SubmitFirst, SubmitNext, TitleSaved, StartTurn, Cancel, turnVars, threadVars
<1>4. ASSUME NEW t \in Turn, Decide(t) PROVE Truly
  <2>1. native[t] = "approving" /\ native' = [native EXCEPT ![t] = "running"] /\ view' = view
    BY <1>4 DEF Decide, threadVars
  <2>2. \A u \in Turn : native'[u] = IF u = t THEN "running" ELSE native[u]
    BY <1>0, <2>1 DEF EventInv, TypeOK
  <2> QED BY <2>1, <2>2 DEF HasEndedBadly
<1>5. ASSUME NEW T, NEW F, NEW S, Changed(view', view, T, F, S), native' = native,
             \A u \in F : HasEndedBadly(u)
      PROVE  Truly
  BY <1>5 DEF Changed, HasEndedBadly
<1>6. ASSUME NEW t \in Turn, CancelReplies(t) PROVE Truly
  <2>1. SettleTurn(t, "cancelled") /\ home' = home /\ native' = native
    BY <1>6 DEF CancelReplies
  <2>2. Changed(view', view, {t}, {}, {})
    BY <1>0, <2>1, SettleChanges DEF Terminal
  <2> QED BY <1>5, <2>1, <2>2
<1>7. ASSUME NEW t \in Turn, SubmitEnds(t) PROVE Truly
  <2>1. /\ pc[t] = "disposing" /\ home' = home /\ native' = native
        /\ \E outcome \in Terminal : SettleTurn(t, outcome)
    BY <1>7 DEF SubmitEnds, Terminal
  <2>2. view.active = t => HasEndedBadly(t)
    BY <1>0, <2>1 DEF TruthInv, ActiveIsInStep, EventInv, Phases, HasEndedBadly, Terminal
  <2>3. \E F : Changed(view', view, {t}, F, {}) /\ \A u \in F : HasEndedBadly(u)
    BY <1>0, <2>1, <2>2, SettleChanges
  <2> QED BY <1>5, <2>1, <2>3
<1>8. ASSUME NEW t \in Turn, Deliver(t) PROVE Truly
  <2>1. /\ home' = home /\ native' = native /\ Emit(t, Head(channel[t]))
        /\ Numbered(Head(channel[t]))
    BY <1>0, <1>8, DeliverKeepsEvents DEF Deliver
  <2>2. Head(channel[t]).kind = "failed" => HasEndedBadly(t)
    BY <1>0, <1>8, DeliverTells
  <2>3. Changed(view', view, Deferred \cup {t}, If("failed", Head(channel[t]), t),
                If("started", Head(channel[t]), t))
    BY <1>0, <2>1, EmitChanges
  <2>4. \A u \in If("failed", Head(channel[t]), t) : HasEndedBadly(u)
    BY <2>2 DEF If
  <2> QED BY <1>5, <2>1, <2>3, <2>4
<1>9. ASSUME NEW t \in Turn, NEW e, e.kind \in {"completed", "approvalResolved"}, Numbered(e),
             Emit(t, e), home' = home, native' = native
      PROVE  Truly
  <2>1. Changed(view', view, Deferred \cup {t}, If("failed", e, t), If("started", e, t))
    BY <1>0, <1>9, EmitChanges
  <2>2. If("failed", e, t) = {}
    BY <1>9 DEF If
  <2> QED BY <1>5, <1>9, <2>1, <2>2
<1>10. ASSUME NEW t \in Turn, Replies(t) PROVE Truly
  <2>1. /\ home' = home /\ native' = native
        /\ IF native[t] = "completed" THEN Emit(t, Completion(t)) ELSE UNCHANGED threadVars
        /\ native[t] = "completed" => Numbered(Completion(t))
        /\ Completion(t).kind = "completed"
    BY <1>0, <1>10, RepliesKeepsEvents DEF Replies, SettledNumber, Completion
  <2> HIDE DEF Truly
  <2>2. CASE native[t] = "completed"
    BY <1>9, <2>1, <2>2
  <2>3. CASE native[t] # "completed"
    BY <1>2, <2>1, <2>3 DEF threadVars
  <2> QED BY <2>2, <2>3
<1>11. ASSUME NEW d \in deciding, DecisionReplies(d) PROVE Truly
  <2>1. /\ home' = home /\ native' = native /\ Emit(d.turn, Resolution(d))
        /\ d.turn \in Turn /\ Numbered(Resolution(d)) /\ Resolution(d).kind = "approvalResolved"
    BY <1>0, <1>11, DecisionKeepsEvents DEF DecisionReplies, turnVars, Resolution
  <2> HIDE DEF Truly
  <2> QED BY <1>9, <2>1
<1>12. ASSUME Frame PROVE Truly
  <2>1. Changed(view', view, Deferred, {}, {}) /\ native' = native
    BY <1>0, <1>12, FrameChanges DEF Frame, turnVars
  <2> QED BY <1>5, <2>1
<1> HIDE DEF Truly
<1>13. Truly
  BY <1>1, <1>3, <1>4, <1>6, <1>7, <1>8, <1>10, <1>11, <1>12 DEF Panel
<1> QED BY <1>13 DEF Truly

LEMMA FailedStaysTrue ==
    ASSUME TruthInv, [Next]_vars
    PROVE  FailedIsTrue'
<1>0. /\ EventInv /\ saved \in [Thread -> Record \cup {NoRecord}] /\ view.thread \in Thread
      /\ view \in View
  BY DEF TruthInv, EventInv, TypeOK, Fine, View
<1>1. \A u \in Turn : ~HasEndedBadly(u) =>
        /\ Persisted(view)[u] # "failed"
        /\ Empty[u] # "failed"
        /\ \A th \in Thread : Empty[u] # "failed" /\ ~HasFailed(Shown(th, Empty), u)
        /\ resuming # NoRecord => ~HasFailed(Shown(resuming.thread, resuming.record), u)
  BY DEF TruthInv, FailedIsTrue, Persisted, Empty, Shown, HasFailed
<1>2. CASE \/ \E t \in Turn : Panel(t) \/ Native(t)
           \/ \E d \in deciding : DecisionReplies(d)
           \/ Frame
  <2>1. \A u \in Turn : ~HasEndedBadly(u)' =>
              ~HasEndedBadly(u) /\ (HasFailed(view', u) => HasFailed(view, u))
    BY <1>2, OthersFailTruly
  <2>2. /\ resuming' = resuming /\ deleting' = deleting
        /\ saved' = saved \/ saved' = [saved EXCEPT ![view.thread] = Persisted(view)]
    BY <1>0, <1>2, ScreenGoesOn
  <2>3. \A th \in Thread : saved'[th] = saved[th] \/ saved'[th] = Persisted(view)
    <3>1. CASE saved' = saved
      BY <3>1
    <3>2. CASE saved' = [saved EXCEPT ![view.thread] = Persisted(view)]
      BY <1>0, <3>2
    <3> QED BY <2>2, <3>1, <3>2
  <2> SUFFICES ASSUME NEW u \in Turn, ~HasEndedBadly(u)'
               PROVE  /\ ~HasFailed(view', u)
                      /\ \A th \in Thread : saved'[th] # NoRecord => saved'[th][u] # "failed"
                      /\ resuming' # NoRecord => resuming'.record[u] # "failed"
                      /\ deleting' # NoRecord => ~HasFailed(deleting'.old, u)
    BY DEF FailedIsTrue, HasFailed
  <2>4. ~HasEndedBadly(u) /\ ~HasFailed(view', u)
    BY <2>1 DEF TruthInv, FailedIsTrue
  <2> QED BY <1>1, <2>2, <2>3, <2>4 DEF TruthInv, FailedIsTrue
<1>3. ASSUME native' = native,
             \/ view' = view
             \/ \E th \in Thread : view' = Shown(th, Empty)
             \/ resuming # NoRecord /\ view' = Shown(resuming.thread, resuming.record)
             \/ deleting # NoRecord /\ view' = deleting.old,
             \A th \in Thread : saved'[th] \in {saved[th], NoRecord, Empty, Persisted(view)},
             \/ resuming' \in {resuming, NoRecord}
             \/ \E th \in Thread : saved[th] # NoRecord
                                   /\ resuming' = [thread |-> th, record |-> saved[th]],
             \/ deleting' \in {deleting, NoRecord}
             \/ deleting'.old = view
             \/ deleting # NoRecord /\ deleting'.old = deleting.old
      PROVE  FailedIsTrue'
  <2> SUFFICES ASSUME NEW u \in Turn, ~HasEndedBadly(u)
               PROVE  /\ ~HasFailed(view', u)
                      /\ \A th \in Thread : saved'[th] # NoRecord => saved'[th][u] # "failed"
                      /\ resuming' # NoRecord => resuming'.record[u] # "failed"
                      /\ deleting' # NoRecord => ~HasFailed(deleting'.old, u)
    BY <1>3 DEF FailedIsTrue, HasFailed, HasEndedBadly
  <2>1. ~HasFailed(view', u)
    BY <1>1, <1>3 DEF TruthInv, FailedIsTrue
  <2>2. \A th \in Thread : saved'[th] # NoRecord => saved'[th][u] # "failed"
    BY <1>1, <1>3 DEF TruthInv, FailedIsTrue
  <2>3. resuming' # NoRecord => resuming'.record[u] # "failed"
    BY <1>3 DEF TruthInv, FailedIsTrue
  <2>4. deleting' # NoRecord => ~HasFailed(deleting'.old, u)
    BY <1>3 DEF TruthInv, FailedIsTrue, HasFailed
  <2> QED BY <2>1, <2>2, <2>3, <2>4
<1>4. CASE TimerFires
  <2>1. /\ native' = native /\ view' = view /\ resuming' = resuming /\ deleting' = deleting
        /\ saved' = saved \/ saved' = [saved EXCEPT ![view.thread] = Persisted(view)]
    BY <1>4 DEF TimerFires, Save, turnVars
  <2>2. \A th \in Thread : saved'[th] \in {saved[th], Persisted(view)}
    <3>1. CASE saved' = saved
      BY <3>1
    <3>2. CASE saved' = [saved EXCEPT ![view.thread] = Persisted(view)]
      BY <1>0, <3>2
    <3> QED BY <2>1, <3>1, <3>2
  <2> QED BY <1>3, <2>1, <2>2
<1>5. CASE Resumed
  BY <1>3, <1>5 DEF Resumed, Show, turnVars
<1>6. ASSUME NEW th \in Thread, NewThread(th) \/ DeleteCurrent(th) PROVE FailedIsTrue'
  <2>1. /\ native' = native /\ view' = Shown(th, Empty) /\ resuming' = resuming
        /\ saved' \in {saved, [saved EXCEPT ![th] = Empty]}
        /\ deleting' = deleting \/ deleting'.old = view
    BY <1>6 DEF NewThread, DeleteCurrent, Show, turnVars
  <2>2. \A o \in Thread : saved'[o] \in {saved[o], Empty}
    <3>1. CASE saved' = [saved EXCEPT ![th] = Empty]
      BY <1>0, <3>1
    <3>2. CASE saved' = saved
      BY <3>2
    <3> QED BY <2>1, <3>1, <3>2
  <2> QED BY <1>3, <2>1, <2>2
<1>7. ASSUME NEW th \in Thread, Resume(th) PROVE FailedIsTrue'
  BY <1>3, <1>7 DEF Resume, turnVars, threadVars
<1>8. ASSUME NEW th \in Thread, DeleteOther(th) PROVE FailedIsTrue'
  <2>1. /\ native' = native /\ view' = view /\ resuming' = resuming /\ deleting' = deleting
        /\ saved' = [saved EXCEPT ![th] = NoRecord]
    BY <1>8 DEF DeleteOther, turnVars, threadVars
  <2>2. \A o \in Thread : saved'[o] \in {saved[o], NoRecord}
    BY <1>0, <2>1
  <2> QED BY <1>3, <2>1, <2>2
<1>9. CASE UNCHANGED vars
  BY <1>3, <1>9 DEF vars, turnVars, threadVars, historyVars
<1>10. CASE DeleteGoesOn
  <2>1. /\ native' = native /\ view' = view /\ resuming' = resuming /\ deleting # NoRecord
        /\ deleting' = NoRecord \/ deleting'.old = deleting.old
        /\ saved' \in {saved, [saved EXCEPT ![deleting.old.thread] = NoRecord]}
    BY <1>0, <1>10 DEF DeleteGoesOn, turnVars, threadVars, EventInv, TypeOK, Deletion
  <2>2. \A o \in Thread : saved'[o] \in {saved[o], NoRecord}
    <3>1. CASE saved' = [saved EXCEPT ![deleting.old.thread] = NoRecord]
      BY <1>0, <3>1
    <3>2. CASE saved' = saved
      BY <3>2
    <3> QED BY <2>1, <3>1, <3>2
  <2> QED BY <1>3, <2>1, <2>2
<1>11. CASE DeleteFails
  BY <1>3, <1>11 DEF DeleteFails, Show, turnVars
<1> QED BY <1>2, <1>4, <1>5, <1>6, <1>7, <1>8, <1>9, <1>10, <1>11 DEF Next, History

-----------------------------------------------------------------------------
(* What was not told is not known *)

(* A step leaves the turn u alone.                                           *)
Leaves(u) ==
    /\ Waiting(u) = {} => Waiting(u)' = {}
    /\ Same(view', view, u)
    /\ view.active # u => view'.active # u
    /\ \A d \in deciding' : d \in deciding \/ d.turn # u

LEMMA LeavesFresh == ASSUME NEW u \in Turn, Fresh(u), Leaves(u) PROVE Fresh(u)'
  BY DEF Fresh, Leaves, Same

LEMMA NotDeferred ==
    ASSUME NEW u
    PROVE  Waiting(u) = {} <=> u \notin Deferred
  BY DEF Waiting, Deferred

(* The frame after an event of t has come.                                   *)
LEMMA EmitWaits ==
    ASSUME EventInv, NEW t \in Turn, NEW e, Numbered(e), Emit(t, e), home' = home
    PROVE  \/ /\ e.kind = "delta" /\ view' = view
              /\ Len(frame') = Len(frame) + 1 /\ Len(frame) \in Nat
              /\ \A n \in 1 .. Len(frame) : frame'[n] = frame[n]
              /\ frame'[Len(frame) + 1].turn = t /\ frame'[Len(frame) + 1].event = e
           \/ e.kind # "delta" /\ frame' = <<>> /\ \A u : Waiting(u)' = {}
<1> DEFINE q == Append(frame, [turn |-> t, event |-> e])
<1>1. Queue(frame)
  BY FrameIsQueue DEF EventInv
<1>2. /\ Len(q) = Len(frame) + 1 /\ Len(frame) \in Nat
      /\ \A n \in 1 .. Len(frame) : q[n] = frame[n]
      /\ q[Len(frame) + 1].turn = t /\ q[Len(frame) + 1].event = e
  BY <1>1, QueueGrows DEF Queue
<1>3. \/ e.kind = "delta" /\ frame' = q /\ view' = view
      \/ e.kind # "delta" /\ frame' = <<>>
  BY EmitTakes DEF EventInv
<1> HIDE DEF q
<1>4. frame' = <<>> => \A u : Waiting(u)' = {}
  BY DEF Waiting
<1> QED BY <1>2, <1>3, <1>4

LEMMA EmitLeaves ==
    ASSUME EventInv, NEW t \in Turn, NEW e, Numbered(e), Emit(t, e), home' = home,
           deciding' \subseteq deciding, NEW u \in Turn, u # t, Waiting(u) = {}
    PROVE  Leaves(u)
<1>1. u \notin Deferred \cup {t}
  BY NotDeferred
<1>2. Changed(view', view, Deferred \cup {t}, If("failed", e, t), If("started", e, t))
  BY EmitChanges
<1>3. Same(view', view, u)
  BY <1>1, <1>2 DEF Changed
<1>4. view.active # u => view'.active # u
  BY <1>2, ThreadAssumption DEF Changed, If
<1>5. Waiting(u)' = {}
  <2>1. CASE /\ e.kind = "delta" /\ view' = view
             /\ Len(frame') = Len(frame) + 1 /\ Len(frame) \in Nat
             /\ \A n \in 1 .. Len(frame) : frame'[n] = frame[n]
             /\ frame'[Len(frame) + 1].turn = t /\ frame'[Len(frame) + 1].event = e
    <3> SUFFICES ASSUME NEW n \in 1 .. Len(frame'), frame'[n].turn = u PROVE FALSE
      BY DEF Waiting
    <3>1. n \in 1 .. Len(frame) \/ n = Len(frame) + 1
      BY <2>1
    <3> QED BY <2>1, <3>1 DEF Waiting
  <2> QED BY <2>1, EmitWaits
<1> QED BY <1>3, <1>4, <1>5 DEF Leaves

(* What was told of a turn stays told.                                       *)
LEMMA UntoldStays ==
    ASSUME EventInv, [Next]_vars, NEW u \in Turn, Told(u)' = 0
    PROVE  Told(u) = 0
<1>1. ASSUME sent' = sent, channel' = channel PROVE Told(u) = 0
  BY <1>1 DEF Told
<1>2. ASSUME NEW t \in Turn, Native(t) PROVE Told(u) = 0
  BY <1>2, NativeTells
<1>3. ASSUME NEW t \in Turn, CancelReplies(t) \/ Replies(t) PROVE Told(u) = 0
  BY <1>3, UnlinkTells DEF CancelReplies, Replies
<1>4. ASSUME NEW t \in Turn, Deliver(t) PROVE Told(u) = 0
  BY <1>4, Numbers, DeliverTells
<1>5. ASSUME NEW t \in Turn, Panel(t), ~CancelReplies(t), ~Replies(t), ~Deliver(t)
      PROVE  Told(u) = 0
  BY <1>1, <1>5 DEF Panel, SubmitFirst, SubmitNext, TitleSaved, StartTurn, Cancel, Decide,
                    SubmitEnds, turnVars
<1>6. ASSUME \/ \E d \in deciding : DecisionReplies(d)
             \/ Frame \/ History \/ UNCHANGED vars
      PROVE  Told(u) = 0
  BY <1>1, <1>6, HistoryIsIdle DEF DecisionReplies, Frame, turnVars, vars
<1> QED BY <1>2, <1>3, <1>4, <1>5, <1>6 DEF Next

(* The screen that is being deleted is the one that was shown.               *)
LEMMA DeletionGoesOn ==
    ASSUME EventInv, [Next]_vars
    PROVE  \/ deleting' \in {deleting, NoRecord}
           \/ deleting'.old = view
           \/ deleting # NoRecord /\ deleting'.old = deleting.old
<1>1. CASE \/ \E t \in Turn : Panel(t) \/ Native(t)
           \/ \E d \in deciding : DecisionReplies(d)
           \/ Frame
  BY <1>1, ScreenGoesOn
<1>2. CASE History
  <2>1. deleting # NoRecord => deleting \in Deletion
    BY DEF EventInv, TypeOK
  <2> QED BY <1>2, <2>1 DEF History, TimerFires, Resumed, NewThread, Resume, DeleteOther,
                            DeleteCurrent, DeleteGoesOn, DeleteFails, Deletion
<1>3. CASE UNCHANGED vars
  BY <1>3 DEF vars, historyVars
<1> QED BY <1>1, <1>2, <1>3 DEF Next

LEMMA UntoldStaysFresh ==
    ASSUME TruthInv, [Next]_vars
    PROVE  UntoldIsFresh'
<1>0. EventInv /\ UntoldIsFresh
  BY DEF TruthInv
<1> SUFFICES ASSUME NEW u \in Turn, Told(u)' = 0 PROVE Fresh(u)' /\ FreshWhenDeleted(u)'
  BY DEF UntoldIsFresh
<1>1. ASSUME Told(u) = 0, Leaves(u) PROVE Fresh(u)'
  BY <1>0, <1>1, LeavesFresh DEF UntoldIsFresh
<1>2. ASSUME view' = view, frame' = frame, \A d \in deciding' : d \in deciding \/ d.turn # u
      PROVE  Leaves(u)
  BY <1>2 DEF Leaves, Same, Waiting
<1>3. ASSUME NEW t \in Turn, Native(t) PROVE Fresh(u)'
  <2>1. Told(u) = 0
    BY <1>0, <1>3, NativeTells
  <2>2. Leaves(u)
    BY <1>0, <1>2, <1>3, NativeTells DEF panelVars, threadVars
  <2> QED BY <1>1, <2>1, <2>2
<1>4. ASSUME NEW t \in Turn,
             SubmitFirst(t) \/ SubmitNext(t) \/ TitleSaved(t) \/ Cancel(t) \/ Decide(t)
      PROVE  Fresh(u)'
  <2>1. /\ view' = view /\ frame' = frame /\ sent' = sent /\ channel' = channel
        /\ deciding' = deciding
              \/ /\ deciding' = deciding \cup {[turn |-> t, sequence |-> view.next[t]]}
                 /\ view.approval[t] = "pending"
    BY <1>4 DEF SubmitFirst, SubmitNext, TitleSaved, StartTurn, Cancel, Decide, panelVars,
                turnVars, threadVars
  <2>2. Told(u) = 0
    BY <2>1 DEF Told
  <2>3. view.approval[u] # "pending"
    BY <1>0, <2>2 DEF UntoldIsFresh, Fresh
  <2>4. \A d \in deciding' : d \in deciding \/ d.turn # u
    BY <2>1, <2>3
  <2> QED BY <1>1, <1>2, <2>1, <2>2, <2>4
<1>5. ASSUME NEW t \in Turn, CancelReplies(t) \/ SubmitEnds(t) PROVE Fresh(u)'
  <2>1. /\ home' = home /\ deciding' = deciding /\ frame' = frame
        /\ \E outcome \in Terminal : SettleTurn(t, outcome)
    BY <1>5 DEF CancelReplies, SubmitEnds, SettleTurn, Terminal
  <2>2. Told(u) = 0
    <3>1. CASE CancelReplies(t)
      BY <1>0, <3>1, UnlinkTells DEF CancelReplies
    <3>2. CASE SubmitEnds(t)
      BY <3>2 DEF SubmitEnds, Told
    <3> QED BY <1>5, <3>1, <3>2
  <2>3. view.active # u
    BY <1>0, <2>2 DEF UntoldIsFresh, Fresh
  <2>4. Same(view', view, u) /\ view'.active # u
    <3>1. CASE u = t
      <4>1. view' = view
        BY <1>0, <2>1, <2>3, <3>1, SettleTakes DEF EventInv
      <4> QED BY <2>3, <4>1 DEF Same
    <3>2. CASE u # t
      <4>1. \E F : Changed(view', view, {t}, F, {})
        BY <1>0, <2>1, SettleChanges
      <4> QED BY <2>3, <3>2, <4>1, ThreadAssumption DEF Changed
    <3> QED BY <3>1, <3>2
  <2>5. Waiting(u)' = Waiting(u)
    BY <2>1 DEF Waiting
  <2>6. Leaves(u)
    BY <2>1, <2>3, <2>4, <2>5 DEF Leaves
  <2> QED BY <1>1, <2>2, <2>6
<1>6. ASSUME NEW t \in Turn, NEW e, Numbered(e), Emit(t, e), home' = home,
             deciding' \subseteq deciding, Told(u) = 0, u # t
      PROVE  Fresh(u)'
  <2>1. Waiting(u) = {}
    BY <1>0, <1>6 DEF UntoldIsFresh, Fresh
  <2>2. Leaves(u)
    BY <1>0, <1>6, <2>1, EmitLeaves
  <2> QED BY <1>1, <1>6, <2>2
<1>7. ASSUME NEW t \in Turn, Deliver(t) PROVE Fresh(u)'
  <2>1. /\ home' = home /\ Emit(t, Head(channel[t])) /\ deciding' \subseteq deciding
        /\ Numbered(Head(channel[t]))
    BY <1>0, <1>7, DeliverKeepsEvents DEF Deliver, panelVars
  <2>2. Told(t) \in Nat
    BY <1>0, Numbers
  <2>3. u # t /\ Told(u) = 0
    BY <1>0, <1>7, <2>2, DeliverTells
  <2> QED BY <1>6, <2>1, <2>3
<1>8. ASSUME NEW t \in Turn, Replies(t) PROVE Fresh(u)'
  <2>1. /\ home' = home /\ Unlink(t) /\ sent' = sent /\ deciding' = deciding
        /\ IF native[t] = "completed" THEN Emit(t, Completion(t)) ELSE UNCHANGED threadVars
        /\ native[t] = "completed" => Numbered(Completion(t))
    BY <1>0, <1>8, RepliesKeepsEvents DEF Replies, SettledNumber, Completion
  <2>2. Told(u) = 0 /\ (u = t => sent[t] = 0)
    BY <1>0, <2>1, UnlinkTells
  <2>3. native[t] = "completed" => u # t
    BY <1>0, <2>2, Numbers
  <2>4. CASE native[t] = "completed"
    <3> HIDE DEF Completion
    <3> QED BY <1>6, <2>1, <2>2, <2>3, <2>4
  <2>5. CASE native[t] # "completed"
    BY <1>1, <1>2, <2>1, <2>2, <2>5 DEF threadVars
  <2> QED BY <2>4, <2>5
<1>9. ASSUME NEW d \in deciding, DecisionReplies(d) PROVE Fresh(u)'
  <2>1. /\ home' = home /\ Emit(d.turn, Resolution(d)) /\ deciding' \subseteq deciding
        /\ d.turn \in Turn /\ Numbered(Resolution(d)) /\ sent' = sent /\ channel' = channel
    BY <1>0, <1>9, DecisionKeepsEvents DEF DecisionReplies, turnVars, Resolution
  <2>2. Told(u) = 0
    BY <2>1 DEF Told
  <2>3. u # d.turn
    BY <1>0, <2>2 DEF UntoldIsFresh, Fresh
  <2> HIDE DEF Resolution
  <2> QED BY <1>6, <2>1, <2>2, <2>3
<1>10. ASSUME Frame PROVE Fresh(u)'
  <2>1. /\ frame' = <<>> /\ deciding' = deciding /\ sent' = sent /\ channel' = channel
        /\ Changed(view', view, Deferred, {}, {})
    BY <1>0, <1>10, FrameChanges DEF Frame, turnVars, panelVars
  <2>2. Told(u) = 0 /\ Waiting(u)' = {}
    BY <2>1 DEF Told, Waiting
  <2>3. u \notin Deferred /\ view.active # u
    BY <1>0, <2>2, NotDeferred DEF UntoldIsFresh, Fresh
  <2>4. Leaves(u)
    BY <2>1, <2>2, <2>3, ThreadAssumption DEF Leaves, Changed
  <2> QED BY <1>1, <2>2, <2>4
<1>11. ASSUME History PROVE Fresh(u)'
  <2>1. /\ sent' = sent /\ channel' = channel /\ deciding' = deciding
    BY <1>0, <1>11, HistoryIsIdle DEF turnVars, panelVars
  <2>2. Told(u) = 0
    BY <2>1 DEF Told
  <2>3. /\ frame' = frame \/ frame' = <<>>
        /\ \/ view' = view \/ \E th, record : view' = Shown(th, record)
           \/ deleting # NoRecord /\ view' = deleting.old
    BY <1>11 DEF History, TimerFires, Resumed, NewThread, Resume, DeleteOther, DeleteCurrent,
                 DeleteGoesOn, DeleteFails, Show, threadVars
  <2>4. Waiting(u)' = {}
    <3>1. Waiting(u) = {}
      BY <1>0, <2>2 DEF UntoldIsFresh, Fresh
    <3>2. frame' = frame => Waiting(u)' = Waiting(u)
      BY DEF Waiting
    <3>3. frame' = <<>> => Waiting(u)' = {}
      BY DEF Waiting
    <3> QED BY <2>3, <3>1, <3>2, <3>3
  <2>5. \A th, record : LET w == Shown(th, record)
                        IN  /\ w.next[u] = 0 /\ w.pending[u] = {}
                            /\ w.approval[u] # "pending" /\ w.active # u
    BY ThreadAssumption DEF Shown
  <2>6. /\ view'.next[u] = 0 /\ view'.pending[u] = {}
        /\ view'.approval[u] # "pending" /\ view'.active # u
    BY <1>0, <2>2, <2>3, <2>5 DEF UntoldIsFresh, Fresh, FreshWhenDeleted
  <2>7. \A d \in deciding : d.turn # u
    BY <1>0, <2>2 DEF UntoldIsFresh, Fresh
  <2> QED BY <2>1, <2>4, <2>6, <2>7 DEF Fresh
<1>12. ASSUME UNCHANGED vars PROVE Fresh(u)'
  <2>1. /\ view' = view /\ frame' = frame /\ deciding' = deciding /\ Told(u)' = Told(u)
    BY <1>12 DEF vars, turnVars, panelVars, threadVars, Told
  <2> QED BY <1>1, <1>2, <2>1
<1>13. Fresh(u)'
  BY <1>3, <1>4, <1>5, <1>7, <1>8, <1>9, <1>10, <1>11, <1>12 DEF Next, Panel
<1>14. FreshWhenDeleted(u)'
  <2>1. Told(u) = 0
    BY <1>0, UntoldStays
  <2>2. FreshWhenDeleted(u) /\ Fresh(u)
    BY <1>0, <2>1 DEF UntoldIsFresh
  <2>3. \/ deleting' \in {deleting, NoRecord}
        \/ deleting'.old = view
        \/ deleting # NoRecord /\ deleting'.old = deleting.old
    BY <1>0, DeletionGoesOn
  <2> QED BY <2>2, <2>3 DEF FreshWhenDeleted, Fresh
<1> QED BY <1>13, <1>14

-----------------------------------------------------------------------------
(* The active turn stays in step *)

LEMMA FreshInStep ==
    ASSUME EventInv, NEW t \in Turn, Told(t) = 0, Fresh(t)
    PROVE  InStep(t)
<1>1. sent[t] \in Nat /\ (native[t] = "completed" => sent[t] >= 3)
  BY Numbers
<1> QED BY <1>1 DEF Fresh, InStep, WaitingInStep, ToldInStep, DecidedInStep, CompletedInStep

LEMMA AloneInStep ==
    ASSUME EventInv, NEW t \in Turn, InStep(t), Told(t)' = Told(t), frame' = frame,
           Same(view', view, t), deciding' \subseteq deciding,
           sent'[t] \in Nat, sent'[t] >= sent[t],
           native'[t] = "completed" =>
              (native[t] = "completed" /\ sent'[t] = sent[t]) \/ sent'[t] = sent[t] + 2
    PROVE  InStep(t)'
<1>1. /\ sent[t] \in Nat /\ Told(t) \in Nat /\ Told(t) <= sent[t] /\ view.next[t] \in Nat
      /\ \A n \in 1 .. Len(frame) : Number(n) \in Nat
      /\ \A d \in deciding : d.sequence \in Nat
  BY Numbers
<1>2. /\ view'.pending[t] = {} /\ view'.next[t] = view.next[t]
      /\ view'.approval[t] = view.approval[t]
      /\ Waiting(t)' = Waiting(t) /\ \A n : Number(n)' = Number(n)
  BY DEF InStep, Same, Waiting, Number
<1>3. WaitingInStep(t)' /\ ToldInStep(t)'
  BY <1>2 DEF InStep, WaitingInStep, ToldInStep
<1>4. DecidedInStep(t)'
  <2>1. \A d \in deciding : d.turn = t => d.sequence <= sent'[t]
    <3> SUFFICES ASSUME NEW d \in deciding, d.turn = t PROVE d.sequence <= sent'[t]
      OBVIOUS
    <3>1. d.sequence <= sent[t] /\ d.sequence \in Nat
      BY <1>1 DEF InStep, DecidedInStep
    <3> QED BY <1>1, <3>1
  <2>2. /\ view.approval[t] = "pending" => view.next[t] <= sent'[t]
        /\ view.next[t] <= sent'[t] + 1
    BY <1>1 DEF InStep, DecidedInStep
  <2> QED BY <1>2, <2>1, <2>2 DEF InStep, DecidedInStep
<1>5. CompletedInStep(t)'
  <2>1. CASE native[t] = "completed" /\ sent'[t] = sent[t]
    BY <1>2, <2>1 DEF InStep, CompletedInStep
  <2>2. CASE sent'[t] = sent[t] + 2
    <3>1. view.next[t] <= sent'[t] - 1
      BY <1>1, <2>2 DEF InStep, DecidedInStep
    <3>2. ASSUME NEW n \in Waiting(t) PROVE Number(n) <= sent'[t] - 2
      <4>1. Number(n) < Told(t) /\ Number(n) \in Nat
        BY <1>1 DEF InStep, WaitingInStep, Waiting
      <4> QED BY <1>1, <2>2, <4>1
    <3>3. ASSUME NEW d \in deciding, d.turn = t PROVE d.sequence <= sent'[t] - 2
      <4>1. d.sequence <= sent[t] /\ d.sequence \in Nat
        BY <1>1, <3>3 DEF InStep, DecidedInStep
      <4> QED BY <1>1, <2>2, <4>1
    <3> QED BY <1>2, <3>1, <3>2, <3>3 DEF CompletedInStep
  <2> QED BY <2>1, <2>2 DEF CompletedInStep
<1> QED BY <1>2, <1>3, <1>4, <1>5 DEF InStep

LEMMA TakenStaysInStep ==
    ASSUME EventInv, NEW t \in Turn, InStep(t), Fine(view)', Waiting(t)' = {},
           sent' = sent, native' = native, deciding' \subseteq deciding,
           Told(t)' <= view'.next[t],
           view'.pending[t] = {}, view'.next[t] >= view.next[t],
           view'.approval[t] = "pending" => view'.next[t] <= sent[t],
           view'.next[t] <= sent[t] + 1,
           native[t] = "completed" => view'.next[t] <= sent[t] - 1
    PROVE  InStep(t)'
<1>1. view'.next[t] \in Nat /\ view.next[t] \in Nat /\ \A d \in deciding : d.sequence \in Nat
  BY Numbers DEF Fine, View
<1>2. \A d \in deciding : d.turn = t => d.sequence <= sent[t] /\ d.sequence <= view'.next[t]
  BY <1>1 DEF InStep, DecidedInStep
<1>3. DecidedInStep(t)'
  BY <1>2 DEF DecidedInStep
<1>4. CompletedInStep(t)'
  BY DEF InStep, CompletedInStep
<1> QED BY <1>3, <1>4 DEF InStep, WaitingInStep, ToldInStep

LEMMA FrameInStep ==
    ASSUME EventInv, EventInv', NEW t \in Turn, InStep(t), view'.active = t, Frame
    PROVE  InStep(t)'
<1>1. /\ frame' = <<>> /\ UNCHANGED <<turnVars, panelVars>>
      /\ view' = Reduced(view, frame) /\ Queue(frame)
  BY FrameKeepsEvents DEF Frame
<1>2. home[t] = view.thread
  <2>1. view'.thread = view.thread /\ home' = home
    BY <1>1, FrameChanges DEF Changed, turnVars
  <2> QED BY <2>1, ThreadAssumption DEF EventInv, Fine
<1>3. Told(t) \in Nat /\ view.next[t] \in Nat /\ Len(frame) \in Nat
      /\ \A n \in 1 .. Len(frame) : Number(n) \in Nat /\ n \in Nat
  BY Numbers
<1>4. \A n \in 1 .. Len(frame) : ~(n > Len(frame))
  BY <1>3
<1>5. /\ view'.pending[t] = {} /\ view'.next[t] >= view.next[t]
      /\ \A n \in Waiting(t) : view'.next[t] > Number(n)
      /\ view'.approval[t] = "pending" => view'.next[t] <= sent[t]
      /\ view'.next[t] <= sent[t] + 1
      /\ native[t] = "completed" => view'.next[t] <= sent[t] - 1
  BY <1>1, <1>2, <1>3, <1>4, TakenInStep
<1>6. Told(t)' = Told(t) /\ Waiting(t)' = {}
  BY <1>1 DEF Told, turnVars, Waiting
<1>7. Told(t) <= view'.next[t]
  <2>1. view'.next[t] \in Nat
    BY DEF EventInv, Fine, View
  <2>2. CASE Told(t) <= view.next[t]
    BY <1>3, <1>5, <2>1, <2>2
  <2>3. ASSUME NEW n \in Waiting(t), Told(t) = Number(n) + 1 PROVE Told(t) <= view'.next[t]
    <3>1. Number(n) \in Nat /\ view'.next[t] > Number(n)
      BY <1>3, <1>5 DEF Waiting
    <3> QED BY <2>1, <2>3, <3>1
  <2> QED BY <2>2, <2>3 DEF InStep, ToldInStep
<1> QED BY <1>1, <1>5, <1>6, <1>7, TakenStaysInStep DEF EventInv, turnVars, panelVars

(* An event of u is emitted; if u is the active turn t, it is in step too.   *)
MayTake(t, e) ==
    /\ \/ e.sequence <= view.next[t]
       \/ \E m \in Waiting(t) : e.sequence = Number(m) + 1
    /\ \/ e.sequence <= sent[t] - 1
       \/ e.kind = "approvalResolved" /\ e.sequence <= sent[t]
    /\ native[t] = "completed" /\ e.kind \notin Terminal => e.sequence <= sent[t] - 2

LEMMA EmitTaken ==
    ASSUME EventInv, NEW t \in Turn, InStep(t), view'.active = t, Fine(view)',
           NEW u \in Turn, NEW e, Numbered(e), Emit(u, e), home' = home, e.kind # "delta",
           u = t => MayTake(t, e)
    PROVE  /\ view'.pending[t] = {} /\ view'.next[t] >= view.next[t]
           /\ \A n \in Waiting(t) : view'.next[t] > Number(n)
           /\ u = t => view'.next[t] > e.sequence
           /\ view'.approval[t] = "pending" => view'.next[t] <= sent[t]
           /\ view'.next[t] <= sent[t] + 1
           /\ native[t] = "completed" => view'.next[t] <= sent[t] - 1
<1> DEFINE q == Append(frame, [turn |-> u, event |-> e])
<1>1. Queue(frame) /\ Queue(q) /\ view' = Reduced(view, q)
  BY EmitTakes, FrameIsQueue DEF EventInv
<1>2. /\ Len(q) = Len(frame) + 1 /\ Len(frame) \in Nat
      /\ \A n \in 1 .. Len(frame) : q[n] = frame[n]
      /\ q[Len(frame) + 1].turn = u /\ q[Len(frame) + 1].event = e
  BY <1>1, QueueGrows DEF Queue
<1> HIDE DEF q
<1>3. home[t] = view.thread
  <2>1. view'.thread = view.thread
    BY EmitChanges DEF Changed
  <2> QED BY <2>1, ThreadAssumption DEF Fine
<1>4. \A n \in 1 .. Len(q) : n > Len(frame) => n = Len(frame) + 1
  BY <1>2
<1>5. \A n \in 1 .. Len(q) : n > Len(frame) /\ q[n].turn = t =>
              /\ \/ q[n].event.sequence <= view.next[t]
                 \/ \E m \in Waiting(t) : q[n].event.sequence = Number(m) + 1
              /\ \/ q[n].event.sequence <= sent[t] - 1
                 \/ q[n].event.kind = "approvalResolved" /\ q[n].event.sequence <= sent[t]
              /\ native[t] = "completed" /\ q[n].event.kind \notin Terminal
                    => q[n].event.sequence <= sent[t] - 2
  BY <1>2, <1>4 DEF MayTake
<1>6. Len(q) >= Len(frame) /\ Len(frame) + 1 \in 1 .. Len(q)
  BY <1>2
<1>7. /\ view'.pending[t] = {} /\ view'.next[t] >= view.next[t]
      /\ \A n \in Waiting(t) : view'.next[t] > Number(n)
      /\ \A n \in 1 .. Len(q) : q[n].turn = t => view'.next[t] > q[n].event.sequence
      /\ view'.approval[t] = "pending" => view'.next[t] <= sent[t]
      /\ view'.next[t] <= sent[t] + 1
      /\ native[t] = "completed" => view'.next[t] <= sent[t] - 1
  BY <1>1, <1>2, <1>3, <1>5, <1>6, TakenInStep
<1> QED BY <1>2, <1>6, <1>7

LEMMA EmitInStep ==
    ASSUME EventInv, EventInv', NEW t \in Turn, InStep(t), view'.active = t,
           NEW u \in Turn, NEW e, Numbered(e), Emit(u, e), home' = home,
           sent' = sent, native' = native, deciding' \subseteq deciding,
           u = t => MayTake(t, e),
           \/ Told(t)' = Told(t) /\ (u = t => e.kind # "delta")
           \/ u = t /\ Told(t)' = Told(t) + 1 /\ e.sequence = Told(t)
    PROVE  InStep(t)'
<1>0. /\ sent[t] \in Nat /\ Told(t) \in Nat /\ Told(t) <= sent[t]
      /\ view.next[t] \in Nat /\ view'.next[t] \in Nat /\ Len(frame) \in Nat
      /\ \A n \in 1 .. Len(frame) : Number(n) \in Nat /\ n \in Nat
      /\ Fine(view)'
  BY Numbers DEF EventInv, Fine, View
<1>1. CASE e.kind # "delta"
  <2>1. /\ view'.pending[t] = {} /\ view'.next[t] >= view.next[t]
        /\ \A n \in Waiting(t) : view'.next[t] > Number(n)
        /\ u = t => view'.next[t] > e.sequence
        /\ view'.approval[t] = "pending" => view'.next[t] <= sent[t]
        /\ view'.next[t] <= sent[t] + 1
        /\ native[t] = "completed" => view'.next[t] <= sent[t] - 1
    BY <1>0, <1>1, EmitTaken
  <2>2. Waiting(t)' = {}
    BY <1>1, EmitWaits
  <2>3. Told(t) <= view'.next[t]
    <3>1. CASE Told(t) <= view.next[t]
      BY <1>0, <2>1, <3>1
    <3>2. ASSUME NEW n \in Waiting(t), Told(t) = Number(n) + 1 PROVE Told(t) <= view'.next[t]
      <4>1. Number(n) \in Nat /\ view'.next[t] > Number(n)
        BY <1>0, <2>1 DEF Waiting
      <4> QED BY <1>0, <3>2, <4>1
    <3> QED BY <3>1, <3>2 DEF InStep, ToldInStep
  <2>4. Told(t)' <= view'.next[t]
    <3>1. CASE Told(t)' = Told(t)
      BY <2>3, <3>1
    <3>2. CASE u = t /\ Told(t)' = Told(t) + 1 /\ e.sequence = Told(t)
      <4>1. view'.next[t] > Told(t)
        BY <2>1, <3>2
      <4> QED BY <1>0, <3>2, <4>1
    <3> QED BY <3>1, <3>2
  <2> QED BY <1>0, <2>1, <2>2, <2>4, TakenStaysInStep
<1>2. CASE e.kind = "delta"
  <2>1. /\ view' = view /\ Len(frame') = Len(frame) + 1
        /\ \A n \in 1 .. Len(frame) : frame'[n] = frame[n]
        /\ frame'[Len(frame) + 1].turn = u /\ frame'[Len(frame) + 1].event = e
    BY <1>2, EmitWaits
  <2>a. PICK k \in Nat : k = Len(frame) + 1
    BY <1>0
  <2>2. /\ \A n \in 1 .. Len(frame) : Number(n)' = Number(n)
        /\ Number(k)' = e.sequence
    BY <2>1, <2>a DEF Number
  <2>3. \A n : n \in 1 .. Len(frame') <=> n \in 1 .. Len(frame) \/ n = k
    BY <1>0, <2>1, <2>a
  <2>4. Waiting(t)' = Waiting(t) \cup (IF u = t THEN {k} ELSE {})
    BY <2>1, <2>3, <2>a DEF Waiting
  <2>5. CASE u # t
    <3>1. Waiting(t)' = Waiting(t) /\ \A n \in Waiting(t) : Number(n)' = Number(n)
      BY <2>2, <2>4, <2>5 DEF Waiting
    <3>2. Told(t)' = Told(t)
      BY <2>5
    <3>3. WaitingInStep(t)' /\ ToldInStep(t)'
      BY <2>1, <3>1, <3>2 DEF InStep, WaitingInStep, ToldInStep
    <3>4. DecidedInStep(t)' /\ CompletedInStep(t)'
      BY <2>1, <3>1 DEF InStep, DecidedInStep, CompletedInStep
    <3> QED BY <2>1, <3>3, <3>4 DEF InStep
  <2>6. CASE u = t
    <3>1. Told(t)' = Told(t) + 1 /\ e.sequence = Told(t)
      BY <1>2, <2>6
    <3>2. /\ Waiting(t)' = Waiting(t) \cup {k}
          /\ \A n \in Waiting(t) : /\ Number(n)' = Number(n) /\ n < k
                                   /\ Number(n) \in Nat /\ n \in Nat
      BY <1>0, <2>2, <2>4, <2>6, <2>a DEF Waiting
    <3>3. Number(k)' = Told(t)
      BY <2>2, <3>1
    <3>4. WaitingInStep(t)'
      <4> SUFFICES ASSUME NEW n \in Waiting(t)'
                   PROVE  /\ Number(n)' < Told(t)'
                          /\ \/ Number(n)' <= view'.next[t]
                             \/ \E m \in Waiting(t)' : m < n /\ Number(n)' = Number(m)' + 1
        BY DEF WaitingInStep
      <4>1. CASE n \in Waiting(t)
        <5>1. Number(n) < Told(t)
          BY <4>1 DEF InStep, WaitingInStep
        <5>2. Number(n)' < Told(t)'
          BY <1>0, <3>1, <3>2, <4>1, <5>1
        <5>3. \/ Number(n)' <= view'.next[t]
              \/ \E m \in Waiting(t)' : m < n /\ Number(n)' = Number(m)' + 1
          BY <2>1, <3>2, <4>1 DEF InStep, WaitingInStep
        <5> QED BY <5>2, <5>3
      <4>2. CASE n = k
        <5>1. Number(n)' = Told(t)
          BY <3>3, <4>2
        <5>2. \/ Told(t) <= view.next[t]
              \/ \E m \in Waiting(t) : Told(t) = Number(m) + 1
          BY DEF InStep, ToldInStep
        <5>3. Told(t) < Told(t)'
          BY <1>0, <3>1
        <5>4. CASE Told(t) <= view.next[t]
          BY <2>1, <5>1, <5>3, <5>4
        <5>5. ASSUME NEW m \in Waiting(t), Told(t) = Number(m) + 1
              PROVE  m \in Waiting(t)' /\ m < n /\ Number(n)' = Number(m)' + 1
          BY <3>2, <4>2, <5>1, <5>5
        <5> QED BY <5>1, <5>2, <5>3, <5>4, <5>5
      <4> QED BY <3>2, <4>1, <4>2
    <3>5. ToldInStep(t)'
      BY <3>1, <3>2, <3>3 DEF ToldInStep
    <3>6. DecidedInStep(t)'
      BY <2>1 DEF InStep, DecidedInStep
    <3>7. native[t] = "completed" => Told(t) <= sent[t] - 2
      BY <1>2, <2>6, <3>1 DEF MayTake, Terminal
    <3>8. CompletedInStep(t)'
      <4>1. native[t] = "completed" => \A n \in Waiting(t)' : Number(n)' <= sent[t] - 2
        BY <3>2, <3>3, <3>7 DEF InStep, CompletedInStep
      <4> QED BY <2>1, <4>1 DEF InStep, CompletedInStep
    <3> QED BY <2>1, <3>4, <3>5, <3>6, <3>8 DEF InStep
  <2> QED BY <2>5, <2>6
<1> QED BY <1>1, <1>2

(* A reply finds at most the turn's last event on its way: with it the turn  *)
(* ends on the screen.                                                       *)
LEMMA ReplyEnds ==
    ASSUME TruthInv, EventInv', "overtake" \notin Races, NEW t \in Turn, Replies(t),
           native[t] = "completed"
    PROVE  view'.active # t
<1>0. EventInv
  BY DEF TruthInv
<1>1. /\ pc[t] = "running" /\ home' = home /\ Emit(t, Completion(t))
      /\ t \in linked => Len(channel[t]) <= 1
  BY DEF Replies, SettledNumber, Completion, Admits
<1>2. /\ Numbered(Completion(t)) /\ Completion(t).kind = "completed"
      /\ Completion(t).sequence = sent[t] - 1
  BY <1>0, RepliesKeepsEvents DEF Completion
<1> HIDE DEF Completion
<1> SUFFICES ASSUME view'.active = t PROVE FALSE
  OBVIOUS
<1>3. view.active = t
  BY <1>0, <1>1, <1>2, EmitChanges, ThreadAssumption DEF Changed, If
<1>4. t \in linked /\ InStep(t)
  BY <1>1, <1>3 DEF TruthInv, ActiveIsInStep
<1>5. /\ sent[t] \in Nat /\ sent[t] >= 3 /\ Len(channel[t]) \in Nat /\ Told(t) \in Nat
      /\ Told(t) <= sent[t] /\ view.next[t] \in Nat /\ view'.next[t] \in Nat
      /\ \A n \in Waiting(t) : Number(n) \in Nat
  BY <1>0, Numbers DEF EventInv, Fine, View, Waiting
<1>6. sent[t] - 1 <= Told(t)
  BY <1>1, <1>4, <1>5 DEF Told
<1>7. \/ sent[t] - 1 <= view.next[t]
      \/ \E m \in Waiting(t) : sent[t] - 1 = Number(m) + 1
  <2>1. CASE Told(t) <= view.next[t]
    BY <1>5, <1>6, <2>1
  <2>2. ASSUME NEW m \in Waiting(t), Told(t) = Number(m) + 1 PROVE sent[t] - 1 = Number(m) + 1
    <3>1. Number(m) \in Nat /\ Number(m) <= sent[t] - 2
      BY <1>4, <1>5 DEF InStep, CompletedInStep
    <3> QED BY <1>5, <1>6, <2>2, <3>1
  <2> QED BY <1>4, <2>1, <2>2 DEF InStep, ToldInStep
<1>8. MayTake(t, Completion(t))
  BY <1>2, <1>5, <1>7 DEF MayTake, Terminal
<1>9. view'.next[t] > sent[t] - 1 /\ view'.next[t] <= sent[t] - 1
  <2>1. Completion(t).kind # "delta" /\ Fine(view)'
    BY <1>2 DEF EventInv
  <2> QED BY <1>0, <1>1, <1>2, <1>4, <1>8, <2>1, EmitTaken
<1> QED BY <1>5, <1>9

LEMMA ActiveStaysInStep ==
    ASSUME "overtake" \notin Races, TruthInv, [Next]_vars
    PROVE  ActiveIsInStep'
<1>0. EventInv /\ EventInv'
  BY StepKeepsEvents DEF TruthInv
<1> DEFINE Good(t) == \/ t \in linked /\ InStep(t)
                      \/ pc[t] = "disposing" /\ native[t] # "completed"
<1> SUFFICES ASSUME NEW t \in Turn, view'.active = t PROVE Good(t)'
  BY DEF ActiveIsInStep
<1>a. /\ t # NoTurn /\ sent[t] \in Nat
      /\ pc \in [Turn -> {"new", "titling", "running", "disposing", "over"}]
      /\ native \in [Turn -> {"idle", "running", "approving"} \cup Terminal]
  BY <1>0, ThreadAssumption DEF EventInv, TypeOK
<1>b. view.active = t => Good(t)
  BY DEF TruthInv, ActiveIsInStep
<1>c. t \in linked => pc[t] = "running"
  BY <1>0 DEF EventInv, Phases
(* a step that concerns other turns *)
<1>1. ASSUME view.active = t, Same(view', view, t), frame' = frame, Told(t)' = Told(t),
             sent' = sent, native'[t] = native[t], pc'[t] = pc[t], deciding' \subseteq deciding,
             t \in linked => t \in linked'
      PROVE  Good(t)'
  <2>1. CASE t \in linked /\ InStep(t)
    <3>1. InStep(t)'
      BY <1>0, <1>1, <1>a, <2>1, AloneInStep
    <3> QED BY <1>1, <2>1, <3>1
  <2>2. CASE pc[t] = "disposing" /\ native[t] # "completed"
    BY <1>1, <2>2
  <2> QED BY <1>1, <1>b, <2>1, <2>2
<1>2. ASSUME view' = view
      PROVE  view.active = t /\ Same(view', view, t)
  BY <1>2 DEF Same
<1>3. ASSUME NEW u \in Turn, Native(u) PROVE Good(t)'
  <2>1. /\ UNCHANGED <<pc, home, panelVars, threadVars, historyVars>>
        /\ \A o \in Turn \ {u} : /\ native'[o] = native[o] /\ sent'[o] = sent[o]
                                 /\ Told(o)' = Told(o)
        /\ native[u] \in {"idle", "running", "approving"}
        /\ sent'[u] \in Nat /\ sent'[u] >= sent[u]
        /\ native'[u] = "completed" => sent'[u] = sent[u] + 2
        /\ u \in linked => Told(u)' = Told(u)
    BY <1>0, <1>3, NativeTells
  <2>2. view.active = t /\ Same(view', view, t)
    BY <1>2, <2>1 DEF threadVars
  <2>3. CASE t \in linked /\ InStep(t)
    <3>1. /\ Told(t)' = Told(t) /\ frame' = frame /\ deciding' \subseteq deciding
          /\ linked' = linked /\ sent'[t] \in Nat /\ sent'[t] >= sent[t]
          /\ native'[t] = "completed" =>
                (native[t] = "completed" /\ sent'[t] = sent[t]) \/ sent'[t] = sent[t] + 2
      BY <1>a, <2>1, <2>3 DEF panelVars, threadVars
    <3>2. InStep(t)'
      BY <1>0, <2>2, <2>3, <3>1, AloneInStep
    <3> QED BY <2>3, <3>1, <3>2
  <2>4. CASE pc[t] = "disposing" /\ native[t] # "completed"
    <3>1. native[t] \in Terminal
      BY <1>0, <2>4 DEF EventInv, Phases
    <3>2. t # u
      BY <2>1, <3>1 DEF Terminal
    <3> QED BY <2>1, <2>4, <3>2
  <2> QED BY <1>b, <2>2, <2>3, <2>4
<1>4. ASSUME NEW u \in Turn, SubmitFirst(u) \/ SubmitNext(u) \/ TitleSaved(u)
      PROVE  Good(t)'
  <2>1. /\ view' = view /\ frame' = frame /\ sent' = sent /\ channel' = channel
        /\ native' = native /\ deciding' = deciding /\ linked \subseteq linked'
        /\ pc[u] \in {"new", "titling"} /\ (pc' = [pc EXCEPT ![u] = "titling"]
                                            \/ pc' = [pc EXCEPT ![u] = "running"])
    BY <1>4 DEF SubmitFirst, SubmitNext, TitleSaved, Submits, StartTurn, panelVars, threadVars
  <2>2. view.active = t /\ Same(view', view, t)
    BY <1>2, <2>1
  <2>3. t # u
    BY <1>b, <1>c, <2>1, <2>2
  <2>4. pc'[t] = pc[t] /\ Told(t)' = Told(t)
    BY <1>a, <2>1, <2>3 DEF Told
  <2> QED BY <1>1, <2>1, <2>2, <2>4
<1>5. ASSUME NEW u \in Turn, Cancel(u) PROVE Good(t)'
  <2>1. /\ view' = view /\ frame' = frame /\ UNCHANGED turnVars /\ deciding' = deciding
        /\ linked' = linked
    BY <1>5 DEF Cancel, threadVars
  <2>2. Told(t)' = Told(t) /\ sent' = sent /\ native' = native /\ pc' = pc
    BY <2>1 DEF Told, turnVars
  <2> QED BY <1>1, <1>2, <2>1, <2>2
<1>6. ASSUME NEW u \in Turn, CancelReplies(u) \/ SubmitEnds(u) PROVE Good(t)'
  <2>1. /\ home' = home /\ sent' = sent /\ native' = native /\ deciding' = deciding
        /\ frame' = frame /\ \E outcome \in Terminal : SettleTurn(u, outcome)
    BY <1>6 DEF CancelReplies, SubmitEnds, SettleTurn, Terminal
  <2>2. u # t /\ view.active = t /\ Same(view', view, t)
    <3>1. PICK F : Changed(view', view, {u}, F, {}) /\ view'.active # u
      BY <1>0, <2>1, SettleChanges
    <3> QED BY <1>a, <3>1 DEF Changed
  <2>3. Told(t)' = Told(t) /\ (t \in linked => t \in linked') /\ pc'[t] = pc[t]
    <3>1. CASE CancelReplies(u)
      BY <1>0, <2>2, <3>1, UnlinkTells DEF CancelReplies
    <3>2. CASE SubmitEnds(u)
      BY <1>a, <2>2, <3>2 DEF SubmitEnds, Told
    <3> QED BY <1>6, <3>1, <3>2
  <2> QED BY <1>1, <2>1, <2>2, <2>3
<1>7. ASSUME NEW u \in Turn, Decide(u) PROVE Good(t)'
  <2>1. /\ view.approval[u] = "pending" /\ native[u] = "approving"
        /\ native' = [native EXCEPT ![u] = "running"]
        /\ deciding' = deciding \cup {[turn |-> u, sequence |-> view.next[u]]}
        /\ view' = view /\ frame' = frame /\ sent' = sent /\ channel' = channel
        /\ pc' = pc /\ linked' = linked
    BY <1>7 DEF Decide, threadVars
  <2>2. view.active = t /\ Told(t)' = Told(t)
    BY <1>2, <2>1 DEF Told
  <2>3. native'[t] = IF u = t THEN "running" ELSE native[t]
    BY <1>a, <2>1
  <2>4. CASE t \in linked /\ InStep(t)
    <3>1. view.next[t] \in Nat
      BY <1>0, Numbers
    <3>2. Waiting(t)' = Waiting(t) /\ \A n : Number(n)' = Number(n)
      BY <2>1 DEF Waiting, Number
    <3>3. WaitingInStep(t)' /\ ToldInStep(t)'
      BY <2>1, <2>2, <2>4, <3>2 DEF InStep, WaitingInStep, ToldInStep
    <3>4. DecidedInStep(t)'
      <4>1. ASSUME NEW d \in deciding', d.turn = t
            PROVE  d.sequence <= sent[t] /\ d.sequence <= view.next[t]
        <5>1. CASE d \in deciding
          BY <2>4, <4>1, <5>1 DEF InStep, DecidedInStep
        <5>2. CASE d = [turn |-> u, sequence |-> view.next[u]]
          BY <2>1, <2>4, <3>1, <4>1, <5>2 DEF InStep, DecidedInStep
        <5> QED BY <2>1, <5>1, <5>2
      <4> QED BY <2>1, <2>4, <4>1 DEF InStep, DecidedInStep
    <3>5. CompletedInStep(t)'
      <4>1. CASE native'[t] = "completed"
        <5>1. u # t /\ native[t] = "completed"
          BY <2>3, <4>1
        <5>2. \A d \in deciding' : d.turn = t => d \in deciding
          BY <2>1, <5>1
        <5> QED BY <2>1, <2>4, <3>2, <5>1, <5>2 DEF InStep, CompletedInStep
      <4> QED BY <4>1 DEF CompletedInStep
    <3>6. InStep(t)'
      BY <2>1, <2>4, <3>3, <3>4, <3>5 DEF InStep
    <3> QED BY <2>1, <2>4, <3>6
  <2>5. CASE pc[t] = "disposing" /\ native[t] # "completed"
    BY <2>1, <2>3, <2>5
  <2> QED BY <1>b, <2>2, <2>4, <2>5
<1>8. ASSUME NEW u \in Turn, Deliver(u) PROVE Good(t)'
  <2> DEFINE e == Head(channel[u])
  <2>1. /\ home' = home /\ sent' = sent /\ native' = native /\ deciding' \subseteq deciding
        /\ linked' = linked /\ pc' = pc /\ Emit(u, e) /\ Numbered(e) /\ u \in linked
    BY <1>0, <1>8, DeliverKeepsEvents DEF Deliver, panelVars
  <2>2. /\ \A o \in Turn \ {u} : Told(o)' = Told(o)
        /\ Told(u)' = Told(u) + 1 /\ Told(u) + 1 <= sent[u] /\ e.sequence = Told(u)
        /\ e.kind = "started" => Told(u) = 0
        /\ native[u] = "completed" /\ e.kind \notin Terminal => Told(u) <= sent[u] - 2
    BY <1>0, <1>8, DeliverTells
  <2> HIDE DEF e
  <2>3. view.active = t \/ (u = t /\ e.kind = "started")
    BY <1>0, <1>a, <2>1, EmitChanges DEF Changed, If
  <2>4. CASE pc[t] = "disposing" /\ native[t] # "completed"
    BY <2>1, <2>4
  <2>5. CASE t \in linked /\ InStep(t)
    <3>1. u = t => MayTake(t, e)
      <4>1. Told(t) \in Nat
        BY <1>0, Numbers
      <4> QED BY <1>a, <2>2, <2>5, <4>1 DEF MayTake, InStep, ToldInStep
    <3>2. InStep(t)'
      BY <1>0, <2>1, <2>2, <2>5, <3>1, EmitInStep
    <3> QED BY <2>1, <2>5, <3>2
  <2>6. ASSUME u = t, Told(t) = 0 PROVE t \in linked /\ InStep(t)
    BY <1>0, <2>1, <2>6, FreshInStep DEF TruthInv, UntoldIsFresh
  <2> QED BY <1>b, <2>2, <2>3, <2>4, <2>5, <2>6
<1>9. ASSUME NEW u \in Turn, NEW e, Numbered(e), e.kind \in {"completed", "approvalResolved"},
             Emit(u, e), home' = home, sent' = sent, native' = native,
             deciding' \subseteq deciding, Told(t)' = Told(t), pc'[t] = pc[t],
             t \in linked => t \in linked', u = t /\ InStep(t) => MayTake(t, e)
      PROVE  Good(t)'
  <2>1. view.active = t
    BY <1>0, <1>9, <1>a, EmitChanges DEF Changed, If
  <2>2. CASE t \in linked /\ InStep(t)
    <3>1. InStep(t)'
      BY <1>0, <1>9, <2>2, EmitInStep
    <3> QED BY <1>9, <2>2, <3>1
  <2>3. CASE pc[t] = "disposing" /\ native[t] # "completed"
    BY <1>9, <2>3
  <2> QED BY <1>b, <2>1, <2>2, <2>3
<1>10. ASSUME NEW u \in Turn, Replies(u) PROVE Good(t)'
  <2>1. /\ home' = home /\ Unlink(u) /\ sent' = sent /\ native' = native /\ deciding' = deciding
        /\ pc[u] = "running" /\ pc' = [pc EXCEPT ![u] = "disposing"]
        /\ IF native[u] = "completed" THEN Emit(u, Completion(u)) ELSE UNCHANGED threadVars
        /\ native[u] = "completed" => Numbered(Completion(u))
        /\ Completion(u).kind = "completed"
    BY <1>0, <1>10, RepliesKeepsEvents DEF Replies, SettledNumber, Completion
  <2>2. u # t => Told(t)' = Told(t) /\ (t \in linked' <=> t \in linked) /\ pc'[t] = pc[t]
    BY <1>0, <1>a, <2>1, UnlinkTells
  <2> HIDE DEF Good
  <2>3. CASE native[u] = "completed"
    <3>1. u # t
      BY <1>0, <1>10, <2>3, ReplyEnds
    <3>2. Emit(u, Completion(u)) /\ Numbered(Completion(u))
      BY <2>1, <2>3
    <3> QED BY <1>9, <2>1, <2>2, <3>1, <3>2
  <2>4. CASE native[u] # "completed"
    <3>1. view' = view /\ frame' = frame
      BY <2>1, <2>4 DEF threadVars
    <3>2. CASE u = t
      <4>1. pc'[t] = "disposing" /\ native'[t] # "completed"
        BY <1>a, <2>1, <2>4, <3>2
      <4> QED BY <4>1 DEF Good
    <3>3. CASE u # t
      BY <1>1, <1>2, <2>1, <2>2, <3>1, <3>3
    <3> QED BY <3>2, <3>3
  <2> QED BY <2>3, <2>4
<1>11. ASSUME NEW d \in deciding, DecisionReplies(d) PROVE Good(t)'
  <2>1. /\ home' = home /\ Emit(d.turn, Resolution(d)) /\ deciding' \subseteq deciding
        /\ d.turn \in Turn /\ Numbered(Resolution(d)) /\ sent' = sent /\ channel' = channel
        /\ native' = native /\ pc' = pc /\ linked' = linked
        /\ Resolution(d).kind = "approvalResolved" /\ Resolution(d).sequence = d.sequence
    BY <1>0, <1>11, DecisionKeepsEvents DEF DecisionReplies, turnVars, Resolution
  <2>2. Told(t)' = Told(t)
    BY <2>1 DEF Told
  <2>3. d.turn = t /\ InStep(t) => MayTake(t, Resolution(d))
    BY <2>1 DEF MayTake, InStep, DecidedInStep, CompletedInStep
  <2> HIDE DEF Good, Resolution
  <2> QED BY <1>9, <2>1, <2>2, <2>3
<1>12. ASSUME Frame PROVE Good(t)'
  <2>1. /\ linked' = linked /\ pc' = pc /\ native' = native
        /\ view'.active \in {view.active, NoTurn}
    BY <1>0, <1>12, FrameChanges DEF Changed, Frame, turnVars, panelVars
  <2>2. view.active = t
    BY <1>a, <2>1
  <2>3. InStep(t) => InStep(t)'
    BY <1>0, <1>12, FrameInStep
  <2> QED BY <1>b, <2>1, <2>2, <2>3
<1>13. ASSUME History PROVE Good(t)'
  <2>1. UNCHANGED <<turnVars, panelVars>> /\ view' = view
    BY <1>0, <1>13, <1>a, HistoryIsIdle
  <2>2. frame' = frame \/ view'.active = NoTurn
    BY <1>13 DEF History, TimerFires, Resumed, NewThread, Resume, DeleteOther, DeleteCurrent,
                 DeleteGoesOn, DeleteFails, Show, Shown, threadVars
  <2>3. /\ frame' = frame /\ Told(t)' = Told(t) /\ sent' = sent /\ native' = native /\ pc' = pc
        /\ deciding' = deciding /\ linked' = linked
    BY <1>a, <2>1, <2>2 DEF Told, turnVars, panelVars
  <2> QED BY <1>1, <1>2, <2>1, <2>3
<1>14. CASE UNCHANGED vars
  <2>1. /\ view' = view /\ frame' = frame /\ Told(t)' = Told(t) /\ sent' = sent
        /\ native' = native /\ pc' = pc /\ deciding' = deciding /\ linked' = linked
    BY <1>14 DEF vars, turnVars, panelVars, threadVars, Told
  <2> QED BY <1>1, <1>2, <2>1
<1> QED BY <1>3, <1>4, <1>5, <1>6, <1>7, <1>8, <1>10, <1>11, <1>12, <1>13, <1>14 DEF Next, Panel

(* If a reply overtakes at most the last event of its turn, a turn that      *)
(* completed is not shown as failed.                                         *)
THEOREM CompletedNeverFails == "overtake" \notin Races => (Spec => []NeverFalselyFailed)
<1> SUFFICES ASSUME "overtake" \notin Races PROVE Spec => []NeverFalselyFailed
  OBVIOUS
<1>1. Init => TruthInv
  <2> SUFFICES ASSUME Init PROVE TruthInv
    OBVIOUS
  <2>1. /\ view = Shown(First, Empty) /\ frame = <<>> /\ deciding = {}
        /\ resuming = NoRecord /\ deleting = NoRecord
        /\ saved = [th \in Thread |-> IF th = First THEN Empty ELSE NoRecord]
    BY DEF Init
  <2>2. /\ view.active = NoTurn
        /\ \A t \in Turn : /\ view.turns[t] = "absent" /\ view.next[t] = 0
                           /\ view.pending[t] = {} /\ view.approval[t] = "none"
    BY <2>1 DEF Shown, Empty
  <2>3. UntoldIsFresh
    BY <2>1, <2>2, ThreadAssumption DEF UntoldIsFresh, Fresh, FreshWhenDeleted, Waiting
  <2>4. ActiveIsInStep
    BY <2>2, ThreadAssumption DEF ActiveIsInStep
  <2>5. FailedIsTrue
    BY <2>1, <2>2 DEF FailedIsTrue, HasFailed, Empty
  <2> QED BY <2>3, <2>4, <2>5, InitEvents DEF TruthInv
<1>2. TruthInv /\ [Next]_vars => TruthInv'
  BY StepKeepsEvents, FailedStaysTrue, UntoldStaysFresh, ActiveStaysInStep DEF TruthInv
<1>3. TruthInv => NeverFalselyFailed
  BY DEF TruthInv, FailedIsTrue, NeverFalselyFailed, HasFailed, HasEndedBadly
<1> QED BY <1>1, <1>2, <1>3, PTL DEF Spec
=============================================================================
