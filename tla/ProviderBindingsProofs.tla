------------------------ MODULE ProviderBindingsProofs ------------------------
(***************************************************************************)
(* For any threads, locators, clients and identifiers: what the transactions   *)
(* of the provider bindings promise.                                           *)
(***************************************************************************)
EXTENDS ProviderBindings, TLAPS

Transitions == [id : TransitionIds, thread : Threads, locator : Locators,
                lifecycle : Lifecycles, previous : TransitionIds \cup {None}]

Operations == {"none", "resolve", "replace", "suspend", "retire", "reactivate"}
Stages == {"idle", "locator", "thread", "insert", "refind", "write"}

Calls == [op : Operations, thread : Threads \cup {NoThread}, locator : Locators \cup {NoLocator},
          expected : TransitionIds \cup {None}, intent : BOOLEAN, stage : Stages,
          row : TransitionIds \cup {None}]

\* What the three tables hold.
RowsTyped ==
  /\ transitions \subseteq Transitions
  /\ current \in [Threads -> TransitionIds \cup {None}]
  /\ claims \in [Locators -> Threads \cup {NoThread}]

UniqueIds == \A x, y \in transitions : x.id = y.id => x = y

\* A thread with a history has a pointer, and it points into the history.
HeadsExist ==
  \A t \in Threads : /\ current[t] = None => \A x \in transitions : x.thread # t
                     /\ current[t] # None => \E x \in transitions : x.id = current[t] /\ x.thread = t

\* A locator is never taken from the thread that claimed it.
ClaimsHeld == \A x \in transitions : claims[x.locator] = x.thread

\* What no transition of its locator follows is the thread's state, or is over.
Ended(x) ==
  \/ \E y \in transitions : y.locator = x.locator /\ y.previous = x.id
  \/ x.lifecycle = "RETIRED"
  \/ current[x.thread] = x.id

RowsInv == RowsTyped /\ UniqueIds /\ HeadsExist /\ ClaimsHeld /\ \A x \in transitions : Ended(x)

\* Somebody has seen the transition id of thread t.
Known(id, t) == \E x \in transitions : x.id = id /\ x.thread = t

\* A call under way: what it was asked, and what its statements have found.
Consistent(c) ==
  LET k == call[c] IN
  /\ k.stage # "idle" => k.thread \in Threads /\ k.op # "none"
  /\ k.op \in {"resolve", "replace"} => k.locator \in Locators
  /\ k.stage = "locator" =>
       /\ k.op \in {"resolve", "replace"}
       /\ k.row # None => \E x \in transitions : x.id = k.row /\ x.locator = k.locator
  /\ k.stage \in {"insert", "refind"} => k.op = "resolve"
  /\ k.stage \in {"thread", "write"} => (k.row # None => Known(k.row, k.thread))
  /\ k.stage \in {"locator", "thread"} /\ k.op # "resolve" => Known(k.expected, k.thread)
  /\ k.stage = "thread" /\ k.op # "resolve" =>
       /\ k.row # None
       /\ current[k.thread] # k.row => current[k.thread] # k.expected
  /\ k.stage = "write" => k.op # "resolve" /\ k.row = k.expected /\ k.row # None

CallInv == call \in [Callers -> Calls] /\ \A c \in Callers : Consistent(c)

Inv == RowsInv /\ CallInv

\* One row, or two, continue a history from its head to id.
Continue(added, head, id) ==
  \/ \E n \in added : added = {n} /\ n.id = id /\ n.previous = head
  \/ \E m, n \in added : /\ added = {m, n} /\ m.id # n.id
                         /\ n.id = id /\ n.previous = m.id /\ m.previous = head

\* Thread t moves to transition i of locator l; added are the new rows.
Commits(t, l, i, added) ==
  /\ t \in Threads /\ l \in Locators /\ i \in TransitionIds
  /\ added \subseteq Transitions
  /\ \A x \in added : x.thread = t /\ \A y \in transitions : x.id # y.id
  /\ \A x, y \in added : x.id = y.id => x = y
  /\ \A x \in added : x.lifecycle = "RETIRED" \/ x.id = i
  /\ \A x \in added : claims[x.locator] = t \/ x.locator = l
  /\ \E x \in added : x.id = i
  /\ claims[l] \in {NoThread, t}
  /\ \A y \in transitions : y.id = current[t] =>
       \E x \in added : x.previous = y.id /\ x.locator = y.locator
  /\ Continue(added, current[t], i)
  /\ transitions' = transitions \cup added
  /\ current' = [current EXCEPT ![t] = i]
  /\ claims' = [claims EXCEPT ![l] = t]

Unwritten == UNCHANGED <<current, claims, transitions>>

------------------------------------------------------------------------------
(* The rows.                                                                  *)

\* A row is found by its identifier.
LEMMA RowOf ==
  ASSUME UniqueIds, NEW x \in transitions
  PROVE  Row(x.id) = x
BY DEF UniqueIds, Row

\* Migration 016 has bound at most one thread.
LEMMA InitInv == Init => Inv
<1> SUFFICES ASSUME Init PROVE Inv
  OBVIOUS
<1>1. PICK bound \in {{}} \cup {{t} : t \in Threads}, l \in Locators, i \in {NewId(TransitionIds)} :
        /\ transitions = {Transition(i, t, l, "ACTIVE", None) : t \in bound}
        /\ current = [t \in Threads |-> IF t \in bound THEN i ELSE None]
        /\ claims = [k \in Locators |-> IF bound # {} /\ k = l THEN CHOOSE t \in bound : TRUE
                                        ELSE NoThread]
  BY DEF Init
<1>2. i \in TransitionIds /\ i # None
  BY BindingAssumption DEF NewId
<1>3. CallInv
  BY DEF Init, CallInv, Consistent, NoCall, Calls, Operations, Stages
<1>4. CASE bound = {}
  BY <1>1, <1>3, <1>4 DEF Inv, RowsInv, RowsTyped, UniqueIds, HeadsExist, ClaimsHeld
<1>5. ASSUME NEW t \in Threads, bound = {t} PROVE Inv
  <2> DEFINE n == Transition(i, t, l, "ACTIVE", None)
  <2>1. transitions = {n}
    BY <1>1, <1>5
  <2>2. n \in Transitions /\ n.id = i /\ n.thread = t /\ n.locator = l
    BY <1>2 DEF Transition, Transitions, Lifecycles
  <2>3. current = [u \in Threads |-> IF u = t THEN i ELSE None]
    BY <1>1, <1>5
  <2>4. (CHOOSE u \in bound : TRUE) = t
    BY <1>5
  <2>5. claims = [k \in Locators |-> IF k = l THEN t ELSE NoThread]
    BY <1>1, <1>5, <2>4
  <2> HIDE DEF n
  <2>6. RowsTyped
    BY <1>2, <2>1, <2>2, <2>3, <2>5 DEF RowsTyped
  <2> QED
    BY <1>2, <1>3, <2>1, <2>2, <2>3, <2>5, <2>6
       DEF Inv, RowsInv, UniqueIds, HeadsExist, ClaimsHeld, Ended
<1> QED
  BY <1>1, <1>4, <1>5

\* What a commit adds is the end of the thread's history and of its locators'.
LEMMA CommitKeepsRows ==
  ASSUME RowsInv, NEW t, NEW l, NEW i, NEW added, Commits(t, l, i, added)
  PROVE  RowsInv'
<1>1. /\ transitions' = transitions \cup added
      /\ current'[t] = i /\ \A u \in Threads \ {t} : current'[u] = current[u]
      /\ claims'[l] = t /\ \A k \in Locators \ {l} : claims'[k] = claims[k]
      /\ t \in Threads /\ l \in Locators /\ i \in TransitionIds /\ i # None
  BY BindingAssumption DEF Commits, RowsInv, RowsTyped
<1>2. RowsTyped'
  BY DEF Commits, RowsInv, RowsTyped
<1>3. UniqueIds'
  BY <1>1 DEF Commits, RowsInv, UniqueIds
<1>4. HeadsExist'
  <2>1. ASSUME NEW u \in Threads, u # t
        PROVE  /\ current'[u] = None => \A x \in transitions' : x.thread # u
               /\ current'[u] # None => \E x \in transitions' : x.id = current'[u] /\ x.thread = u
    BY <1>1, <2>1 DEF Commits, RowsInv, HeadsExist
  <2>2. \E x \in transitions' : x.id = current'[t] /\ x.thread = t
    BY <1>1 DEF Commits
  <2> QED
    BY <1>1, <2>1, <2>2 DEF HeadsExist
<1>5. ClaimsHeld'
  <2>1. ASSUME NEW x \in transitions PROVE claims'[x.locator] = x.thread
    <3>1. claims[x.locator] = x.thread /\ x.locator \in Locators /\ x.thread \in Threads
      BY DEF RowsInv, RowsTyped, ClaimsHeld, Transitions
    <3>2. x.locator = l => x.thread = t
      BY <3>1, BindingAssumption DEF Commits
    <3> QED
      BY <1>1, <3>1, <3>2
  <2>2. ASSUME NEW x \in added PROVE claims'[x.locator] = x.thread
    <3>1. x.locator \in Locators /\ x.thread = t /\ (claims[x.locator] = t \/ x.locator = l)
      BY DEF Commits, Transitions
    <3> QED
      BY <1>1, <3>1
  <2> QED
    BY <1>1, <2>1, <2>2 DEF ClaimsHeld
<1>6. \A x \in transitions' : Ended(x)'
  <2>1. ASSUME NEW x \in added PROVE Ended(x)'
    BY <1>1, <2>1 DEF Ended, Commits
  <2>2. ASSUME NEW x \in transitions PROVE Ended(x)'
    <3>1. Ended(x) /\ x.thread \in Threads
      BY DEF RowsInv, RowsTyped, Transitions
    <3>2. CASE current[x.thread] = x.id /\ x.thread = t
      BY <1>1, <3>2 DEF Ended, Commits
    <3>3. CASE x.thread # t \/ current[x.thread] # x.id
      BY <1>1, <3>1, <3>3 DEF Ended
    <3> QED
      BY <3>2, <3>3
  <2> QED
    BY <1>1, <2>1, <2>2
<1> QED
  BY <1>2, <1>3, <1>4, <1>5, <1>6 DEF RowsInv

------------------------------------------------------------------------------
(* Which steps write rows, and what they write.                                *)

\* A thread and a locator that nobody had are bound.
LEMMA Created ==
  ASSUME Inv, NEW c \in Callers, CreateBinding(c)
  PROVE  Unwritten \/ \E i, added : Commits(call[c].thread, call[c].locator, i, added)
<1> DEFINE k == call[c]
           i == NewId(Unused)
           n == Transition(i, k.thread, k.locator, "ACTIVE", None)
<1>1. CASE Unwritten
  BY <1>1
<1>2. CASE ~Unwritten
  <2>1. /\ current[k.thread] = None /\ claims[k.locator] = NoThread
        /\ transitions' = transitions \cup {n}
        /\ claims' = [claims EXCEPT ![k.locator] = k.thread]
        /\ current' = [current EXCEPT ![k.thread] = i]
    BY <1>2 DEF CreateBinding, Enter, Unwritten
  <2>2. i \in TransitionIds /\ \A y \in transitions : y.id # i
    BY DEF CreateBinding, NewId, Unused, IdsOf
  <2>3. k.thread \in Threads /\ k.locator \in Locators
    BY DEF CreateBinding, Inv, CallInv, Consistent
  <2>4. /\ n \in Transitions /\ n.id = i /\ n.thread = k.thread /\ n.locator = k.locator
        /\ n.previous = None
    BY <2>2, <2>3 DEF Transition, Transitions, Lifecycles
  <2>5. \A y \in transitions : y.id # current[k.thread]
    BY <2>1, BindingAssumption DEF Inv, RowsInv, RowsTyped, Transitions
  <2> HIDE DEF n, i
  <2>6. Continue({n}, current[k.thread], i)
    BY <2>1, <2>4 DEF Continue
  <2>7. Commits(k.thread, k.locator, i, {n})
    BY <2>1, <2>2, <2>3, <2>4, <2>5, <2>6 DEF Commits
  <2> QED
    BY <2>7
<1> QED
  BY <1>1, <1>2

\* A new lifecycle follows the thread's current one, for the same locator.
LEMMA Changed ==
  ASSUME Inv, NEW c \in Callers, WriteTransition(c)
  PROVE  Unwritten \/ \E l, i, added : Commits(call[c].thread, l, i, added)
<1> DEFINE k == call[c]
           i == NewId(Unused)
           l == Row(k.row).locator
           n == Transition(i, k.thread, l, Target(k.op), k.row)
<1>1. CASE Unwritten
  BY <1>1
<1>2. CASE ~Unwritten
  <2>1. /\ current[k.thread] = k.expected
        /\ transitions' = transitions \cup {n}
        /\ claims' = [claims EXCEPT ![l] = k.thread]
        /\ current' = [current EXCEPT ![k.thread] = i]
    BY <1>2 DEF WriteTransition, Move, Answer, Unwritten
  <2>2. i \in TransitionIds /\ \A y \in transitions : y.id # i
    BY DEF WriteTransition, NewId, Unused, IdsOf
  <2>3. k.thread \in Threads /\ k.row = k.expected /\ Known(k.row, k.thread)
    BY DEF WriteTransition, Inv, CallInv, Consistent
  <2>4. PICK r \in transitions : r.id = k.row /\ r.thread = k.thread
    BY <2>3 DEF Known
  <2>5. l = r.locator /\ r \in Transitions /\ claims[l] = k.thread
    BY <2>4, RowOf DEF Inv, RowsInv, RowsTyped, ClaimsHeld
  <2>6. l \in Locators /\ k.row \in TransitionIds
    BY <2>4, <2>5 DEF Transitions
  <2>7. Target(k.op) \in Lifecycles
    BY DEF Target, Lifecycles
  <2>8. /\ n \in Transitions /\ n.id = i /\ n.thread = k.thread /\ n.locator = l
        /\ n.previous = k.row
    BY <2>2, <2>3, <2>6, <2>7 DEF Transition, Transitions
  <2>9. \A y \in transitions : y.id = current[k.thread] => y = r
    BY <2>1, <2>3, <2>4 DEF Inv, RowsInv, UniqueIds
  <2> HIDE DEF n, i, l
  <2>10. Continue({n}, current[k.thread], i)
    BY <2>1, <2>3, <2>8 DEF Continue
  <2>11. Commits(k.thread, l, i, {n})
    BY <2>1, <2>2, <2>3, <2>4, <2>5, <2>6, <2>8, <2>9, <2>10 DEF Commits
  <2> QED
    BY <2>11
<1> QED
  BY <1>1, <1>2

\* A replacement retires the old locator and activates a locator nobody had.
LEMMA Replaced ==
  ASSUME Inv, NEW c \in Callers, WriteReplacement(c)
  PROVE  Unwritten \/ \E i, added : Commits(call[c].thread, call[c].locator, i, added)
<1> DEFINE k == call[c]
           i == NewId(Unused)
           j == NewId(Unused \ {i})
           o == Row(k.row).locator
           m == Transition(i, k.thread, o, "RETIRED", k.row)
           n == Transition(j, k.thread, k.locator, "ACTIVE", i)
<1>1. CASE Unwritten
  BY <1>1
<1>2. CASE ~Unwritten
  <2>1. /\ current[k.thread] = k.expected /\ claims[k.locator] = NoThread
        /\ transitions' = transitions \cup {m, n}
        /\ claims' = [claims EXCEPT ![k.locator] = k.thread]
        /\ current' = [current EXCEPT ![k.thread] = j]
    BY <1>2 DEF WriteReplacement, Replacement, Move, Answer, Unwritten
  <2>2. i \in Unused
    BY DEF WriteReplacement, NewId
  <2>3. j \in Unused \ {i}
    <3>1. PICK a, b \in Unused : a # b
      BY DEF WriteReplacement
    <3> HIDE DEF i
    <3>2. Unused \ {i} # {}
      BY <3>1
    <3> QED
      BY <3>2 DEF NewId
  <2>4. /\ i \in TransitionIds /\ j \in TransitionIds /\ i # j
        /\ \A y \in transitions : y.id # i /\ y.id # j
    BY <2>2, <2>3 DEF Unused, IdsOf
  <2>5. k.thread \in Threads /\ k.locator \in Locators /\ k.row = k.expected /\ Known(k.row, k.thread)
    BY DEF WriteReplacement, Inv, CallInv, Consistent
  <2>6. PICK r \in transitions : r.id = k.row /\ r.thread = k.thread
    BY <2>5 DEF Known
  <2>7. o = r.locator /\ r \in Transitions /\ claims[o] = k.thread
    BY <2>6, RowOf DEF Inv, RowsInv, RowsTyped, ClaimsHeld
  <2>8. o \in Locators /\ k.row \in TransitionIds
    BY <2>6, <2>7 DEF Transitions
  <2>9. /\ m \in Transitions /\ m.id = i /\ m.thread = k.thread /\ m.locator = o
        /\ m.previous = k.row /\ m.lifecycle = "RETIRED"
    BY <2>4, <2>5, <2>8 DEF Transition, Transitions, Lifecycles
  <2>10. /\ n \in Transitions /\ n.id = j /\ n.thread = k.thread /\ n.locator = k.locator
         /\ n.previous = i
    BY <2>4, <2>5 DEF Transition, Transitions, Lifecycles
  <2>11. \A y \in transitions : y.id = current[k.thread] => y = r
    BY <2>1, <2>5, <2>6 DEF Inv, RowsInv, UniqueIds
  <2> HIDE DEF m, n, i, j, o
  <2>12. Continue({m, n}, current[k.thread], j)
    BY <2>1, <2>4, <2>5, <2>9, <2>10 DEF Continue
  <2>13. Commits(k.thread, k.locator, j, {m, n})
    BY <2>1, <2>4, <2>5, <2>6, <2>7, <2>9, <2>10, <2>11, <2>12 DEF Commits
  <2> QED
    BY <2>13
<1> QED
  BY <1>1, <1>2

\* Each step leaves the rows alone or commits.
LEMMA RowsWritten ==
  ASSUME Inv, [Next]_vars
  PROVE  Unwritten \/ \E t, l, i, added : Commits(t, l, i, added)
<1>1. ASSUME NEW c \in Callers, CreateBinding(c) \/ WriteTransition(c) \/ WriteReplacement(c)
      PROVE  Unwritten \/ \E t, l, i, added : Commits(t, l, i, added)
  BY <1>1, Created, Changed, Replaced
<1>2. ASSUME NEW c \in Callers,
             BeginAny(c) \/ SelectLocator(c) \/ SelectProposed(c) \/ FindAgain(c) \/ SelectThread(c)
               \/ Rollback(c)
      PROVE  Unwritten
  BY <1>2 DEF BeginAny, Begin, threadVars, SelectLocator, SelectProposed, FindAgain, SelectThread,
              Rollback, Enter, Answer, Unwritten
<1>3. CASE UNCHANGED vars
  BY <1>3 DEF vars, threadVars, Unwritten
<1> QED
  BY <1>1, <1>2, <1>3 DEF Next

\* Each action keeps the rows in order.
LEMMA RowsStep ==
  ASSUME Inv, [Next]_vars
  PROVE  RowsInv'
<1>1. CASE Unwritten
  BY <1>1 DEF Unwritten, Inv, RowsInv, RowsTyped, UniqueIds, HeadsExist, ClaimsHeld, Ended
<1> QED
  BY <1>1, RowsWritten, CommitKeepsRows DEF Inv

------------------------------------------------------------------------------
(* The calls.                                                                 *)

\* Rows stay, and a pointer that moves goes where nobody has been.
LEMMA Growth ==
  ASSUME Inv, [Next]_vars
  PROVE  /\ transitions \subseteq transitions'
         /\ \A t \in Threads : current'[t] # current[t] => \A x \in transitions : x.id # current'[t]
<1>1. CASE Unwritten
  BY <1>1 DEF Unwritten
<1>2. ASSUME NEW u, NEW l, NEW i, NEW added, Commits(u, l, i, added)
      PROVE  /\ transitions \subseteq transitions'
             /\ \A t \in Threads : current'[t] # current[t] =>
                  \A x \in transitions : x.id # current'[t]
  <2>1. \A x \in transitions : x.id # i
    BY <1>2 DEF Commits
  <2>2. \A t \in Threads : current'[t] = current[t] \/ current'[t] = i
    BY <1>2 DEF Commits, Inv, RowsInv, RowsTyped
  <2> QED
    BY <1>2, <2>1, <2>2 DEF Commits
<1> QED
  BY <1>1, <1>2, RowsWritten

\* What others commit does not spoil what a waiting call has found.
LEMMA Bystander ==
  ASSUME Inv, [Next]_vars, NEW d \in Callers, call'[d] = call[d]
  PROVE  Consistent(d)'
<1> DEFINE k == call[d]
<1>1. Consistent(d) /\ k \in Calls
  BY DEF Inv, CallInv
<1>2. \A id, t : Known(id, t) => Known(id, t)'
  BY Growth DEF Known
<1>3. \A id, l : (\E x \in transitions : x.id = id /\ x.locator = l) =>
                 \E x \in transitions' : x.id = id /\ x.locator = l
  BY Growth
<1>4. ASSUME k.stage = "thread", k.op # "resolve", current'[k.thread] # k.row
      PROVE  current'[k.thread] # k.expected
  <2>1. /\ k.thread \in Threads /\ Known(k.expected, k.thread)
        /\ current[k.thread] # k.row => current[k.thread] # k.expected
    BY <1>1, <1>4 DEF Consistent
  <2> QED
    BY <1>4, <2>1, Growth DEF Known
<1> QED
  BY <1>1, <1>2, <1>3, <1>4 DEF Consistent

\* A call that ends, or goes on to another stage, leaves the other calls alone.
LEMMA Ends ==
  ASSUME CallInv, NEW c \in Callers, NEW a, Finish(c, a)
  PROVE  call' \in [Callers -> Calls] /\ Consistent(c)' /\ \A d \in Callers \ {c} : call'[d] = call[d]
<1>1. NoCall \in Calls
  BY DEF NoCall, Calls, Operations, Stages
<1>2. call'[c] = NoCall /\ call' \in [Callers -> Calls] /\ \A d \in Callers \ {c} : call'[d] = call[d]
  BY <1>1 DEF CallInv, Finish
<1> QED
  BY <1>2 DEF Consistent, NoCall

\* A call goes on to another statement with the row it has read.
LEMMA Enters ==
  ASSUME CallInv, NEW c \in Callers, NEW stage \in Stages, NEW r \in TransitionIds \cup {None},
         Enter(c, stage, r)
  PROVE  /\ call' \in [Callers -> Calls] /\ \A d \in Callers \ {c} : call'[d] = call[d]
         /\ call'[c] = [call[c] EXCEPT !.stage = stage, !.row = r]
         /\ UNCHANGED <<current, transitions>>
<1>1. [call[c] EXCEPT !.stage = stage, !.row = r] \in Calls /\ call \in [Callers -> Calls]
  BY DEF CallInv, Calls
<1>2. call' = [call EXCEPT ![c] = [call[c] EXCEPT !.stage = stage, !.row = r]]
  BY DEF Enter
<1> QED
  BY <1>1, <1>2 DEF Enter

\* A thread with a known transition has a current one, which is known.
LEMMA CurrentKnown ==
  ASSUME RowsInv, NEW t \in Threads
  PROVE  /\ current[t] \in TransitionIds \cup {None}
         /\ current[t] # None => Known(current[t], t)
         /\ \A id : Known(id, t) => current[t] # None
BY DEF RowsInv, RowsTyped, HeadsExist, Known

\* What a thread that is bound to l is bound by.
LEMMA BoundRow ==
  ASSUME RowsInv, NEW l, NEW t \in BoundTo(l)
  PROVE  \E x \in transitions : x.id = current[t] /\ x.thread = t /\ x.locator = l /\ claims[l] = t
<1>1. PICK x \in transitions : x.id = current[t] /\ x.thread = t
  BY DEF RowsInv, HeadsExist, BoundTo
<1> QED
  BY <1>1, RowOf DEF RowsInv, BoundTo, ClaimsHeld

\* A call begins with what its first statement sees.
LEMMA BeginsWith ==
  ASSUME Inv, NEW c \in Callers, NEW op \in Operations \ {"none"}, NEW t \in Threads,
         NEW l \in Locators \cup {NoLocator}, NEW e \in TransitionIds \cup {None}, NEW intent \in BOOLEAN,
         Begin(c, op, t, l, e, intent),
         op \in {"resolve", "replace"} <=> l # NoLocator, op # "resolve" => e # None
  PROVE  call' \in [Callers -> Calls] /\ Consistent(c)' /\ \A d \in Callers \ {c} : call'[d] = call[d]
<1> DEFINE stage == IF l = NoLocator THEN "thread" ELSE "locator"
           r == IF l = NoLocator THEN current[t]
                ELSE IF BoundTo(l) = {} THEN None ELSE current[CHOOSE u \in BoundTo(l) : TRUE]
           k == [op |-> op, thread |-> t, locator |-> l, expected |-> e, intent |-> intent,
                 stage |-> stage, row |-> r]
<1>1. op # "resolve" => Known(e, t)
  BY DEF Begin, Known
<1>2. l = NoLocator => r = current[t]
  OBVIOUS
<1>3. l # NoLocator /\ r # None => \E x \in transitions : x.id = r /\ x.locator = l
  <2> SUFFICES ASSUME l # NoLocator, r # None
               PROVE  \E x \in transitions : x.id = r /\ x.locator = l
    OBVIOUS
  <2>1. PICK u \in BoundTo(l) : r = current[u]
    OBVIOUS
  <2> QED
    BY <2>1, BoundRow DEF Inv
<1>4. r \in TransitionIds \cup {None}
  BY <1>2, <1>3, CurrentKnown DEF Inv, RowsInv, RowsTyped, Transitions
<1>5. UNCHANGED <<current, transitions>>
  BY DEF Begin, threadVars
<1>6. call' = [call EXCEPT ![c] = k]
  BY DEF Begin
<1> HIDE DEF r
<1>7. k \in Calls
  BY <1>4 DEF Calls, Stages
<1>8. call'[c] = k /\ call' \in [Callers -> Calls] /\ \A d \in Callers \ {c} : call'[d] = call[d]
  BY <1>6, <1>7 DEF Inv, CallInv
<1>9. Consistent(c)'
  <2>1. CASE l = NoLocator
    BY <1>1, <1>2, <1>5, <1>8, <2>1, CurrentKnown DEF Consistent, Known, Inv, Operations
  <2>2. CASE l # NoLocator
    BY <1>1, <1>3, <1>5, <1>8, <2>2 DEF Consistent, Known
  <2> QED
    BY <2>1, <2>2
<1> QED
  BY <1>8, <1>9

\* Every call begins consistent.
LEMMA Begins ==
  ASSUME Inv, NEW c \in Callers, BeginAny(c)
  PROVE  call' \in [Callers -> Calls] /\ Consistent(c)' /\ \A d \in Callers \ {c} : call'[d] = call[d]
<1> DEFINE Goal == call' \in [Callers -> Calls] /\ Consistent(c)' /\ \A d \in Callers \ {c} : call'[d] = call[d]
<1> HIDE DEF Goal
<1>1. ASSUME NEW op \in Operations \ {"none"}, NEW t \in Threads, NEW l \in Locators \cup {NoLocator},
             NEW e \in TransitionIds \cup {None}, NEW intent \in BOOLEAN, Begin(c, op, t, l, e, intent),
             op \in {"resolve", "replace"} <=> l # NoLocator, op # "resolve" => e # None
      PROVE  Goal
  BY <1>1, BeginsWith DEF Goal
<1>2. ASSUME NEW t \in Threads, NEW l \in Locators, Begin(c, "resolve", t, l, None, FALSE) PROVE Goal
  <2>1. l # NoLocator /\ "resolve" \in Operations \ {"none"}
    BY BindingAssumption DEF Operations
  <2> QED
    BY <1>1, <1>2, <2>1
<1>3. ASSUME NEW t \in Threads, NEW l \in Locators, NEW e \in TransitionIds, Begin(c, "replace", t, l, e, FALSE)
      PROVE  Goal
  <2>1. l # NoLocator /\ e # None /\ "replace" \in Operations \ {"none"}
    BY BindingAssumption DEF Operations
  <2> QED
    BY <1>1, <1>3, <2>1
<1>4. ASSUME NEW t \in Threads, NEW op \in {"suspend", "retire", "reactivate"}, NEW e \in TransitionIds,
             NEW intent \in BOOLEAN, Begin(c, op, t, NoLocator, e, intent)
      PROVE  Goal
  <2>1. e # None /\ op \in Operations \ {"none"} /\ op \notin {"resolve", "replace"}
    BY BindingAssumption DEF Operations
  <2> QED
    BY <1>1, <1>4, <2>1
<1>5. Goal
  BY <1>2, <1>3, <1>4 DEF BeginAny
<1> QED
  BY <1>5 DEF Goal

\* Each statement leaves its call consistent.
LEMMA Goes ==
  ASSUME Inv, NEW c \in Callers,
         SelectLocator(c) \/ SelectProposed(c) \/ CreateBinding(c) \/ FindAgain(c)
           \/ SelectThread(c) \/ WriteTransition(c) \/ WriteReplacement(c) \/ Rollback(c)
  PROVE  call' \in [Callers -> Calls] /\ Consistent(c)' /\ \A d \in Callers \ {c} : call'[d] = call[d]
<1> DEFINE k == call[c]
           Goal == call' \in [Callers -> Calls] /\ Consistent(c)' /\ \A d \in Callers \ {c} : call'[d] = call[d]
<1>1. ASSUME NEW a, Finish(c, a) PROVE Goal
  BY <1>1, Ends DEF Inv
<1>2. Consistent(c) /\ k \in Calls
  BY DEF Inv, CallInv
<1>3. CASE SelectLocator(c)
  <2>1. CASE Enter(c, "thread", current[k.thread])
    <3>1. k.stage = "locator" /\ k.op \in {"resolve", "replace"} /\ k.thread \in Threads
          /\ k.locator \in Locators /\ (k.op # "resolve" => Known(k.expected, k.thread))
      BY <1>2, <1>3 DEF SelectLocator, Consistent
    <3>2. /\ current[k.thread] \in TransitionIds \cup {None}
          /\ current[k.thread] # None => Known(current[k.thread], k.thread)
          /\ k.op # "resolve" => current[k.thread] # None
      BY <3>1, CurrentKnown DEF Inv
    <3>3. /\ call' \in [Callers -> Calls] /\ \A d \in Callers \ {c} : call'[d] = call[d]
          /\ call'[c] = [k EXCEPT !.stage = "thread", !.row = current[k.thread]]
          /\ UNCHANGED <<current, transitions>>
      BY <2>1, <3>2, Enters DEF Inv, Stages
    <3> QED
      BY <1>2, <3>1, <3>2, <3>3 DEF Consistent, Known, Calls
  <2> QED
    BY <1>1, <1>3, <2>1 DEF SelectLocator, Answer
<1>4. CASE SelectProposed(c) \/ CreateBinding(c)
  <2>1. ASSUME NEW stage \in {"insert", "refind"}, Enter(c, stage, None) PROVE Goal
    <3>1. k.op = "resolve" /\ k.thread \in Threads /\ k.locator \in Locators
      BY <1>2, <1>4 DEF SelectProposed, CreateBinding, Consistent
    <3>2. /\ call' \in [Callers -> Calls] /\ \A d \in Callers \ {c} : call'[d] = call[d]
          /\ call'[c] = [k EXCEPT !.stage = stage, !.row = None]
      <4>1. CallInv /\ stage \in Stages
        BY DEF Inv, Stages
      <4>2. None \in TransitionIds \cup {None}
        OBVIOUS
      <4> QED
        BY <2>1, <4>1, <4>2, Enters
    <3> QED
      BY <1>2, <3>1, <3>2 DEF Consistent, Calls
  <2> QED
    BY <1>1, <1>4, <2>1 DEF SelectProposed, CreateBinding, Answer
<1>5. CASE SelectThread(c)
  <2>1. CASE Verdict(k, Reselected(k.row)) = "none" /\ Enter(c, "write", k.row)
    <3>1. k.op # "resolve" /\ k.thread \in Threads /\ k.row # None /\ Known(k.row, k.thread)
          /\ k.row \in TransitionIds
      BY <1>2, <1>5 DEF SelectThread, Consistent, Calls
    <3>2. k.row = k.expected
      BY <2>1 DEF Verdict, Reselected
    <3>3. /\ call' \in [Callers -> Calls] /\ \A d \in Callers \ {c} : call'[d] = call[d]
          /\ call'[c] = [k EXCEPT !.stage = "write", !.row = k.row]
          /\ UNCHANGED <<current, transitions>>
      BY <2>1, <3>1, Enters DEF Inv, Stages
    <3> QED
      BY <1>2, <1>5, <3>1, <3>2, <3>3 DEF Consistent, Known, Calls, SelectThread
  <2> QED
    BY <1>1, <1>5, <2>1 DEF SelectThread, Answer
<1>6. CASE FindAgain(c) \/ WriteTransition(c) \/ WriteReplacement(c) \/ Rollback(c)
  BY <1>1, <1>6 DEF FindAgain, WriteTransition, WriteReplacement, Rollback, Move, Answer
<1> QED
  BY <1>3, <1>4, <1>5, <1>6

\* Each action keeps the calls consistent.
LEMMA CallStep ==
  ASSUME Inv, [Next]_vars
  PROVE  CallInv'
<1>1. ASSUME NEW c \in Callers, call' \in [Callers -> Calls], Consistent(c)',
             \A d \in Callers \ {c} : call'[d] = call[d]
      PROVE  CallInv'
  BY <1>1, Bystander DEF CallInv
<1>2. CASE UNCHANGED vars
  BY <1>2, Bystander DEF vars, Inv, CallInv
<1> QED
  BY <1>1, <1>2, Begins, Goes DEF Next

\* The invariant holds in every behaviour.
LEMMA InvAlways == Spec => []Inv
<1>1. Inv /\ [Next]_vars => Inv'
  BY RowsStep, CallStep DEF Inv
<1> QED
  BY InitInv, <1>1, PTL DEF Spec

------------------------------------------------------------------------------
(* The properties                                                             *)

\* One step of the histories: that of the committing call's thread grows, if any does.
LEMMA AppendOrStay ==
  ASSUME Inv, [Next]_vars, NEW t \in Threads
  PROVE  [History(t)!Append]_(History(t)!vars)
<1>1. CASE Unwritten
  BY <1>1 DEF Unwritten, History!vars, Links
<1>2. ASSUME NEW u, NEW l, NEW i, NEW added, Commits(u, l, i, added)
      PROVE  [History(t)!Append]_(History(t)!vars)
  <2> DEFINE Link(x) == [id |-> x.id, previous |-> x.previous]
  <2>1. /\ transitions' = transitions \cup added
        /\ u \in Threads /\ i # None
        /\ current'[u] = i /\ \A v \in Threads \ {u} : current'[v] = current[v]
        /\ \A x \in added : x.thread = u /\ x.id \in TransitionIds /\ \A y \in transitions : x.id # y.id
    BY <1>2, BindingAssumption DEF Commits, Inv, RowsInv, RowsTyped, Transitions
  <2>2. CASE t # u
    BY <2>1, <2>2 DEF History!vars, Links
  <2>3. CASE t = u
    <3> DEFINE new == {Link(x) : x \in added}
    <3>1. /\ \A e \in new : e.id # None /\ \A f \in Links(t) : e.id # f.id
          /\ \A e \in new : e \notin Links(t)
      BY <2>1, BindingAssumption DEF Links
    <3>2. Links(t)' = Links(t) \cup new
      BY <2>1, <2>3 DEF Links
    <3>3. Continue(added, current[t], i)
      BY <1>2, <2>3 DEF Commits
    <3>4. History(t)!Extends(new)
      <4>1. ASSUME NEW n \in added, added = {n}, n.id = i, n.previous = current[t]
            PROVE  History(t)!Extends(new)
        <5>1. new = {Link(n)} /\ Link(n) \in new
          BY <4>1
        <5>2. Link(n).id = i /\ Link(n).previous = current[t]
          BY <4>1
        <5> HIDE DEF new, Link
        <5> QED
          BY <2>1, <2>3, <5>1, <5>2 DEF History!Extends, History!Linked
      <4>2. ASSUME NEW m \in added, NEW n \in added, added = {m, n}, m.id # n.id,
                   n.id = i, n.previous = m.id, m.previous = current[t]
            PROVE  History(t)!Extends(new)
        <5>1. new = {Link(m), Link(n)} /\ Link(m) \in new /\ Link(n) \in new
          BY <4>2
        <5>2. /\ Link(m).id = m.id /\ Link(m).previous = current[t]
              /\ Link(n).id = i /\ Link(n).previous = m.id
          BY <4>2
        <5> HIDE DEF new, Link
        <5> QED
          BY <2>1, <2>3, <4>2, <5>1, <5>2 DEF History!Extends, History!Linked
      <4> QED
        BY <3>3, <4>1, <4>2 DEF Continue
    <3> HIDE DEF new
    <3>5. Links(t)' \ Links(t) = new
      BY <3>1, <3>2
    <3> QED
      BY <3>1, <3>2, <3>4, <3>5 DEF History!Append
  <2> QED
    BY <2>2, <2>3
<1> QED
  BY <1>1, <1>2, RowsWritten

\* A thread starts with no binding, or with the one of migration 016.
LEMMA StartOfHistory == Init => \A t \in Threads : History(t)!Init
<1> SUFFICES ASSUME Init, NEW t \in Threads PROVE History(t)!Init
  OBVIOUS
<1>1. PICK bound \in {{}} \cup {{u} : u \in Threads}, l \in Locators, i \in {NewId(TransitionIds)} :
        /\ transitions = {Transition(i, u, l, "ACTIVE", None) : u \in bound}
        /\ current = [u \in Threads |-> IF u \in bound THEN i ELSE None]
  BY DEF Init
<1>2. i # None
  BY BindingAssumption DEF NewId
<1>3. CASE t \notin bound
  BY <1>1, <1>3 DEF History!Init, Links, Transition
<1>4. CASE t \in bound
  <2> DEFINE n == Transition(i, t, l, "ACTIVE", None)
             e == [id |-> i, previous |-> None]
  <2>1. transitions = {n} /\ n.thread = t /\ [id |-> n.id, previous |-> n.previous] = e
    BY <1>1, <1>4 DEF Transition
  <2> HIDE DEF n
  <2>2. Links(t) = {e}
    BY <2>1 DEF Links
  <2>3. e.id = i /\ e.previous = None
    OBVIOUS
  <2> HIDE DEF e
  <2> QED
    BY <1>1, <1>2, <1>4, <2>2, <2>3 DEF History!Init, History!Linked
<1> QED
  BY <1>3, <1>4

\* A thread's bindings implement the linear history for any threads, locators and clients
\* (thread-provider-binding-repository.ts:392-552).
THEOREM BindingsAreLinear == Spec => HistoriesAreLinear
<1>1. Inv /\ [Next]_vars => [\A t \in Threads : [History(t)!Append]_(History(t)!vars)]_vars
  BY AppendOrStay
<1> QED
  BY InvAlways, StartOfHistory, <1>1, PTL DEF Spec, HistoriesAreLinear

\* A locator stays with the thread that claimed it, and is retired there when the thread has
\* left it, for any threads, locators and clients (thread-provider-binding-repository.ts:468-552).
THEOREM SupersededStaysRetired == Spec => []SupersededIsRetired
<1>1. ASSUME Inv, NEW x \in transitions, x.thread \notin BoundTo(x.locator), NEW y \in Latest(x.locator)
      PROVE  y.lifecycle = "RETIRED"
  <2>1. y \in transitions /\ y.locator = x.locator /\ y.thread = x.thread /\ y.thread \in Threads
    BY <1>1 DEF Latest, Inv, RowsInv, RowsTyped, ClaimsHeld, Transitions
  <2>2. current[y.thread] # y.id
    BY <1>1, <2>1, RowOf, BindingAssumption DEF BoundTo, Inv, RowsInv, RowsTyped, Transitions
  <2> QED
    BY <1>1, <2>1, <2>2 DEF Inv, RowsInv, Ended, Latest
<1>2. Inv => SupersededIsRetired
  BY <1>1 DEF SupersededIsRetired, Inv, RowsInv, ClaimsHeld
<1> QED
  BY InvAlways, <1>2, PTL

\* A locator is bound to one thread at most, the one that claims it.
LEMMA OneThread ==
  ASSUME RowsInv, NEW l, NEW t \in BoundTo(l), NEW u \in BoundTo(l)
  PROVE  t = u /\ claims[l] = t
BY BoundRow

\* The absence of an answer is none.
LEMMA SilenceIsNoAnswer == \A c \in Callers, a \in Results : NoReply # <<c, a>>
BY BindingAssumption

\* Who is behind: the caller's thread has gone on, or its locator is taken.
Behind(k) ==
  IF k.op = "resolve" THEN k.thread \notin BoundTo(k.locator)
  ELSE \/ current[k.thread] \in {None} \cup (TransitionIds \ {k.expected})
       \/ k.op = "replace" /\ claims[k.locator] # NoThread

\* The statement that selects the locator refuses when another thread has it, or any does.
LEMMA LocatorTaken ==
  ASSUME Inv, NEW c \in Callers, SelectLocator(c), Finish(c, "CONFLICT")
  PROVE  Behind(call[c])
<1> DEFINE k == call[c]
           r == k.row
<1>1. /\ k.op \in {"resolve", "replace"} /\ k.thread \in Threads
      /\ r # None => \E x \in transitions : x.id = r /\ x.locator = k.locator
  BY DEF SelectLocator, Inv, CallInv, Consistent
<1>2. r # None /\ current[Row(r).thread] = r /\ ~(k.op = "resolve" /\ Row(r).thread = k.thread)
  <2>1. reply' = <<c, "CONFLICT">> /\ reply' # NoReply
    BY SilenceIsNoAnswer DEF Finish, Results
  <2>2. Reselected(r) # None /\ ~(k.op = "resolve" /\ Row(Reselected(r)).thread = k.thread)
    BY <2>1 DEF SelectLocator, Enter, Silently, Answer, Finish
  <2> QED
    BY <2>2 DEF Reselected
<1>3. PICK x \in transitions : x.id = r /\ x.locator = k.locator
  BY <1>1, <1>2
<1>4. Row(r) = x /\ x.thread \in Threads
  BY <1>3, RowOf DEF Inv, RowsInv, RowsTyped, Transitions
<1>5. x.thread \in BoundTo(k.locator) /\ claims[k.locator] = x.thread
  BY <1>2, <1>3, <1>4 DEF BoundTo, Inv, RowsInv, ClaimsHeld
<1>6. CASE k.op = "resolve"
  BY <1>2, <1>4, <1>5, <1>6, OneThread DEF Behind, Inv
<1>7. CASE k.op = "replace"
  BY <1>4, <1>5, <1>7, BindingAssumption DEF Behind
<1> QED
  BY <1>1, <1>6, <1>7

\* A thread of which a transition was selected has it no longer, or it is not the expected one.
LEMMA ThreadMoved ==
  ASSUME Inv, NEW c \in Callers, SelectThread(c),
         Verdict(call[c], Reselected(call[c].row)) \in {"CONFLICT", "NOT_FOUND"}
  PROVE  Behind(call[c])
<1> DEFINE k == call[c]
<1>1. /\ k.thread \in Threads /\ k.op # "resolve" /\ k.row # None /\ Known(k.row, k.thread)
      /\ current[k.thread] # k.row => current[k.thread] # k.expected
      /\ current[k.thread] \in TransitionIds \cup {None}
  BY CurrentKnown DEF SelectThread, Inv, CallInv, Consistent
<1>2. PICK x \in transitions : x.id = k.row /\ x.thread = k.thread
  BY <1>1 DEF Known
<1>3. Row(k.row) = x /\ claims[x.locator] = k.thread
  BY <1>2, RowOf DEF Inv, RowsInv, ClaimsHeld
<1>4. CASE current[k.thread] # k.expected
  BY <1>1, <1>4 DEF Behind
<1>5. CASE current[k.thread] = k.expected
  <2>1. Reselected(k.row) = k.row /\ k.row = k.expected
    BY <1>1, <1>2, <1>3, <1>5 DEF Reselected
  <2>2. k.op = "replace" /\ x.locator = k.locator
    BY <1>1, <1>3, <2>1 DEF Verdict
  <2> QED
    BY <1>1, <1>3, <2>2, BindingAssumption DEF Behind
<1> QED
  BY <1>4, <1>5

\* A refusal is an answer, and the caller it is given to is behind.
LEMMA RefusedBehind ==
  ASSUME Inv, NEW c \in Callers, NEW a \in {"CONFLICT", "NOT_FOUND"}, Next, reply' = <<c, a>>
  PROVE  Behind(call[c])
<1> DEFINE k == call[c]
<1>1. reply' # NoReply
  BY SilenceIsNoAnswer DEF Results
<1>2. ASSUME NEW d \in Callers, BeginAny(d) PROVE FALSE
  BY <1>1, <1>2 DEF BeginAny, Begin, Silently
<1>3. ASSUME NEW d \in Callers,
             SelectLocator(d) \/ SelectProposed(d) \/ CreateBinding(d) \/ FindAgain(d)
               \/ SelectThread(d) \/ WriteTransition(d) \/ WriteReplacement(d) \/ Rollback(d)
      PROVE  d = c
  <2>1. \E b : reply' = <<d, b>>
    BY <1>1, <1>3 DEF SelectLocator, SelectProposed, CreateBinding, FindAgain, SelectThread, WriteTransition,
                     WriteReplacement, Move, Rollback, Answer, Finish, Enter, Silently
  <2> QED
    BY <2>1
<1>4. CASE SelectLocator(c)
  <2>1. Finish(c, "CONFLICT")
    BY <1>1, <1>4 DEF SelectLocator, Enter, Silently, Answer, Finish
  <2> QED
    BY <1>4, <2>1, LocatorTaken
<1>5. CASE SelectProposed(c)
  <2>1. Reselected(k.row) # None /\ Row(Reselected(k.row)).locator # k.locator /\ k.op = "resolve"
    BY <1>1, <1>5 DEF SelectProposed, Enter, Silently, Answer, Finish
  <2>2. k.thread \in Threads /\ Known(k.row, k.thread)
    BY <1>5, <2>1 DEF SelectProposed, Reselected, Inv, CallInv, Consistent
  <2>3. current[k.thread] = k.row /\ Row(k.row).locator # k.locator
    BY <2>1, <2>2, RowOf DEF Known, Reselected, Inv, RowsInv
  <2> QED
    BY <2>1, <2>3 DEF Behind, BoundTo
<1>6. CASE FindAgain(c)
  BY <1>6 DEF FindAgain, Answer, Finish, Behind, Inv, CallInv, Consistent
<1>7. CASE SelectThread(c)
  <2>1. Verdict(k, Reselected(k.row)) = a
    BY <1>1, <1>7 DEF SelectThread, Enter, Silently, Answer, Finish
  <2> QED
    BY <1>7, <2>1, ThreadMoved
<1>8. CASE WriteTransition(c) \/ WriteReplacement(c)
  <2>1. k.thread \in Threads /\ k.op # "resolve" /\ current[k.thread] \in TransitionIds \cup {None}
    BY <1>8, CurrentKnown DEF WriteTransition, WriteReplacement, Inv, CallInv, Consistent
  <2>2. current[k.thread] # k.expected \/ (k.op = "replace" /\ claims[k.locator] # NoThread)
    BY <1>8 DEF WriteTransition, WriteReplacement, Move, Finish
  <2> QED
    BY <2>1, <2>2 DEF Behind
<1>9. ~CreateBinding(c) /\ ~Rollback(c)
  BY <1>1 DEF CreateBinding, Rollback, Enter, Silently, Answer, Finish
<1> QED
  BY <1>2, <1>3, <1>4, <1>5, <1>6, <1>7, <1>8, <1>9 DEF Next

\* A refusal of a binding command means that the caller is behind, for any threads, locators
\* and clients (thread-provider-binding-repository.ts:264-390, 402-407, 478-495).
THEOREM RefusalsAreJustified == Spec => RefusedOnlyIfBehind
<1> DEFINE Justified(c) == Answers(c, {"CONFLICT", "NOT_FOUND"}) => Behind(call[c])
<1>1. Inv /\ [Next]_vars => [\A c \in Callers : Justified(c)]_vars
  BY RefusedBehind DEF Answers
<1>2. (\A c \in Callers : Justified(c)) =>
      \A c \in Callers : Answers(c, {"CONFLICT", "NOT_FOUND"}) =>
        LET k == call[c] IN
        IF k.op = "resolve" THEN k.thread \notin BoundTo(k.locator)
        ELSE \/ current[k.thread] \in {None} \cup (TransitionIds \ {k.expected})
             \/ k.op = "replace" /\ claims[k.locator] # NoThread
  BY DEF Behind
<1> QED
  BY InvAlways, <1>1, <1>2, PTL DEF Spec, RefusedOnlyIfBehind
=============================================================================
