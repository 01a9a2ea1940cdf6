---------------------- MODULE PriorityCorrectionsProofs ----------------------
(***************************************************************************)
(* For any threads, clients, keys and histories: what the transactions of      *)
(* priority corrections promise.  The history of a thread is a chain without   *)
(* an induction over it: the invariant says of every set that is closed under   *)
(* going back from the head that it holds the whole history.                   *)
(***************************************************************************)
EXTENDS PriorityCorrections, TLAPS

Stages == {"idle", "lock", "lookup", "decide", "current", "rows"}

\* The identifiers a client may have seen of a thread.
Seen(t) == {None} \cup {x.id : x \in OfThread(t)}

\* The commands of clients.
Commands == [op : Operations, thread : Threads, expected : CorrectionIds \cup {None}, key : Keys]

Transitions == [id : CorrectionIds, thread : Threads, operation : Operations,
                previous : CorrectionIds \cup {None}, key : Keys]

\* The history: what is recorded and where it ends.
RowsTyped ==
  /\ corrections \subseteq Transitions
  /\ correction \in [Threads -> CorrectionIds \cup {None}]

\* Identifiers and keys are unique.
Unique ==
  /\ \A x, y \in corrections : x.id = y.id => x = y
  /\ \A x, y \in corrections : x.key = y.key => x = y

\* The pointer of a thread names an entry, if there is one, that nothing follows.
HeadIsLast ==
  \A t \in Threads :
    /\ correction[t] = None => OfThread(t) = {}
    /\ correction[t] # None => \E x \in OfThread(t) : x.id = correction[t]
    /\ \A x \in OfThread(t) : x.previous # correction[t]

\* A has the entry id of S and what precedes any of its own entries.
Closed(id, S, A) == \A y \in S : (y.id = id \/ \E z \in A : z.previous = y.id) => y \in A

\* Everything is reached from the head.
Connected ==
  \A t \in Threads : correction[t] # None =>
    \A A \in SUBSET OfThread(t) : Closed(correction[t], OfThread(t), A) => OfThread(t) \subseteq A

\* An entry follows none, or another of its thread.
Grounded == \A x \in corrections : x.previous \in Seen(x.thread)

HistoryInv == RowsTyped /\ Unique /\ HeadIsLast /\ Connected /\ Grounded

\* The questions for a thread's history.
Listings == {[NoCommand EXCEPT !.op = "LIST", !.thread = t] : t \in Threads}

\* What a client can be doing.
Requests ==
  [command : {NoCommand} \cup Commands \cup Listings, stage : Stages, row : CorrectionIds \cup {None}]

\* A request under way: what it asks for, the lock it holds, what it has found.
Consistent(c) ==
  LET m == request[c].command IN
  /\ request[c].stage \in {"lock", "lookup", "decide"} => m \in Commands /\ m.expected \in Seen(m.thread)
  /\ request[c].stage \in {"current", "rows"} => m.thread \in Threads
  /\ request[c].stage \in {"lookup", "decide"} => holder[m.thread] = c
  /\ request[c].stage = "decide" => ~Recorded(m)
  /\ request[c].stage = "rows" => request[c].row # None /\ request[c].row \in Seen(m.thread)

RequestInv ==
  /\ holder \in [Threads -> Callers \cup {NoCaller}]
  /\ request \in [Callers -> Requests]
  /\ \A c \in Callers : Consistent(c)

\* A refused command cannot be recorded any more.
Hopeless(m) == Used(m.key) # {} \/ Disposition(m, correction[m.thread]) # "APPLIED"

RefusedInv ==
  \A m \in refused : m \in Commands /\ m.expected \in Seen(m.thread) /\ ~Recorded(m) /\ Hopeless(m)

Inv == HistoryInv /\ RequestInv /\ RefusedInv

\* A transition of command m is committed.
Commits(m, i) ==
  /\ i \in CorrectionIds /\ \A x \in corrections : x.id # i
  /\ m.expected = correction[m.thread] /\ Used(m.key) = {}
  /\ corrections' = corrections \cup {NewTransition(i, m, correction[m.thread])}
  /\ correction' = [correction EXCEPT ![m.thread] = i]

\* Only a decision writes the history.
LEMMA HistoryWrites ==
  ASSUME RequestInv, [Next]_vars
  PROVE  \/ UNCHANGED <<correction, corrections>>
         \/ \E c \in Callers : \E i \in CorrectionIds :
              /\ request[c].stage = "decide" /\ Decide(c)
              /\ request[c].command \in Commands
              /\ Disposition(request[c].command, correction[request[c].command.thread]) = "APPLIED"
              /\ Commits(request[c].command, i)
<1>1. ASSUME NEW c \in Callers, Decide(c), ~UNCHANGED <<correction, corrections>>
      PROVE  \E i \in CorrectionIds :
               /\ request[c].stage = "decide" /\ Decide(c)
               /\ request[c].command \in Commands
               /\ Disposition(request[c].command, correction[request[c].command.thread]) = "APPLIED"
               /\ Commits(request[c].command, i)
  <2> DEFINE m == request[c].command
             unused == CorrectionIds \ {x.id : x \in corrections}
             i == CHOOSE i \in unused : TRUE
  <2>1. /\ Disposition(m, correction[m.thread]) = "APPLIED" /\ Used(m.key) = {}
        /\ unused # {}
        /\ corrections' = corrections \cup {NewTransition(i, m, correction[m.thread])}
        /\ correction' = [correction EXCEPT ![m.thread] = i]
    BY <1>1 DEF Decide, Reply
  <2>2. i \in unused
    BY <2>1
  <2>3. m.expected = correction[m.thread]
    BY <2>1 DEF Disposition
  <2>4. m \in Commands /\ request[c].stage = "decide"
    BY <1>1 DEF Decide, RequestInv, Consistent
  <2> HIDE DEF i
  <2> QED
    BY <1>1, <2>1, <2>2, <2>3, <2>4 DEF Commits
<1>2. ASSUME ~\E c \in Callers : Decide(c) PROVE UNCHANGED <<correction, corrections>>
  BY <1>2 DEF Next, vars, BindThread, SendAny, Send, LockThread, LookUpKey, ListCurrent, ListRows,
              Interrupt, Reply, Proceed
<1> QED
  BY <1>1, <1>2

\* What a commit does to the histories of all threads.
LEMMA Committed ==
  ASSUME RowsTyped, NEW m \in Commands, NEW i \in CorrectionIds, Commits(m, i)
  PROVE  LET n == NewTransition(i, m, correction[m.thread]) IN
         /\ n \in Transitions /\ n \notin corrections
         /\ OfThread(m.thread)' = OfThread(m.thread) \cup {n}
         /\ \A t \in Threads \ {m.thread} : OfThread(t)' = OfThread(t) /\ correction'[t] = correction[t]
         /\ correction'[m.thread] = i /\ i # None
BY CorrectionAssumption DEF RowsTyped, Commands, Commits, NewTransition, Transitions, OfThread

\* Nothing is recorded, nobody asks for anything.
LEMMA InitInv == Init => Inv
BY DEF Init, Inv, HistoryInv, RowsTyped, Unique, HeadIsLast, Connected, Grounded, RequestInv, RefusedInv,
       Consistent, Requests, OfThread, NoRequest, Stages

\* A commit makes the history of its thread longer by one, at its end.
LEMMA CommitKeepsHistory ==
  ASSUME HistoryInv, NEW m \in Commands, NEW i \in CorrectionIds, Commits(m, i)
  PROVE  HistoryInv'
<1> DEFINE n == NewTransition(i, m, correction[m.thread])
           u == m.thread
<1>1. /\ n \in Transitions /\ n \notin corrections
      /\ OfThread(u)' = OfThread(u) \cup {n}
      /\ \A t \in Threads \ {u} : OfThread(t)' = OfThread(t) /\ correction'[t] = correction[t]
      /\ correction'[u] = i /\ i # None
  BY Committed DEF HistoryInv
<1>2. n.id = i /\ n.previous = correction[u] /\ n.key = m.key /\ n.thread = u
  BY DEF NewTransition
<1>3. /\ u \in Threads /\ corrections' = corrections \cup {n}
      /\ \A x \in corrections : x.id # i /\ x.key # m.key
  BY DEF Commits, Commands, Used
<1>4. RowsTyped'
  BY <1>1, <1>3 DEF HistoryInv, RowsTyped, Commits
<1> HIDE DEF n, u
<1>5. Unique'
  BY <1>2, <1>3 DEF HistoryInv, Unique
<1>6. \A x \in corrections : x.previous # i
  BY <1>1, <1>3 DEF HistoryInv, Grounded, Seen, OfThread
<1>7. correction[u] = None \/ \E x \in OfThread(u) : x.id = correction[u]
  BY <1>3 DEF HistoryInv, HeadIsLast
<1>8. Grounded'
  <2>1. ASSUME NEW x \in corrections' PROVE x.previous \in Seen(x.thread)'
    <3>1. \A t : OfThread(t) \subseteq OfThread(t)'
      BY <1>3 DEF OfThread
    <3>2. CASE x \in corrections
      BY <3>1, <3>2 DEF HistoryInv, Grounded, Seen
    <3>3. CASE x = n
      BY <1>2, <1>7, <3>1, <3>3 DEF Seen
    <3> QED
      BY <1>3, <2>1, <3>2, <3>3
  <2> QED
    BY <2>1 DEF Grounded
<1>9. HeadIsLast'
  <2>1. correction[u] # i
    BY <1>1, <1>3, <1>7 DEF OfThread
  <2>2. \A x \in OfThread(u) : x \in corrections
    BY DEF OfThread
  <2> QED
    BY <1>1, <1>2, <1>6, <2>1, <2>2 DEF HistoryInv, HeadIsLast
<1>10. Connected'
  <2>1. ASSUME NEW A \in SUBSET OfThread(u)', Closed(i, OfThread(u)', A) PROVE OfThread(u)' \subseteq A
    <3>1. n \in A
      BY <1>1, <1>2, <2>1 DEF Closed
    <3>2. CASE correction[u] = None
      BY <1>1, <1>3, <3>1, <3>2 DEF HistoryInv, HeadIsLast
    <3>3. CASE correction[u] # None
      <4> DEFINE B == A \cap OfThread(u)
      <4>1. Closed(correction[u], OfThread(u), B)
        BY <1>1, <1>2, <2>1, <3>1 DEF Closed
      <4>2. OfThread(u) \subseteq B
        BY <1>3, <3>3, <4>1 DEF HistoryInv, Connected
      <4> QED
        BY <1>1, <3>1, <4>2
    <3> QED
      BY <3>2, <3>3
  <2> QED
    BY <1>1, <2>1 DEF HistoryInv, Connected
<1> QED
  BY <1>4, <1>5, <1>8, <1>9, <1>10 DEF HistoryInv

\* Each action keeps the history.
LEMMA HistoryStep ==
  ASSUME Inv, [Next]_vars
  PROVE  HistoryInv'
<1>1. CASE UNCHANGED <<correction, corrections>>
  BY <1>1 DEF Inv, HistoryInv, RowsTyped, Unique, HeadIsLast, Connected, Grounded, Closed, Seen, OfThread
<1>2. ASSUME NEW c \in Callers, NEW i \in CorrectionIds, request[c].command \in Commands,
             Commits(request[c].command, i)
      PROVE  HistoryInv'
  BY <1>2, CommitKeepsHistory DEF Inv
<1> QED
  BY <1>1, <1>2, HistoryWrites DEF Inv

\* What clients have seen stays there.
LEMMA SeenGrows ==
  ASSUME RequestInv, [Next]_vars
  PROVE  \A t : Seen(t) \subseteq Seen(t)'
<1>1. corrections \subseteq corrections'
  BY HistoryWrites DEF Commits
<1> QED
  BY <1>1 DEF Seen, OfThread

\* The operation of an entry is the same in a longer history.
LEMMA OperationKept ==
  ASSUME HistoryInv, NEW t \in Threads, correction[t] # None,
         NEW n, corrections' = corrections \cup {n}, \A x \in corrections : x.id # n.id,
         correction'[t] = correction[t]
  PROVE  OperationOf(correction[t])' = OperationOf(correction[t])
<1>1. PICK x \in corrections : x.id = correction[t]
  BY DEF HistoryInv, HeadIsLast, OfThread
<1>2. \A y \in corrections : y.id = correction[t] => y = x
  BY <1>1 DEF HistoryInv, Unique
<1>3. \A y \in corrections' : y.id = correction[t] => y = x
  BY <1>1, <1>2
<1>4. (CHOOSE y \in corrections : y.id = correction[t]) = x
  BY <1>1, <1>2
<1>5. (CHOOSE y \in corrections' : y.id = correction'[t]) = x
  BY <1>1, <1>3
<1> QED
  BY <1>4, <1>5 DEF OperationOf

\* A command that another transition has made impossible, or the thread's own history,
\* stays impossible.
LEMMA RefusedStays ==
  ASSUME Inv, [Next]_vars, NEW m \in Commands, m.expected \in Seen(m.thread), ~Recorded(m), Hopeless(m)
  PROVE  ~Recorded(m)' /\ Hopeless(m)'
<1>1. CASE UNCHANGED <<correction, corrections>>
  BY <1>1 DEF Recorded, Hopeless, Used, Disposition, OperationOf
<1>2. ASSUME NEW k \in Commands, NEW i \in CorrectionIds, Commits(k, i),
             Disposition(k, correction[k.thread]) = "APPLIED"
      PROVE  ~Recorded(m)' /\ Hopeless(m)'
  <2> DEFINE n == NewTransition(i, k, correction[k.thread])
  <2>1. corrections' = corrections \cup {n} /\ Used(k.key) = {} /\ k.expected = correction[k.thread]
        /\ \A x \in corrections : x.id # i
    BY <1>2 DEF Commits
  <2>2. n.id = i /\ n.previous = k.expected /\ n.key = k.key /\ n.thread = k.thread /\ n.operation = k.op
    BY <2>1 DEF NewTransition
  <2>3. k # m
    BY <1>2, <2>1 DEF Hopeless
  <2>4. ~(n.key = m.key /\ n.thread = m.thread /\ n.operation = m.op /\ n.previous = m.expected)
    BY <2>2, <2>3 DEF Commands
  <2>5. ~Recorded(m)'
    BY <2>1, <2>4 DEF Recorded, SameIntent
  <2>6. CASE Used(m.key) # {}
    BY <2>1, <2>5, <2>6 DEF Hopeless, Used
  <2>7. CASE Disposition(m, correction[m.thread]) # "APPLIED" /\ m.thread = k.thread
    <3>1. correction'[m.thread] = i /\ i # None
      BY <1>2, <2>7, Committed DEF Inv, HistoryInv
    <3>2. m.expected # i
      BY <2>1, <3>1 DEF Seen, OfThread
    <3> QED
      BY <2>5, <3>1, <3>2 DEF Hopeless, Disposition
  <2>8. CASE Disposition(m, correction[m.thread]) # "APPLIED" /\ m.thread # k.thread
    <3>1. correction'[m.thread] = correction[m.thread] /\ m.thread \in Threads
      BY <1>2, <2>8, Committed DEF Inv, HistoryInv, Commands
    <3>2. correction[m.thread] # None =>
            OperationOf(correction[m.thread])' = OperationOf(correction[m.thread])
      <4>1. \A x \in corrections : x.id # n.id
        BY <2>1, <2>2
      <4> HIDE DEF n
      <4> QED
        BY <2>1, <3>1, <4>1, OperationKept DEF Inv
    <3> QED
      BY <2>5, <2>8, <3>1, <3>2 DEF Hopeless, Disposition
  <2> QED
    BY <2>6, <2>7, <2>8 DEF Hopeless
<1> QED
  BY <1>1, <1>2, HistoryWrites DEF Inv

\* A step that answers nobody answers nothing.
LEMMA SilenceIsNoAnswer ==
  ASSUME NEW c \in Callers, NEW a \in Verdicts
  PROVE  NoReply # <<c, a>>
BY CorrectionAssumption

\* A command is refused when its key stands for something else, or the thread is not
\* where it says, or already says so: in each case it is not recorded.
LEMMA RefusalIsHopeless ==
  ASSUME Inv, NEW c \in Callers, LookUpKey(c) \/ Decide(c), Answers(c, {"CONFLICT", "NO_CHANGE"})
  PROVE  LET m == request[c].command IN
         /\ m \in Commands /\ m.expected \in Seen(m.thread)
         /\ ~Recorded(m) /\ Hopeless(m)
<1> DEFINE m == request[c].command
<1>1. m \in Commands /\ m.expected \in Seen(m.thread)
  BY DEF LookUpKey, Decide, Inv, RequestInv, Consistent
<1>2. CASE LookUpKey(c)
  <2>1. Used(m.key) # {} /\ ~\A x \in Used(m.key) : SameIntent(x, m)
    <3>1. reply' # NoReply
      BY SilenceIsNoAnswer DEF Answers, Verdicts
    <3> QED
      BY <1>2, <3>1 DEF LookUpKey, WithKey, Proceed, Silently, Reply, Complete, Answers
  <2>2. ~Recorded(m)
    BY <2>1 DEF Inv, HistoryInv, Unique, Recorded, Used
  <2> QED
    BY <1>1, <2>1, <2>2 DEF Hopeless
<1>3. CASE Decide(c)
  <2>1. ~Recorded(m)
    BY <1>3 DEF Decide, Inv, RequestInv, Consistent
  <2>2. Disposition(m, correction[m.thread]) # "APPLIED" \/ Used(m.key) # {}
    BY <1>3 DEF Decide, Complete, Answers
  <2> QED
    BY <1>1, <2>1, <2>2 DEF Hopeless
<1> QED
  BY <1>2, <1>3

\* Who refuses, and what is remembered of it.
LEMMA Remembered ==
  ASSUME RequestInv, [Next]_vars
  PROVE  \/ refused' = refused
         \/ \E c \in Callers : /\ LookUpKey(c) \/ Decide(c)
                               /\ Answers(c, {"CONFLICT", "NO_CHANGE"})
                               /\ refused' \subseteq {request[c].command}
<1>1. ASSUME NEW c \in Callers, NEW a, Complete(c, a), a \notin {"CONFLICT", "NO_CHANGE"}
      PROVE  refused' = refused
  BY <1>1 DEF Complete
<1>2. ASSUME NEW c \in Callers, NEW a, Complete(c, a), a \in {"CONFLICT", "NO_CHANGE"}
      PROVE  refused' = refused \/ (refused' \subseteq {request[c].command} /\ Answers(c, {"CONFLICT", "NO_CHANGE"}))
  BY <1>2 DEF Complete, Answers
<1>3. ASSUME NEW c \in Callers, LookUpKey(c)
      PROVE  refused' = refused \/ (refused' \subseteq {request[c].command} /\ Answers(c, {"CONFLICT", "NO_CHANGE"}))
  BY <1>1, <1>2, <1>3 DEF LookUpKey, Reply, Proceed
<1>4. ASSUME NEW c \in Callers, Decide(c)
      PROVE  refused' = refused \/ (refused' \subseteq {request[c].command} /\ Answers(c, {"CONFLICT", "NO_CHANGE"}))
  <2>1. PICK a : Complete(c, a)
    BY <1>4 DEF Decide, Reply
  <2> QED
    BY <1>1, <1>2, <2>1
<1>5. ASSUME NEW c \in Callers, LockThread(c) \/ ListCurrent(c) \/ ListRows(c) \/ Interrupt(c)
      PROVE  refused' = refused
  BY <1>1, <1>5 DEF LockThread, ListCurrent, ListRows, Interrupt, Reply, Proceed
<1>6. ASSUME (\E t \in Threads : BindThread(t)) \/ (\E c \in Callers : SendAny(c)) \/ UNCHANGED vars
      PROVE  refused' = refused
  BY <1>6 DEF BindThread, SendAny, Send, vars
<1> QED
  BY <1>3, <1>4, <1>5, <1>6 DEF Next

\* Each action keeps what is known of refused commands.
LEMMA RefusedStep ==
  ASSUME Inv, [Next]_vars
  PROVE  RefusedInv'
<1> SUFFICES ASSUME NEW m \in refused'
             PROVE  m \in Commands /\ (m.expected \in Seen(m.thread))' /\ ~Recorded(m)' /\ Hopeless(m)'
  BY DEF RefusedInv
<1>1. m \in Commands /\ m.expected \in Seen(m.thread) /\ ~Recorded(m) /\ Hopeless(m)
  <2>1. CASE m \in refused
    BY <2>1 DEF Inv, RefusedInv
  <2>2. ASSUME NEW c \in Callers, LookUpKey(c) \/ Decide(c), Answers(c, {"CONFLICT", "NO_CHANGE"}),
               m = request[c].command
        PROVE  m \in Commands /\ m.expected \in Seen(m.thread) /\ ~Recorded(m) /\ Hopeless(m)
    BY <2>2, RefusalIsHopeless
  <2> QED
    BY <2>1, <2>2, Remembered DEF Inv
<1>2. ~Recorded(m)' /\ Hopeless(m)'
  BY <1>1, RefusedStays
<1>3. (m.expected \in Seen(m.thread))'
  BY <1>1, SeenGrows DEF Inv
<1> QED
  BY <1>1, <1>2, <1>3

\* The lock of a thread is left to its holder.
Undisturbed(c) ==
  /\ holder' \in [Threads -> Callers \cup {NoCaller}]
  /\ \A d \in Callers \ {c} :
       request'[d] = request[d] /\ \A t \in Threads : holder[t] = d => holder'[t] = d

\* A client whose request does not move stays as it is, whatever the others commit.
LEMMA Bystander ==
  ASSUME Inv, [Next]_vars, NEW d \in Callers, request'[d] = request[d],
         \A t \in Threads : holder[t] = d => holder'[t] = d
  PROVE  Consistent(d)'
<1> DEFINE m == request[d].command
<1>1. Consistent(d) /\ \A t : Seen(t) \subseteq Seen(t)'
  BY SeenGrows DEF Inv, RequestInv
<1>2. ASSUME request[d].stage = "decide" PROVE ~Recorded(m)'
  <2>1. m \in Commands /\ ~Recorded(m) /\ holder[m.thread] = d
    BY <1>1, <1>2 DEF Consistent
  <2>2. CASE UNCHANGED <<correction, corrections>>
    BY <2>1, <2>2 DEF Recorded
  <2>3. ASSUME NEW c \in Callers, NEW i \in CorrectionIds, request[c].stage = "decide", Decide(c),
               Commits(request[c].command, i)
        PROVE  ~Recorded(m)'
    <3> DEFINE k == request[c].command
    <3>1. request'[c] # request[c]
      BY <2>3 DEF Decide, Reply, Complete, NoRequest, Inv, RequestInv
    <3>2. k.thread # m.thread
      BY <2>1, <2>3, <3>1 DEF Inv, RequestInv, Consistent
    <3>3. corrections' = corrections \cup {NewTransition(i, k, correction[k.thread])}
          /\ NewTransition(i, k, correction[k.thread]).thread = k.thread
      BY <2>3 DEF Commits, NewTransition
    <3> QED
      BY <2>1, <3>2, <3>3 DEF Recorded, SameIntent
  <2> QED
    BY <2>2, <2>3, HistoryWrites DEF Inv
<1> QED
  BY <1>1, <1>2 DEF Consistent, Commands

\* A client that is answered has no request.
LEMMA Answered ==
  ASSUME RequestInv, NEW c \in Callers, NEW a, Complete(c, a)
  PROVE  Undisturbed(c) /\ request'[c] = NoRequest
BY RowAssumption DEF RequestInv, Complete, Unlock, Undisturbed

\* A client goes on to another stage.
Advances(c, stage, r) ==
  /\ Undisturbed(c)
  /\ request'[c] \in Requests
  /\ request'[c].command = request[c].command /\ request'[c].stage = stage /\ request'[c].row = r
  /\ UNCHANGED <<correction, corrections>>

\* It keeps its command and takes at most a lock that was free.
LEMMA Proceeds ==
  ASSUME RequestInv, NEW c \in Callers, NEW stage \in Stages, NEW r \in CorrectionIds \cup {None},
         Proceed(c, stage, r), NEW t, holder' = holder \/ Lock(c, t)
  PROVE  Advances(c, stage, r)
<1>1. Undisturbed(c) /\ UNCHANGED <<correction, corrections>>
  <2>1. CASE holder' = holder
    BY <2>1 DEF RequestInv, Proceed, Undisturbed
  <2>2. CASE Lock(c, t)
    BY <2>2, RowAssumption DEF RequestInv, Proceed, Undisturbed, Lock
  <2> QED
    BY <2>1, <2>2
<1>2. request'[c] = [request[c] EXCEPT !.stage = stage, !.row = r] /\ request[c] \in Requests
  BY DEF RequestInv, Proceed
<1> QED
  BY <1>1, <1>2 DEF Advances, Requests

\* A request that is over is in no stage.
LEMMA Over ==
  ASSUME NEW c \in Callers, request'[c] = NoRequest
  PROVE  request'[c] \in Requests /\ Consistent(c)'
BY DEF NoRequest, Requests, Stages, Consistent

\* A client that moves.
LEMMA Mover ==
  ASSUME Inv, NEW c \in Callers,
         SendAny(c) \/ LockThread(c) \/ LookUpKey(c) \/ Decide(c) \/ ListCurrent(c) \/ ListRows(c) \/ Interrupt(c)
  PROVE  Undisturbed(c) /\ request'[c] \in Requests /\ Consistent(c)'
<1> DEFINE m == request[c].command
<1>0. RequestInv /\ Consistent(c) /\ request[c] \in Requests
  BY DEF Inv, RequestInv
<1>1. ASSUME NEW a, Complete(c, a) PROVE Undisturbed(c) /\ request'[c] \in Requests /\ Consistent(c)'
  BY <1>0, <1>1, Answered, Over
<1>2. CASE SendAny(c)
  <2>1. Undisturbed(c) /\ UNCHANGED <<correction, corrections>>
    BY <1>0, <1>2 DEF SendAny, Send, threadVars, Undisturbed, RequestInv
  <2>2. ASSUME NEW k \in Commands, k.expected \in Seen(k.thread), Send(c, k, "lock")
        PROVE  request'[c] \in Requests /\ Consistent(c)'
    <3>1. request'[c] = [command |-> k, stage |-> "lock", row |-> None]
      BY <1>0, <2>2 DEF Send, NoRequest, RequestInv
    <3>2. request'[c] \in Requests /\ request'[c].command = k /\ request'[c].stage = "lock"
      BY <2>2, <3>1 DEF Requests, Stages
    <3>3. (k.expected \in Seen(k.thread))'
      BY <2>1, <2>2 DEF Seen, OfThread
    <3> QED
      BY <2>2, <3>2, <3>3 DEF Consistent
  <2>3. ASSUME NEW t \in Threads, Send(c, [NoCommand EXCEPT !.op = "LIST", !.thread = t], "current")
        PROVE  request'[c] \in Requests /\ Consistent(c)'
    <3> DEFINE k == [NoCommand EXCEPT !.op = "LIST", !.thread = t]
    <3>1. k.thread = t /\ k \in Listings
      BY DEF NoCommand, Listings
    <3> HIDE DEF k
    <3>2. request'[c] = [command |-> k, stage |-> "current", row |-> None]
      BY <1>0, <2>3 DEF Send, NoRequest, RequestInv, k
    <3>3. request'[c] \in Requests
      BY <3>1, <3>2 DEF Requests, Stages
    <3> QED
      BY <3>1, <3>2, <3>3 DEF Consistent
  <2>4. ASSUME NEW t \in Threads, NEW op \in Operations, NEW key \in Keys,
               NEW e \in {None} \cup {x.id : x \in OfThread(t)}
        PROVE  LET k == [op |-> op, thread |-> t, expected |-> e, key |-> key] IN
               k \in Commands /\ k.expected \in Seen(k.thread)
    BY <2>4 DEF Commands, Seen, OfThread, Inv, HistoryInv, RowsTyped, Transitions
  <2>5. request'[c] \in Requests /\ Consistent(c)'
    BY <1>2, <2>2, <2>3, <2>4 DEF SendAny
  <2> QED
    BY <2>1, <2>5
<1>3. CASE LockThread(c)
  <2>1. CASE Lock(c, m.thread) /\ Proceed(c, "lookup", None)
    <3>1. m \in Commands /\ m.expected \in Seen(m.thread)
      BY <1>0, <1>3 DEF LockThread, Consistent
    <3>2. Advances(c, "lookup", None)
      BY <1>0, <2>1, Proceeds DEF Stages
    <3>3. holder'[m.thread] = c
      BY <1>0, <2>1, <3>1 DEF Lock, RequestInv, Commands
    <3> QED
      BY <3>1, <3>2, <3>3 DEF Advances, Consistent, Seen, OfThread
  <2> QED
    BY <1>1, <1>3, <2>1 DEF LockThread, Reply
<1>4. CASE LookUpKey(c)
  <2>1. CASE WithKey(m) = {} /\ Proceed(c, "decide", None) /\ UNCHANGED holder
    <3>1. m \in Commands /\ m.expected \in Seen(m.thread) /\ holder[m.thread] = c
      BY <1>0, <1>4 DEF LookUpKey, Consistent
    <3>2. Advances(c, "decide", None)
      BY <1>0, <2>1, Proceeds DEF Stages
    <3>3. ~Recorded(m)'
      BY <2>1, <3>2 DEF Recorded, WithKey, Used, Advances
    <3> QED
      BY <2>1, <3>1, <3>2, <3>3 DEF Advances, Consistent, Seen, OfThread, Recorded
  <2> QED
    BY <1>1, <1>4, <2>1 DEF LookUpKey, Reply
<1>5. CASE Decide(c)
  BY <1>1, <1>5 DEF Decide, Reply
<1>6. CASE ListCurrent(c)
  <2>1. CASE correction[m.thread] # None /\ Proceed(c, "rows", correction[m.thread]) /\ UNCHANGED holder
    <3>1. m.thread \in Threads
      BY <1>0, <1>6 DEF ListCurrent, Consistent
    <3>2. correction[m.thread] \in Seen(m.thread) /\ correction[m.thread] \in CorrectionIds
      BY <2>1, <3>1 DEF Inv, HistoryInv, HeadIsLast, RowsTyped, Seen
    <3>3. Advances(c, "rows", correction[m.thread])
      BY <1>0, <2>1, <3>2, Proceeds DEF Stages
    <3> QED
      BY <2>1, <3>1, <3>2, <3>3 DEF Advances, Consistent, Seen, OfThread
  <2> QED
    BY <1>1, <1>6, <2>1 DEF ListCurrent, Reply
<1>7. CASE ListRows(c) \/ Interrupt(c)
  BY <1>1, <1>7 DEF ListRows, Interrupt, Reply
<1> QED
  BY <1>2, <1>3, <1>4, <1>5, <1>6, <1>7

\* Each action keeps the requests consistent.
LEMMA RequestStep ==
  ASSUME Inv, [Next]_vars
  PROVE  RequestInv'
<1>1. ASSUME NEW c \in Callers,
             SendAny(c) \/ LockThread(c) \/ LookUpKey(c) \/ Decide(c) \/ ListCurrent(c) \/ ListRows(c) \/ Interrupt(c)
      PROVE  RequestInv'
  <2>1. Undisturbed(c) /\ request'[c] \in Requests /\ Consistent(c)'
    BY <1>1, Mover
  <2>2. \A d \in Callers \ {c} : Consistent(d)'
    BY <2>1, Bystander DEF Undisturbed
  <2>3. request' \in [Callers -> Requests]
    <3>1. \E r : request' = [request EXCEPT ![c] = r]
      BY <1>1 DEF SendAny, Send, LockThread, LookUpKey, Decide, ListCurrent, ListRows, Interrupt, Reply,
                  Complete, Proceed
    <3> QED
      BY <2>1, <3>1 DEF Inv, RequestInv
  <2> QED
    BY <2>1, <2>2, <2>3 DEF RequestInv, Undisturbed
<1>2. CASE (\E t \in Threads : BindThread(t)) \/ UNCHANGED vars
  <2>1. UNCHANGED <<holder, request>>
    BY <1>2 DEF BindThread, vars, threadVars
  <2>2. \A d \in Callers : Consistent(d)'
    BY <2>1, Bystander
  <2> QED
    BY <2>1, <2>2 DEF Inv, RequestInv
<1> QED
  BY <1>1, <1>2 DEF Next

\* The invariant holds in every behaviour.
LEMMA InvAlways == Spec => []Inv
<1>1. Inv /\ [Next]_vars => Inv'
  BY HistoryStep, RequestStep, RefusedStep DEF Inv
<1> QED
  BY InitInv, <1>1, PTL DEF Spec

------------------------------------------------------------------------------
(* The properties *)

\* One step of the histories: that of the deciding client's thread grows, if any does.
LEMMA AppendOrStay ==
  ASSUME Inv, [Next]_vars, NEW t \in Threads
  PROVE  [History(t)!Append]_(History(t)!vars)
<1>1. CASE UNCHANGED <<correction, corrections>>
  BY <1>1 DEF History!vars, Links, OfThread
<1>2. ASSUME NEW m \in Commands, NEW i \in CorrectionIds, Commits(m, i)
      PROVE  [History(t)!Append]_(History(t)!vars)
  <2> DEFINE n == NewTransition(i, m, correction[m.thread])
             e == [id |-> n.id, previous |-> n.previous]
  <2>1. /\ OfThread(m.thread)' = OfThread(m.thread) \cup {n}
        /\ \A u \in Threads \ {m.thread} : OfThread(u)' = OfThread(u) /\ correction'[u] = correction[u]
        /\ correction'[m.thread] = i /\ i # None
    BY <1>2, Committed DEF Inv, HistoryInv
  <2>2. CASE t # m.thread
    BY <2>1, <2>2 DEF History!vars, Links
  <2>3. CASE t = m.thread
    <3>1. e.id = i /\ e.previous = correction[t]
      BY <2>3 DEF NewTransition
    <3>2. \A f \in Links(t) : f.id # i
      BY <1>2 DEF Links, OfThread, Commits
    <3> HIDE DEF n
    <3>3. Links(t)' = Links(t) \cup {e}
      BY <2>1, <2>3 DEF Links
    <3> HIDE DEF e
    <3>4. Links(t)' \ Links(t) = {e}
      BY <3>1, <3>2, <3>3
    <3> QED
      BY <2>1, <2>3, <3>1, <3>2, <3>3, <3>4 DEF History!Append, History!Extends, History!Linked
  <2> QED
    BY <2>2, <2>3
<1> QED
  BY <1>1, <1>2, HistoryWrites DEF Inv

\* A thread's corrections implement the linear history for any threads, clients and keys
\* (priority-correction-repository.ts:362-472).
THEOREM CorrectionsAreLinear == Spec => HistoriesAreLinear
<1>1. Init => \A t \in Threads : History(t)!Init
  BY DEF Init, History!Init, Links, OfThread
<1>2. Inv /\ [Next]_vars => [\A t \in Threads : [History(t)!Append]_(History(t)!vars)]_vars
  BY AppendOrStay
<1> QED
  BY InvAlways, <1>1, <1>2, PTL DEF Spec, HistoriesAreLinear

\* A command that is accepted was never refused before, and a command that is refused
\* is not among the recorded ones (priority-correction-repository.ts:370-385).
THEOREM CorrectionVerdictsAgree == Spec => VerdictsAgree
<1> DEFINE Agrees(c) ==
      LET m == request[c].command IN
      /\ Answers(c, {"APPLIED", "REPLAYED"}) => m \notin refused
      /\ Answers(c, {"CONFLICT", "NO_CHANGE"}) => ~Recorded(m)
<1>1. ASSUME Inv, Next, NEW c \in Callers PROVE Agrees(c)
  <2> DEFINE m == request[c].command
  <2>1. ASSUME reply' = NoReply PROVE Agrees(c)
    BY <2>1, SilenceIsNoAnswer DEF Answers, Verdicts
  <2>2. ASSUME NEW d \in Callers, NEW a, Complete(d, a), d # c PROVE Agrees(c)
    BY <2>2 DEF Complete, Answers
  <2>3. CASE LookUpKey(c)
    <3>1. Answers(c, {"CONFLICT", "NO_CHANGE"}) => ~Recorded(m)
      BY <1>1, <2>3, RefusalIsHopeless
    <3>2. ASSUME Answers(c, {"APPLIED", "REPLAYED"}) PROVE m \notin refused
      <4>1. reply' # NoReply
        BY <3>2, SilenceIsNoAnswer DEF Answers, Verdicts
      <4>2. Used(m.key) # {} /\ \A x \in Used(m.key) : SameIntent(x, m)
        BY <2>3, <3>2, <4>1 DEF LookUpKey, WithKey, Proceed, Silently, Reply, Complete, Answers
      <4>3. Recorded(m)
        BY <4>2 DEF Recorded, Used
      <4> QED
        BY <1>1, <4>3 DEF Inv, RefusedInv
    <3> QED
      BY <3>1, <3>2
  <2>4. CASE Decide(c)
    <3>1. Answers(c, {"CONFLICT", "NO_CHANGE"}) => ~Recorded(m)
      BY <1>1, <2>4, RefusalIsHopeless
    <3>2. ASSUME Answers(c, {"APPLIED", "REPLAYED"}) PROVE m \notin refused
      <4>1. Disposition(m, correction[m.thread]) = "APPLIED" /\ Used(m.key) = {}
        BY <2>4, <3>2 DEF Decide, Reply, Complete, Answers, Disposition
      <4> QED
        BY <1>1, <4>1 DEF Inv, RefusedInv, Hopeless
    <3> QED
      BY <3>1, <3>2
  <2>5. ASSUME NEW a \in {"NOT_FOUND", "HISTORY", "EMPTY", "BROKEN", "ERROR"}, Complete(c, a)
        PROVE  Agrees(c)
    BY <2>5 DEF Complete, Answers
  <2>6. CASE LockThread(c) \/ ListCurrent(c) \/ ListRows(c) \/ Interrupt(c)
    BY <2>1, <2>5, <2>6 DEF LockThread, ListCurrent, ListRows, Interrupt, Reply, Proceed, Silently
  <2>7. CASE (\E t \in Threads : BindThread(t)) \/ SendAny(c)
    BY <2>1, <2>7 DEF BindThread, SendAny, Send, Silently
  <2>8. ASSUME NEW d \in Callers, d # c,
               SendAny(d) \/ LockThread(d) \/ LookUpKey(d) \/ Decide(d)
                 \/ ListCurrent(d) \/ ListRows(d) \/ Interrupt(d)
        PROVE  Agrees(c)
    <3>1. reply' = NoReply \/ \E a : Complete(d, a)
      BY <2>8 DEF SendAny, Send, LockThread, LookUpKey, Decide, ListCurrent, ListRows, Interrupt, Reply,
                  Proceed, Silently
    <3> QED
      BY <2>1, <2>2, <2>8, <3>1
  <2> QED
    BY <1>1, <2>3, <2>4, <2>6, <2>7, <2>8 DEF Next
<1>2. Inv /\ [Next]_vars => [\A c \in Callers : Agrees(c)]_vars
  BY <1>1
<1> QED
  BY InvAlways, <1>2, PTL DEF Spec, VerdictsAgree

\* From the head the whole history is reached, from an entry before it the head is not.
LEMMA ChainFromHead ==
  ASSUME HistoryInv, NEW t \in Threads, NEW r \in Seen(t), r # None
  PROVE  Chain(r, OfThread(t)) = OfThread(t) <=> r = correction[t]
<1> DEFINE S == OfThread(t)
<1>1. CASE r = correction[t]
  BY <1>1 DEF HistoryInv, Connected, Closed, Chain
<1>2. CASE r # correction[t]
  <2>1. PICK y \in S : y.id = r
    BY DEF Seen
  <2>2. correction[t] # None
    BY <2>1 DEF HistoryInv, HeadIsLast
  <2>3. PICK h \in S : h.id = correction[t]
    BY <2>2 DEF HistoryInv, HeadIsLast
  <2>4. \A x \in S : (x.id = correction[t] => x = h) /\ x.previous # correction[t]
    BY <2>3 DEF HistoryInv, HeadIsLast, Unique, OfThread
  <2>5. Closed(r, S, S \ {h})
    BY <1>2, <2>3, <2>4 DEF Closed
  <2>6. h \notin Chain(r, S)
    BY <2>5 DEF Chain, Closed
  <2> QED
    BY <1>2, <2>3, <2>6
<1> QED
  BY <1>1, <1>2

\* A listing is answered with a history exactly when no correction was committed between
\* its two queries (priority-correction-repository.ts:490-543).
THEOREM CorrectionHistoryIsWhole == Spec => HistoryIsWhole
<1> DEFINE Whole(c) ==
      Answers(c, {"HISTORY", "BROKEN"}) =>
        (Answers(c, {"HISTORY"}) <=> request[c].row = correction[request[c].command.thread])
<1>1. ASSUME Inv, Next, NEW c \in Callers PROVE Whole(c)
  <2>1. ASSUME reply' = NoReply PROVE Whole(c)
    BY <2>1, SilenceIsNoAnswer DEF Answers, Verdicts
  <2>2. ASSUME NEW d \in Callers, NEW a, Complete(d, a), d # c \/ a \notin {"HISTORY", "BROKEN"}
        PROVE  Whole(c)
    BY <2>2 DEF Complete, Answers
  <2>3. CASE ListRows(c)
    <3> DEFINE t == request[c].command.thread
               r == request[c].row
    <3>1. t \in Threads /\ r # None /\ r \in Seen(t)
      BY <1>1, <2>3 DEF ListRows, Inv, RequestInv, Consistent
    <3>2. Chain(r, OfThread(t)) = OfThread(t) <=> r = correction[t]
      BY <1>1, <3>1, ChainFromHead DEF Inv
    <3>3. reply' = <<c, IF Chain(r, OfThread(t)) = OfThread(t) THEN "HISTORY" ELSE "BROKEN">>
      BY <2>3 DEF ListRows, Reply, Complete
    <3> QED
      BY <3>2, <3>3 DEF Answers
  <2>4. ASSUME NEW d \in Callers,
               \/ SendAny(d) \/ LockThread(d) \/ LookUpKey(d) \/ Decide(d) \/ ListCurrent(d) \/ Interrupt(d)
               \/ ListRows(d) /\ d # c
        PROVE  Whole(c)
    <3>1. ASSUME Decide(d) PROVE \E a : Complete(d, a) /\ a \notin {"HISTORY", "BROKEN"}
      BY <3>1 DEF Decide, Disposition, Reply
    <3>2. ASSUME ListRows(d), d # c PROVE \E a : Complete(d, a)
      BY <3>2 DEF ListRows, Reply
    <3>3. ASSUME NEW b \in {"NOT_FOUND", "EMPTY", "ERROR", "REPLAYED", "CONFLICT"}, Reply(d, b)
          PROVE  \E a : Complete(d, a) /\ a \notin {"HISTORY", "BROKEN"}
      BY <3>3 DEF Reply
    <3>4. ASSUME LockThread(d) \/ ListCurrent(d) \/ Interrupt(d)
          PROVE  reply' = NoReply \/ \E a : Complete(d, a) /\ a \notin {"HISTORY", "BROKEN"}
      BY <3>3, <3>4 DEF LockThread, ListCurrent, Interrupt, Proceed, Silently
    <3>5. ASSUME LookUpKey(d)
          PROVE  reply' = NoReply \/ \E a : Complete(d, a) /\ a \notin {"HISTORY", "BROKEN"}
      BY <3>3, <3>5 DEF LookUpKey, Proceed, Silently
    <3>6. SendAny(d) => reply' = NoReply
      BY DEF SendAny, Send, Silently
    <3> QED
      BY <2>1, <2>2, <2>4, <3>1, <3>2, <3>4, <3>5, <3>6
  <2>5. CASE \E t \in Threads : BindThread(t)
    BY <2>1, <2>5 DEF BindThread, Silently
  <2> QED
    BY <1>1, <2>3, <2>4, <2>5 DEF Next
<1>2. Inv /\ [Next]_vars => [\A c \in Callers : Whole(c)]_vars
  BY <1>1
<1> QED
  BY InvAlways, <1>2, PTL DEF Spec, HistoryIsWhole
=============================================================================
