--------------------------- MODULE MailboxSyncProofs ---------------------------
(***************************************************************************)
(* MailboxSync and MailboxListing for any messages, threads, slots, readers and *)
(* history bound: types, the applied watermark, the notifications pending        *)
(* behind it, and the listings that write beside it.                           *)
(***************************************************************************)
EXTENDS MailboxListing, WellFoundedInduction, TLAPS

\* Newest(S) is the largest member of a bounded set of history identifiers.
LEMMA NewestIsMax ==
  ASSUME NEW n \in Nat, NEW S \in SUBSET (1..n), S # {}
  PROVE  Newest(S) \in S /\ \A j \in S : j <= Newest(S)
<1> DEFINE T == {k \in Nat : \E i \in S : k = n - i}
<1>1. \A i \in S : i \in Int /\ 1 <= i /\ i <= n
  OBVIOUS
<1>2. \A i \in S : n - i \in T
  BY <1>1
<1>3. T \subseteq Nat /\ T # {}
  BY <1>2
<1> DEFINE R == OpToRel(<, Nat)
<1> HIDE DEF R, T
<1>a. IsWellFoundedOn(R, Nat)
  BY NatLessThanWellFounded DEF R
<1>4. PICK x \in T : \A y \in T : ~(<<y, x>> \in R)
  BY <1>3, <1>a, WFMin
<1>b. \A a, b \in Nat : a < b => <<a, b>> \in R
  <2> SUFFICES ASSUME NEW a \in Nat, NEW b \in Nat, a < b
               PROVE  <<a, b>> \in {ss \in Nat \X Nat : ss[1] < ss[2]}
    BY Zenon DEF OpToRel, R
  <2>1. <<a, b>> \in Nat \X Nat /\ <<a, b>>[1] = a /\ <<a, b>>[2] = b
    OBVIOUS
  <2> QED
    BY <2>1, Zenon
<1>5. \A y \in T : x <= y
  <2>1. \A y \in T : y \in Nat /\ x \in Nat /\ ~(y < x)
    BY <1>3, <1>4, <1>b, Zenon
  <2> QED
    BY <2>1
<1> USE DEF T
<1>6. PICK i \in S : x = n - i
  BY <1>4
<1>7. \A j \in S : j <= i
  BY <1>1, <1>2, <1>5, <1>6
<1> QED
  BY <1>7 DEF Newest

Ids == 0..CurrentId
Change == [message : Messages, kind : {"update", "delete"}]
Table == [Messages -> Ids]

\* A message has a version among the identifiers of the history.
LEMMA VersionIsId ==
  ASSUME history \in Seq(Change), NEW m \in Messages
  PROVE  Version(m) \in Ids
<1>1. CurrentId \in Nat
  BY DEF CurrentId
<1>2. ChangesOf(m, 1..CurrentId) \in SUBSET (1..CurrentId)
  BY DEF ChangesOf
<1>3. CASE ChangesOf(m, 1..CurrentId) = {}
  BY <1>1, <1>3 DEF Version, Newest, Ids
<1>4. CASE ChangesOf(m, 1..CurrentId) # {}
  <2>1. Newest(ChangesOf(m, 1..CurrentId)) \in 1..CurrentId
    BY <1>1, <1>2, <1>4, NewestIsMax
  <2> QED
    BY <1>1, <2>1 DEF Version, Ids
<1> QED
  BY <1>3, <1>4

\* Gmail's answers hold history identifiers.
LEMMA ContentIsTable ==
  ASSUME history \in Seq(Change), NEW t
  PROVE  ContentOf(t) \in Table
BY VersionIsId DEF ContentOf, Table, Ids, CurrentId

PassRow ==
  [pc : {"idle", "locked", "ready", "capture", "begin", "window", "seeding", "history",
         "resolving"},
   kind : Kinds \cup {"none"}, initial : BOOLEAN, start : Ids, pending : Ids, latest : Ids,
   todo : SUBSET Messages, threads : SUBSET Threads, deleted : SUBSET Messages,
   seed : Table, fresh : Table]

TypeInv ==
  /\ history \in Seq(Change)
  /\ SyncTypeOK
  /\ lock \in Syncers \cup {NoSyncer}
  /\ pass \in [Syncers -> PassRow]
  /\ \A s \in Syncers : pass[s].pc # "idle" => pass[s].kind \in Kinds

\* A slot at rest is a slot.
LEMMA IdleIsRow ==
  ASSUME history \in Seq(Change)
  PROVE  Idle \in PassRow /\ Nothing \in Table /\ Idle.pc = "idle"
BY DEF Idle, PassRow, Nothing, Table, Ids, CurrentId

\* The mailbox starts well typed.
LEMMA TypeInit == Init => TypeInv
<1> SUFFICES ASSUME Init PROVE TypeInv
  OBVIOUS
<1>1. history \in Seq(Change) /\ CurrentId = 1
  BY DEF Init, Change, CurrentId
<1>2. pass = [s \in Syncers |-> Idle] /\ Idle \in PassRow /\ Nothing \in Table
  BY <1>1, IdleIsRow DEF Init
<1>3. SyncTypeOK
  BY <1>1, <1>2, SyncAssumption DEF Init, SyncTypeOK, Row, Kinds, Idle, Table, Ids
<1>4. lock \in Syncers \cup {NoSyncer} /\ pass \in [Syncers -> PassRow]
  BY <1>2 DEF Init
<1>5. \A s \in Syncers : pass[s].pc # "idle" => pass[s].kind \in Kinds
  BY <1>2 DEF Idle
<1> QED
  BY <1>1, <1>3, <1>4, <1>5 DEF TypeInv

------------------------------------------------------------------------------
(* What a step does to the passes.                                            *)

PassTyped ==
  /\ lock \in Syncers \cup {NoSyncer}
  /\ pass \in [Syncers -> PassRow]
  /\ \A s \in Syncers : pass[s].pc # "idle" => pass[s].kind \in Kinds
  /\ \A s \in Syncers : lock = s <=> pass[s].pc # "idle"

\* The other half of the type invariant.
DataTyped ==
  /\ history \in Seq(Change)
  /\ horizon \in Ids
  /\ account \in [status : {"active", "reauthorization_required", "disconnected"}, token : BOOLEAN]
  /\ state \in [applied : Ids, pending : Ids, baseline : Ids]
  /\ rows \in Table
  /\ queue \subseteq Kinds

\* The invariant says as much of the passes and of the rest separately.
LEMMA TypeParts == TypeInv <=> DataTyped /\ PassTyped
BY DEF TypeInv, DataTyped, PassTyped, SyncTypeOK, Row, Table, Ids, PassRow, CurrentId

\* Every range depends on the history alone.
LEMMA SameHistory ==
  history' = history => CurrentId' = CurrentId /\ Ids' = Ids /\ Table' = Table /\ PassRow' = PassRow
BY DEF CurrentId, Ids, Table, PassRow

\* The passes are left alone.
LEMMA KeepPassTyped ==
  ASSUME PassTyped, UNCHANGED <<history, lock, pass>>
  PROVE  PassTyped'
BY SameHistory DEF PassTyped

\* A pass goes on.
LEMMA SetPassTyped ==
  ASSUME PassTyped, UNCHANGED <<history, lock>>, NEW s \in Syncers, pass[s].pc # "idle",
         NEW p \in PassRow, p.pc # "idle", p.kind = pass[s].kind, SetPass(s, p)
  PROVE  PassTyped'
<1>1. pass' = [pass EXCEPT ![s] = p]
  BY DEF SetPass
<1>2. pass' \in [Syncers -> PassRow'] /\ lock' \in Syncers \cup {NoSyncer}
  BY <1>1, SameHistory DEF PassTyped
<1>3. \A t \in Syncers : pass'[t].pc # "idle" => pass'[t].kind \in Kinds
  BY <1>1 DEF PassTyped
<1>4. \A t \in Syncers : lock' = t <=> pass'[t].pc # "idle"
  BY <1>1 DEF PassTyped
<1> QED
  BY <1>2, <1>3, <1>4 DEF PassTyped

\* A pass ends.
LEMMA EndPassTyped ==
  ASSUME PassTyped, history \in Seq(Change), UNCHANGED history, NEW s \in Syncers,
         pass[s].pc # "idle", EndPass(s)
  PROVE  PassTyped'
<1>1. pass' = [pass EXCEPT ![s] = Idle] /\ lock' = NoSyncer
  BY DEF EndPass, SetPass, PassTyped
<1>2. pass' \in [Syncers -> PassRow'] /\ lock' \in Syncers \cup {NoSyncer}
  BY <1>1, SameHistory, IdleIsRow DEF PassTyped
<1>3. \A t \in Syncers : pass'[t].pc # "idle" => pass'[t].kind \in Kinds
  BY <1>1, IdleIsRow DEF PassTyped
<1>4. \A t \in Syncers : lock' = t <=> pass'[t].pc # "idle"
  BY <1>1, IdleIsRow, SyncAssumption DEF PassTyped
<1> QED
  BY <1>2, <1>3, <1>4 DEF PassTyped

\* A job takes the free lock.
LEMMA StartSyncTyped ==
  ASSUME PassTyped, history \in Seq(Change), NEW s \in Syncers, NEW kind \in Kinds,
         StartSync(s, kind)
  PROVE  PassTyped'
<1> DEFINE p == [Idle EXCEPT !.pc = "locked", !.kind = kind]
<1>1. p \in PassRow /\ p.pc = "locked" /\ p.kind = kind
  BY IdleIsRow DEF PassRow
<1>2. pass' = [pass EXCEPT ![s] = p] /\ lock' = s /\ lock = NoSyncer /\ history' = history
  BY DEF StartSync, SetPass, gmail
<1> HIDE DEF p
<1>3. pass' \in [Syncers -> PassRow'] /\ lock' \in Syncers \cup {NoSyncer}
  BY <1>1, <1>2, SameHistory DEF PassTyped
<1>4. \A t \in Syncers : pass'[t].pc # "idle" => pass'[t].kind \in Kinds
  BY <1>1, <1>2 DEF PassTyped
<1>5. \A t \in Syncers : lock' = t <=> pass'[t].pc # "idle"
  BY <1>1, <1>2, SyncAssumption DEF PassTyped
<1> QED
  BY <1>3, <1>4, <1>5 DEF PassTyped

\* A table stays one when contents are written over it.
LEMMA UpsertIsTable ==
  ASSUME NEW content \in Table, NEW table \in Table
  PROVE  Upsert(content, table) \in Table
BY DEF Upsert, Table

------------------------------------------------------------------------------
(* Type correctness.                                                          *)

\* Gmail's changes extend the range of identifiers.
LEMMA GmailTyped ==
  ASSUME DataTyped, PassTyped, NEW m \in Messages, GmailChanges(m) \/ GmailDeletes(m)
  PROVE  DataTyped' /\ PassTyped'
<1>1. PICK c \in Change : history' = Append(history, c)
  BY DEF GmailChanges, GmailDeletes, Change
<1>2. history' \in Seq(Change) /\ CurrentId \in Nat /\ CurrentId' = CurrentId + 1
  BY <1>1 DEF DataTyped, CurrentId
<1>3. Ids \subseteq Ids'
  BY <1>2 DEF Ids
<1>4. Table \subseteq Table'
  BY <1>3 DEF Table
<1>5. \A p \in PassRow : p \in PassRow'
  BY <1>3, <1>4 DEF PassRow
<1>6. UNCHANGED <<horizon, account, state, rows, lock, queue, pass>>
  BY DEF GmailChanges, GmailDeletes, workers
<1>7. DataTyped'
  <2>1. horizon' \in Ids' /\ state' \in [applied : Ids', pending : Ids', baseline : Ids']
    BY <1>3, <1>6 DEF DataTyped
  <2>2. rows' \in Table'
    BY <1>4, <1>6 DEF DataTyped
  <2> QED
    BY <1>2, <1>6, <2>1, <2>2 DEF DataTyped
<1>8. pass' \in [Syncers -> PassRow']
  BY <1>5, <1>6 DEF PassTyped
<1> QED
  BY <1>6, <1>7, <1>8 DEF PassTyped

\* The steps of a pass that only change what the pass holds.
LEMMA PassStepTyped ==
  ASSUME DataTyped, PassTyped, NEW s \in Syncers, PassStep(s)
  PROVE  DataTyped' /\ PassTyped'
<1> USE DEF DataTyped
<1>0. pass[s] \in PassRow /\ CurrentId \in Nat
  BY DEF PassTyped, CurrentId
<1>a. state.applied \in Ids /\ state.baseline \in Ids /\ state.pending \in Ids
  OBVIOUS
<1>b. 0 \in Ids /\ CurrentId \in Ids
  BY <1>0 DEF Ids
<1>c. pass[s].pc # "idle" => pass[s].kind \in Kinds
  BY DEF PassTyped
<1>1. CASE CheckAccount(s)
  <2>1. DataTyped'
    <3>1. history' = history /\ UNCHANGED <<horizon, account, state, rows>>
      BY <1>1 DEF CheckAccount, gmail
    <3>2. queue' \subseteq Kinds
      BY <1>1, <1>c DEF CheckAccount, RetryOrDrop
    <3> QED
      BY <3>1, <3>2, SameHistory
  <2>2. CASE EndPass(s)
    <3>1. history' = history /\ pass[s].pc # "idle"
      BY <1>1 DEF CheckAccount, gmail
    <3> QED
      BY <2>1, <2>2, <3>1, EndPassTyped
  <2>3. CASE SetPass(s, [pass[s] EXCEPT !.pc = "ready"]) /\ lock' = lock
    <3> DEFINE p == [pass[s] EXCEPT !.pc = "ready"]
    <3>1. p \in PassRow /\ p.pc = "ready" /\ p.kind = pass[s].kind
      BY <1>0 DEF PassRow
    <3>2. history' = history /\ pass[s].pc # "idle"
      BY <1>1 DEF CheckAccount, gmail
    <3> HIDE DEF p
    <3>3. SetPass(s, p)
      BY <2>3 DEF p
    <3> QED
      BY <2>1, <2>3, <3>1, <3>2, <3>3, SetPassTyped
  <2> QED
    BY <1>1, <2>1, <2>2, <2>3 DEF CheckAccount
<1>2. CASE ReadState(s)
  <2>1. PICK p \in PassRow : p.pc # "idle" /\ p.kind = pass[s].kind /\ SetPass(s, p)
    <3> DEFINE history1 == [pass[s] EXCEPT !.pc = "history", !.start = state.applied,
                                           !.pending = state.pending]
               initial1 == [pass[s] EXCEPT !.pc = "begin", !.initial = TRUE, !.start = state.baseline]
               initial2 == [pass[s] EXCEPT !.pc = "capture", !.initial = TRUE, !.start = 0]
    <3>1. history1 \in PassRow /\ history1.pc = "history" /\ history1.kind = pass[s].kind
      BY <1>0, <1>a DEF PassRow
    <3>2. initial1 \in PassRow /\ initial1.pc = "begin" /\ initial1.kind = pass[s].kind
      BY <1>0, <1>a DEF PassRow
    <3>3. initial2 \in PassRow /\ initial2.pc = "capture" /\ initial2.kind = pass[s].kind
      BY <1>0, <1>b DEF PassRow
    <3>4. \/ SetPass(s, history1) \/ SetPass(s, initial1) \/ SetPass(s, initial2)
      BY <1>2 DEF ReadState
    <3> HIDE DEF history1, initial1, initial2
    <3> QED
      BY <3>1, <3>2, <3>3, <3>4
  <2> QED
    BY <1>2, <2>1, SameHistory, SetPassTyped DEF ReadState, gmail
<1>3. CASE CaptureBaseline(s)
  <2>1. PICK p \in PassRow : p.pc # "idle" /\ p.kind = pass[s].kind /\ SetPass(s, p)
    BY <1>0, <1>3, <1>b DEF CaptureBaseline, PassRow
  <2> QED
    BY <1>3, <2>1, SameHistory, SetPassTyped DEF CaptureBaseline, gmail
<1>4. CASE BeginInitialSync(s)
  <2>1. PICK p \in PassRow : p.pc # "idle" /\ p.kind = pass[s].kind /\ SetPass(s, p)
    BY <1>0, <1>4 DEF BeginInitialSync, PassRow
  <2>2. state' \in [applied : Ids, pending : Ids, baseline : Ids]
    BY <1>0, <1>4, <1>b DEF BeginInitialSync, PassRow
  <2> QED
    BY <1>4, <2>1, <2>2, SameHistory, SetPassTyped DEF BeginInitialSync, gmail
<1>5. CASE \E window \in SUBSET LiveThreads : ListThreads(s, window)
  <2>1. LiveThreads \subseteq Threads
    BY SyncAssumption DEF LiveThreads
  <2>2. PICK p \in PassRow : p.pc # "idle" /\ p.kind = pass[s].kind /\ SetPass(s, p)
    BY <1>0, <1>5, <2>1 DEF ListThreads, PassRow
  <2> QED
    BY <1>5, <2>2, SameHistory, SetPassTyped DEF ListThreads, gmail
<1>6. CASE \E t \in Threads : HydrateWindowThread(s, t)
  <2>1. PICK t \in Threads : HydrateWindowThread(s, t)
    BY <1>6
  <2> DEFINE table == [m \in Messages |-> IF ThreadOf[m] = t THEN ContentOf(t)[m] ELSE pass[s].seed[m]]
  <2>2. table \in Table
    BY <1>0, ContentIsTable DEF Table, PassRow
  <2> HIDE DEF table
  <2>3. SetPass(s, [pass[s] EXCEPT !.threads = @ \ {t}, !.seed = table])
    BY <2>1 DEF HydrateWindowThread, table
  <2>4. PICK p \in PassRow : p.pc # "idle" /\ p.kind = pass[s].kind /\ SetPass(s, p)
    BY <1>0, <2>1, <2>2, <2>3 DEF HydrateWindowThread, PassRow
  <2> QED
    BY <2>1, <2>4, SameHistory, SetPassTyped DEF HydrateWindowThread, gmail
<1>7. CASE \E t \in Threads : HydrateChangedThread(s, t)
  <2>1. PICK t \in Threads : HydrateChangedThread(s, t)
    BY <1>7
  <2> DEFINE table == [m \in Messages |-> IF ThreadOf[m] = t THEN ContentOf(t)[m] ELSE pass[s].fresh[m]]
  <2>2. table \in Table
    BY <1>0, ContentIsTable DEF Table, PassRow
  <2> HIDE DEF table
  <2>3. SetPass(s, [pass[s] EXCEPT !.threads = @ \ {t}, !.fresh = table])
    BY <2>1 DEF HydrateChangedThread, table
  <2>4. PICK p \in PassRow : p.pc # "idle" /\ p.kind = pass[s].kind /\ SetPass(s, p)
    BY <1>0, <2>1, <2>2, <2>3 DEF HydrateChangedThread, PassRow
  <2> QED
    BY <2>1, <2>4, SameHistory, SetPassTyped DEF HydrateChangedThread, gmail
<1>8. CASE \E upTo \in pass[s].start..CurrentId : ListHistory(s, upTo)
  <2>1. PICK upTo \in Ids : ListHistory(s, upTo)
    BY <1>0, <1>8 DEF PassRow, Ids
  <2>2. PICK p \in PassRow : p.pc # "idle" /\ p.kind = pass[s].kind /\ SetPass(s, p)
    BY <1>0, <2>1 DEF ListHistory, PassRow
  <2>3. pass[s].pc # "idle"
    BY <2>1 DEF ListHistory, ReadyToList
  <2> QED
    BY <2>1, <2>2, <2>3, SameHistory, SetPassTyped DEF ListHistory, gmail
<1>9. CASE HistoryGap(s)
  <2>1. pass[s].pc # "idle"
    BY <1>9 DEF HistoryGap, ReadyToList
  <2>2. PassTyped'
    BY <1>9, <2>1, EndPassTyped DEF HistoryGap, gmail
  <2>3. DataTyped'
    BY <1>9, <2>1, SameHistory DEF HistoryGap, gmail, EnqueueSync, RetryOrDrop, Kinds, PassTyped
  <2> QED
    BY <2>2, <2>3
<1>10. CASE \E m \in Messages : ResolveMessage(s, m)
  <2>1. PICK m \in Messages : ResolveMessage(s, m)
    BY <1>10
  <2>2. ThreadOf[m] \in Threads
    BY SyncAssumption
  <2>3. PICK p \in PassRow : p.pc # "idle" /\ p.kind = pass[s].kind /\ SetPass(s, p)
    BY <1>0, <2>1, <2>2 DEF ResolveMessage, PassRow
  <2> QED
    BY <2>1, <2>3, SameHistory, SetPassTyped DEF ResolveMessage, gmail
<1>11. CASE AwaitHistory(s)
  <2>1. pass[s].pc # "idle"
    BY <1>11 DEF AwaitHistory, Collected
  <2>2. PassTyped'
    BY <1>11, <2>1, EndPassTyped DEF AwaitHistory, gmail
  <2>3. DataTyped'
    BY <1>11, <2>1, SameHistory DEF AwaitHistory, gmail, RetryOrDrop, PassTyped
  <2> QED
    BY <2>2, <2>3
<1> QED
  BY <1>1, <1>2, <1>3, <1>4, <1>5, <1>6, <1>7, <1>8, <1>9, <1>10, <1>11 DEF PassStep

\* The commit writes tables and identifiers.
LEMMA CommitTyped ==
  ASSUME DataTyped, PassTyped, NEW s \in Syncers, Commit(s)
  PROVE  DataTyped' /\ PassTyped'
<1> DEFINE p == pass[s]
<1>1. p \in PassRow /\ p.pc # "idle" /\ history' = history /\ UNCHANGED <<horizon, queue>>
  BY DEF PassTyped, Commit, Collected, gmail
<1>2. 0 \in Ids /\ CurrentId \in Nat
  BY DEF Ids, CurrentId, DataTyped
<1>3. Persisted(p) \in Table
  <2>1. Upsert(p.seed, rows) \in Table
    BY <1>1, UpsertIsTable DEF PassRow, DataTyped
  <2>2. [m \in Messages |-> IF m \in p.deleted THEN 0 ELSE Upsert(p.seed, rows)[m]] \in Table
    BY <1>2, <2>1 DEF Table
  <2> QED
    BY <1>1, <2>2, UpsertIsTable DEF Persisted, PassRow
<1>4. rows' \in Table
  BY <1>3 DEF Commit
<1>5. state' \in [applied : Ids, pending : Ids, baseline : Ids]
  <2>1. p.latest \in Ids
    BY <1>1 DEF PassRow
  <2> QED
    BY <1>2, <2>1 DEF Commit, ApplyProcessedHistory, Larger, DataTyped
<1>6. DataTyped'
  BY <1>1, <1>4, <1>5, SameHistory DEF DataTyped, Commit
<1>7. PassTyped'
  <2>1. CASE EndPass(s)
    BY <1>1, <2>1, EndPassTyped DEF DataTyped
  <2>2. CASE SetPass(s, [Idle EXCEPT !.pc = "ready", !.kind = p.kind]) /\ UNCHANGED lock
    <3> DEFINE q == [Idle EXCEPT !.pc = "ready", !.kind = p.kind]
    <3>1. p.kind \in Kinds \cup {"none"}
      BY <1>1 DEF PassRow
    <3>2. q \in PassRow /\ q.pc = "ready" /\ q.kind = p.kind
      BY <3>1, IdleIsRow DEF PassRow, DataTyped
    <3> HIDE DEF q
    <3>3. SetPass(s, q) /\ UNCHANGED lock
      BY <2>2 DEF q
    <3> QED
      BY <1>1, <3>2, <3>3, SetPassTyped
  <2> QED
    BY <2>1, <2>2 DEF Commit
<1> QED
  BY <1>6, <1>7

\* Failures, crashes and redeliveries end passes and queue jobs.
LEMMA OutageTyped ==
  ASSUME DataTyped, PassTyped, Outage
  PROVE  DataTyped' /\ PassTyped'
<1>1. CASE \E id \in 1..CurrentId : NotificationLost(id)
  <2>1. PICK id \in 1..CurrentId : NotificationLost(id)
    BY <1>1
  <2>2. history' = history /\ UNCHANGED <<horizon, account, rows, lock, queue, pass>>
    BY <2>1 DEF NotificationLost, gmail, workers
  <2>3. id \in Ids
    BY DEF Ids
  <2>4. state' \in [applied : Ids, pending : Ids, baseline : Ids]
    BY <2>1, <2>3 DEF NotificationLost, RecordPendingHistory, Larger, DataTyped
  <2> QED
    BY <2>2, <2>4, SameHistory, KeepPassTyped DEF DataTyped
<1>2. ASSUME NEW s \in Syncers, Fail(s) \/ Crash(s) \/ Stall(s)
      PROVE  DataTyped' /\ PassTyped'
  <2>1. history' = history /\ UNCHANGED <<horizon, state, rows>> /\ pass[s].pc # "idle"
    BY <1>2 DEF Fail, Crash, Stall, gmail
  <2>2. queue' \subseteq Kinds
    BY <1>2, <2>1 DEF Fail, Crash, Stall, RetryOrDrop, EnqueueSync, DataTyped, PassTyped
  <2>3. account' \in [status : {"active", "reauthorization_required", "disconnected"}, token : BOOLEAN]
    BY <1>2 DEF Fail, Crash, Stall, DataTyped
  <2>4. DataTyped'
    BY <2>1, <2>2, <2>3, SameHistory DEF DataTyped
  <2>5. CASE EndPass(s)
    BY <2>1, <2>4, <2>5, EndPassTyped DEF DataTyped
  <2>6. CASE UNCHANGED <<lock, pass>>
    BY <2>1, <2>4, <2>6, KeepPassTyped
  <2> QED
    BY <1>2, <2>4, <2>5, <2>6 DEF Fail, Crash, Stall
<1> QED
  BY <1>1, <1>2 DEF Outage

\* Users, notifications and the reconciliation touch no pass.
LEMMA BackgroundTyped ==
  ASSUME DataTyped, PassTyped, Background
  PROVE  DataTyped' /\ PassTyped'
<1>1. CASE \E m \in Messages : GmailChanges(m) \/ GmailDeletes(m)
  BY <1>1, GmailTyped
<1>2. CASE \E id \in 1..CurrentId : GmailForgets(id)
  BY <1>2, SameHistory, KeepPassTyped DEF GmailForgets, DataTyped, workers, Ids
<1>3. CASE Disconnect
  BY <1>3, SameHistory, KeepPassTyped DEF Disconnect, DataTyped, workers, gmail
<1>4. CASE Reconnect
  BY <1>4, SameHistory, KeepPassTyped DEF Reconnect, EnqueueSync, DataTyped, Kinds, gmail
<1>5. CASE \E id \in 1..CurrentId : Notification(id)
  <2>1. PICK id \in 1..CurrentId : Notification(id)
    BY <1>5
  <2>2. history' = history /\ UNCHANGED <<horizon, account, rows, lock, pass>>
    BY <2>1 DEF Notification, gmail
  <2>3. id \in Ids
    BY DEF Ids
  <2>4. state' \in [applied : Ids, pending : Ids, baseline : Ids]
    BY <2>1, <2>3 DEF Notification, RecordPendingHistory, Larger, DataTyped
  <2>5. queue' \subseteq Kinds
    BY <2>1 DEF Notification, EnqueueSync, Kinds, DataTyped
  <2> QED
    BY <2>2, <2>4, <2>5, SameHistory, KeepPassTyped DEF DataTyped
<1>6. CASE ScheduleReconciliation
  BY <1>6, SameHistory, KeepPassTyped DEF ScheduleReconciliation, EnqueueSync, DataTyped, Kinds, gmail
<1>7. CASE \E kind \in Kinds : MailboxLeaseUnavailable(kind)
  BY <1>7, SameHistory, KeepPassTyped DEF MailboxLeaseUnavailable, DataTyped, gmail
<1>8. CASE \E kind \in Kinds, s \in Syncers : StartSync(s, kind)
  <2>1. PICK kind \in Kinds, s \in Syncers : StartSync(s, kind)
    BY <1>8
  <2>2. PassTyped'
    BY <2>1, StartSyncTyped DEF DataTyped
  <2>3. DataTyped'
    BY <2>1, SameHistory DEF StartSync, DataTyped, gmail
  <2> QED
    BY <2>2, <2>3
<1>9. CASE \E s \in Syncers : PassStep(s)
  BY <1>9, PassStepTyped
<1> QED
  BY <1>1, <1>2, <1>3, <1>4, <1>5, <1>6, <1>7, <1>8, <1>9 DEF Background, Environment, Requests

\* Every step keeps the types.
LEMMA TypeNext == TypeInv /\ [Next]_vars => TypeInv'
<1> SUFFICES ASSUME TypeInv, [Next]_vars PROVE DataTyped' /\ PassTyped'
  <2>1. TypeInv' <=> DataTyped' /\ PassTyped'
    BY TypeParts, PTL
  <2> QED
    BY <2>1
<1>1. DataTyped /\ PassTyped
  BY TypeParts
<1>2. CASE UNCHANGED vars
  BY <1>1, <1>2, SameHistory, KeepPassTyped DEF vars, gmail, workers, DataTyped
<1>3. CASE Background
  BY <1>1, <1>3, BackgroundTyped
<1>4. CASE \E s \in Syncers : Commit(s)
  BY <1>1, <1>4, CommitTyped
<1>5. CASE Outage
  BY <1>1, <1>5, OutageTyped
<1> QED
  BY <1>2, <1>3, <1>4, <1>5 DEF Next, Calm

\* In every reachable state the rows and passes are well typed, exactly the slot
\* that runs a pass holds the mailbox's lock, and no watermark is ahead of Gmail.
THEOREM SyncTypeCorrect == Spec => []SyncTypeOK
<1>1. TypeInv => SyncTypeOK
  BY DEF TypeInv
<1> QED
  BY <1>1, TypeInit, TypeNext, PTL DEF Spec

------------------------------------------------------------------------------
(* Pending notifications.                                                     *)

\* Outside a commit the pending identifier only grows.
LEMMA PendingGrows ==
  ASSUME TypeInv, Background \/ Outage
  PROVE  state'.pending = state.pending \/ state'.pending > state.pending
<1>1. state \in [applied : Ids, pending : Ids, baseline : Ids] /\ CurrentId \in Nat
  BY TypeParts DEF DataTyped, CurrentId
<1>2. CASE state' = state
  BY <1>2
<1>3. CASE \E id \in 1..CurrentId : RecordPendingHistory(id)
  BY <1>1, <1>3 DEF RecordPendingHistory, Larger, Ids
<1>4. CASE \E s \in Syncers : BeginInitialSync(s)
  BY <1>1, <1>4 DEF BeginInitialSync
<1> QED
  BY <1>2, <1>3, <1>4
     DEF Background, Outage, Environment, Requests, PassStep, GmailChanges, GmailDeletes,
         GmailForgets, Disconnect, Reconnect, Notification, NotificationLost,
         ScheduleReconciliation, MailboxLeaseUnavailable, StartSync, CheckAccount, ReadState,
         CaptureBaseline, ListThreads, HydrateWindowThread, HydrateChangedThread, ListHistory,
         HistoryGap, ResolveMessage, AwaitHistory, Fail, Crash, Stall

\* A commit that clears the pending identifier has applied it.
LEMMA CommitKeepsPending ==
  ASSUME TypeInv, NEW s \in Syncers, Commit(s)
  PROVE  state'.pending = state.pending \/ state'.applied >= state.pending
<1>1. state \in [applied : Ids, pending : Ids, baseline : Ids] /\ pass[s].latest \in Ids
  BY TypeParts DEF DataTyped, PassTyped, PassRow
<1> QED
  BY <1>1 DEF Commit, ApplyProcessedHistory, Larger, Ids

\* A pending notification is replaced by a newer one or cleared by a commit at or
\* beyond it, in every behaviour.
THEOREM PendingSurvives == Spec => PendingIsKept
<1>1. TypeInv /\ [Next]_vars
        => (state'.pending # state.pending =>
              state'.pending > state.pending \/ state'.applied >= state.pending)
           \/ UNCHANGED vars
  <2> SUFFICES ASSUME TypeInv, Next
               PROVE  state'.pending # state.pending =>
                        state'.pending > state.pending \/ state'.applied >= state.pending
    OBVIOUS
  <2> QED
    BY PendingGrows, CommitKeepsPending DEF Next, Calm
<1> QED
  BY <1>1, TypeInit, TypeNext, PTL DEF Spec, PendingIsKept

------------------------------------------------------------------------------
(* The watermark.                                                            *)

\* Nothing follows the deletion of a message.
DeletionIsLast ==
  \A i, j \in 1..CurrentId :
    i < j /\ history[i].message = history[j].message => history[i].kind # "delete"

\* Covered, said of every change instead of the newest.
CoveredThroughout(m) ==
  \A i \in ChangesOf(m, (state.baseline + 1)..state.applied) :
    IF history[i].kind = "delete"
    THEN rows[m] = 0
    ELSE rows[m] >= i \/ Deleted(m, 1..CurrentId)

\* What a pass under way has read fits the watermark it will move: nothing else
\* moves it meanwhile.
Anchored(p) ==
  /\ p.pc # "resolving" => p.fresh = Nothing
  /\ p.pc \in {"locked", "ready", "history"} => ~p.initial
  /\ p.pc \in {"capture", "begin", "window", "seeding"} => p.initial
  /\ ~p.initial => p.seed = Nothing
  /\ p.pc \in {"window", "seeding", "history", "resolving"} =>
       IF p.initial THEN state.applied = 0 /\ state.baseline = p.start
                    ELSE state.applied = p.start

\* A pass that has listed its range has read, or will still read, each message
\* changed in it, and holds no reading older than the range.
Collecting(p) ==
  p.pc = "resolving" =>
    /\ p.start <= p.latest
    /\ p.deleted = {m \in Messages : Deleted(m, (p.start + 1)..p.latest)}
    /\ \A m \in Messages \ p.deleted : \A i \in ChangesOf(m, (p.start + 1)..p.latest) :
         \/ m \in p.todo
         \/ ThreadOf[m] \in p.threads
         \/ p.fresh[m] >= i
         \/ Deleted(m, 1..CurrentId)
    /\ \A m \in Messages : p.fresh[m] # 0 =>
         \A i \in ChangesOf(m, 1..p.latest) : p.fresh[m] >= i /\ history[i].kind # "delete"

CoverInv(S) ==
  /\ DeletionIsLast
  /\ \A m \in S : CoveredThroughout(m)
  /\ \A s \in Syncers : Anchored(pass[s]) /\ Collecting(pass[s])

\* A mailbox just connected has applied nothing.
LEMMA CoverInit == Init => CoverInv(Messages)
<1> SUFFICES ASSUME Init PROVE CoverInv(Messages)
  OBVIOUS
<1>1. CurrentId = 1 /\ state.applied = 0 /\ state.baseline = 0
  BY DEF Init, CurrentId
<1>2. DeletionIsLast
  BY <1>1 DEF DeletionIsLast
<1>3. \A m \in Messages : CoveredThroughout(m)
  BY <1>1 DEF CoveredThroughout, ChangesOf
<1>4. \A s \in Syncers : pass[s] = Idle
  BY DEF Init
<1>5. Anchored(Idle) /\ Collecting(Idle)
  BY DEF Anchored, Collecting, Idle
<1> QED
  BY <1>2, <1>3, <1>4, <1>5 DEF CoverInv

\* The newest change decides, because a deletion is the last.
LEMMA CoveredNewest ==
  ASSUME TypeInv, DeletionIsLast, NEW m \in Messages, CoveredThroughout(m)
  PROVE  Covered(m)
<1> DEFINE ids == ChangesOf(m, (state.baseline + 1)..state.applied)
<1> SUFFICES ASSUME ids # {}
             PROVE  IF history[Newest(ids)].kind = "delete"
                    THEN rows[m] = 0
                    ELSE rows[m] >= Newest(ids) \/ Deleted(m, 1..CurrentId)
  BY DEF Covered
<1>1. state.applied \in Nat /\ state.baseline \in Nat
  BY TypeParts DEF DataTyped, Ids
<1>2. ids \in SUBSET (1..state.applied)
  BY <1>1 DEF ChangesOf
<1>3. Newest(ids) \in ids
  BY <1>1, <1>2, NewestIsMax
<1> QED
  BY <1>3 DEF CoveredThroughout

------------------------------------------------------------------------------
(* Steps that leave Gmail's changes and the rows alone.                       *)

\* The operators on Gmail's changes depend on the history alone.
LEMMA SameChanges ==
  ASSUME history' = history
  PROVE  /\ CurrentId' = CurrentId
         /\ \A m, S : ChangesOf(m, S)' = ChangesOf(m, S)
         /\ \A m, S : Deleted(m, S)' = Deleted(m, S)
         /\ DeletionIsLast' <=> DeletionIsLast
BY DEF CurrentId, ChangesOf, Deleted, DeletionIsLast

\* The invariant reads no more than the history, the rows and two watermarks.
LEMMA SameCover ==
  ASSUME UNCHANGED <<history, rows>>, state'.applied = state.applied,
         state'.baseline = state.baseline
  PROVE  /\ \A m \in Messages : CoveredThroughout(m)' <=> CoveredThroughout(m)
         /\ \A p : Anchored(p)' <=> Anchored(p)
         /\ \A p : Collecting(p)' <=> Collecting(p)
<1>1. CurrentId' = CurrentId
  BY DEF CurrentId
<1> QED
  BY <1>1 DEF CoveredThroughout, Anchored, Collecting, ChangesOf, Deleted

\* No pass moves.
LEMMA KeepPassCover ==
  ASSUME NEW S \in SUBSET Messages,
         CoverInv(S), UNCHANGED <<history, rows, pass>>, state'.applied = state.applied,
         state'.baseline = state.baseline
  PROVE  CoverInv(S)'
BY SameChanges, SameCover DEF CoverInv

\* One pass moves.
LEMMA SetPassCover ==
  ASSUME NEW S \in SUBSET Messages,
         PassTyped, CoverInv(S), UNCHANGED <<history, rows, state>>, NEW s \in Syncers,
         NEW p, SetPass(s, p), Anchored(p), Collecting(p)
  PROVE  CoverInv(S)'
<1>1. \A t \in Syncers : pass'[t] = IF t = s THEN p ELSE pass[t]
  BY DEF SetPass, PassTyped
<1>2. \A t \in Syncers : Anchored(pass'[t]) /\ Collecting(pass'[t])
  BY <1>1 DEF CoverInv
<1>3. \A t \in Syncers : Anchored(pass[t])' /\ Collecting(pass[t])'
  BY <1>2 DEF Anchored, Collecting, ChangesOf, Deleted, CurrentId
<1> QED
  BY <1>3, SameChanges, SameCover DEF CoverInv

\* A pass that holds nothing fits any watermark.
LEMMA IdleFits ==
  /\ Anchored(Idle) /\ Collecting(Idle)
  /\ \A kind : LET p == [Idle EXCEPT !.pc = "locked", !.kind = kind] IN Anchored(p) /\ Collecting(p)
  /\ \A kind : LET p == [Idle EXCEPT !.pc = "ready", !.kind = kind] IN Anchored(p) /\ Collecting(p)
BY DEF Anchored, Collecting, Idle

\* A pass that ends without a commit leaves nothing behind.
LEMMA EndPassCover ==
  ASSUME NEW S \in SUBSET Messages,
         PassTyped, CoverInv(S), UNCHANGED <<history, rows, state>>, NEW s \in Syncers, EndPass(s)
  PROVE  CoverInv(S)'
BY IdleFits, SetPassCover DEF EndPass

\* A slot that runs a pass is alone.
LEMMA OthersIdle ==
  ASSUME PassTyped, NEW s \in Syncers, pass[s].pc # "idle", NEW t \in Syncers, t # s
  PROVE  pass[t].pc = "idle"
BY DEF PassTyped

------------------------------------------------------------------------------
(* Gmail.                                                                    *)

\* A version is newer than every change before it, and its message lives.
LEMMA VersionCovers ==
  ASSUME history \in Seq(Change), NEW m \in Messages
  PROVE  /\ Version(m) # 0 => /\ ~Deleted(m, 1..CurrentId)
                              /\ \A i \in ChangesOf(m, 1..CurrentId) : Version(m) >= i
         /\ Version(m) = 0 => \/ Deleted(m, 1..CurrentId)
                              \/ ChangesOf(m, 1..CurrentId) = {}
<1> DEFINE ids == ChangesOf(m, 1..CurrentId)
<1>1. CurrentId \in Nat /\ ids \in SUBSET (1..CurrentId)
  BY DEF CurrentId, ChangesOf
<1>2. CASE Deleted(m, 1..CurrentId)
  BY <1>2 DEF Version
<1>3. CASE ~Deleted(m, 1..CurrentId) /\ ids = {}
  BY <1>3 DEF Version, Newest
<1>4. CASE ~Deleted(m, 1..CurrentId) /\ ids # {}
  <2>1. Newest(ids) \in ids /\ \A i \in ids : i <= Newest(ids)
    BY <1>1, <1>4, NewestIsMax
  <2>2. Version(m) = Newest(ids)
    BY <1>4 DEF Version
  <2>3. Version(m) \in 1..CurrentId
    BY <1>1, <2>1, <2>2
  <2> QED
    BY <1>1, <1>4, <2>1, <2>2, <2>3
<1> QED
  BY <1>2, <1>3, <1>4

\* A new change follows no deletion of its message and leaves the ranges
\* listed and applied so far as they are.
LEMMA GmailCover ==
  ASSUME NEW S \in SUBSET Messages,
         TypeInv, CoverInv(S), NEW m \in Messages, GmailChanges(m) \/ GmailDeletes(m)
  PROVE  CoverInv(S)'
<1>1. PICK c \in Change : history' = Append(history, c) /\ c.message = m
  BY DEF GmailChanges, GmailDeletes, Change
<1>2. history \in Seq(Change) /\ CurrentId \in Nat /\ CurrentId' = CurrentId + 1
  BY <1>1 DEF TypeInv, CurrentId
<1>3. /\ \A i \in 1..CurrentId : history'[i] = history[i]
      /\ history'[CurrentId + 1] = c
  BY <1>1, <1>2 DEF CurrentId
<1>4. ~Deleted(m, 1..CurrentId)
  BY <1>2, VersionCovers DEF GmailChanges, GmailDeletes
<1>5. UNCHANGED <<state, rows, pass>>
  BY DEF GmailChanges, GmailDeletes, workers
<1>6. \A n \in Messages : \A a, b \in Ids :
        /\ ChangesOf(n, (a + 1)..b)' = ChangesOf(n, (a + 1)..b)
        /\ Deleted(n, (a + 1)..b)' <=> Deleted(n, (a + 1)..b)
  <2> SUFFICES ASSUME NEW n \in Messages, NEW a \in Ids, NEW b \in Ids
               PROVE  /\ ChangesOf(n, (a + 1)..b)' = ChangesOf(n, (a + 1)..b)
                      /\ Deleted(n, (a + 1)..b)' <=> Deleted(n, (a + 1)..b)
    OBVIOUS
  <2>1. (a + 1)..b \subseteq 1..CurrentId
    BY <1>2 DEF Ids
  <2>2. \A i \in (a + 1)..b : history'[i] = history[i]
    BY <1>3, <2>1
  <2>3. ChangesOf(n, (a + 1)..b)' = ChangesOf(n, (a + 1)..b)
    BY <2>2 DEF ChangesOf
  <2> QED
    BY <2>2, <2>3 DEF Deleted, ChangesOf
<1>7. \A n \in Messages : Deleted(n, 1..CurrentId) => Deleted(n, 1..CurrentId)'
  BY <1>2, <1>3 DEF Deleted, ChangesOf
<1>8. DeletionIsLast'
  <2> SUFFICES ASSUME NEW i \in 1..(CurrentId + 1), NEW j \in 1..(CurrentId + 1), i < j,
                      history'[i].message = history'[j].message
               PROVE  history'[i].kind # "delete"
    BY <1>2 DEF DeletionIsLast
  <2>1. i \in 1..CurrentId /\ history'[i] = history[i]
    BY <1>2, <1>3
  <2>2. CASE j \in 1..CurrentId
    BY <1>3, <2>1, <2>2 DEF CoverInv, DeletionIsLast
  <2>3. CASE j = CurrentId + 1
    BY <1>1, <1>3, <1>4, <2>1, <2>3 DEF Deleted, ChangesOf
  <2> QED
    BY <1>2, <2>2, <2>3
<1>9. ASSUME NEW n \in S PROVE CoveredThroughout(n)'
  <2>1. state.applied \in Ids /\ state.baseline \in Ids
    BY TypeParts DEF DataTyped
  <2>2. CoveredThroughout(n)
    BY DEF CoverInv
  <2>3. ChangesOf(n, (state.baseline + 1)..state.applied)'
          = ChangesOf(n, (state.baseline + 1)..state.applied)
    BY <1>5, <1>6, <2>1
  <2>4. \A i \in ChangesOf(n, (state.baseline + 1)..state.applied) : history'[i] = history[i]
    BY <1>2, <1>3, <2>1 DEF ChangesOf, Ids
  <2> QED
    BY <1>5, <1>7, <2>2, <2>3, <2>4 DEF CoveredThroughout
<1>10. ASSUME NEW s \in Syncers PROVE Anchored(pass[s])' /\ Collecting(pass[s])'
  <2> DEFINE p == pass[s]
  <2>1. p \in PassRow /\ Anchored(p) /\ Collecting(p) /\ pass'[s] = p
    BY <1>5, TypeParts DEF PassTyped, CoverInv
  <2>2. Anchored(pass[s])'
    BY <1>5, <2>1 DEF Anchored
  <2>3. p.start \in Ids /\ p.latest \in Ids /\ 0 \in Ids
    BY <1>2, <2>1 DEF PassRow, Ids
  <2>4. \A n \in Messages :
          /\ ChangesOf(n, (p.start + 1)..p.latest)' = ChangesOf(n, (p.start + 1)..p.latest)
          /\ Deleted(n, (p.start + 1)..p.latest)' <=> Deleted(n, (p.start + 1)..p.latest)
          /\ ChangesOf(n, 1..p.latest)' = ChangesOf(n, 1..p.latest)
    <3>1. 0 + 1 = 1
      OBVIOUS
    <3> QED
      BY <1>5, <1>6, <2>3, <3>1
  <2>5. \A n \in Messages : \A i \in ChangesOf(n, 1..p.latest) : history'[i] = history[i]
    BY <1>2, <1>3, <2>3 DEF ChangesOf, Ids
  <2>6. Collecting(pass[s])'
    BY <1>5, <1>7, <2>1, <2>4, <2>5 DEF Collecting
  <2> QED
    BY <2>2, <2>6
<1> QED
  BY <1>8, <1>9, <1>10 DEF CoverInv

------------------------------------------------------------------------------
(* The steps of a pass.                                                       *)

\* What is listed is what the range holds; no reading is held yet.
LEMMA ListHistoryCover ==
  ASSUME NEW S \in SUBSET Messages,
         TypeInv, CoverInv(S), NEW s \in Syncers, NEW upTo \in pass[s].start..CurrentId,
         ListHistory(s, upTo)
  PROVE  CoverInv(S)'
<1> DEFINE served == (pass[s].start + 1)..upTo
           gone == {m \in Messages : Deleted(m, served)}
           q == [pass[s] EXCEPT !.pc = "resolving",
                                !.todo = {m \in Messages : ChangesOf(m, served) # {}} \ gone,
                                !.deleted = gone,
                                !.latest = upTo]
<1>1. pass[s] \in PassRow /\ PassTyped /\ Anchored(pass[s])
  BY TypeParts DEF PassTyped, CoverInv
<1>2. SetPass(s, q) /\ UNCHANGED <<history, rows, state>>
  BY DEF ListHistory, gmail
<1>3. q.fresh = Nothing /\ q.start = pass[s].start /\ q.latest = upTo /\ q.pc = "resolving"
      /\ q.initial = pass[s].initial /\ q.seed = pass[s].seed /\ q.deleted = gone
      /\ q.todo = {m \in Messages : ChangesOf(m, served) # {}} \ gone
  BY <1>1 DEF Anchored, ListHistory, ReadyToList, PassRow
<1>4. Anchored(q)
  BY <1>1, <1>3 DEF Anchored, ListHistory, ReadyToList
<1>5. Collecting(q)
  <2>1. q.start <= q.latest
    BY <1>1, <1>3 DEF PassRow, Ids
  <2> HIDE DEF q
  <2> QED
    BY <1>3, <2>1 DEF Collecting, Nothing
<1> HIDE DEF q
<1> QED
  BY <1>1, <1>2, <1>4, <1>5, SetPassCover

\* A message that is gone needs no thread.
LEMMA ResolveCover ==
  ASSUME NEW S \in SUBSET Messages,
         TypeInv, CoverInv(S), NEW s \in Syncers, NEW m \in Messages, ResolveMessage(s, m)
  PROVE  CoverInv(S)'
<1> DEFINE p == pass[s]
           q == [p EXCEPT !.todo = @ \ {m},
                          !.threads = IF Version(m) # 0 THEN @ \cup {ThreadOf[m]} ELSE @]
<1>1. p \in PassRow /\ PassTyped /\ Anchored(p) /\ Collecting(p) /\ p.pc = "resolving"
  BY TypeParts DEF PassTyped, CoverInv, ResolveMessage
<1>2. SetPass(s, q) /\ UNCHANGED <<history, rows, state>>
  BY DEF ResolveMessage, gmail
<1>3. q.pc = "resolving" /\ q.start = p.start /\ q.latest = p.latest /\ q.deleted = p.deleted
      /\ q.fresh = p.fresh /\ q.seed = p.seed /\ q.initial = p.initial
      /\ q.todo = p.todo \ {m}
      /\ q.threads = IF Version(m) # 0 THEN p.threads \cup {ThreadOf[m]} ELSE p.threads
  BY <1>1 DEF PassRow
<1> HIDE DEF p, q
<1>4. Anchored(q)
  BY <1>1, <1>3 DEF Anchored
<1>5. ASSUME Version(m) = 0 PROVE \/ Deleted(m, 1..CurrentId)
                                  \/ \A K \in SUBSET (1..CurrentId) : ChangesOf(m, K) = {}
  <2>1. Deleted(m, 1..CurrentId) \/ ChangesOf(m, 1..CurrentId) = {}
    BY <1>5, VersionCovers DEF TypeInv
  <2>2. ASSUME ChangesOf(m, 1..CurrentId) = {}, NEW K \in SUBSET (1..CurrentId)
        PROVE  ChangesOf(m, K) = {}
    BY <2>2 DEF ChangesOf
  <2> QED
    BY <2>1, <2>2
<1>6. (p.start + 1)..p.latest \in SUBSET (1..CurrentId)
  <2>1. CurrentId \in Nat /\ p.start \in 0..CurrentId /\ p.latest \in 0..CurrentId
    BY <1>1 DEF PassRow, Ids, TypeInv, CurrentId
  <2> QED
    BY <2>1
<1>7. ASSUME NEW n \in Messages \ q.deleted, NEW i \in ChangesOf(n, (q.start + 1)..q.latest)
      PROVE  \/ n \in q.todo \/ ThreadOf[n] \in q.threads \/ q.fresh[n] >= i
             \/ Deleted(n, 1..CurrentId)
  <2>1. \/ n \in p.todo \/ ThreadOf[n] \in p.threads \/ p.fresh[n] >= i
        \/ Deleted(n, 1..CurrentId)
    BY <1>1, <1>3 DEF Collecting
  <2>2. CASE n = m /\ Version(m) = 0
    BY <1>3, <1>5, <1>6, <2>2
  <2>3. CASE n = m /\ Version(m) # 0
    BY <1>3, <2>3
  <2>4. CASE n # m
    BY <1>3, <2>1, <2>4
  <2> QED
    BY <2>2, <2>3, <2>4
<1>8. Collecting(q)
  BY <1>1, <1>3, <1>7 DEF Collecting
<1> QED
  BY <1>1, <1>2, <1>4, <1>8, SetPassCover

\* A thread is read as it is, at or after the end of the range.
LEMMA HydrateCover ==
  ASSUME NEW S \in SUBSET Messages,
         TypeInv, CoverInv(S), NEW s \in Syncers, NEW t \in Threads, HydrateChangedThread(s, t)
  PROVE  CoverInv(S)'
<1> DEFINE p == pass[s]
           fresh == [m \in Messages |-> IF ThreadOf[m] = t THEN ContentOf(t)[m] ELSE p.fresh[m]]
           q == [p EXCEPT !.threads = @ \ {t}, !.fresh = fresh]
<1>1. p \in PassRow /\ PassTyped /\ Anchored(p) /\ Collecting(p) /\ p.pc = "resolving"
      /\ p.todo = {}
  BY TypeParts DEF PassTyped, CoverInv, HydrateChangedThread
<1>2. SetPass(s, q) /\ UNCHANGED <<history, rows, state>>
  BY DEF HydrateChangedThread, gmail
<1>3. q.pc = "resolving" /\ q.start = p.start /\ q.latest = p.latest /\ q.deleted = p.deleted
      /\ q.fresh = fresh /\ q.seed = p.seed /\ q.initial = p.initial /\ q.todo = {}
      /\ q.threads = p.threads \ {t}
  BY <1>1 DEF PassRow
<1>4. \A m \in Messages : fresh[m] = IF ThreadOf[m] = t THEN Version(m) ELSE p.fresh[m]
  BY DEF ContentOf
<1> HIDE DEF p, q, fresh
<1>5. Anchored(q)
  BY <1>1, <1>3 DEF Anchored
<1>6. /\ (p.start + 1)..p.latest \subseteq 1..CurrentId
      /\ 1..p.latest \subseteq 1..CurrentId
  <2>1. CurrentId \in Nat /\ p.start \in 0..CurrentId /\ p.latest \in 0..CurrentId
    BY <1>1 DEF PassRow, Ids, TypeInv, CurrentId
  <2> QED
    BY <2>1
<1>7. ASSUME NEW n \in Messages \ q.deleted, NEW i \in ChangesOf(n, (q.start + 1)..q.latest)
      PROVE  \/ n \in q.todo \/ ThreadOf[n] \in q.threads \/ q.fresh[n] >= i
             \/ Deleted(n, 1..CurrentId)
  <2>1. \/ ThreadOf[n] \in p.threads \/ p.fresh[n] >= i \/ Deleted(n, 1..CurrentId)
    BY <1>1, <1>3 DEF Collecting
  <2>2. i \in ChangesOf(n, 1..CurrentId)
    BY <1>3, <1>6 DEF ChangesOf
  <2>3. CASE ThreadOf[n] = t
    BY <1>3, <1>4, <2>2, <2>3, VersionCovers DEF TypeInv
  <2>4. CASE ThreadOf[n] # t
    BY <1>3, <1>4, <2>1, <2>4
  <2> QED
    BY <2>3, <2>4
<1>8. ASSUME NEW n \in Messages, q.fresh[n] # 0, NEW i \in ChangesOf(n, 1..q.latest)
      PROVE  q.fresh[n] >= i /\ history[i].kind # "delete"
  <2>1. i \in ChangesOf(n, 1..CurrentId)
    BY <1>3, <1>6 DEF ChangesOf
  <2>2. CASE ThreadOf[n] = t
    BY <1>3, <1>4, <1>8, <2>1, <2>2, VersionCovers DEF TypeInv, Deleted
  <2>3. CASE ThreadOf[n] # t
    BY <1>1, <1>3, <1>4, <1>8, <2>3 DEF Collecting
  <2> QED
    BY <2>2, <2>3
<1>9. Collecting(q)
  BY <1>1, <1>3, <1>7, <1>8 DEF Collecting
<1> QED
  BY <1>1, <1>2, <1>5, <1>9, SetPassCover

\* The steps up to the listing, which read the state or Gmail.
LEMMA PrepareCover ==
  ASSUME NEW S \in SUBSET Messages, TypeInv, CoverInv(S), NEW s \in Syncers,
         \/ CheckAccount(s) \/ ReadState(s) \/ CaptureBaseline(s)
         \/ \E window \in SUBSET LiveThreads : ListThreads(s, window)
         \/ \E t \in Threads : HydrateWindowThread(s, t)
  PROVE  CoverInv(S)'
<1> DEFINE p == pass[s]
<1>1. p \in PassRow /\ PassTyped /\ Anchored(p) /\ Collecting(p)
  BY TypeParts DEF PassTyped, CoverInv
<1>2. UNCHANGED <<history, rows, state>>
  BY DEF CheckAccount, ReadState, CaptureBaseline, ListThreads, HydrateWindowThread, gmail
<1>3. EndPass(s) \/ \E q : SetPass(s, q) /\ Anchored(q) /\ Collecting(q)
  <2>1. CASE CheckAccount(s)
    <3> DEFINE q == [p EXCEPT !.pc = "ready"]
    <3>1. q.pc = "ready" /\ q.fresh = p.fresh /\ q.seed = p.seed /\ q.initial = p.initial
      BY <1>1 DEF PassRow
    <3>2. p.pc = "locked" /\ (EndPass(s) \/ SetPass(s, q))
      BY <2>1 DEF CheckAccount
    <3> HIDE DEF p, q
    <3>3. Anchored(q) /\ Collecting(q)
      BY <1>1, <3>1, <3>2 DEF Anchored, Collecting
    <3> QED
      BY <3>2, <3>3
  <2>2. CASE ReadState(s)
    <3> DEFINE next == [p EXCEPT !.pc = "history", !.start = state.applied,
                                 !.pending = state.pending]
               begin == [p EXCEPT !.pc = "begin", !.initial = TRUE, !.start = state.baseline]
               capture == [p EXCEPT !.pc = "capture", !.initial = TRUE, !.start = 0]
    <3>1. /\ next.pc = "history" /\ next.start = state.applied
          /\ next.fresh = p.fresh /\ next.seed = p.seed /\ next.initial = p.initial
          /\ begin.pc = "begin" /\ begin.fresh = p.fresh /\ begin.initial
          /\ capture.pc = "capture" /\ capture.fresh = p.fresh /\ capture.initial
      BY <1>1 DEF PassRow
    <3>2. p.pc = "ready" /\ (SetPass(s, next) \/ SetPass(s, begin) \/ SetPass(s, capture))
      BY <2>2 DEF ReadState
    <3> HIDE DEF p, next, begin, capture
    <3>3. Anchored(next) /\ Anchored(begin) /\ Anchored(capture)
      BY <1>1, <3>1, <3>2 DEF Anchored
    <3>4. Collecting(next) /\ Collecting(begin) /\ Collecting(capture)
      BY <3>1 DEF Collecting
    <3> QED
      BY <3>2, <3>3, <3>4
  <2>3. CASE CaptureBaseline(s)
    <3> DEFINE q == [p EXCEPT !.pc = "begin", !.start = CurrentId]
    <3>1. q.pc = "begin" /\ q.fresh = p.fresh /\ q.initial = p.initial
      BY <1>1 DEF PassRow
    <3>2. p.pc = "capture" /\ SetPass(s, q)
      BY <2>3 DEF CaptureBaseline
    <3> HIDE DEF p, q
    <3>3. Anchored(q) /\ Collecting(q)
      BY <1>1, <3>1, <3>2 DEF Anchored, Collecting
    <3> QED
      BY <3>2, <3>3
  <2>4. ASSUME NEW window \in SUBSET LiveThreads, ListThreads(s, window)
        PROVE  \E q : SetPass(s, q) /\ Anchored(q) /\ Collecting(q)
    <3> DEFINE q == [p EXCEPT !.pc = "seeding", !.threads = window]
    <3>1. q.pc = "seeding" /\ q.fresh = p.fresh /\ q.initial = p.initial /\ q.start = p.start
      BY <1>1 DEF PassRow
    <3>2. p.pc = "window" /\ SetPass(s, q)
      BY <2>4 DEF ListThreads
    <3> HIDE DEF p, q
    <3>3. Anchored(q) /\ Collecting(q)
      BY <1>1, <3>1, <3>2 DEF Anchored, Collecting
    <3> QED
      BY <3>2, <3>3
  <2>5. ASSUME NEW t \in Threads, HydrateWindowThread(s, t)
        PROVE  \E q : SetPass(s, q) /\ Anchored(q) /\ Collecting(q)
    <3> DEFINE seed == [m \in Messages |-> IF ThreadOf[m] = t THEN ContentOf(t)[m] ELSE p.seed[m]]
               q == [p EXCEPT !.threads = @ \ {t}, !.seed = seed]
    <3>1. p.pc = "seeding" /\ SetPass(s, q)
      BY <2>5 DEF HydrateWindowThread
    <3>2. q.pc = p.pc /\ q.fresh = p.fresh /\ q.initial = p.initial /\ q.start = p.start
      BY <1>1 DEF PassRow
    <3> HIDE DEF p, q, seed
    <3>3. Anchored(q) /\ Collecting(q)
      BY <1>1, <3>1, <3>2 DEF Anchored, Collecting
    <3> QED
      BY <3>1, <3>3
  <2> QED
    BY <2>1, <2>2, <2>3, <2>4, <2>5
<1>4. CASE EndPass(s)
  BY <1>1, <1>2, <1>4, EndPassCover
<1>5. ASSUME NEW q, SetPass(s, q), Anchored(q), Collecting(q) PROVE CoverInv(S)'
  BY <1>1, <1>2, <1>5, SetPassCover
<1> QED
  BY <1>3, <1>4, <1>5

\* A job takes the lock.
LEMMA StartCover ==
  ASSUME NEW S \in SUBSET Messages,
         TypeInv, CoverInv(S), NEW s \in Syncers, NEW kind \in Kinds, StartSync(s, kind)
  PROVE  CoverInv(S)'
<1> DEFINE p == [Idle EXCEPT !.pc = "locked", !.kind = kind]
<1>1. SetPass(s, p) /\ UNCHANGED <<history, rows, state>>
  BY DEF StartSync, gmail
<1>2. Anchored(p) /\ Collecting(p)
  BY IdleFits
<1> HIDE DEF p
<1> QED
  BY <1>1, <1>2, TypeParts, SetPassCover

\* Nothing is covered while the initial pass runs, and nobody else runs.
LEMMA BeginCover ==
  ASSUME NEW S \in SUBSET Messages,
         TypeInv, CoverInv(S), NEW s \in Syncers, BeginInitialSync(s)
  PROVE  CoverInv(S)'
<1> DEFINE p == pass[s]
           q == [p EXCEPT !.pc = "window"]
<1>1. p \in PassRow /\ PassTyped /\ Anchored(p) /\ p.pc = "begin"
  BY TypeParts DEF PassTyped, CoverInv, BeginInitialSync
<1>2. SetPass(s, q) /\ UNCHANGED <<history, rows>> /\ state'.applied = 0
      /\ state'.baseline = p.start
  BY TypeParts DEF BeginInitialSync, gmail, DataTyped
<1>3. q.pc = "window" /\ q.start = p.start /\ q.fresh = p.fresh /\ q.initial = p.initial
  BY <1>1 DEF PassRow
<1> HIDE DEF p, q
<1>4. ASSUME NEW m \in S PROVE CoveredThroughout(m)'
  <2>1. p.start \in Nat
    BY <1>1 DEF PassRow, Ids
  <2>2. (p.start + 1)..0 = {}
    BY <2>1
  <2> QED
    BY <1>2, <2>2 DEF CoveredThroughout, ChangesOf
<1>5. ASSUME NEW t \in Syncers PROVE Anchored(pass[t])' /\ Collecting(pass[t])'
  <2>1. CASE t = s
    <3>1. pass'[t] = q
      BY <1>1, <1>2, <2>1 DEF SetPass, PassTyped
    <3> QED
      BY <1>1, <1>2, <1>3, <3>1 DEF Anchored, Collecting
  <2>2. CASE t # s
    <3>1. pass'[t] = pass[t] /\ pass[t].pc = "idle" /\ Anchored(pass[t])
      BY <1>1, <1>2, <2>2, OthersIdle DEF SetPass, PassTyped, CoverInv, p
    <3> QED
      BY <3>1 DEF Anchored, Collecting
  <2> QED
    BY <2>1, <2>2
<1> QED
  BY <1>2, <1>4, <1>5, SameChanges DEF CoverInv

------------------------------------------------------------------------------
(* The commit.                                                               *)

\* A change in the listed range reached the table, or its message is gone.
LEMMA CommitRange ==
  ASSUME TypeInv, NEW p \in PassRow, p.pc = "resolving", Collecting(p), p.todo = {},
         p.threads = {}, NEW m \in Messages, NEW i \in ChangesOf(m, (p.start + 1)..p.latest)
  PROVE  IF history[i].kind = "delete" THEN Persisted(p)[m] = 0
         ELSE Persisted(p)[m] >= i \/ Deleted(m, 1..CurrentId)
<1>1. CurrentId \in Nat /\ p.start \in 0..CurrentId /\ p.latest \in 0..CurrentId
  BY DEF PassRow, Ids, TypeInv, CurrentId
<1>2. i \in 1..CurrentId /\ i \in 1..p.latest /\ history[i].message = m
      /\ i \in (p.start + 1)..p.latest
  BY <1>1 DEF ChangesOf
<1>3. Persisted(p)[m] = IF p.fresh[m] # 0 THEN p.fresh[m]
                        ELSE IF m \in p.deleted THEN 0 ELSE Upsert(p.seed, rows)[m]
  BY DEF Persisted, Upsert
<1>4. CASE history[i].kind = "delete"
  <2>1. m \in p.deleted
    BY <1>2, <1>4 DEF Collecting, Deleted, ChangesOf
  <2>2. p.fresh[m] = 0
    BY <1>2, <1>4 DEF Collecting, ChangesOf
  <2> QED
    BY <1>3, <1>4, <2>1, <2>2
<1>5. CASE history[i].kind # "delete" /\ m \in p.deleted
  <2>1. Deleted(m, (p.start + 1)..p.latest)
    BY <1>5 DEF Collecting
  <2>2. (p.start + 1)..p.latest \subseteq 1..CurrentId
    BY <1>1
  <2> QED
    BY <1>5, <2>1, <2>2 DEF Deleted, ChangesOf
<1>6. CASE history[i].kind # "delete" /\ m \notin p.deleted
  <2>1. p.fresh[m] >= i \/ Deleted(m, 1..CurrentId)
    BY <1>6 DEF Collecting
  <2>2. p.fresh[m] >= i => p.fresh[m] # 0
    BY <1>2
  <2> QED
    BY <1>3, <1>6, <2>1, <2>2
<1> QED
  BY <1>4, <1>5, <1>6

\* The messages whose rows a commit replaces or removes.
Writes(p, m) == p.fresh[m] # 0 \/ p.seed[m] # 0 \/ m \in p.deleted

\* After an incremental pass a change that was covered, or whose message the pass
\* writes, is covered.
LEMMA CommitKeepsCovered ==
  ASSUME TypeInv, NEW p \in PassRow, p.pc = "resolving", Collecting(p), p.seed = Nothing,
         NEW m \in Messages, CoveredThroughout(m) \/ Writes(p, m), state.applied <= p.latest,
         NEW i \in ChangesOf(m, (state.baseline + 1)..state.applied)
  PROVE  IF history[i].kind = "delete" THEN Persisted(p)[m] = 0
         ELSE Persisted(p)[m] >= i \/ Deleted(m, 1..CurrentId)
<1>1. CurrentId \in Nat /\ p.start \in 0..CurrentId /\ p.latest \in 0..CurrentId
      /\ state.baseline \in 0..CurrentId /\ state.applied \in 0..CurrentId
  BY TypeParts DEF PassRow, Ids, TypeInv, CurrentId, DataTyped
<1>2. i \in ChangesOf(m, 1..p.latest) /\ i \in Nat
  BY <1>1 DEF ChangesOf
<1>3. Persisted(p)[m] = IF p.fresh[m] # 0 THEN p.fresh[m]
                        ELSE IF m \in p.deleted THEN 0 ELSE rows[m]
  BY DEF Persisted, Upsert, Nothing
<1>4. \/ Writes(p, m)
      \/ IF history[i].kind = "delete" THEN rows[m] = 0
         ELSE rows[m] >= i \/ Deleted(m, 1..CurrentId)
  BY DEF CoveredThroughout
<1>5. CASE p.fresh[m] # 0
  BY <1>2, <1>3, <1>5 DEF Collecting
<1>6. CASE p.fresh[m] = 0 /\ m \in p.deleted
  <2>1. Deleted(m, (p.start + 1)..p.latest)
    BY <1>6 DEF Collecting
  <2>2. (p.start + 1)..p.latest \subseteq 1..CurrentId
    BY <1>1
  <2>3. Deleted(m, 1..CurrentId)
    BY <2>1, <2>2 DEF Deleted, ChangesOf
  <2> QED
    BY <1>3, <1>6, <2>3
<1>7. CASE p.fresh[m] = 0 /\ m \notin p.deleted
  BY <1>3, <1>4, <1>7 DEF Writes, Nothing
<1> QED
  BY <1>5, <1>6, <1>7

\* The rows and the watermark move together; what the commit writes is covered
\* from then on.
LEMMA CommitCover ==
  ASSUME NEW S \in SUBSET Messages, TypeInv, CoverInv(S), NEW s \in Syncers, Commit(s),
         NEW T \in SUBSET Messages, \A m \in T \ S : Writes(pass[s], m)
  PROVE  CoverInv(T)'
<1> DEFINE p == pass[s]
<1>1. /\ p \in PassRow /\ PassTyped /\ Anchored(p) /\ Collecting(p)
      /\ p.pc = "resolving" /\ p.todo = {} /\ p.threads = {}
  BY TypeParts DEF PassTyped, CoverInv, Commit, Collected
<1>2. CurrentId \in Nat /\ p.start \in 0..CurrentId /\ p.latest \in 0..CurrentId
      /\ state.baseline \in 0..CurrentId /\ state.applied \in 0..CurrentId
      /\ p.start <= p.latest
  BY <1>1, TypeParts DEF PassRow, Ids, TypeInv, CurrentId, DataTyped, Collecting
<1>3. state.applied <= p.latest
  BY <1>1, <1>2 DEF Anchored
<1>4. /\ rows' = Persisted(p) /\ history' = history
      /\ state'.applied = p.latest /\ state'.baseline = state.baseline
  BY <1>2, <1>3 DEF Commit, ApplyProcessedHistory, Larger, gmail
<1>5. \/ pass' = [pass EXCEPT ![s] = Idle]
      \/ \E kind : pass' = [pass EXCEPT ![s] = [Idle EXCEPT !.pc = "ready", !.kind = kind]]
  BY DEF Commit, EndPass, SetPass
<1>6a. \A m \in T : CoveredThroughout(m) \/ Writes(p, m)
  BY DEF CoverInv
<1> HIDE DEF p
<1>6. ASSUME NEW m \in T PROVE CoveredThroughout(m)'
  <2> SUFFICES ASSUME NEW i \in ChangesOf(m, (state.baseline + 1)..p.latest)
               PROVE  IF history[i].kind = "delete" THEN Persisted(p)[m] = 0
                      ELSE Persisted(p)[m] >= i \/ Deleted(m, 1..CurrentId)
    BY <1>4, SameChanges DEF CoveredThroughout
  <2>1. CASE i \in ChangesOf(m, (p.start + 1)..p.latest)
    BY <1>1, <2>1, CommitRange
  <2>2. CASE i \notin ChangesOf(m, (p.start + 1)..p.latest)
    <3>1. ~p.initial /\ state.applied = p.start
      BY <1>1, <2>2 DEF Anchored
    <3>2. i \in ChangesOf(m, (state.baseline + 1)..state.applied)
      BY <1>2, <2>2, <3>1 DEF ChangesOf
    <3>3. p.seed = Nothing
      BY <1>1, <3>1 DEF Anchored
    <3> QED
      BY <1>1, <1>3, <1>6a, <3>2, <3>3, CommitKeepsCovered
  <2> QED
    BY <2>1, <2>2
<1>7. ASSUME NEW t \in Syncers PROVE Anchored(pass[t])' /\ Collecting(pass[t])'
  <2>1. pass'[t].pc \in {"idle", "ready"} /\ pass'[t].fresh = Nothing
        /\ (~pass'[t].initial => pass'[t].seed = Nothing)
        /\ (pass'[t].pc = "ready" => ~pass'[t].initial)
    <3>1. CASE t = s
      <4> DEFINE ready(kind) == [Idle EXCEPT !.pc = "ready", !.kind = kind]
      <4>1. Idle.pc = "idle" /\ Idle.fresh = Nothing /\ Idle.seed = Nothing
        BY DEF Idle
      <4>2. \A kind : /\ ready(kind).pc = "ready" /\ ready(kind).fresh = Nothing
                      /\ ready(kind).seed = Nothing /\ ready(kind).initial = FALSE
        BY DEF Idle
      <4>3. s \in DOMAIN pass
        BY <1>1 DEF PassTyped
      <4> HIDE DEF ready
      <4>4. pass'[t] = Idle \/ \E kind : pass'[t] = ready(kind)
        BY <1>5, <3>1, <4>3 DEF ready
      <4> QED
        BY <4>1, <4>2, <4>4
    <3>2. CASE t # s
      <4>1. pass'[t] = pass[t] /\ pass[t].pc = "idle" /\ Anchored(pass[t])
        BY <1>1, <1>5, <3>2, OthersIdle DEF PassTyped, CoverInv, p
      <4> QED
        BY <4>1 DEF Anchored
    <3> QED
      BY <3>1, <3>2
  <2> QED
    BY <2>1 DEF Anchored, Collecting, Nothing
<1> QED
  BY <1>4, <1>6, <1>7, SameChanges DEF CoverInv

------------------------------------------------------------------------------
(* Every step.                                                               *)

\* The invariant is inductive, given the type invariant.
LEMMA CoverNext ==
  ASSUME NEW S \in SUBSET Messages, TypeInv, CoverInv(S), [Next]_vars
  PROVE  CoverInv(S)'
<1>0. PassTyped /\ state \in [applied : Ids, pending : Ids, baseline : Ids]
  BY TypeParts DEF DataTyped
<1>1. CASE UNCHANGED vars
  BY <1>1, KeepPassCover DEF vars, gmail, workers
<1>2. CASE Environment
  <2>1. ASSUME NEW m \in Messages, GmailChanges(m) \/ GmailDeletes(m) PROVE CoverInv(S)'
    BY <2>1, GmailCover
  <2>2. CASE (\E id \in 1..CurrentId : GmailForgets(id)) \/ Disconnect \/ Reconnect
    BY <2>2, KeepPassCover DEF GmailForgets, Disconnect, Reconnect, gmail, workers
  <2> QED
    BY <1>2, <2>1, <2>2 DEF Environment
<1>3. CASE Requests \/ \E id \in 1..CurrentId : NotificationLost(id)
  <2>1. UNCHANGED <<history, rows, pass>>
    BY <1>3 DEF Requests, Notification, NotificationLost, ScheduleReconciliation, gmail, workers
  <2>2. state'.applied = state.applied /\ state'.baseline = state.baseline
    BY <1>0, <1>3
       DEF Requests, Notification, NotificationLost, ScheduleReconciliation, RecordPendingHistory
  <2> QED
    BY <2>1, <2>2, KeepPassCover
<1>4. CASE \E kind \in Kinds : MailboxLeaseUnavailable(kind) \/ \E s \in Syncers : StartSync(s, kind)
  <2>1. ASSUME NEW kind \in Kinds, MailboxLeaseUnavailable(kind) PROVE CoverInv(S)'
    BY <2>1, KeepPassCover DEF MailboxLeaseUnavailable, gmail
  <2>2. ASSUME NEW kind \in Kinds, NEW s \in Syncers, StartSync(s, kind) PROVE CoverInv(S)'
    BY <2>2, StartCover
  <2> QED
    BY <1>4, <2>1, <2>2
<1>5. ASSUME NEW s \in Syncers, PassStep(s) PROVE CoverInv(S)'
  <2>1. CASE BeginInitialSync(s)
    BY <2>1, BeginCover
  <2>2. ASSUME NEW upTo \in pass[s].start..CurrentId, ListHistory(s, upTo) PROVE CoverInv(S)'
    BY <2>2, ListHistoryCover
  <2>3. ASSUME NEW m \in Messages, ResolveMessage(s, m) PROVE CoverInv(S)'
    BY <2>3, ResolveCover
  <2>4. ASSUME NEW t \in Threads, HydrateChangedThread(s, t) PROVE CoverInv(S)'
    BY <2>4, HydrateCover
  <2>5. CASE HistoryGap(s) \/ AwaitHistory(s)
    BY <1>0, <2>5, EndPassCover DEF HistoryGap, AwaitHistory, gmail
  <2>6. CASE \/ CheckAccount(s) \/ ReadState(s) \/ CaptureBaseline(s)
             \/ \E window \in SUBSET LiveThreads : ListThreads(s, window)
             \/ \E t \in Threads : HydrateWindowThread(s, t)
    BY <2>6, PrepareCover
  <2> QED
    BY <1>5, <2>1, <2>2, <2>3, <2>4, <2>5, <2>6 DEF PassStep
<1>6. ASSUME NEW s \in Syncers, Fail(s) \/ Crash(s) PROVE CoverInv(S)'
  BY <1>0, <1>6, EndPassCover DEF Fail, Crash, gmail
<1>7. ASSUME NEW s \in Syncers, Stall(s) PROVE CoverInv(S)'
  BY <1>7, KeepPassCover DEF Stall, gmail
<1>8. ASSUME NEW s \in Syncers, Commit(s) PROVE CoverInv(S)'
  <2>1. \A m \in S \ S : Writes(pass[s], m)
    OBVIOUS
  <2> QED
    BY <1>8, <2>1, CommitCover
<1> QED
  BY <1>1, <1>2, <1>3, <1>4, <1>5, <1>6, <1>7, <1>8 DEF Next, Calm, Background, Outage

\* The invariant of passes that write alone.
AllCovered == CoverInv(Messages)

\* A change the applied watermark covers is in the rows, in every behaviour of
\* any number of slots: passes that stall, fail or overlap cannot bring the
\* watermark ahead of the projection.
THEOREM WatermarkCovered == Spec => []AppliedIsCovered
<1>1. TypeInv /\ AllCovered => AppliedIsCovered
  BY CoveredNewest DEF AllCovered, CoverInv, AppliedIsCovered
<1>2. Init => AllCovered
  BY CoverInit DEF AllCovered
<1>3. TypeInv /\ AllCovered /\ [Next]_vars => AllCovered'
  BY CoverNext DEF AllCovered
<1> QED
  BY <1>1, <1>2, <1>3, TypeInit, TypeNext, PTL DEF Spec
------------------------------------------------------------------------------
(* Listings, which write outside the lock.                                    *)

Reading == [thread : Threads \cup {NoThread}, content : Table, overtaken : BOOLEAN]

\* What a listing that no commit has overtaken holds is at least as new as what
\* the watermark covers.
StillNew(r) ==
  ~listing[r].overtaken =>
    \A m \in Messages : listing[r].content[m] # 0 =>
      \A i \in ChangesOf(m, 1..state.applied) :
        listing[r].content[m] >= i /\ history[i].kind # "delete"

ListingTyped ==
  /\ listing \in [Readers -> Reading]
  /\ overwritten \subseteq Messages

ListingInv ==
  /\ TypeInv
  /\ ListingTyped
  /\ \A r \in Readers : StillNew(r)
  /\ CoverInv(Messages \ overwritten)

\* An empty reading is well typed and never out of date.
LEMMA NoListingFits ==
  ASSUME history \in Seq(Change)
  PROVE  /\ NoListing \in Reading
         /\ \A m \in Messages : NoListing.content[m] = 0
         /\ NoListing.overtaken = FALSE
BY IdleIsRow DEF NoListing, Reading, Nothing

\* No listing has begun.
LEMMA ListingInvInit == ListingInit => ListingInv
<1> SUFFICES ASSUME ListingInit PROVE ListingInv
  OBVIOUS
<1>1. TypeInv /\ overwritten = {} /\ listing = [r \in Readers |-> NoListing]
  BY TypeInit DEF ListingInit
<1>2. CoverInv(Messages \ overwritten)
  BY <1>1, CoverInit DEF ListingInit, CoverInv
<1>3. ListingTyped /\ \A r \in Readers : StillNew(r)
  BY <1>1, NoListingFits DEF TypeInv, ListingTyped, StillNew
<1> QED
  BY <1>1, <1>2, <1>3 DEF ListingInv

\* Gmail's history only grows.
LEMMA HistoryGrows ==
  ASSUME TypeInv, [Next]_vars
  PROVE  /\ CurrentId \in Nat /\ CurrentId' \in Nat /\ CurrentId <= CurrentId'
         /\ \A i \in 1..CurrentId : history'[i] = history[i]
<1>1. history \in Seq(Change) /\ CurrentId \in Nat
  BY DEF TypeInv, CurrentId
<1>2. CASE history' = history
  BY <1>1, <1>2 DEF CurrentId
<1>3. CASE \E c \in Change : history' = Append(history, c)
  BY <1>1, <1>3 DEF CurrentId
<1>4. (\E m \in Messages : GmailChanges(m) \/ GmailDeletes(m))
        => \E c \in Change : history' = Append(history, c)
  BY DEF GmailChanges, GmailDeletes, Change
<1>5. history' = history \/ \E m \in Messages : GmailChanges(m) \/ GmailDeletes(m)
  BY DEF Next, Calm, Background, Outage, Environment, Requests, PassStep, GmailForgets,
         Disconnect, Reconnect, Notification, NotificationLost, ScheduleReconciliation,
         MailboxLeaseUnavailable, StartSync, CheckAccount, ReadState, CaptureBaseline,
         BeginInitialSync, ListThreads, HydrateWindowThread, HydrateChangedThread, ListHistory,
         HistoryGap, ResolveMessage, AwaitHistory, Commit, Fail, Crash, Stall, vars, gmail
<1> QED
  BY <1>2, <1>3, <1>4, <1>5

\* Only a commit raises the applied watermark.
LEMMA AppliedRaisedByCommit ==
  ASSUME TypeInv, Background \/ Outage \/ UNCHANGED vars
  PROVE  state'.applied <= state.applied
<1>1. state \in [applied : Ids, pending : Ids, baseline : Ids] /\ CurrentId \in Nat
  BY TypeParts DEF DataTyped, CurrentId
<1>2. CASE state' = state
  BY <1>1, <1>2 DEF Ids
<1>3. CASE \E id \in 1..CurrentId : RecordPendingHistory(id)
  BY <1>1, <1>3 DEF RecordPendingHistory, Ids
<1>4. CASE \E s \in Syncers : BeginInitialSync(s)
  BY <1>1, <1>4 DEF BeginInitialSync, Ids
<1> QED
  BY <1>2, <1>3, <1>4
     DEF vars, Background, Outage, Environment, Requests, PassStep, GmailChanges, GmailDeletes,
         GmailForgets, Disconnect, Reconnect, Notification, NotificationLost,
         ScheduleReconciliation, MailboxLeaseUnavailable, StartSync, CheckAccount, ReadState,
         CaptureBaseline, ListThreads, HydrateWindowThread, HydrateChangedThread, ListHistory,
         HistoryGap, ResolveMessage, AwaitHistory, Fail, Crash, Stall

\* A reading stays as new as the watermark while no commit moves it.
LEMMA KeepReading ==
  ASSUME ListingInv, [Next]_vars, state'.applied <= state.applied, NEW r \in Readers,
         listing'[r] = listing[r]
  PROVE  StillNew(r)' /\ listing[r] \in Reading'
<1>1. TypeInv /\ listing[r] \in Reading /\ StillNew(r)
  BY DEF ListingInv, ListingTyped
<1>2. /\ CurrentId \in Nat /\ CurrentId' \in Nat /\ CurrentId <= CurrentId'
      /\ \A i \in 1..CurrentId : history'[i] = history[i]
  BY <1>1, HistoryGrows
<1>3. /\ state.applied \in 0..CurrentId
      /\ state'.applied \in 0..CurrentId'
  <2>1. TypeInv'
    BY <1>1, TypeNext
  <2> QED
    BY <1>1, <2>1 DEF TypeInv, SyncTypeOK, Row
<1>4. Table \subseteq Table'
  BY <1>2 DEF Table, Ids
<1>5. listing[r] \in Reading'
  BY <1>1, <1>4 DEF Reading
<1>6. ASSUME NEW m \in Messages PROVE ChangesOf(m, 1..state.applied)' \subseteq ChangesOf(m, 1..state.applied)
  BY <1>2, <1>3 DEF ChangesOf
<1>7. \A m \in Messages : \A i \in ChangesOf(m, 1..state.applied) : history'[i] = history[i]
  BY <1>2, <1>3 DEF ChangesOf
<1>8. StillNew(r)'
  BY <1>1, <1>6, <1>7 DEF StillNew
<1> QED
  BY <1>5, <1>8

\* Passes and requests other than commits leave the listings as they are.
LEMMA BackgroundListing ==
  ASSUME ListingInv, Background \/ Outage \/ UNCHANGED vars, UNCHANGED <<listing, overwritten>>
  PROVE  ListingInv'
<1>1. [Next]_vars /\ TypeInv /\ TypeInv'
  BY TypeNext DEF Next, Calm, ListingInv
<1>2. \A r \in Readers : StillNew(r)' /\ listing[r] \in Reading'
  BY <1>1, KeepReading, AppliedRaisedByCommit
<1>3. ListingTyped'
  BY <1>2 DEF ListingInv, ListingTyped
<1>4. PICK S : S = Messages \ overwritten
  OBVIOUS
<1>5. CoverInv(S)'
  BY <1>1, <1>4, CoverNext DEF ListingInv
<1> QED
  BY <1>1, <1>2, <1>3, <1>4, <1>5 DEF ListingInv

\* A commit covers what it writes, and what is under way is out of date.
LEMMA OvertakingListing ==
  ASSUME ListingInv, NEW s \in Syncers, OvertakingCommit(s)
  PROVE  ListingInv'
<1>1. Commit(s) /\ [Next]_vars /\ TypeInv /\ TypeInv' /\ history' = history
  BY TypeNext DEF OvertakingCommit, Next, Calm, ListingInv, Commit, gmail
<1>2. ASSUME NEW r \in Readers
      PROVE  /\ listing'[r] \in Reading'
             /\ listing'[r] = NoListing \/ listing'[r].overtaken
  <2>1. listing[r] \in Reading /\ Reading' = Reading /\ NoListing \in Reading
    BY <1>1, SameHistory, NoListingFits DEF ListingInv, ListingTyped, Reading, TypeInv
  <2>2. listing'[r] = IF listing[r] = NoListing THEN NoListing
                      ELSE [listing[r] EXCEPT !.overtaken = TRUE]
    BY DEF OvertakingCommit
  <2>3. [listing[r] EXCEPT !.overtaken = TRUE] \in Reading
        /\ [listing[r] EXCEPT !.overtaken = TRUE].overtaken
    BY <2>1 DEF Reading
  <2> QED
    BY <2>1, <2>2, <2>3
<1>3. \A r \in Readers : StillNew(r)'
  BY <1>1, <1>2, NoListingFits DEF StillNew, TypeInv
<1>4. ListingTyped'
  BY <1>2 DEF ListingTyped, OvertakingCommit, ListingInv
<1>5. PICK S, T : S = Messages \ overwritten /\ T = Messages \ overwritten'
  OBVIOUS
<1>6. \A m \in T \ S : Writes(pass[s], m)
  BY <1>5 DEF OvertakingCommit, Writes
<1>7. CoverInv(T)'
  BY <1>1, <1>5, <1>6, CommitCover DEF ListingInv
<1> QED
  BY <1>1, <1>3, <1>4, <1>5, <1>7 DEF ListingInv

\* A thread is read as it is, beyond the watermark.
LEMMA ReadListing ==
  ASSUME ListingInv, NEW r \in Readers, NEW t \in Threads, ReadThread(r, t)
  PROVE  ListingInv'
<1> DEFINE l == [thread |-> t, content |-> ContentOf(t), overtaken |-> FALSE]
<1>1. [Next]_vars /\ TypeInv /\ TypeInv' /\ UNCHANGED vars /\ UNCHANGED overwritten
  BY TypeNext DEF ListingInv, ReadThread
<1>2. state'.applied <= state.applied
  BY <1>1, AppliedRaisedByCommit
<1>3. UNCHANGED <<history, state>> /\ Reading' = Reading
  BY <1>1, SameHistory DEF vars, gmail, Reading
<1>4. l \in Reading /\ l.content = ContentOf(t)
  BY <1>1, ContentIsTable DEF Reading, TypeInv
<1>5. \A q \in Readers : listing'[q] = IF q = r THEN l ELSE listing[q]
  BY DEF ReadThread, ListingInv, ListingTyped
<1> HIDE DEF l
<1>6. ASSUME NEW m \in Messages, l.content[m] # 0, NEW i \in ChangesOf(m, 1..state.applied)
      PROVE  l.content[m] >= i /\ history[i].kind # "delete"
  <2>1. l.content[m] = Version(m)
    BY <1>4, <1>6 DEF ContentOf
  <2>2. state.applied \in 0..CurrentId /\ CurrentId \in Nat
    BY <1>1 DEF TypeInv, SyncTypeOK, Row, CurrentId
  <2>3. i \in ChangesOf(m, 1..CurrentId)
    BY <2>2 DEF ChangesOf
  <2> QED
    BY <1>1, <1>6, <2>1, <2>3, VersionCovers DEF TypeInv, Deleted
<1>7. ASSUME NEW q \in Readers PROVE StillNew(q)' /\ listing'[q] \in Reading
  <2>1. CASE q = r
    BY <1>3, <1>4, <1>5, <1>6, <2>1 DEF StillNew, ChangesOf
  <2>2. CASE q # r
    BY <1>1, <1>2, <1>3, <1>5, <2>2, KeepReading
  <2> QED
    BY <2>1, <2>2
<1>8. ListingTyped'
  BY <1>1, <1>3, <1>7 DEF ListingTyped, ListingInv, ReadThread
<1>9. PICK S : S = Messages \ overwritten
  OBVIOUS
<1>10. CoverInv(S)'
  BY <1>1, <1>9, CoverNext DEF ListingInv
<1> QED
  BY <1>1, <1>7, <1>8, <1>9, <1>10 DEF ListingInv

\* A listing that a commit has not overtaken writes what is still new; one that
\* has been overtaken is recorded.
LEMMA ProjectListing ==
  ASSUME ListingInv, NEW r \in Readers, ProjectThread(r)
  PROVE  ListingInv'
<1> DEFINE l == listing[r]
<1>1. TypeInv /\ DataTyped /\ PassTyped /\ l \in Reading /\ StillNew(r)
  BY TypeParts DEF ListingInv, ListingTyped
<1>2. rows' = Upsert(l.content, rows) /\ UNCHANGED <<history, horizon, account, state, workers>>
  BY DEF ProjectThread, gmail
<1>3. CurrentId' = CurrentId /\ Table' = Table /\ Reading' = Reading
  BY <1>2, SameHistory DEF Reading
<1>4. TypeInv'
  <2>1. rows' \in Table
    BY <1>1, <1>2, UpsertIsTable DEF DataTyped, Reading
  <2>2. DataTyped' /\ PassTyped'
    BY <1>1, <1>2, <2>1, SameHistory, KeepPassTyped DEF DataTyped, workers
  <2>3. TypeInv' <=> DataTyped' /\ PassTyped'
    BY TypeParts, PTL
  <2> QED
    BY <2>2, <2>3
<1>5. \A q \in Readers : listing'[q] = IF q = r THEN NoListing ELSE listing[q]
  BY DEF ProjectThread, ListingInv, ListingTyped
<1>6. ASSUME NEW q \in Readers PROVE StillNew(q)' /\ listing'[q] \in Reading
  <2>1. CASE q = r
    BY <1>1, <1>5, <2>1, NoListingFits DEF StillNew, TypeInv
  <2>2. CASE q # r
    <3>1. listing[q] \in Reading /\ StillNew(q)
      BY DEF ListingInv, ListingTyped
    <3> QED
      BY <1>2, <1>5, <2>2, <3>1 DEF StillNew, ChangesOf
  <2> QED
    BY <2>1, <2>2
<1>7. ListingTyped'
  BY <1>3, <1>6 DEF ListingTyped, ListingInv, ProjectThread
<1>8. ASSUME NEW m \in Messages \ overwritten' PROVE CoveredThroughout(m)'
  <2>1. m \notin overwritten /\ (l.overtaken => l.content[m] = 0)
    BY DEF ProjectThread
  <2>2. CoveredThroughout(m)
    BY <2>1 DEF ListingInv, CoverInv
  <2>3. rows'[m] = IF l.content[m] # 0 THEN l.content[m] ELSE rows[m]
    BY <1>2 DEF Upsert
  <2>4. state.baseline \in Nat /\ state.applied \in Nat
    BY <1>1 DEF DataTyped, Ids
  <2>5. ChangesOf(m, (state.baseline + 1)..state.applied) \subseteq ChangesOf(m, 1..state.applied)
    BY <2>4 DEF ChangesOf
  <2>6. ASSUME NEW i \in ChangesOf(m, (state.baseline + 1)..state.applied)
        PROVE  IF history[i].kind = "delete" THEN rows'[m] = 0
               ELSE rows'[m] >= i \/ Deleted(m, 1..CurrentId)
    <3>1. CASE l.content[m] # 0
      BY <1>1, <2>1, <2>3, <2>5, <3>1 DEF StillNew
    <3>2. CASE l.content[m] = 0
      BY <2>2, <2>3, <3>2 DEF CoveredThroughout
    <3> QED
      BY <3>1, <3>2
  <2> QED
    BY <1>2, <2>6, SameChanges DEF CoveredThroughout
<1>9. ASSUME NEW s \in Syncers PROVE Anchored(pass[s])' /\ Collecting(pass[s])'
  <2>1. Anchored(pass[s]) /\ Collecting(pass[s])
    BY DEF ListingInv, CoverInv
  <2> QED
    BY <1>2, <2>1 DEF Anchored, Collecting, ChangesOf, Deleted, CurrentId, workers
<1>10. DeletionIsLast'
  BY <1>2, SameChanges DEF ListingInv, CoverInv
<1> QED
  BY <1>4, <1>6, <1>7, <1>8, <1>9, <1>10 DEF ListingInv, CoverInv

\* Every step of the mailbox and its readers keeps the invariant.
LEMMA ListingInvNext == ListingInv /\ [ListingNext]_listingVars => ListingInv'
<1> SUFFICES ASSUME ListingInv, [ListingNext]_listingVars PROVE ListingInv'
  OBVIOUS
<1>1. CASE UNCHANGED listingVars \/ ((Background \/ Outage) /\ UNCHANGED <<listing, overwritten>>)
  BY <1>1, BackgroundListing DEF listingVars
<1>2. CASE \E s \in Syncers : OvertakingCommit(s)
  BY <1>2, OvertakingListing
<1>3. CASE \E r \in Readers : ProjectThread(r) \/ \E t \in Threads : ReadThread(r, t)
  BY <1>3, ProjectListing, ReadListing
<1> QED
  BY <1>1, <1>2, <1>3 DEF ListingNext

\* With any number of API requests that list and search beside the passes, what the
\* watermark covers is in the row of every message that no overtaken listing was
\* the last to write: an overtaken listing is the only way to an older row.
THEOREM OnlyOvertakenListingsRegress == ListingSpec => []CoveredUnlessOverwritten
<1>1. ListingInv => CoveredUnlessOverwritten
  BY CoveredNewest DEF ListingInv, CoverInv, CoveredUnlessOverwritten
<1> QED
  BY <1>1, ListingInvInit, ListingInvNext, PTL DEF ListingSpec
=============================================================================
