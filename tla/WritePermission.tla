--------------------------- MODULE WritePermission ---------------------------
(***************************************************************************)
(* One mailbox's permission to write: the upgrade attempts of its owner         *)
(* (routes/permissions.ts), read-only connections that replace the credential    *)
(* (routes/google-auth.ts), disconnection, and the two rows they all update.      *)
(* A transaction keeps the rows it has written locked until it ends; others see    *)
(* what is committed, and an UPDATE tests its condition after waiting.            *)
(***************************************************************************)
EXTENDS FiniteSets

CONSTANTS
  Attempts,      \* requests to /permissions/write/start, each with its identifier
  Connections,   \* callbacks of read-only connections that Gmail has confirmed
  NoAttempt,     \* SQL's NULL
  NoClient

Clients == Attempts \cup Connections

ASSUME PermissionAssumption ==
  /\ Attempts \cap Connections = {}
  /\ NoAttempt \notin Attempts
  /\ NoClient \notin Clients

VARIABLES
  permission,       \* mailbox_permission_state: write_capability, upgrade_attempt_id
  account,          \* mailbox_accounts: status, and what the stored token allows
  state,            \* write-oauth:<state> of each attempt in Redis
  stage,            \* how far a client has come
  closing,          \* the capability an attempt will close with
  permissionLock, accountLock,
  disconnecting     \* a DELETE of the mailbox has read it and not yet written

vars == <<permission, account, state, stage, closing, permissionLock, accountLock, disconnecting>>
rows == <<permission, account>>
locks == <<permissionLock, accountLock>>

Capabilities == {"read_only", "upgrade_pending", "write_granted", "upgrade_declined", "upgrade_failed"}
Closings == {"read_only", "upgrade_declined", "upgrade_failed"}
Stages == {"idle", "requesting", "offered", "consumed", "exchanging", "exchanged", "granting",
           "closing", "replacing", "done"}

Init ==
  /\ permission = [capability |-> "read_only", attempt |-> NoAttempt]
  /\ account = [status |-> "active", token |-> "readonly"]
  /\ state = [a \in Attempts |-> "none"]
  /\ stage = [c \in Clients |-> "idle"]
  /\ closing = [a \in Attempts |-> "read_only"]
  /\ permissionLock = NoClient /\ accountLock = NoClient
  /\ disconnecting = FALSE

Go(c, from, to) == stage[c] = from /\ stage' = [stage EXCEPT ![c] = to]

------------------------------------------------------------------------------
(* An upgrade attempt. *)

\* The mailbox is read as active and the state stored, before the row is written.
Start(a) ==
  /\ Go(a, "idle", "requesting")
  /\ account.status = "active"
  /\ state' = [state EXCEPT ![a] = "stored"]
  /\ UNCHANGED <<rows, closing, locks, disconnecting>>

\* Mutant: the CASE that keeps a grant is missing.
RequestedAnew(a) == [capability |-> "upgrade_pending", attempt |-> a]

\* INSERT ... ON CONFLICT: a grant stays what it is.
Requested(a) ==
  IF permission.capability = "write_granted"
  THEN permission
  ELSE [capability |-> "upgrade_pending", attempt |-> a]

\* The row is written and the owner is sent to Google.
RecordAttempt(a) ==
  /\ Go(a, "requesting", "offered")
  /\ permissionLock = NoClient
  /\ permission' = Requested(a)
  /\ UNCHANGED <<account, state, closing, locks, disconnecting>>

StateExpires(a) ==
  /\ state[a] = "stored"
  /\ state' = [state EXCEPT ![a] = "gone"]
  /\ UNCHANGED <<rows, stage, closing, locks, disconnecting>>

\* GETDEL: only the first callback of a state that is still there goes on.
Callback(a) ==
  /\ Go(a, "offered", IF state[a] = "stored" THEN "consumed" ELSE "done")
  /\ state' = [state EXCEPT ![a] = "gone"]
  /\ UNCHANGED <<rows, closing, locks, disconnecting>>

CloseWith(a, from, next) ==
  /\ Go(a, from, "closing")
  /\ closing' = [closing EXCEPT ![a] = next]
  /\ UNCHANGED <<rows, state, disconnecting>>

\* Another user is signed in, or the callback has neither code nor error.
RejectSession(a) == CloseWith(a, "consumed", "read_only") /\ UNCHANGED locks

Decline(a) ==
  /\ account.status # "disconnected"
  /\ CloseWith(a, "consumed", "upgrade_declined")
  /\ UNCHANGED locks

FindMailbox(a) ==
  /\ Go(a, "consumed", IF account.status # "disconnected" THEN "exchanging" ELSE "done")
  /\ UNCHANGED <<rows, state, closing, locks, disconnecting>>

\* Another account, a missing scope or refresh token, or no answer at all.
ExchangeFails(a) == CloseWith(a, "exchanging", "upgrade_failed") /\ UNCHANGED locks

ExchangeWriteUpgradeCode(a) ==
  /\ Go(a, "exchanging", "exchanged")
  /\ UNCHANGED <<rows, state, closing, locks, disconnecting>>

\* WHERE write_capability='upgrade_pending' AND upgrade_attempt_id=$2
Pending(a) == permission.capability = "upgrade_pending" /\ permission.attempt = a

\* The first statement of the grant locks the permission; with no row to update the
\* transaction ends, and the owner is redirected as after a success.
UpdatePermission(a) ==
  /\ permissionLock = NoClient
  /\ IF Pending(a)
     THEN Go(a, "exchanged", "granting") /\ permissionLock' = a
     ELSE Go(a, "exchanged", "done") /\ UNCHANGED permissionLock
  /\ UNCHANGED <<rows, state, closing, accountLock, disconnecting>>

\* The second replaces the credential, whatever the mailbox's status has become; both commit.
Grant(a) ==
  /\ Go(a, "granting", "done")
  /\ accountLock = NoClient
  /\ permission' = [permission EXCEPT !.capability = "write_granted"]
  /\ account' = [account EXCEPT !.token = "modify"]
  /\ permissionLock' = NoClient
  /\ UNCHANGED <<state, closing, accountLock, disconnecting>>

\* Mutant: the attempt is closed while its transaction is still open.
GrantFailsOpen(a) == CloseWith(a, "granting", "upgrade_failed") /\ UNCHANGED locks

\* The transaction is rolled back and the catch block closes the attempt.
GrantFails(a) ==
  /\ CloseWith(a, "granting", "upgrade_failed")
  /\ permissionLock' = NoClient
  /\ UNCHANGED accountLock

CloseAttempt(a) ==
  /\ Go(a, "closing", "done")
  /\ permissionLock = NoClient
  /\ permission' = IF Pending(a) THEN [permission EXCEPT !.capability = closing[a]] ELSE permission
  /\ UNCHANGED <<account, state, closing, locks, disconnecting>>

------------------------------------------------------------------------------
(* A read-only connection takes the rows in the opposite order. *)

UpsertAccount(r) ==
  /\ Go(r, "idle", "replacing")
  /\ accountLock = NoClient
  /\ accountLock' = r
  /\ UNCHANGED <<rows, state, closing, permissionLock, disconnecting>>

\* Mutant: a grant is left as it is.
ResetUnlessGranted ==
  IF permission.capability = "write_granted"
  THEN permission
  ELSE [capability |-> "read_only", attempt |-> NoAttempt]

ResetWritePermission == [capability |-> "read_only", attempt |-> NoAttempt]

Connect(r) ==
  /\ Go(r, "replacing", "done")
  /\ permissionLock = NoClient
  /\ permission' = ResetWritePermission
  /\ account' = [status |-> "active", token |-> "readonly"]
  /\ accountLock' = NoClient
  /\ UNCHANGED <<state, closing, permissionLock, disconnecting>>

ConnectFails(r) ==
  /\ Go(r, "replacing", "done")
  /\ accountLock' = NoClient
  /\ UNCHANGED <<rows, state, closing, permissionLock, disconnecting>>

\* PostgreSQL ends one of two transactions that wait for each other.
Deadlocked(a, r) ==
  stage[a] = "granting" /\ accountLock = r /\ stage[r] = "replacing" /\ permissionLock = a

BreakDeadlock(a, r) == Deadlocked(a, r) /\ (GrantFails(a) \/ ConnectFails(r))

------------------------------------------------------------------------------
(* The mailbox itself. *)

\* A pass finds the token refused, and writes so whatever has become of the mailbox since.
RequireReauthorization ==
  /\ accountLock = NoClient
  /\ account' = [account EXCEPT !.status = "reauthorization_required"]
  /\ UNCHANGED <<permission, state, stage, closing, locks, disconnecting>>

BeginDisconnect ==
  /\ account.status # "disconnected" /\ ~disconnecting
  /\ disconnecting' = TRUE
  /\ UNCHANGED <<rows, state, stage, closing, locks>>

\* The watch is stopped in between; the permission is not touched.
Disconnect ==
  /\ disconnecting /\ accountLock = NoClient
  /\ account' = [status |-> "disconnected", token |-> "blank"]
  /\ disconnecting' = FALSE
  /\ UNCHANGED <<permission, state, stage, closing, locks>>

\* The API process dies between two steps of a request.
ApiCrashes(c) ==
  /\ stage[c] \notin {"idle", "offered", "done"}
  /\ stage' = [stage EXCEPT ![c] = "done"]
  /\ permissionLock' = IF permissionLock = c THEN NoClient ELSE permissionLock
  /\ accountLock' = IF accountLock = c THEN NoClient ELSE accountLock
  /\ UNCHANGED <<rows, state, closing, disconnecting>>

Upgrade(a) ==
  \/ Start(a) \/ RecordAttempt(a) \/ StateExpires(a) \/ Callback(a)
  \/ RejectSession(a) \/ Decline(a) \/ FindMailbox(a)
  \/ ExchangeFails(a) \/ ExchangeWriteUpgradeCode(a)
  \/ UpdatePermission(a) \/ Grant(a) \/ GrantFails(a) \/ CloseAttempt(a)

Connection(r) == UpsertAccount(r) \/ Connect(r) \/ ConnectFails(r)

Next ==
  \/ \E a \in Attempts : Upgrade(a)
  \/ \E r \in Connections : Connection(r)
  \/ \E a \in Attempts, r \in Connections : BreakDeadlock(a, r)
  \/ RequireReauthorization \/ BeginDisconnect \/ Disconnect
  \/ \E c \in Clients : ApiCrashes(c)

Spec == Init /\ [][Next]_vars

\* A step of a request that is under way and needs nothing of its owner.
Proceed(a) ==
  \/ RecordAttempt(a) \/ RejectSession(a) \/ Decline(a) \/ FindMailbox(a)
  \/ ExchangeFails(a) \/ ExchangeWriteUpgradeCode(a)
  \/ UpdatePermission(a) \/ Grant(a) \/ CloseAttempt(a)

\* Google answers or times out, a row that is free again and again is locked in the
\* end (waiters queue), and PostgreSQL looks for deadlocks.
Fairness ==
  /\ \A a \in Attempts : SF_vars(Proceed(a))
  /\ \A r \in Connections : SF_vars(Connect(r))
  /\ WF_vars(\E a \in Attempts, r \in Connections : BreakDeadlock(a, r))

FairSpec == Spec /\ Fairness

------------------------------------------------------------------------------
(* Properties *)

TypeOK ==
  /\ permission \in [capability : Capabilities, attempt : Attempts \cup {NoAttempt}]
  /\ account \in [status : {"active", "reauthorization_required", "disconnected"},
                  token : {"readonly", "modify", "blank"}]
  /\ state \in [Attempts -> {"none", "stored", "gone"}]
  /\ stage \in [Clients -> Stages]
  /\ closing \in [Attempts -> Closings]
  /\ permissionLock \in Attempts \cup {NoClient}
  /\ accountLock \in Connections \cup {NoClient}
  /\ disconnecting \in BOOLEAN

\* The permission the commands rely on is the one the stored credential has: whatever
\* attempts, connections and disconnections overlap, a mailbox with a credential is
\* write_granted exactly when that credential allows gmail.modify
\* (permissions.ts:55, google-auth.ts:57-66).
GrantMatchesCredential ==
  account.token # "blank" =>
    (permission.capability = "write_granted" <=> account.token = "modify")

\* A late, declined, failed or repeated attempt takes no grant away: only a read-only
\* connection does, with the credential (milestone-4-write-upgrade.md:9,
\* permissions.ts:34, 45).
GrantOutlivesAttempts ==
  [][permission.capability = "write_granted" /\ permission'.capability # "write_granted" =>
       \E r \in Connections : stage[r] = "replacing" /\ stage'[r] = "done"
                              /\ account'.token = "readonly"]_vars

\* A request that has reached the database is answered, also when a grant and a
\* connection lock the same two rows in opposite order (permissions.ts:55,
\* google-auth.ts:57-66).
RequestsEnd ==
  /\ \A a \in Attempts : stage[a] \notin {"idle", "offered"} ~> stage[a] \in {"offered", "done"}
  /\ \A r \in Connections : stage[r] = "replacing" ~> stage[r] = "done"
==============================================================================
