------------------------ MODULE WritePermissionProofs ------------------------
(***************************************************************************)
(* For any attempts and connections: who holds a row's lock is in the step that   *)
(* took it, a grant that is under way cannot be overtaken, and the permission is     *)
(* the one of the stored credential.                                             *)
(***************************************************************************)
EXTENDS WritePermission, TLAPS

\* The permission row is locked by a grant only, whose condition still holds.
LockDiscipline ==
  /\ \A a \in Attempts : permissionLock = a <=> stage[a] = "granting"
  /\ \A r \in Connections : accountLock = r <=> stage[r] = "replacing"
  /\ \A a \in Attempts : stage[a] = "granting" => Pending(a)

\* The inductive invariant.
Inv == TypeOK /\ LockDiscipline

USE DEF Clients

\* No attempt has started and no row is locked.
LEMMA InitInv == Init => Inv
<1> SUFFICES ASSUME Init PROVE Inv
  OBVIOUS
<1> USE PermissionAssumption DEF Init
<1>1. TypeOK
  BY DEF TypeOK, Capabilities, Closings, Stages
<1>2. \A a \in Attempts : permissionLock # a /\ stage[a] = "idle"
  BY DEF Init
<1>3. \A r \in Connections : accountLock # r /\ stage[r] = "idle"
  BY DEF Init
<1> QED
  BY <1>1, <1>2, <1>3 DEF Inv, LockDiscipline

\* Each action keeps the invariant.
LEMMA StepInv ==
  ASSUME Inv, [Next]_vars
  PROVE  Inv'
<1> USE PermissionAssumption DEF Inv, TypeOK
<1>1. ASSUME NEW a \in Attempts, Start(a) PROVE Inv'
  BY <1>1 DEF Start, Go, rows, locks, LockDiscipline, Pending, Stages
<1>2. ASSUME NEW a \in Attempts, RecordAttempt(a) PROVE Inv'
  BY <1>2 DEF RecordAttempt, Requested, Go, rows, locks, LockDiscipline, Pending, Stages, Capabilities
<1>3. ASSUME NEW a \in Attempts, StateExpires(a) PROVE Inv'
  BY <1>3 DEF StateExpires, rows, locks, LockDiscipline, Pending
<1>4. ASSUME NEW a \in Attempts, Callback(a) PROVE Inv'
  BY <1>4 DEF Callback, Go, rows, locks, LockDiscipline, Pending, Stages
<1>5. ASSUME NEW a \in Attempts, RejectSession(a) \/ Decline(a) \/ ExchangeFails(a) PROVE Inv'
  BY <1>5 DEF RejectSession, Decline, ExchangeFails, CloseWith, Go, rows, locks, LockDiscipline,
              Pending, Stages, Closings
<1>6. ASSUME NEW a \in Attempts, FindMailbox(a) \/ ExchangeWriteUpgradeCode(a) PROVE Inv'
  BY <1>6 DEF FindMailbox, ExchangeWriteUpgradeCode, Go, rows, locks, LockDiscipline, Pending, Stages
<1>7. ASSUME NEW a \in Attempts, UpdatePermission(a) PROVE Inv'
  BY <1>7 DEF UpdatePermission, Go, rows, locks, LockDiscipline, Pending, Stages
<1>8. ASSUME NEW a \in Attempts, Grant(a) PROVE Inv'
  BY <1>8 DEF Grant, Go, rows, locks, LockDiscipline, Pending, Stages, Capabilities
<1>9. ASSUME NEW a \in Attempts, GrantFails(a) PROVE Inv'
  BY <1>9 DEF GrantFails, CloseWith, Go, rows, locks, LockDiscipline, Pending, Stages, Closings
<1>10. ASSUME NEW a \in Attempts, CloseAttempt(a) PROVE Inv'
  BY <1>10 DEF CloseAttempt, Go, rows, locks, LockDiscipline, Pending, Stages, Capabilities, Closings
<1>11. ASSUME NEW r \in Connections, UpsertAccount(r) PROVE Inv'
  BY <1>11 DEF UpsertAccount, Go, rows, locks, LockDiscipline, Pending, Stages
<1>12. ASSUME NEW r \in Connections, Connect(r) PROVE Inv'
  BY <1>12 DEF Connect, ResetWritePermission, Go, rows, locks, LockDiscipline, Pending, Stages,
               Capabilities
<1>13. ASSUME NEW r \in Connections, ConnectFails(r) PROVE Inv'
  BY <1>13 DEF ConnectFails, Go, rows, locks, LockDiscipline, Pending, Stages
<1>14. ASSUME RequireReauthorization \/ BeginDisconnect \/ Disconnect PROVE Inv'
  <2>1. UNCHANGED <<permission, state, stage, closing, locks>>
    BY <1>14 DEF RequireReauthorization, BeginDisconnect, Disconnect, rows, locks
  <2>2. account' \in [status : {"active", "reauthorization_required", "disconnected"},
                      token : {"readonly", "modify", "blank"}]
    BY <1>14 DEF RequireReauthorization, BeginDisconnect, Disconnect, rows
  <2>3. disconnecting' \in BOOLEAN
    BY <1>14 DEF RequireReauthorization, BeginDisconnect, Disconnect
  <2> QED
    BY <2>1, <2>2, <2>3 DEF locks, LockDiscipline, Pending
<1>15. ASSUME NEW c \in Clients, ApiCrashes(c) PROVE Inv'
  BY <1>15 DEF ApiCrashes, rows, locks, LockDiscipline, Pending, Stages
<1>16. CASE UNCHANGED vars
  BY <1>16 DEF vars, LockDiscipline, Pending
<1> HIDE DEF Inv, TypeOK, Clients
<1>17. ASSUME NEW a \in Attempts, Upgrade(a) PROVE Inv'
  BY <1>1, <1>2, <1>3, <1>4, <1>5, <1>6, <1>7, <1>8, <1>9, <1>10, <1>17 DEF Upgrade
<1>18. ASSUME NEW r \in Connections, Connection(r) PROVE Inv'
  BY <1>11, <1>12, <1>13, <1>18 DEF Connection
<1>19. ASSUME NEW a \in Attempts, NEW r \in Connections, BreakDeadlock(a, r) PROVE Inv'
  BY <1>9, <1>13, <1>19 DEF BreakDeadlock
<1> QED
  BY <1>14, <1>15, <1>16, <1>17, <1>18, <1>19 DEF Next

\* It holds throughout.
LEMMA InvAlways == Spec => []Inv
<1> QED
  BY InitInv, StepInv, PTL DEF Spec

\* Between the two statements of a grant nothing changes what the first has tested: the
\* attempt is still the pending one when both rows are committed (permissions.ts:55).
THEOREM GrantIsStillPending == Spec => [](\A a \in Attempts : stage[a] = "granting" => Pending(a))
<1>1. Inv => \A a \in Attempts : stage[a] = "granting" => Pending(a)
  BY DEF Inv, LockDiscipline
<1> QED
  BY <1>1, InvAlways, PTL

\* The permission is that of the stored credential, whatever overlaps
\* (GrantMatchesCredential of WritePermission): grant and reset commit both rows, and
\* no other step changes what either says.
THEOREM GrantMatchesCredentialAlways == Spec => []GrantMatchesCredential
<1>1. Init => GrantMatchesCredential
  BY DEF Init, GrantMatchesCredential
<1>2. ASSUME Inv, GrantMatchesCredential, [Next]_vars
      PROVE  GrantMatchesCredential'
  <2> USE <1>2 DEF GrantMatchesCredential
  <2>1. CASE UNCHANGED rows
    BY <2>1 DEF rows
  <2>2. ASSUME NEW a \in Attempts, RecordAttempt(a) PROVE GrantMatchesCredential'
    BY <2>2 DEF RecordAttempt, Requested
  <2>3. ASSUME NEW a \in Attempts, Grant(a) PROVE GrantMatchesCredential'
    BY <2>3 DEF Grant, Inv, TypeOK
  <2>4. ASSUME NEW a \in Attempts, CloseAttempt(a) PROVE GrantMatchesCredential'
    BY <2>4 DEF CloseAttempt, Pending, Inv, TypeOK, Closings
  <2>5. ASSUME NEW r \in Connections, Connect(r) PROVE GrantMatchesCredential'
    BY <2>5 DEF Connect, ResetWritePermission
  <2>6. CASE RequireReauthorization \/ Disconnect
    BY <2>6 DEF RequireReauthorization, Disconnect, Inv, TypeOK
  <2>7. ASSUME NEW a \in Attempts, Upgrade(a) PROVE UNCHANGED rows \/ RecordAttempt(a) \/ Grant(a) \/ CloseAttempt(a)
    BY <2>7 DEF Upgrade, Start, StateExpires, Callback, RejectSession, Decline, FindMailbox, ExchangeFails,
                ExchangeWriteUpgradeCode, UpdatePermission, GrantFails, CloseWith
  <2>8. ASSUME NEW r \in Connections, Connection(r) PROVE UNCHANGED rows \/ Connect(r)
    BY <2>8 DEF Connection, UpsertAccount, ConnectFails
  <2>9. ASSUME NEW a \in Attempts, NEW r \in Connections, BreakDeadlock(a, r) PROVE UNCHANGED rows
    BY <2>9 DEF BreakDeadlock, GrantFails, CloseWith, ConnectFails
  <2>10. CASE BeginDisconnect \/ (\E c \in Clients : ApiCrashes(c)) \/ UNCHANGED vars
    BY <2>10 DEF BeginDisconnect, ApiCrashes, vars, rows
  <2> QED
    BY <2>1, <2>2, <2>3, <2>4, <2>5, <2>6, <2>7, <2>8, <2>9, <2>10 DEF Next
<1> QED
  BY <1>1, <1>2, InvAlways, PTL DEF Spec

\* Only a read-only connection that commits takes a grant away
\* (GrantOutlivesAttempts of WritePermission).
THEOREM GrantOutlivesAttemptsAlways == Spec => GrantOutlivesAttempts
<1> DEFINE Withdrawn ==
      \E r \in Connections : stage[r] = "replacing" /\ stage'[r] = "done" /\ account'.token = "readonly"
<1>1. ASSUME Inv, [Next]_vars, permission.capability = "write_granted",
             permission'.capability # "write_granted"
      PROVE  Withdrawn
  <2>1. ~UNCHANGED permission
    BY <1>1
  <2>2. ASSUME NEW a \in Attempts, RecordAttempt(a) \/ Grant(a) \/ CloseAttempt(a) PROVE FALSE
    BY <1>1, <2>2 DEF RecordAttempt, Requested, Grant, CloseAttempt, Pending, Inv, TypeOK
  <2>3. ASSUME NEW r \in Connections, Connect(r) PROVE Withdrawn
    BY <1>1, <2>3 DEF Connect, Go, Inv, TypeOK
  <2>4. ASSUME NEW a \in Attempts, Upgrade(a)
        PROVE  UNCHANGED permission \/ RecordAttempt(a) \/ Grant(a) \/ CloseAttempt(a)
    BY <2>4 DEF Upgrade, Start, StateExpires, Callback, RejectSession, Decline, FindMailbox, ExchangeFails,
                ExchangeWriteUpgradeCode, UpdatePermission, GrantFails, CloseWith, rows
  <2>5. ASSUME NEW r \in Connections, Connection(r) PROVE UNCHANGED permission \/ Connect(r)
    BY <2>5 DEF Connection, UpsertAccount, ConnectFails, rows
  <2>6. ASSUME NEW a \in Attempts, NEW r \in Connections, BreakDeadlock(a, r) PROVE UNCHANGED permission
    BY <2>6 DEF BreakDeadlock, GrantFails, CloseWith, ConnectFails, rows
  <2>7. CASE RequireReauthorization \/ BeginDisconnect \/ Disconnect
              \/ (\E c \in Clients : ApiCrashes(c)) \/ UNCHANGED vars
    BY <2>1, <2>7 DEF RequireReauthorization, BeginDisconnect, Disconnect, ApiCrashes, vars, rows
  <2> QED
    BY <1>1, <2>1, <2>2, <2>3, <2>4, <2>5, <2>6, <2>7 DEF Next
<1> QED
  BY <1>1, InvAlways, PTL DEF Spec, GrantOutlivesAttempts
==============================================================================
