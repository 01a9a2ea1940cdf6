--------------------------- MODULE MailboxListing ---------------------------
(***************************************************************************)
(* MailboxSync with the API requests that list or search threads: they read    *)
(* threads from Gmail and write them to the projection that the passes write,  *)
(* outside the mailbox's lock.  The threads of a page are independent of each   *)
(* other, so that a listing stands for one of them.                            *)
(***************************************************************************)
EXTENDS MailboxSync

CONSTANTS
  Readers,    \* API requests
  NoThread

ASSUME ListingAssumption == NoThread \notin Threads

VARIABLES
  listing,      \* per reader: a thread read from Gmail, not yet projected
  overwritten   \* history: messages last written by a listing that a commit overtook

listingVars == <<vars, listing, overwritten>>

NoListing == [thread |-> NoThread, content |-> Nothing, overtaken |-> FALSE]

ListingInit ==
  /\ Init
  /\ listing = [r \in Readers |-> NoListing]
  /\ overwritten = {}

ReadThread(r, t) ==
  /\ listing[r] = NoListing
  /\ account.status = "active" /\ account.token
  /\ listing' = [listing EXCEPT ![r] =
                   [thread |-> t, content |-> ContentOf(t), overtaken |-> FALSE]]
  /\ UNCHANGED <<vars, overwritten>>

ProjectThread(r) ==
  LET l == listing[r]
      written == {m \in Messages : l.content[m] # 0}
  IN
  /\ l # NoListing
  /\ rows' = Upsert(l.content, rows)
  /\ overwritten' = IF l.overtaken THEN overwritten \cup written ELSE overwritten
  /\ listing' = [listing EXCEPT ![r] = NoListing]
  /\ UNCHANGED <<gmail, account, state, workers>>

\* A commit replaces what it writes and overtakes the listings under way.
OvertakingCommit(s) ==
  LET p == pass[s] IN
  /\ Commit(s)
  /\ overwritten' = {m \in overwritten : p.fresh[m] = 0 /\ p.seed[m] = 0 /\ m \notin p.deleted}
  /\ listing' = [r \in Readers |->
       IF listing[r] = NoListing THEN NoListing ELSE [listing[r] EXCEPT !.overtaken = TRUE]]

ListingNext ==
  \/ (Background \/ Outage) /\ UNCHANGED <<listing, overwritten>>
  \/ \E s \in Syncers : OvertakingCommit(s)
  \/ \E r \in Readers : ProjectThread(r) \/ \E t \in Threads : ReadThread(r, t)

ListingSpec == ListingInit /\ [][ListingNext]_listingVars

\* Writing outside the lock is harmless as long as no commit falls between a
\* listing's read and its write: what the applied watermark covers stays in
\* the rows of every message that no overtaken listing has written
\* (mailbox-workspace.ts:47-57, mailbox-search.ts:53-66).
CoveredUnlessOverwritten == \A m \in Messages \ overwritten : Covered(m)
=============================================================================
