---------------------------- MODULE StorageMigrations ----------------------------
(***************************************************************************)
(* run_storage_migrations brings the messages of kv.db to the format this  *)
(* version of the application reads.                                       *)
(*                                                                         *)
(* Migration v goes through the messages a page at a time: it reads a page *)
(* (a transaction), takes the fields it removes out of the rows that have  *)
(* them, and commits those rows (a second one); when there is no page left *)
(* its version is put (a third).  Each of them may fail, which ends the run*)
(* until the application is started again.  Between any two of them the    *)
(* application may die, and the push helper, a process of its own that     *)
(* migrates nothing, may store an event.  A row with a field that is no    *)
(* longer known cannot be read by it: its events wait until the migration  *)
(* is through.                                                             *)
(*                                                                         *)
(* A row is the number of changes made to its message, 0 while there is    *)
(* none, and the obsolete fields it still has.                             *)
(***************************************************************************)
EXTENDS Naturals, FiniteSets

CONSTANTS
  LastRow,       \* rows are numbered in the order of their keys
  PageSize,      \* rows in a page
  Removed,       \* the fields each migration removes
  MaxChanges,    \* bound: changes to a message
  MaxDeaths      \* bound: times the application dies

Latest == 3                                 \* len(MIGRATIONS)
Rows == 1 .. LastRow
Fields == UNION {Removed[v] : v \in 1 .. Latest}
Row == [changes : Nat, extra : SUBSET Fields]
Absent == [changes |-> 0, extra |-> {}]

ASSUME SizeAssumption == LastRow \in Nat /\ PageSize \in Nat \ {0}
ASSUME RemovedAssumption == Removed \in [1 .. Latest -> SUBSET Fields] /\ Removed[1] = {}
ASSUME BoundAssumption == MaxChanges \in Nat /\ MaxDeaths \in Nat

VARIABLES
  \* kv.db
  db,        \* the rows
  version,   \* kv.schema_version, 0 while it is not stored
  \* run_storage_migrations
  stage,     \* what it does next
  at,        \* the migration it is at
  cursor,    \* the last row it has read, 0 before the first
  more,      \* there may be rows after it
  copy,      \* the page, as it was read
  page,      \* the rows of it to write
  \* bound
  deaths

kvVars == <<db, version>>
runVars == <<stage, at, cursor, more, copy, page>>
vars == <<kvVars, runVars, deaths>>

Clean(r) == db[r].extra = {}

(* What earlier versions of the application leave: no row has a field that *)
(* a migration up to the stored version removes.                           *)
Init ==
  /\ version \in 0 .. Latest + 1
  /\ db \in {d \in [Rows -> {Absent} \cup [changes : {1}, extra : SUBSET Fields]] :
               \A r \in Rows, v \in 1 .. Latest : v <= version => d[r].extra \cap Removed[v] = {}}
  /\ stage = "off" /\ at = 0 /\ cursor = 0 /\ more = FALSE /\ page = {}
  /\ copy = [r \in Rows |-> Absent]
  /\ deaths = 0

-----------------------------------------------------------------------------
(* initialize_storage_schema has nothing to read.                          *)
FirstStage(v) == IF v = 1 THEN "put" ELSE "read"

Enter(v) ==
  /\ at' = v /\ cursor' = 0 /\ more' = (v > 1) /\ page' = {}
  /\ stage' = IF v > Latest THEN "done" ELSE FirstStage(v)
  /\ UNCHANGED copy

Leave(s) ==
  /\ stage' = s /\ at' = 0 /\ cursor' = 0 /\ more' = FALSE /\ page' = {}
  /\ copy' = [r \in Rows |-> Absent]

(* A kv.db of a newer version is refused.                                  *)
Run ==
  /\ stage = "off"
  /\ \/ version > Latest /\ Leave("refused")
     \/ version <= Latest /\ Enter(version + 1)
  /\ UNCHANGED <<kvVars, deaths>>

(* kv.db cannot be opened, or a transaction fails: the call raises, and    *)
(* nothing of that transaction is kept.                                    *)
Raise ==
  /\ stage \in {"off", "read", "commit", "put"}
  /\ Leave("failed")
  /\ UNCHANGED <<kvVars, deaths>>

(* Mutations: the row after the cursor is skipped; the cursor a page was   *)
(* read with is used again; every row of the page is written back.         *)
AfterNext(c) == {r \in Rows : r > c + (IF c = 0 THEN 0 ELSE 1) /\ db[r] # Absent}

SameCursor(p, k) == k = cursor

WholePage(p) == p

(* get_partial_page: the rows after the cursor, PageSize at most; their    *)
(* last key is the next cursor if there are as many.                       *)
After(c) == {r \in Rows : r > c /\ db[r] # Absent}

IsLast(p, k) == k \in p /\ \A r \in p : r <= k

(* The rows that have a field to remove.                                   *)
Outdated(p) == {r \in p : db[r].extra \cap Removed[at] # {}}

ReadPage ==
  /\ stage = "read"
  /\ \E p \in SUBSET After(cursor), k \in 0 .. LastRow :
       /\ \A r \in p, s \in After(cursor) \ p : r < s
       /\ IF Cardinality(p) = PageSize THEN IsLast(p, k) ELSE p = After(cursor) /\ k = cursor
       /\ more' = (Cardinality(p) = PageSize)
       /\ cursor' = k
       /\ page' = Outdated(p)
  /\ copy' = [r \in Rows |-> IF r \in page' THEN db[r] ELSE Absent]
  /\ stage' = IF page' # {} THEN "commit" ELSE IF more' THEN "read" ELSE "put"
  /\ UNCHANGED <<kvVars, at, deaths>>

CommitPage ==
  /\ stage = "commit"
  /\ db' = [r \in Rows |->
       IF r \in page THEN [copy[r] EXCEPT !.extra = @ \ Removed[at]] ELSE db[r]]
  /\ page' = {} /\ copy' = [r \in Rows |-> Absent]
  /\ stage' = IF more THEN "read" ELSE "put"
  /\ UNCHANGED <<version, at, cursor, more, deaths>>

PutVersion ==
  /\ stage = "put"
  /\ version' = at
  /\ Enter(at + 1)
  /\ UNCHANGED <<db, deaths>>

(* process_events_once in the push helper, or the event loop once it runs: *)
(* a new message, or a change to one that it can read.                     *)
Store(r) ==
  /\ Clean(r) /\ db[r].changes < MaxChanges
  /\ db' = [db EXCEPT ![r].changes = @ + 1]
  /\ UNCHANGED <<version, runVars, deaths>>

Die ==
  /\ deaths < MaxDeaths /\ deaths' = deaths + 1
  /\ Leave("off")
  /\ UNCHANGED kvVars

(* clear_data, called by a page, has deleted kv.db.                        *)
Erase ==
  /\ stage = "done"
  /\ version' = 0 /\ db' = [r \in Rows |-> Absent]
  /\ UNCHANGED <<runVars, deaths>>

Step == Run \/ ReadPage \/ CommitPage \/ PutVersion

Next == Step \/ Raise \/ (\E r \in Rows : Store(r)) \/ Erase \/ Die

Spec == Init /\ [][Next]_vars

-----------------------------------------------------------------------------
(* Properties.                                                             *)

MigrationsTypeOK ==
  /\ db \in [Rows -> Row] /\ version \in 0 .. Latest + 1
  /\ stage \in {"off", "read", "commit", "put", "done", "refused", "failed"}
  /\ at \in 0 .. Latest + 1 /\ cursor \in 0 .. LastRow /\ more \in BOOLEAN
  /\ copy \in [Rows -> Row] /\ page \subseteq Rows
  /\ deaths \in 0 .. MaxDeaths

(* Once a version is stored no message has a field which a migration up to *)
(* it removes, wherever the application died and whatever was stored in    *)
(* the meantime: every message can be read.                                *)
Migrated == \A r \in Rows, v \in 1 .. Latest : v <= version => db[r].extra \cap Removed[v] = {}

(* A migration writes back what it read in an earlier transaction, and     *)
(* undoes no change that the push helper has made since.                   *)
NothingUndone == [][Erase \/ \A r \in Rows : db[r].changes <= db'[r].changes]_vars
=============================================================================
