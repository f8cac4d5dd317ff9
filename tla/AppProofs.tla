-------------------------------- MODULE AppProofs --------------------------------
(***************************************************************************)
(* The migrations, for any number of messages, any page size and any number*)
(* of deaths: a stored version says what the rows are like, and a migration*)
(* undoes no change made while it ran.  The application as a whole runs    *)
(* them so, whatever the pages, the daemon and the user do.                *)
(*                                                                         *)
(* Then what the pages rest on: every answer of a call is true when it is  *)
(* given, wherever a command of it fails and whatever dies meanwhile; the  *)
(* chat pages meet only records of the current format; a message shows the *)
(* same, live, from the history and quoted; what is sent is what was       *)
(* composed; and a chat page lists what is kept.                           *)
(***************************************************************************)
EXTENDS App, ChatPageProofs

-----------------------------------------------------------------------------
(* The migrations.                                                         *)

Running == stage \in {"read", "commit", "put"}

(* The migration under way is the one after the stored version.  A row it  *)
(* is about to write is as it was read, because a row with an obsolete     *)
(* field cannot be changed by anyone else; and every row it has passed is  *)
(* among those or has none of the fields it removes.                       *)
AtNext == Running => at = version + 1 /\ at \in 1 .. Latest

PageIsCurrent ==
  /\ stage # "commit" => page = {}
  /\ stage = "put" => ~more
  /\ \A r \in page : copy[r] = db[r] /\ ~Clean(r)

PassedIsClean ==
  Running => \A r \in Rows : r <= cursor \/ ~more =>
               r \in page \/ db[r].extra \cap Removed[at] = {}

IInv == MigrationsTypeOK /\ Migrated /\ AtNext /\ PageIsCurrent /\ PassedIsClean

-----------------------------------------------------------------------------
(* Lemmas.                                                                 *)

LEMMA Constants ==
  /\ Latest = 3 /\ LastRow \in Nat /\ MaxDeaths \in Nat
  /\ Removed[1] = {} /\ \A v \in 1 .. Latest : Removed[v] \subseteq Fields
  /\ Absent \in Row
BY SizeAssumption, RemovedAssumption, BoundAssumption DEF Latest, Absent, Row, Fields

(* Entering the migration after the stored version.                        *)
LEMMA EnterNext ==
  ASSUME MigrationsTypeOK, Migrated, NEW v \in 1 .. Latest + 1,
         db' = db, deaths' = deaths, Enter(v), version' = v - 1,
         v <= Latest => Migrated'
  PROVE  MigrationsTypeOK' /\ AtNext' /\ PageIsCurrent' /\ PassedIsClean'
<1>1. MigrationsTypeOK'
  BY Constants DEF MigrationsTypeOK, Enter, FirstStage, Latest, Rows
<1>2. AtNext'
  BY Constants DEF AtNext, Running, Enter, FirstStage, Latest
<1>3. PageIsCurrent'
  <2>1. stage' = "put" => v = 1
    BY Constants DEF Enter, FirstStage, Latest
  <2>2. v = 1 => ~(v > 1)
    OBVIOUS
  <2>3. more' = (v > 1) /\ page' = {}
    BY DEF Enter
  <2>4. stage' = "put" => ~more'
    BY <2>1, <2>2, <2>3, Zenon
  <2> QED BY <2>3, <2>4, Zenon DEF PageIsCurrent
<1>4. PassedIsClean'
  <2>1. CASE v = 1
    BY <2>1, Constants DEF PassedIsClean, Enter, Rows, Latest
  <2>2. CASE v # 1
    <3>1. more' = TRUE /\ cursor' = 0
      <4>1. v > 1
        BY <2>2, Constants DEF Latest
      <4>2. more' = (v > 1) /\ cursor' = 0
        BY DEF Enter
      <4> QED BY <4>1, <4>2, Zenon
    <3>2. ASSUME NEW r \in Rows PROVE ~(r <= cursor' \/ ~more')
      BY <3>1, Constants DEF Rows
    <3> QED BY <3>2 DEF PassedIsClean
  <2> QED BY <2>1, <2>2
<1> QED BY <1>1, <1>2, <1>3, <1>4

LEMMA InitInvariant == Init => IInv
<1> SUFFICES ASSUME Init PROVE IInv
  OBVIOUS
<1>1. MigrationsTypeOK
  <2>1. db \in [Rows -> Row] /\ copy \in [Rows -> Row]
    BY Constants DEF Init, Row
  <2>2. more \in BOOLEAN /\ page \subseteq Rows
    BY Zenon DEF Init
  <2>3. at \in 0 .. Latest + 1 /\ cursor \in 0 .. LastRow /\ deaths \in 0 .. MaxDeaths
    BY Constants DEF Init
  <2> QED BY <2>1, <2>2, <2>3 DEF Init, MigrationsTypeOK
<1>2. Migrated
  BY DEF Init, Migrated
<1>3. AtNext /\ PageIsCurrent /\ PassedIsClean
  BY DEF Init, AtNext, PageIsCurrent, PassedIsClean, Running
<1> QED BY <1>1, <1>2, <1>3 DEF IInv

-----------------------------------------------------------------------------
(* One lemma for each action.                                              *)

(* Whatever ends a run leaves nothing to be done by it.                    *)
LEMMA LeftInvariant ==
  ASSUME MigrationsTypeOK, Migrated, NEW s \in {"off", "refused", "failed"}, Leave(s),
         db' = db, version' = version, deaths' \in 0 .. MaxDeaths
  PROVE  IInv'
<1>1. MigrationsTypeOK'
  <2>1. copy' \in [Rows -> Row]
    BY Constants DEF Leave
  <2>2. more' \in BOOLEAN /\ page' \subseteq Rows
    BY Zenon DEF Leave
  <2>3. at' \in 0 .. Latest + 1 /\ cursor' \in 0 .. LastRow /\ stage' = s
    BY Constants DEF Leave
  <2> QED BY <2>1, <2>2, <2>3 DEF MigrationsTypeOK
<1>2. Migrated'
  BY DEF Migrated
<1>3. AtNext' /\ PageIsCurrent' /\ PassedIsClean'
  BY DEF Leave, AtNext, PageIsCurrent, PassedIsClean, Running
<1> QED BY <1>1, <1>2, <1>3 DEF IInv

LEMMA RunInvariant == IInv /\ Run => IInv'
<1> SUFFICES ASSUME IInv, Run PROVE IInv'
  OBVIOUS
<1> USE DEF IInv
<1>1. Migrated' /\ db' = db /\ version' = version
  BY DEF Run, kvVars, Migrated
<1>2. CASE version > Latest
  <2>1. Leave("refused") /\ deaths' \in 0 .. MaxDeaths
    BY <1>2, Constants DEF Run, MigrationsTypeOK, Latest
  <2> QED BY <1>1, <2>1, LeftInvariant
<1>3. CASE ~(version > Latest)
  <2>1. version + 1 \in 1 .. Latest + 1 /\ Enter(version + 1) /\ deaths' = deaths
    BY <1>3, Constants DEF Run, MigrationsTypeOK, Latest
  <2> QED BY <1>1, <2>1, EnterNext, Constants DEF MigrationsTypeOK, Latest
<1> QED BY <1>2, <1>3

LEMMA ReadInvariant == IInv /\ ReadPage => IInv'
<1> SUFFICES ASSUME IInv, ReadPage PROVE IInv'
  OBVIOUS
<1> USE DEF IInv
<1>1. PICK p \in SUBSET After(cursor), k \in 0 .. LastRow :
        /\ \A r \in p, s \in After(cursor) \ p : r < s
        /\ IF Cardinality(p) = PageSize THEN IsLast(p, k) ELSE p = After(cursor) /\ k = cursor
        /\ more' = (Cardinality(p) = PageSize) /\ cursor' = k /\ page' = Outdated(p)
  BY DEF ReadPage
<1>2. /\ stage = "read" /\ stage' \in {"read", "commit", "put"}
      /\ page' # {} => stage' = "commit"
      /\ stage' = "put" => ~more'
      /\ stage' # "commit" => page' = {}
      /\ db' = db /\ version' = version /\ at' = at /\ deaths' = deaths
      /\ copy' = [r \in Rows |-> IF r \in page' THEN db[r] ELSE Absent]
  BY DEF ReadPage, kvVars
<1>3. p \subseteq Rows /\ page' \subseteq p
  BY <1>1 DEF After, Outdated
<1>4. MigrationsTypeOK'
  <2>1. copy' \in [Rows -> Row]
    BY <1>2, Constants DEF MigrationsTypeOK
  <2> QED BY <1>1, <1>2, <1>3, <2>1 DEF MigrationsTypeOK
<1>5. Migrated' /\ AtNext'
  BY <1>2 DEF Migrated, AtNext, Running
<1>6. PageIsCurrent'
  <2>1. ASSUME NEW r \in page' PROVE copy'[r] = db'[r] /\ ~Clean(r)'
    BY <1>1, <1>2, <1>3, <2>1 DEF Outdated, Clean
  <2> QED BY <1>2, <2>1 DEF PageIsCurrent
<1>7. PassedIsClean'
  <2> SUFFICES ASSUME NEW r \in Rows, r <= cursor' \/ ~more', r \notin page'
               PROVE  db[r].extra \cap Removed[at] = {}
    BY <1>2 DEF PassedIsClean
  <2>1. CASE r <= cursor
    BY <2>1, <1>2 DEF PassedIsClean, Running, PageIsCurrent
  <2>2. CASE ~(r <= cursor) /\ r \notin After(cursor)
    BY <2>2 DEF After, Absent, Rows, MigrationsTypeOK
  <2>3. CASE r \in p
    BY <2>3, <1>1 DEF Outdated
  <2>4. CASE r \in After(cursor) \ p
    <3>1. p # After(cursor) /\ r > 0 /\ r \notin p
      BY <2>4, Constants DEF Rows
    <3>2. Cardinality(p) = PageSize /\ IsLast(p, k)
      BY <3>1, <1>1
    <3>3. more' = TRUE /\ cursor' = k
      BY <3>2, <1>1
    <3>4. k \in p /\ k < r
      BY <2>4, <3>2, <1>1 DEF IsLast
    <3> QED BY <3>3, <3>4, Constants DEF Rows
  <2> QED BY <2>1, <2>2, <2>3, <2>4
<1> QED BY <1>4, <1>5, <1>6, <1>7

LEMMA CommitInvariant == IInv /\ CommitPage => IInv'
<1> SUFFICES ASSUME IInv, CommitPage PROVE IInv'
  OBVIOUS
<1> USE DEF IInv
<1>1. /\ stage = "commit" /\ stage' \in {"read", "put"} /\ page' = {}
      /\ version' = version /\ at' = at /\ cursor' = cursor /\ more' = more /\ deaths' = deaths
      /\ copy' = [r \in Rows |-> Absent]
      /\ at \in 1 .. Latest
  BY DEF CommitPage, AtNext, Running
<1>2. ASSUME NEW r \in Rows
      PROVE  /\ db'[r] \in Row
             /\ db'[r].extra \subseteq db[r].extra
             /\ r \in page => db'[r].extra \cap Removed[at] = {}
             /\ r \notin page => db'[r] = db[r]
  <2>1. CASE r \in page
    <3>1. db'[r] = [db[r] EXCEPT !.extra = @ \ Removed[at]]
      BY <2>1 DEF CommitPage, PageIsCurrent
    <3>2. db[r] \in Row
      BY DEF MigrationsTypeOK
    <3>3. db'[r].changes = db[r].changes /\ db'[r].extra = db[r].extra \ Removed[at]
      BY <3>1, <3>2 DEF Row
    <3>4. db'[r] \in Row
      BY <3>1, <3>2 DEF Row
    <3> QED BY <2>1, <3>3, <3>4
  <2>2. CASE r \notin page
    BY <2>2 DEF CommitPage, MigrationsTypeOK
  <2> QED BY <2>1, <2>2
<1>3. MigrationsTypeOK'
  <2>1. db' \in [Rows -> Row]
    BY <1>2 DEF CommitPage
  <2> QED BY <1>1, <2>1, Constants DEF MigrationsTypeOK
<1>4. Migrated'
  BY <1>1, <1>2 DEF Migrated
<1>5. AtNext' /\ PageIsCurrent'
  <2>1. stage' = "put" => ~more'
    BY <1>1 DEF CommitPage
  <2> QED BY <1>1, <2>1 DEF AtNext, PageIsCurrent, Running
<1>6. PassedIsClean'
  BY <1>1, <1>2 DEF PassedIsClean, Running
<1> QED BY <1>3, <1>4, <1>5, <1>6

(* With no row left to read, the rows passed are all the rows.             *)
LEMMA PutInvariant == IInv /\ PutVersion => IInv'
<1> SUFFICES ASSUME IInv, PutVersion PROVE IInv'
  OBVIOUS
<1> USE DEF IInv
<1>1. /\ stage = "put" /\ page = {} /\ ~more /\ at = version + 1 /\ at \in 1 .. Latest
      /\ version' = at /\ db' = db /\ deaths' = deaths /\ Enter(at + 1)
  BY DEF PutVersion, PageIsCurrent, AtNext, Running
<1>2. Migrated'
  <2>1. \A r \in Rows : db[r].extra \cap Removed[at] = {}
    BY <1>1 DEF PassedIsClean, Running
  <2> QED BY <1>1, <2>1, Constants DEF Migrated, MigrationsTypeOK, Latest
<1>3. at + 1 \in 1 .. Latest + 1 /\ version' = (at + 1) - 1
  BY <1>1, Constants DEF Latest
<1> QED BY <1>1, <1>2, <1>3, EnterNext

LEMMA StoreInvariant == \A r \in Rows : IInv /\ Store(r) => IInv'
<1> SUFFICES ASSUME NEW r \in Rows, IInv, Store(r) PROVE IInv'
  OBVIOUS
<1> USE DEF IInv
<1>1. /\ version' = version /\ stage' = stage /\ at' = at /\ cursor' = cursor /\ more' = more
      /\ page' = page /\ copy' = copy /\ deaths' = deaths
  BY DEF Store, runVars
<1>2. /\ db' \in [Rows -> Row] /\ r \notin page
      /\ \A s \in Rows : db'[s].extra = db[s].extra /\ (s # r => db'[s] = db[s])
  BY DEF Store, MigrationsTypeOK, Row, PageIsCurrent
<1> QED BY <1>1, <1>2 DEF MigrationsTypeOK, Migrated, AtNext, PageIsCurrent, PassedIsClean,
                          Running, Clean

LEMMA DieInvariant == IInv /\ Die => IInv'
<1> SUFFICES ASSUME IInv, Die PROVE IInv'
  OBVIOUS
<1>1. deaths' \in 0 .. MaxDeaths /\ db' = db /\ version' = version /\ Leave("off")
  BY Constants DEF IInv, Die, kvVars, MigrationsTypeOK
<1> QED BY <1>1, LeftInvariant DEF IInv

LEMMA RaiseInvariant == IInv /\ Raise => IInv'
<1> SUFFICES ASSUME IInv, Raise PROVE IInv'
  OBVIOUS
<1>1. deaths' \in 0 .. MaxDeaths /\ db' = db /\ version' = version /\ Leave("failed")
  BY DEF IInv, Raise, kvVars, MigrationsTypeOK
<1> QED BY <1>1, LeftInvariant DEF IInv

LEMMA EraseInvariant == IInv /\ Erase => IInv'
<1> SUFFICES ASSUME IInv, Erase PROVE IInv'
  OBVIOUS
<1>1. /\ stage = "done" /\ stage' = stage /\ at' = at /\ cursor' = cursor /\ more' = more
      /\ copy' = copy /\ page' = page /\ deaths' = deaths
      /\ version' = 0 /\ db' = [r \in Rows |-> Absent]
  BY DEF Erase, runVars
<1>2. MigrationsTypeOK'
  BY <1>1, Constants DEF IInv, MigrationsTypeOK
<1>3. Migrated'
  BY <1>1, Constants DEF Migrated
<1>4. AtNext' /\ PageIsCurrent' /\ PassedIsClean'
  BY <1>1 DEF IInv, AtNext, PageIsCurrent, PassedIsClean, Running
<1> QED BY <1>2, <1>3, <1>4 DEF IInv

-----------------------------------------------------------------------------
(* Theorems.                                                               *)

(* No step of the migrations, of the push helper or of a death breaks the  *)
(* invariant.                                                              *)
LEMMA Invariance == IInv /\ [Next]_vars => IInv'
<1> SUFFICES ASSUME IInv, [Next]_vars PROVE IInv'
  OBVIOUS
<1>1. CASE Run
  BY <1>1, RunInvariant
<1>2. CASE ReadPage
  BY <1>2, ReadInvariant
<1>3. CASE CommitPage
  BY <1>3, CommitInvariant
<1>4. CASE PutVersion
  BY <1>4, PutInvariant
<1>5. CASE \E r \in Rows : Store(r)
  BY <1>5, StoreInvariant
<1>6. CASE Die
  BY <1>6, DieInvariant
<1>7. CASE UNCHANGED vars
  BY <1>7 DEF IInv, MigrationsTypeOK, Migrated, AtNext, PageIsCurrent, PassedIsClean, Running,
              Clean, vars, kvVars, runVars
<1>8. CASE Erase
  BY <1>8, EraseInvariant
<1>9. CASE Raise
  BY <1>9, RaiseInvariant
<1> QED BY <1>1, <1>2, <1>3, <1>4, <1>5, <1>6, <1>7, <1>8, <1>9 DEF Next, Step

(* The variables keep their types.                                         *)
THEOREM MigrationsTyping == Spec => []MigrationsTypeOK
<1>1. IInv => MigrationsTypeOK
  BY DEF IInv
<1> QED BY <1>1, InitInvariant, Invariance, PTL DEF Spec

(* A stored version means that every message can be read.                  *)
THEOREM MigratesAll == Spec => []Migrated
<1>1. IInv => Migrated
  BY DEF IInv
<1> QED BY <1>1, InitInvariant, Invariance, PTL DEF Spec

(* No change of the push helper is undone: a row that a migration writes   *)
(* is, but for the fields it removes, what it was.                         *)
THEOREM UndoesNothing == Spec => NothingUndone
<1>1. ASSUME IInv, [Next]_vars
      PROVE  [Erase \/ \A r \in Rows : db[r].changes <= db'[r].changes]_vars
  <2> SUFFICES ASSUME ~Erase, NEW r \in Rows PROVE db[r].changes <= db'[r].changes
    OBVIOUS
  <2>1. db[r] \in Row /\ db[r].changes \in Nat
    BY <1>1 DEF IInv, MigrationsTypeOK, Row
  <2>2. CASE CommitPage /\ r \in page
    <3>1. db'[r] = [db[r] EXCEPT !.extra = @ \ Removed[at]]
      BY <1>1, <2>2 DEF CommitPage, IInv, PageIsCurrent
    <3> QED BY <2>1, <3>1 DEF Row
  <2>3. CASE CommitPage /\ r \notin page
    BY <2>1, <2>3 DEF CommitPage
  <2>4. CASE \E s \in Rows : Store(s)
    <3>1. PICK s \in Rows : Store(s)
      BY <2>4
    <3>2. db'[r].changes = IF r = s THEN db[r].changes + 1 ELSE db[r].changes
      BY <1>1, <2>1, <3>1 DEF Store, IInv, MigrationsTypeOK, Row
    <3> QED BY <2>1, <3>2
  <2>5. CASE db' = db
    BY <2>1, <2>5
  <2> QED BY <1>1, <2>2, <2>3, <2>4, <2>5
          DEF Next, Step, Run, Raise, ReadPage, PutVersion, Die, vars, kvVars
<1> QED BY <1>1, InitInvariant, Invariance, PTL DEF Spec, NothingUndone

-----------------------------------------------------------------------------
(* Once run_storage_migrations has returned, every message can be read, not*)
(* only those of the versions that were put: what a migration may not have *)
(* removed yet is among the fields of some version.                        *)
DoneIsClean == stage = "done" => \A r \in Rows : Clean(r)

LEMMA LatestIsClean ==
  ASSUME NEW d \in [Rows -> Row], NEW n \in Nat, n >= Latest,
         \A r \in Rows, v \in 1 .. Latest : v <= n => d[r].extra \cap Removed[v] = {}
  PROVE  \A r \in Rows : d[r].extra = {}
<1>. SUFFICES ASSUME NEW r \in Rows, NEW f \in d[r].extra PROVE FALSE
  OBVIOUS
<1>1. f \in Fields
  BY DEF Row
<1>2. PICK v \in 1 .. Latest : f \in Removed[v]
  BY <1>1 DEF Fields
<1>3. v <= n
  BY Constants
<1>. QED
  BY <1>2, <1>3

LEMMA DoneInvariance == IInv /\ DoneIsClean /\ [Next]_vars => DoneIsClean'
<1>. SUFFICES ASSUME IInv, DoneIsClean, [Next]_vars, stage' = "done"
              PROVE  \A r \in Rows : Clean(r)'
  BY DEF DoneIsClean
<1>1. CASE Run \/ PutVersion
  <2>1. IInv'
    BY Invariance
  <2>2. version' \in Nat /\ version' >= Latest
    BY <1>1, Constants DEF Run, Leave, PutVersion, Enter, FirstStage, kvVars, IInv, MigrationsTypeOK, Latest
  <2>. QED
    BY <2>1, <2>2, LatestIsClean DEF IInv, MigrationsTypeOK, Migrated, Clean
<1>2. CASE \E s \in Rows : Store(s)
  <2>1. PICK s \in Rows : Store(s)
    BY <1>2
  <2>2. stage = "done" /\ \A r \in Rows : db'[r].extra = db[r].extra
    BY <2>1 DEF Store, runVars, IInv, MigrationsTypeOK, Row
  <2>. QED
    BY <2>2 DEF DoneIsClean, Clean
<1>3. CASE Erase
  BY <1>3 DEF Erase, Clean, Absent
<1>4. CASE UNCHANGED vars
  BY <1>4 DEF vars, kvVars, runVars, DoneIsClean, Clean
<1>. QED
  BY <1>1, <1>2, <1>3, <1>4 DEF Next, Step, Raise, Leave, ReadPage, CommitPage, Die

(* A run of the migrations that has returned leaves no message that cannot *)
(* be read, and so it stays until the application dies.                    *)
THEOREM DoneMeansClean == Spec => []DoneIsClean
<1>1. Init => DoneIsClean
  BY DEF Init, DoneIsClean
<1>. QED
  BY <1>1, InitInvariant, Invariance, DoneInvariance, PTL DEF Spec

-----------------------------------------------------------------------------
(* The application runs the migrations.                                    *)

(* A page's callback leaves kv.db's messages and the migration alone.      *)
LEMMA CallbacksOnly == Callback => UNCHANGED vars
BY DEF Callback, StartupCallback, Migrating, Found, Installed, Versioned, NotFound, Enters,
       NotInstalled, Toggled, Cleared, Lost, Go, Show

(* A call does, but for the one that erases everything.                    *)
LEMMA CallsEraseOrLeave == CallStep => Erase \/ UNCHANGED vars
BY DEF CallStep

(* Every step of the application is one of the migrations', or none.       *)
LEMMA EveryStep ==
  ASSUME [AppNext]_appVars
  PROVE  [Next]_vars
<1>1. CASE Launch
  BY <1>1 DEF Launch, Next, Step
<1>2. CASE Startup
  <2>1. CASE Migrate
    BY <2>1 DEF Migrate, Next, Step
  <2>2. CASE EndMigration
    BY <2>2 DEF EndMigration
  <2>3. CASE CallStep
    BY <2>3, CallsEraseOrLeave DEF Next
  <2>4. CASE Callback
    BY <2>4, CallbacksOnly
  <2> QED BY <1>2, <2>1, <2>2, <2>3, <2>4 DEF Startup
<1>3. CASE Tap \/ Quit
  BY <1>3 DEF Tap, Quit
<1>4. CASE End
  BY <1>4 DEF End, Next
<1>5. CASE Link \/ Unlink \/ SessionEvent
  BY <1>5 DEF Link, Unlink, SessionEvent
<1>6. CASE ChatTask \/ Rest \/ Elsewhere
  BY <1>6 DEF ChatTask, Rest, Elsewhere
<1>7. CASE Stored
  BY <1>7 DEF Stored, Next
<1>8. CASE UNCHANGED appVars
  BY <1>8 DEF appVars
<1>9. CASE MigrationFails
  BY <1>9 DEF MigrationFails, Next
<1> QED BY <1>1, <1>2, <1>3, <1>4, <1>5, <1>6, <1>7, <1>8, <1>9 DEF AppNext

(* The application implements the specification of the migrations.         *)
THEOREM RunsTheMigrations == AppSpec => Spec
<1>1. AppInit => Init
  BY DEF AppInit
<1>2. [AppNext]_appVars => [Next]_vars
  BY EveryStep
<1> QED BY <1>1, <1>2, PTL DEF AppSpec, Spec

(* A message can be read once its version is stored, and no change of the  *)
(* push helper is undone: in the whole application too.                    *)
THEOREM AppMigrates == AppSpec => []Migrated
BY RunsTheMigrations, MigratesAll, PTL

(* In the whole application, too, no migration undoes a change: only what  *)
(* erases everything does.                                                 *)
THEOREM AppUndoesNothing == AppSpec => NothingUndone
BY RunsTheMigrations, UndoesNothing, PTL

-----------------------------------------------------------------------------
(* What the calls of the pages say.  AnswersTrue needs to know how far a   *)
(* call has come when the unit, the setting or the daemon is as it is      *)
(* (CallsSound); the daemon that dies and returns meanwhile does not change*)
(* what CallsSound says, and the end of the application ends the call.     *)

(* What the step of a call runs, if it is a command.                       *)
LEMMA Commands ==
  /\ CommandAt("loadNew") = Cmd("daemon-reload", "startNew", "failed")
  /\ CommandAt("startNew") = Cmd("start", "enableNew", "failed")
  /\ CommandAt("enableNew") = Cmd("enable", "succeeded", "failed")
  /\ CommandAt("loadOld") = Cmd("daemon-reload", "stopOld", "raised")
  /\ CommandAt("stopOld") = Cmd("stop", "disableOld", "disableOld")
  /\ CommandAt("disableOld") = Cmd("disable", "removeFile", "removeFile")
  /\ CommandAt("forget") = Cmd("daemon-reload", "eraseConfig", "eraseConfig")
  /\ CommandAt("wake") = Cmd("start", "look", "look")
  /\ CommandAt("loadUpdate") = Cmd("daemon-reload", "restartUpdated", "restartUpdated")
  /\ CommandAt("restartUpdated") = Cmd("restart", "compare", "compare")
  /\ CommandAt("restartOutdated") = Cmd("restart", "checked", "checked")
  /\ CommandAt("autostart") = Cmd("enable", "succeeded", "undo")
  /\ CommandAt("noAutostart") = Cmd("disable", "succeeded", "undo")
  /\ CommandAt("leave") = Cmd("stop", "left", "left")
BY DEF CommandAt, InstallCommands, RemoveCommands, StatusCommands, UpdateCommands,
       VersionCommands, SettingCommands, ExitCommands

CommandSteps == {"loadNew", "startNew", "enableNew", "loadOld", "stopOld", "disableOld", "forget",
                 "wake", "loadUpdate", "restartUpdated", "restartOutdated", "autostart",
                 "noAutostart", "leave"}

LEMMA NoCommands ==
  ASSUME NEW step, step \notin CommandSteps
  PROVE  CommandAt(step).command = "none"
BY DEF CommandAt, InstallCommands, RemoveCommands, StatusCommands, UpdateCommands,
       VersionCommands, SettingCommands, ExitCommands, CommandSteps, Cmd

(* A job that a call begins with is sound.                                 *)
LEMMA BeginSound ==
  ASSUME NEW call \in DOMAIN StepsOf \ {"none"}, NEW arg \in BOOLEAN, Begin(call, arg),
         call = "clear" => reply' = NoReply
  PROVE  /\ job' \in [call : DOMAIN StepsOf, step : Steps, arg : BOOLEAN, prev : BOOLEAN,
                      smooth : BOOLEAN, stuck : BOOLEAN]
         /\ job'.step \in StepsOf[job'.call]
         /\ CallsSound'
<1>1. job'.call = call /\ job'.step = First[call]
  BY DEF Begin, Job
<1>2. job' \in [call : DOMAIN StepsOf, step : Steps, arg : BOOLEAN, prev : BOOLEAN,
                smooth : BOOLEAN, stuck : BOOLEAN]
  <2>1. First[call] \in StepsOf[call]
    BY DEF StepsOf, First
  <2>2. First[call] \in Steps
    BY <2>1 DEF Steps
  <2>. QED
    BY <2>2 DEF Begin, Job
<1>3. job'.step \in StepsOf[job'.call]
  BY <1>1 DEF StepsOf, First
<1>4. CallsSound'
  BY <1>1 DEF CallsSound, InstallSound, VersionSound, SetSound, ClearSound, First, StepsOf, Begin, Job
<1>. QED
  BY <1>2, <1>3, <1>4

LEMMA NoJobSound ==
  ASSUME job' = NoJob
  PROVE  /\ job' \in [call : DOMAIN StepsOf, step : Steps, arg : BOOLEAN, prev : BOOLEAN,
                      smooth : BOOLEAN, stuck : BOOLEAN]
         /\ job'.step \in StepsOf[job'.call]
         /\ CallsSound'
<1>1. "none" \in DOMAIN StepsOf /\ "none" \in StepsOf["none"] /\ "none" \in Steps
  BY DEF StepsOf, Steps
<1>2. CallsSound'
  BY DEF NoJob, CallsSound, InstallSound, VersionSound, SetSound, ClearSound
<1>. QED
  BY <1>1, <1>2 DEF NoJob

(* A call that moves on within its steps keeps its argument.               *)
LEMMA GotoTypes ==
  ASSUME ServiceTypeOK, NEW step \in Steps, NEW smooth \in BOOLEAN,
         job' = [job EXCEPT !.step = step, !.smooth = smooth], step \in StepsOf[job.call]
  PROVE  /\ job' \in [call : DOMAIN StepsOf, step : Steps, arg : BOOLEAN, prev : BOOLEAN,
                      smooth : BOOLEAN, stuck : BOOLEAN]
         /\ job'.step \in StepsOf[job'.call]
         /\ job'.call = job.call /\ job'.step = step /\ job'.smooth = smooth
         /\ job'.arg = job.arg /\ job'.prev = job.prev /\ job'.stuck = job.stuck
BY DEF ServiceTypeOK

LEMMA AnswerTypes ==
  ASSUME ServiceTypeOK, NEW said \in Sayings, Answer(said)
  PROVE  /\ reply' \in [call : DOMAIN StepsOf, said : Sayings, arg : BOOLEAN, prev : BOOLEAN,
                        smooth : BOOLEAN, stuck : BOOLEAN]
         /\ reply'.call = job.call /\ reply'.said = said /\ reply'.smooth = job.smooth
         /\ reply'.arg = job.arg /\ reply'.prev = job.prev /\ reply'.stuck = job.stuck
         /\ job' \in [call : DOMAIN StepsOf, step : Steps, arg : BOOLEAN, prev : BOOLEAN,
                      smooth : BOOLEAN, stuck : BOOLEAN]
         /\ job'.step \in StepsOf[job'.call]
         /\ CallsSound'
BY NoJobSound DEF Answer, ServiceTypeOK

(* A systemctl command.                                                    *)
LEMMA SystemctlSound ==
  ASSUME ServiceTypeOK, CallsSound, Systemctl
  PROVE  ServiceTypeOK' /\ CallsSound' /\ UNCHANGED reply
<1>1. job.step \in CommandSteps
  BY NoCommands DEF Systemctl
<1>2. /\ UNCHANGED <<unit, stopOnExit, kept, linked, loop, reply>>
      /\ running' \in {"no", "failed", "old", "new"} /\ enabled' \in BOOLEAN
  BY DEF Systemctl, ServiceTypeOK
<1>. DEFINE c == CommandAt(job.step)
<1>3. PICK ok \in BOOLEAN :
        /\ job' = [job EXCEPT !.step = IF ok THEN c.done ELSE c.failed,
                              !.smooth = IF ok THEN job.smooth ELSE FALSE]
        /\ ~ok => UNCHANGED <<running, enabled>>
        /\ ok => /\ running' = CASE c.command = "start" /\ ~Active -> "new"
                                 [] c.command = "restart" -> "new"
                                 [] c.command = "stop" -> "no"
                                 [] OTHER -> running
                 /\ enabled' = (c.command = "enable" \/ (enabled /\ c.command # "disable"))
  <2>1. CASE Slip(c.failed) /\ UNCHANGED <<running, enabled>>
    <3>. WITNESS FALSE \in BOOLEAN
    <3>. QED
      BY <2>1 DEF Slip
  <2>2. CASE /\ running' = CASE c.command = "start" /\ ~Active -> "new"
                              [] c.command = "restart" -> "new"
                              [] c.command = "stop" -> "no"
                              [] OTHER -> running
             /\ enabled' = (c.command = "enable" \/ (enabled /\ c.command # "disable"))
             /\ Goto(c.done)
    <3>. WITNESS TRUE \in BOOLEAN
    <3>1. job' = [job EXCEPT !.step = c.done, !.smooth = job.smooth]
      BY <2>2 DEF Goto, ServiceTypeOK
    <3>. QED
      BY <2>2, <3>1
  <2>. QED
    BY <2>1, <2>2 DEF Systemctl
<1>4. (IF ok THEN c.done ELSE c.failed) \in StepsOf[job.call]
  BY <1>1, Commands DEF CommandSteps, Cmd, ServiceTypeOK, StepsOf
<1>5. (IF ok THEN c.done ELSE c.failed) \in Steps
  BY <1>4 DEF ServiceTypeOK, Steps
<1>6. /\ job' \in [call : DOMAIN StepsOf, step : Steps, arg : BOOLEAN, prev : BOOLEAN,
                   smooth : BOOLEAN, stuck : BOOLEAN]
      /\ job'.step \in StepsOf[job'.call]
      /\ job'.call = job.call /\ job'.step = (IF ok THEN c.done ELSE c.failed)
      /\ job'.smooth = (IF ok THEN job.smooth ELSE FALSE)
      /\ job'.arg = job.arg /\ job'.prev = job.prev /\ job'.stuck = job.stuck
  <2>1. (IF ok THEN job.smooth ELSE FALSE) \in BOOLEAN
    BY DEF ServiceTypeOK
  <2>. QED
    BY <1>3, <1>4, <1>5, <2>1, GotoTypes
<1>7. InstallSound'
  <2>. SUFFICES ASSUME job.call = "install" PROVE InstallSound'
    BY <1>6 DEF InstallSound
  <2>1. job.step \in {"loadNew", "startNew", "enableNew"}
    BY <1>1 DEF ServiceTypeOK, StepsOf, CommandSteps
  <2>. QED
    BY <1>2, <1>3, <1>6, <2>1, Commands DEF Cmd, CallsSound, InstallSound
<1>8. VersionSound'
  <2>. SUFFICES ASSUME job.call = "version" PROVE VersionSound'
    BY <1>6 DEF VersionSound
  <2>1. job.step \in {"loadUpdate", "restartUpdated", "restartOutdated"}
    BY <1>1 DEF ServiceTypeOK, StepsOf, CommandSteps
  <2>. QED
    BY <1>2, <1>3, <1>6, <2>1, Commands DEF Cmd, CallsSound, VersionSound
<1>9. SetSound'
  <2>. SUFFICES ASSUME job.call = "set" PROVE SetSound'
    BY <1>6 DEF SetSound
  <2>1. job.step \in {"autostart", "noAutostart"}
    BY <1>1 DEF ServiceTypeOK, StepsOf, CommandSteps
  <2>. QED
    BY <1>2, <1>3, <1>6, <2>1, Commands DEF Cmd, CallsSound, SetSound, ServiceTypeOK
<1>10. ClearSound'
  <2>. SUFFICES ASSUME job.call = "clear" PROVE ClearSound'
    BY <1>6 DEF ClearSound
  <2>0. reply' = NoReply
    BY <1>2 DEF CallsSound, ClearSound
  <2>1. job.step \in {"loadOld", "stopOld", "disableOld", "forget"}
    BY <1>1 DEF ServiceTypeOK, StepsOf, CommandSteps
  <2>2. CASE job.step = "loadOld"
    BY <1>6, <2>0, <2>2, Commands DEF Cmd, ClearSound
  <2>3. CASE job.step = "stopOld"
    BY <1>3, <1>6, <2>0, <2>3, Commands DEF Cmd, ClearSound
  <2>4. CASE job.step = "disableOld"
    <3>1. c.command = "disable" /\ c.done = "removeFile" /\ c.failed = "removeFile"
      BY <2>4, Commands DEF Cmd
    <3>2. job'.step = "removeFile" /\ (job'.smooth => ok /\ job.smooth)
      BY <1>6, <3>1
    <3>3. ok => running' = running /\ enabled' = (enabled /\ FALSE)
      BY <1>3, <3>1
    <3>. QED
      BY <1>2, <1>6, <2>0, <2>4, <3>2, <3>3 DEF CallsSound, ClearSound
  <2>5. CASE job.step = "forget"
    <3>1. c.command = "daemon-reload" /\ c.done = "eraseConfig" /\ c.failed = "eraseConfig"
      BY <2>5, Commands DEF Cmd
    <3>2. job'.step = "eraseConfig" /\ (job'.smooth => ok /\ job.smooth)
      BY <1>6, <3>1
    <3>3. ok => running' = running /\ enabled' = (enabled /\ TRUE)
      BY <1>3, <3>1
    <3>. QED
      BY <1>2, <1>6, <2>0, <2>5, <3>2, <3>3 DEF CallsSound, ClearSound
  <2>. QED
    BY <2>1, <2>2, <2>3, <2>4, <2>5
<1>. QED
  BY <1>2, <1>6, <1>7, <1>8, <1>9, <1>10 DEF ServiceTypeOK, CallsSound

(* A step that changes neither the unit nor the setting, and moves on.     *)
LEMMA MoveSound ==
  ASSUME ServiceTypeOK, NEW step \in StepsOf[job.call], Goto(step)
  PROVE  /\ job' \in [call : DOMAIN StepsOf, step : Steps, arg : BOOLEAN, prev : BOOLEAN,
                      smooth : BOOLEAN, stuck : BOOLEAN]
         /\ job'.step \in StepsOf[job'.call]
         /\ job'.call = job.call /\ job'.step = step /\ job'.smooth = job.smooth
         /\ job'.arg = job.arg /\ job'.prev = job.prev /\ job'.stuck = job.stuck
<1>1. step \in Steps
  BY DEF ServiceTypeOK, Steps
<1>2. job.smooth \in BOOLEAN /\ job' = [job EXCEPT !.step = step, !.smooth = job.smooth]
  BY DEF Goto, ServiceTypeOK
<1>. QED
  BY <1>1, <1>2, GotoTypes

LEMMA InstallSteps ==
  ASSUME ServiceTypeOK, CallsSound, Copy
  PROVE  ServiceTypeOK' /\ CallsSound' /\ UNCHANGED reply
<1>1. job.call = "install" /\ {"loadNew", "failed"} \subseteq StepsOf[job.call]
  BY DEF Copy, At, ServiceTypeOK, StepsOf
<1>2. /\ UNCHANGED <<enabled, running, reply, stopOnExit, kept, linked, loop>>
      /\ unit' \in {"none", "old", "new"}
  BY DEF Copy, LeaveRest, ServiceTypeOK
<1>3. PICK step \in {"loadNew", "failed"} : Goto(step) /\ (step = "loadNew" => unit' = "new")
  BY DEF Copy
<1>4. /\ job' \in [call : DOMAIN StepsOf, step : Steps, arg : BOOLEAN, prev : BOOLEAN,
                   smooth : BOOLEAN, stuck : BOOLEAN]
      /\ job'.step \in StepsOf[job'.call]
      /\ job'.call = job.call /\ job'.step = step
  BY <1>1, <1>3, MoveSound
<1>5. CallsSound'
  BY <1>1, <1>3, <1>4 DEF CallsSound, InstallSound, VersionSound, SetSound, ClearSound
<1>. QED
  BY <1>2, <1>4, <1>5 DEF ServiceTypeOK

LEMMA VersionSteps ==
  ASSUME ServiceTypeOK, CallsSound, Update \/ Compare
  PROVE  ServiceTypeOK' /\ CallsSound' /\ UNCHANGED reply
<1>1. /\ job.call = "version"
      /\ {"checked", "compare", "loadUpdate", "raised", "restartOutdated"} \subseteq StepsOf[job.call]
  BY DEF Update, Compare, At, ServiceTypeOK, StepsOf
<1>2. /\ UNCHANGED <<enabled, running, reply, stopOnExit, kept, linked, loop>>
      /\ unit' \in {"none", "old", "new"}
  BY DEF Update, Compare, LeaveUnit, LeaveRest, ServiceTypeOK
<1>3. PICK step \in {"checked", "compare", "loadUpdate", "raised", "restartOutdated"},
            smooth \in BOOLEAN :
        /\ job' = [job EXCEPT !.step = step, !.smooth = smooth]
        /\ smooth /\ step \in {"loadUpdate", "compare", "restartOutdated"} => unit' = "new"
        /\ smooth /\ step = "checked" => unit' = "none" \/ (unit' = "new" /\ running' # "old")
  <2>0. job = [job EXCEPT !.smooth = job.smooth] /\ job.smooth \in BOOLEAN
    BY DEF ServiceTypeOK
  <2>1. CASE Update
    <3>1. CASE Slip("compare")
      BY <3>1 DEF Slip
    <3>2. CASE ~Slip("compare")
      <4>1. PICK step \in {"checked", "compare", "loadUpdate", "raised"} :
              /\ Goto(step) /\ (step \in {"loadUpdate", "compare"} => unit' = "new")
              /\ step = "checked" => unit' = "none"
        BY <2>1, <3>2 DEF Update
      <4>2. job' = [job EXCEPT !.step = step, !.smooth = job.smooth]
        BY <4>1, <2>0 DEF Goto, ServiceTypeOK
      <4>. QED
        BY <2>0, <4>1, <4>2
    <3>. QED
      BY <3>1, <3>2
  <2>2. CASE Compare
    <3>1. CASE Slip("checked")
      BY <3>1 DEF Slip
    <3>2. CASE ~Slip("checked")
      <4>1. PICK step \in {"checked", "restartOutdated"} :
              Goto(step) /\ (step = "checked" => running # "old")
        BY <2>2, <3>2 DEF Compare
      <4>2. job' = [job EXCEPT !.step = step, !.smooth = job.smooth]
        BY <4>1, <2>0 DEF Goto, ServiceTypeOK
      <4>3. job.step = "compare" /\ unit' = unit /\ running' = running
        BY <2>2 DEF Compare, At, LeaveUnit
      <4>4. job.smooth => unit' = "new"
        BY <1>1, <4>3 DEF CallsSound, VersionSound
      <4>. QED
        BY <2>0, <4>1, <4>2, <4>3, <4>4
    <3>. QED
      BY <3>1, <3>2
  <2>. QED
    BY <2>1, <2>2
<1>4. /\ job' \in [call : DOMAIN StepsOf, step : Steps, arg : BOOLEAN, prev : BOOLEAN,
                   smooth : BOOLEAN, stuck : BOOLEAN]
      /\ job'.step \in StepsOf[job'.call]
      /\ job'.call = job.call /\ job'.step = step /\ job'.smooth = smooth
  <2>1. step \in Steps /\ step \in StepsOf[job.call]
    BY <1>1 DEF ServiceTypeOK, Steps
  <2>. QED
    BY <1>3, <2>1, GotoTypes
<1>5. CallsSound'
  BY <1>1, <1>3, <1>4 DEF CallsSound, InstallSound, VersionSound, SetSound, ClearSound
<1>. QED
  BY <1>2, <1>4, <1>5 DEF ServiceTypeOK

LEMMA SettingSteps ==
  ASSUME ServiceTypeOK, CallsSound, PutSetting \/ Undo
  PROVE  ServiceTypeOK' /\ CallsSound' /\ UNCHANGED reply
<1>1. /\ job.call = "set"
      /\ {"autostart", "noAutostart", "failed"} \subseteq StepsOf[job.call]
  BY DEF PutSetting, Undo, At, ServiceTypeOK, StepsOf
<1>2. UNCHANGED <<unit, enabled, running, reply, kept, linked, loop>> /\ stopOnExit' \in BOOLEAN
  BY DEF PutSetting, Undo, LeaveUnit, ServiceTypeOK
<1>3. PICK step \in {"autostart", "noAutostart", "failed"}, prev \in BOOLEAN, stuck \in BOOLEAN :
        /\ job' = [job EXCEPT !.prev = prev, !.step = step, !.stuck = stuck]
        /\ step = "failed" => stopOnExit' = IF stuck THEN job.arg ELSE prev
        /\ step # "failed" => stopOnExit' = job.arg /\ job.arg = (step = "noAutostart") /\ ~stuck
  <2>0. /\ job.stuck = FALSE /\ job.prev \in BOOLEAN /\ job.arg \in BOOLEAN /\ stopOnExit \in BOOLEAN
        /\ job.step = "undo" => stopOnExit = job.arg
        /\ job = [job EXCEPT !.prev = job.prev] /\ job = [job EXCEPT !.stuck = FALSE]
    BY <1>1 DEF PutSetting, Undo, At, CallsSound, SetSound, ServiceTypeOK
  <2>1. CASE Undo /\ stopOnExit' = job.prev /\ Goto("failed")
    <3>1. job' = [job EXCEPT !.prev = job.prev, !.step = "failed", !.stuck = FALSE]
      BY <2>0, <2>1 DEF Goto, ServiceTypeOK
    <3>. QED
      BY <2>0, <2>1, <3>1
  <2>2. CASE Undo /\ job' = [job EXCEPT !.step = "failed", !.stuck = TRUE] /\ stopOnExit' = stopOnExit
    <3>1. job' = [job EXCEPT !.prev = job.prev, !.step = "failed", !.stuck = TRUE]
      BY <2>0, <2>2 DEF ServiceTypeOK
    <3>2. stopOnExit' = job.arg
      BY <2>0, <2>2 DEF Undo, At
    <3>. QED
      BY <2>0, <3>1, <3>2
  <2>3. CASE PutSetting /\ job'.step = "failed"
    <3>1. stopOnExit' = stopOnExit /\ job' = [job EXCEPT !.prev = stopOnExit, !.step = "failed"]
      BY <2>3 DEF PutSetting, ServiceTypeOK
    <3>2. job' = [job EXCEPT !.prev = stopOnExit, !.step = "failed", !.stuck = FALSE]
      BY <2>0, <3>1 DEF ServiceTypeOK
    <3>. QED
      BY <2>0, <3>1, <3>2
  <2>4. CASE PutSetting /\ job'.step # "failed"
    <3>. DEFINE there == IF job.arg THEN "noAutostart" ELSE "autostart"
    <3>1. stopOnExit' = job.arg /\ job' = [job EXCEPT !.prev = stopOnExit, !.step = there]
      BY <2>4 DEF PutSetting, ServiceTypeOK
    <3>2. job' = [job EXCEPT !.prev = stopOnExit, !.step = there, !.stuck = FALSE]
      BY <2>0, <3>1 DEF ServiceTypeOK
    <3>3. CASE job.arg
      BY <2>0, <3>1, <3>2, <3>3
    <3>4. CASE ~job.arg
      BY <2>0, <3>1, <3>2, <3>4
    <3>. QED
      BY <3>3, <3>4
  <2>. QED
    BY <2>1, <2>2, <2>3, <2>4 DEF Undo
<1>4. /\ job'.call = job.call /\ job'.step = step /\ job'.prev = prev /\ job'.stuck = stuck
      /\ job'.arg = job.arg /\ job'.smooth = job.smooth
  BY <1>3 DEF ServiceTypeOK
<1>5. /\ job' \in [call : DOMAIN StepsOf, step : Steps, arg : BOOLEAN, prev : BOOLEAN,
                   smooth : BOOLEAN, stuck : BOOLEAN]
      /\ job'.step \in StepsOf[job'.call]
  <2>1. step \in Steps
    BY <1>1 DEF ServiceTypeOK, Steps
  <2>. QED
    BY <1>1, <1>3, <1>4, <2>1 DEF ServiceTypeOK
<1>6. CallsSound'
  BY <1>1, <1>3, <1>4 DEF CallsSound, InstallSound, VersionSound, SetSound, ClearSound
<1>. QED
  BY <1>2, <1>5, <1>6 DEF ServiceTypeOK

LEMMA OtherSteps ==
  ASSUME ServiceTypeOK, CallsSound, Test \/ ReadSetting
  PROVE  ServiceTypeOK' /\ CallsSound' /\ UNCHANGED reply
<1>1. PICK step \in StepsOf[job.call] : Goto(step)
  BY DEF Test, ReadSetting, At, ServiceTypeOK, StepsOf
<1>2. job.call \in {"status", "exit"}
  BY DEF Test, ReadSetting, At, ServiceTypeOK, StepsOf
<1>3. UNCHANGED <<unit, enabled, running, reply, stopOnExit, kept, linked, loop>>
  BY DEF Test, ReadSetting, LeaveUnit, LeaveRest
<1>4. /\ job' \in [call : DOMAIN StepsOf, step : Steps, arg : BOOLEAN, prev : BOOLEAN,
                   smooth : BOOLEAN, stuck : BOOLEAN]
      /\ job'.step \in StepsOf[job'.call]
      /\ job'.call = job.call
  BY <1>1, MoveSound
<1>5. CallsSound'
  BY <1>2, <1>4 DEF CallsSound, InstallSound, VersionSound, SetSound, ClearSound
<1>. QED
  BY <1>3, <1>4, <1>5 DEF ServiceTypeOK

LEMMA ClearSteps ==
  ASSUME ServiceTypeOK, CallsSound,
         StopLoop \/ RemoveFile \/ EraseConfig \/ (EraseCache /\ Goto("raised"))
  PROVE  ServiceTypeOK' /\ CallsSound' /\ UNCHANGED reply
<1>1. job.call = "clear" /\ {"loadOld", "forget", "eraseCache", "raised"} \subseteq StepsOf[job.call]
  <2>1. job.step \in {"stopLoop", "removeFile", "eraseConfig", "eraseCache"}
    BY DEF StopLoop, RemoveFile, EraseConfig, EraseCache, At
  <2>. QED
    BY <2>1 DEF ServiceTypeOK, StepsOf
<1>2. /\ UNCHANGED <<enabled, running>>
      /\ unit' \in {"none", "old", "new"} /\ stopOnExit' \in BOOLEAN
      /\ kept' \in {"kept", "gone", "late"} /\ linked' \in BOOLEAN
      /\ loop' \in {"off", "on", "ending"}
  BY DEF StopLoop, RemoveFile, EraseConfig, EraseCache, LeaveUnit, LeaveRest, ServiceTypeOK
<1>3. reply' = reply /\ reply = NoReply
  <2>1. reply = NoReply
    BY <1>1 DEF CallsSound, ClearSound
  <2>2. CASE EraseCache /\ Goto("raised")
    <3>1. ~Answer("success")
      BY <1>1, <2>2 DEF Answer, NoJob, Goto, ServiceTypeOK
    <3>. QED
      BY <2>1, <2>2, <3>1 DEF EraseCache
  <2>. QED
    BY <2>1, <2>2 DEF StopLoop, RemoveFile, EraseConfig
<1>4. PICK step \in {"loadOld", "forget", "eraseCache", "raised"} :
        /\ Goto(step)
        /\ step = "forget" => unit' = "none" /\ job.step = "removeFile"
        /\ step = "eraseCache" => /\ job.step = "eraseConfig" /\ unit' = unit
                                 /\ kept' = "gone" /\ stopOnExit' = FALSE
  BY DEF StopLoop, RemoveFile, EraseConfig, At, LeaveUnit
<1>5. /\ job' \in [call : DOMAIN StepsOf, step : Steps, arg : BOOLEAN, prev : BOOLEAN,
                   smooth : BOOLEAN, stuck : BOOLEAN]
      /\ job'.step \in StepsOf[job'.call]
      /\ job'.call = job.call /\ job'.step = step /\ job'.smooth = job.smooth
  BY <1>1, <1>4, MoveSound
<1>6. CallsSound'
  <2>1. ClearSound'
    BY <1>1, <1>2, <1>3, <1>4, <1>5 DEF CallsSound, ClearSound
  <2>. QED
    BY <1>1, <1>5, <2>1 DEF CallsSound, InstallSound, VersionSound, SetSound
<1>. QED
  BY <1>2, <1>3, <1>5, <1>6 DEF ServiceTypeOK

(* The last step of a call answers, and its answer holds.                  *)
LEMMA AnswerSound ==
  ASSUME ServiceTypeOK, CallsSound,
         \/ Look \/ Checked \/ AskSession \/ Left \/ Succeeded \/ Failed \/ Raised
         \/ (EraseCache /\ Answer("success"))
  PROVE  ServiceTypeOK' /\ CallsSound' /\ AnswerHolds'
<1>1. CASE Look
  <2>1. job.call = "status"
    BY <1>1 DEF Look, At, ServiceTypeOK, StepsOf
  <2>. DEFINE said == IF unit = "none" THEN "absent" ELSE IF Active THEN "active" ELSE "inactive"
  <2>2. Answer(said) /\ said \in Sayings
    BY <1>1 DEF Look, Sayings
  <2>3. said' = said /\ UNCHANGED <<unit, enabled, running, stopOnExit, kept, linked, loop>>
    BY <1>1 DEF Look, LeaveUnit, LeaveRest, Active
  <2>4. /\ reply'.call = "status" /\ reply'.said = said
    BY <2>1, <2>2, AnswerTypes
  <2>5. AnswerHolds'
    BY <2>3, <2>4 DEF AnswerHolds
  <2>. QED
    BY <2>2, <2>3, <2>5, AnswerTypes DEF ServiceTypeOK
<1>2. CASE Checked
  <2>1. job.call = "version"
    BY <1>2 DEF Checked, At, ServiceTypeOK, StepsOf
  <2>2. Answer("success") /\ "success" \in Sayings
    BY <1>2 DEF Checked, Sayings
  <2>3. UNCHANGED <<unit, enabled, running, stopOnExit, kept, linked, loop>>
    BY <1>2 DEF Checked, LeaveUnit, LeaveRest
  <2>4. /\ reply'.call = "version" /\ reply'.said = "success" /\ reply'.smooth = job.smooth
    BY <2>1, <2>2, AnswerTypes
  <2>5. AnswerHolds'
    BY <1>2, <2>1, <2>3, <2>4 DEF AnswerHolds, CallsSound, VersionSound, Checked, At
  <2>. QED
    BY <2>2, <2>3, <2>5, AnswerTypes DEF ServiceTypeOK
<1>3. CASE AskSession
  <2>1. job.call = "session"
    BY <1>3 DEF AskSession, At, ServiceTypeOK, StepsOf
  <2>2. PICK said \in {"in", "raised", "out"} : Answer(said) /\ (said = "in" => Active /\ linked)
    BY <1>3 DEF AskSession
  <2>3. UNCHANGED <<unit, enabled, running, stopOnExit, kept, linked, loop>>
    BY <1>3 DEF AskSession, LeaveUnit, LeaveRest
  <2>4. said \in Sayings
    BY DEF Sayings
  <2>5. /\ reply'.call = "session" /\ reply'.said = said
    BY <2>1, <2>2, <2>4, AnswerTypes
  <2>6. AnswerHolds'
    BY <2>2, <2>3, <2>5 DEF AnswerHolds, Active
  <2>. QED
    BY <2>2, <2>3, <2>4, <2>6, AnswerTypes DEF ServiceTypeOK
<1>4. CASE Left \/ Raised
  <2>1. job.call \in {"exit", "version", "clear"}
    BY <1>4 DEF Left, Raised, At, ServiceTypeOK, StepsOf
  <2>2. PICK said \in {"success", "raised"} :
          Answer(said) /\ (said = "success" => job.call = "exit")
    BY <1>4 DEF Left, Raised, At, ServiceTypeOK, StepsOf
  <2>3. UNCHANGED <<unit, enabled, running, stopOnExit, kept, linked, loop>>
    BY <1>4 DEF Left, Raised, LeaveUnit, LeaveRest
  <2>4. said \in Sayings
    BY DEF Sayings
  <2>5. reply'.call = job.call /\ reply'.said = said
    BY <2>2, <2>4, AnswerTypes
  <2>6. AnswerHolds'
    BY <2>1, <2>2, <2>5 DEF AnswerHolds
  <2>. QED
    BY <2>2, <2>3, <2>4, <2>6, AnswerTypes DEF ServiceTypeOK
<1>5. CASE Succeeded
  <2>1. job.call \in {"install", "set"}
    BY <1>5 DEF Succeeded, At, ServiceTypeOK, StepsOf
  <2>2. Answer("success") /\ "success" \in Sayings
    BY <1>5 DEF Succeeded, Sayings
  <2>3. UNCHANGED <<unit, enabled, running, stopOnExit, kept, linked, loop>>
    BY <1>5 DEF Succeeded, LeaveUnit, LeaveRest
  <2>4. reply'.call = job.call /\ reply'.said = "success" /\ reply'.arg = job.arg
    BY <2>2, AnswerTypes
  <2>5. AnswerHolds'
    <3>1. CASE job.call = "install"
      BY <1>5, <2>3, <2>4, <3>1 DEF AnswerHolds, CallsSound, InstallSound, Succeeded, At
    <3>2. CASE job.call = "set"
      BY <1>5, <2>3, <2>4, <3>2 DEF AnswerHolds, CallsSound, SetSound, Succeeded, At
    <3>. QED
      BY <2>1, <3>1, <3>2
  <2>. QED
    BY <2>2, <2>3, <2>5, AnswerTypes DEF ServiceTypeOK
<1>6. CASE Failed
  <2>1. job.call \in {"install", "set"}
    BY <1>6 DEF Failed, At, ServiceTypeOK, StepsOf
  <2>2. Answer("failure") /\ "failure" \in Sayings
    BY <1>6 DEF Failed, Sayings
  <2>3. UNCHANGED <<unit, enabled, running, stopOnExit, kept, linked, loop>>
    BY <1>6 DEF Failed, LeaveUnit, LeaveRest
  <2>4. /\ reply'.call = job.call /\ reply'.said = "failure"
        /\ reply'.arg = job.arg /\ reply'.prev = job.prev /\ reply'.stuck = job.stuck
    BY <2>2, AnswerTypes
  <2>5. AnswerHolds'
    <3>1. CASE job.call = "install"
      BY <2>4, <3>1 DEF AnswerHolds
    <3>2. CASE job.call = "set"
      BY <1>6, <2>3, <2>4, <3>2 DEF AnswerHolds, CallsSound, SetSound, Failed, At
    <3>. QED
      BY <2>1, <3>1, <3>2
  <2>. QED
    BY <2>2, <2>3, <2>5, AnswerTypes DEF ServiceTypeOK
<1>7. CASE EraseCache /\ Answer("success")
  <2>1. job.call = "clear"
    BY <1>7 DEF EraseCache, At, ServiceTypeOK, StepsOf
  <2>2. UNCHANGED <<unit, enabled, running, stopOnExit, kept, linked, loop>>
    BY <1>7 DEF EraseCache, LeaveUnit, LeaveRest
  <2>3. reply'.call = "clear" /\ reply'.said = "success" /\ reply'.smooth = job.smooth
    BY <1>7, <2>1, AnswerTypes DEF Sayings
  <2>4. AnswerHolds'
    BY <1>7, <2>1, <2>2, <2>3 DEF AnswerHolds, CallsSound, ClearSound, EraseCache, At
  <2>. QED
    BY <1>7, <2>2, <2>4, AnswerTypes DEF ServiceTypeOK, Sayings
<1>. QED
  BY <1>1, <1>2, <1>3, <1>4, <1>5, <1>6, <1>7

(* So every step of a call keeps what the next ones rely on.               *)
LEMMA WorkSound ==
  ASSUME ServiceTypeOK, CallsSound, Work
  PROVE  ServiceTypeOK' /\ CallsSound' /\ (UNCHANGED reply \/ AnswerHolds')
<1>1. EraseCache => Goto("raised") \/ Answer("success")
  BY DEF EraseCache
<1>. QED
  BY <1>1, SystemctlSound, InstallSteps, VersionSteps, SettingSteps, OtherSteps, ClearSteps,
     AnswerSound
     DEF Work

LEMMA ServiceInitial == AppInit => ServiceTypeOK /\ CallsSound
<1>. SUFFICES ASSUME AppInit PROVE ServiceTypeOK /\ CallsSound
  OBVIOUS
<1>1. "none" \in DOMAIN StepsOf /\ "none" \in StepsOf["none"] /\ "none" \in Steps
  BY DEF StepsOf, Steps
<1>2. ServiceTypeOK
  BY <1>1 DEF AppInit, ServiceInit, ServiceTypeOK, NoJob, NoReply, Sayings
<1>3. CallsSound
  BY DEF AppInit, ServiceInit, NoJob, CallsSound, InstallSound, VersionSound, SetSound, ClearSound
<1>. QED
  BY <1>2, <1>3

LEMMA NoReplyTyped ==
  NoReply \in [call : DOMAIN StepsOf, said : Sayings, arg : BOOLEAN, prev : BOOLEAN,
               smooth : BOOLEAN, stuck : BOOLEAN]
BY DEF NoReply, StepsOf, Sayings

(* A page's callback takes the answer, and may begin another call.         *)
LEMMA CallbackSound ==
  ASSUME ServiceTypeOK, CallsSound, Callback
  PROVE  ServiceTypeOK' /\ CallsSound' /\ reply' = NoReply
<1>1. CASE Migrating \/ Found \/ Installed \/ Versioned
  <2>1. PICK call \in {"status", "version", "session"} : Go(call)
    BY <1>1 DEF Migrating, Found, Installed, Versioned
  <2>2. call \in DOMAIN StepsOf \ {"none"}
    BY DEF StepsOf
  <2>3. /\ Begin(call, FALSE) /\ reply' = NoReply
        /\ UNCHANGED <<unit, enabled, running, stopOnExit, linked, kept, loop>>
    BY <2>1 DEF Go, Taken, LeaveService
  <2>4. /\ job' \in [call : DOMAIN StepsOf, step : Steps, arg : BOOLEAN, prev : BOOLEAN,
                     smooth : BOOLEAN, stuck : BOOLEAN]
        /\ job'.step \in StepsOf[job'.call]
        /\ CallsSound'
    BY <2>2, <2>3, BeginSound
  <2>. QED
    BY <2>3, <2>4, NoReplyTyped DEF ServiceTypeOK
<1>2. CASE NotFound \/ Enters \/ NotInstalled \/ Toggled \/ Cleared \/ Lost
  <2>1. /\ UNCHANGED <<unit, enabled, running, stopOnExit, linked, job>>
        /\ reply' = NoReply
        /\ kept' \in {kept, "kept"} /\ loop' \in {loop, "on"}
        /\ kept' # kept => reply.call = "session"
    BY <1>2 DEF NotFound, Enters, NotInstalled, Toggled, Cleared, Lost, Show, Taken, LeaveService,
                Answered
  <2>2. job.call = "clear" => kept' = kept
    BY <2>1 DEF CallsSound, ClearSound, NoReply
  <2>. QED
    BY <2>1, <2>2, NoReplyTyped DEF ServiceTypeOK, CallsSound, InstallSound, VersionSound, SetSound,
                              ClearSound
<1>. QED
  BY <1>1, <1>2 DEF Callback, StartupCallback

(* What happens meanwhile does not disturb a call: a daemon that is not    *)
(* running stays so, one that returns is new.                              *)
LEMMA MeanwhileSound ==
  ASSUME ServiceTypeOK, CallsSound, Meanwhile
  PROVE  ServiceTypeOK' /\ CallsSound' /\ UNCHANGED reply
<1>1. /\ UNCHANGED <<unit, enabled, stopOnExit, linked, job, reply>>
      /\ kept' \in {kept, "gone", "late"} /\ loop' \in {loop, "off"}
      /\ running' = running \/ (running # "no" /\ running' \in {"failed", "new"})
  BY DEF Meanwhile, DaemonDies, DaemonReturns, LoopEnds, Active
<1>2. ServiceTypeOK'
  BY <1>1 DEF ServiceTypeOK
<1>3. CallsSound'
  BY <1>1 DEF CallsSound, InstallSound, VersionSound, SetSound, ClearSound
<1>. QED
  BY <1>1, <1>2, <1>3

LEMMA ServiceStep ==
  ASSUME ServiceTypeOK, CallsSound, [AppNext]_appVars
  PROVE  /\ ServiceTypeOK' /\ CallsSound'
         /\ UNCHANGED reply \/ reply' = NoReply \/ AnswerHolds'
<1>1. CASE Launch
  <2>1. /\ UNCHANGED <<unit, enabled, running, stopOnExit, linked, loop, reply>>
        /\ kept' = "kept" /\ Begin("migrate", FALSE)
    BY <1>1 DEF Launch, Begin
  <2>2. "migrate" \in DOMAIN StepsOf \ {"none"}
    BY DEF StepsOf
  <2>3. /\ job' \in [call : DOMAIN StepsOf, step : Steps, arg : BOOLEAN, prev : BOOLEAN,
                     smooth : BOOLEAN, stuck : BOOLEAN]
        /\ job'.step \in StepsOf[job'.call]
        /\ CallsSound'
    BY <2>1, <2>2, BeginSound
  <2>. QED
    BY <2>1, <2>3 DEF ServiceTypeOK
<1>2. CASE Migrate \/ MigrationFails
  BY <1>2 DEF Migrate, MigrationFails, serviceVars, ServiceTypeOK, CallsSound, InstallSound, VersionSound,
              SetSound, ClearSound
<1>3. CASE EndMigration
  <2>1. PICK said \in {"success", "raised"} : Answer(said)
    BY <1>3 DEF EndMigration
  <2>2. /\ job.call = "migrate" /\ said \in Sayings
        /\ UNCHANGED <<unit, enabled, running, stopOnExit, linked, kept, loop>>
    BY <1>3 DEF EndMigration, Sayings
  <2>3. reply'.call = "migrate"
    BY <2>1, <2>2, AnswerTypes
  <2>4. AnswerHolds'
    BY <2>3 DEF AnswerHolds
  <2>. QED
    BY <2>1, <2>2, <2>4, AnswerTypes DEF ServiceTypeOK
<1>4. CASE CallStep
  BY <1>4, WorkSound DEF CallStep
<1>5. CASE Callback
  BY <1>5, CallbackSound
<1>6. CASE Tap \/ Quit
  <2>1. PICK call \in {"install", "clear", "set", "exit"}, arg \in BOOLEAN : Begin(call, arg)
    BY <1>6 DEF Tap, Quit
  <2>2. call \in DOMAIN StepsOf \ {"none"}
    BY DEF StepsOf
  <2>3. UNCHANGED <<unit, enabled, running, stopOnExit, linked, kept, loop, reply>> /\ reply = NoReply
    BY <1>6 DEF Tap, Quit, LeaveService, Idle
  <2>. QED
    BY <2>1, <2>2, <2>3, BeginSound DEF ServiceTypeOK
<1>7. CASE End
  <2>1. /\ UNCHANGED <<unit, enabled, stopOnExit, kept, linked>>
        /\ job' = NoJob /\ reply' = NoReply /\ loop' = "off"
        /\ running' \in {running, "new", "no"}
    BY <1>7 DEF End
  <2>. QED
    BY <2>1, NoJobSound, NoReplyTyped DEF ServiceTypeOK
<1>8. CASE Link \/ Unlink \/ SessionEvent \/ ChatTask \/ Rest \/ Stored \/ UNCHANGED appVars
  <2>1. /\ UNCHANGED <<unit, enabled, running, stopOnExit, kept, loop, job, reply>>
        /\ linked' \in BOOLEAN
    BY <1>8 DEF Link, Unlink, SessionEvent, ChatTask, Rest, Stored, serviceVars, appVars,
                ServiceTypeOK
  <2>2. ServiceTypeOK'
    BY <2>1 DEF ServiceTypeOK
  <2>3. CallsSound'
    BY <2>1 DEF CallsSound, InstallSound, VersionSound, SetSound, ClearSound
  <2>. QED
    BY <2>1, <2>2, <2>3
<1>9. CASE Elsewhere
  BY <1>9, MeanwhileSound DEF Elsewhere
<1>. QED
  BY <1>1, <1>2, <1>3, <1>4, <1>5, <1>6, <1>7, <1>8, <1>9 DEF AppNext, Startup

(* Each call keeps to its steps, and what a step relies on is so when it is*)
(* reached, whatever command failed and whenever the daemon died.          *)
THEOREM CallsInvariance == AppSpec => [](ServiceTypeOK /\ CallsSound)
<1>1. ServiceTypeOK /\ CallsSound /\ [AppNext]_appVars => (ServiceTypeOK /\ CallsSound)'
  BY ServiceStep
<1>. QED
  BY <1>1, ServiceInitial, PTL DEF AppSpec

(* What an answer says of the unit, the daemon, the setting and the data is*)
(* so when it is given.                                                    *)
THEOREM AnswersAreTrue == AppSpec => AnswersTrue
<1>1. ServiceTypeOK /\ CallsSound /\ [AppNext]_appVars
        => [reply' # reply /\ reply' # NoReply => AnswerHolds']_appVars
  BY ServiceStep
<1>. QED
  BY <1>1, CallsInvariance, PTL DEF AppSpec, AnswersTrue

-----------------------------------------------------------------------------
(* What the pages read.  No call but the migrations is made, and no page   *)
(* but the splash is there, before run_storage_migrations has returned.    *)

AfterMigrations ==
  /\ job.call \notin {"none", "migrate"} => stage = "done"
  /\ reply.call \notin {"none", "migrate"} => stage = "done"
  /\ reply.call = "migrate" /\ reply.said # "raised" => stage = "done"
  /\ screen \notin {"off", "splash"} => stage = "done"
  /\ task # Resting => stage = "done"

PagesRead ==
  screen \notin {"off", "splash"} \/ task # Resting => \A r \in Rows : Clean(r)

LEMMA MigrationsComeFirst ==
  ASSUME ServiceTypeOK, AfterMigrations, [AppNext]_appVars
  PROVE  AfterMigrations'
<1>1. CASE Launch \/ Migrate \/ MigrationFails
  <2>1. stage # "done" /\ UNCHANGED <<reply, task>>
    BY <1>1 DEF Launch, Run, Raise, Migrate, MigrationFails, ReadPage, CommitPage, PutVersion, serviceVars, pageVars
  <2>2. job'.call = "migrate" \/ UNCHANGED job
    BY <1>1 DEF Launch, Job, Migrate, MigrationFails, serviceVars
  <2>3. screen' = "splash" \/ UNCHANGED screen
    BY <1>1 DEF Launch, Migrate, MigrationFails, pageVars
  <2>. QED
    BY <2>1, <2>2, <2>3 DEF AfterMigrations
<1>2. CASE EndMigration
  <2>1. /\ UNCHANGED <<stage, screen, task>> /\ job' = NoJob /\ reply'.call = "migrate"
        /\ reply'.said = "raised" \/ stage = "done"
    BY <1>2 DEF EndMigration, Answer, vars, runVars, pageVars
  <2>. QED
    BY <2>1 DEF AfterMigrations, NoJob
<1>3. CASE CallStep
  <2>1. UNCHANGED <<stage, screen, task>>
    BY <1>3 DEF CallStep, Erase, vars, runVars, pageVars
  <2>2. job.call \notin {"none", "migrate"}
    <3>1. CommandAt("none").command = "none" /\ CommandAt("migrate").command = "none"
      BY NoCommands DEF CommandSteps
    <3>2. job.step \notin {"none", "migrate"}
      BY <1>3, <3>1 DEF CallStep, Work, Systemctl, Copy, Test, Look, Update, Compare, Checked,
         AskSession, PutSetting, Undo, ReadSetting, Left, StopLoop, RemoveFile, EraseConfig, EraseCache,
         Succeeded, Failed, Raised, At
    <3>. QED
      BY <3>2 DEF ServiceTypeOK, StepsOf
  <2>. QED
    BY <2>1, <2>2 DEF AfterMigrations
<1>4. CASE StartupCallback \/ Toggled \/ Cleared
  <2>1. stage = "done"
    BY <1>4 DEF StartupCallback, Toggled, Cleared, Migrating, Found, Installed, Versioned, NotFound,
       Enters, NotInstalled, Answered, AfterMigrations
  <2>2. UNCHANGED stage
    BY <1>4 DEF StartupCallback, Toggled, Cleared, Migrating, Found, Installed, Versioned, NotFound,
       Enters, NotInstalled, Go, Show, vars, runVars
  <2>. QED
    BY <2>1, <2>2 DEF AfterMigrations
<1>5. CASE Lost
  <2>1. UNCHANGED <<stage, screen, task, job>> /\ reply' = NoReply
    BY <1>5 DEF Lost, Taken, vars, runVars
  <2>. QED
    BY <2>1 DEF AfterMigrations, NoReply
<1>6. CASE Tap \/ Quit \/ SessionEvent \/ ChatTask
  <2>1. stage = "done"
    BY <1>6 DEF Tap, Quit, SessionEvent, ChatTask, Asking, Writing, Replying, Attaching, Showing,
       Listing, Fresh, Settled, AfterMigrations
  <2>2. UNCHANGED stage
    BY <1>6 DEF Tap, Quit, SessionEvent, ChatTask, vars, runVars
  <2>. QED
    BY <2>1, <2>2 DEF AfterMigrations
<1>7. CASE End
  BY <1>7 DEF End, AfterMigrations, NoJob, NoReply
<1>8. CASE Rest
  <2>1. UNCHANGED <<stage, screen, job, reply>> /\ task' = Resting
    BY <1>8 DEF Rest, vars, runVars, serviceVars
  <2>. QED
    BY <2>1 DEF AfterMigrations, Resting
<1>9. CASE Link \/ Unlink \/ Stored \/ Elsewhere \/ UNCHANGED appVars
  <2>1. UNCHANGED <<stage, screen, task, job, reply>>
    BY <1>9 DEF Link, Unlink, Stored, Store, Elsewhere, Meanwhile, DaemonDies, DaemonReturns, LoopEnds,
       appVars, vars, runVars, serviceVars, pageVars
  <2>. QED
    BY <2>1 DEF AfterMigrations, Resting
<1>. QED
  BY <1>1, <1>2, <1>3, <1>4, <1>5, <1>6, <1>7, <1>8, <1>9 DEF AppNext, Startup, Callback

(* Once the splash is gone every message can be read: what a page calls    *)
(* meets no record of an older format, whatever the application died at.   *)
THEOREM PagesReadAll == AppSpec => []PagesRead
<1>1. AppInit => AfterMigrations
  BY DEF AppInit, ServiceInit, NoJob, NoReply, AfterMigrations
<1>2. ServiceTypeOK /\ AfterMigrations /\ [AppNext]_appVars => AfterMigrations'
  BY MigrationsComeFirst
<1>3. AfterMigrations /\ DoneIsClean => PagesRead
  BY DEF AfterMigrations, DoneIsClean, PagesRead
<1>. QED
  BY <1>1, <1>2, <1>3, CallsInvariance, RunsTheMigrations, DoneMeansClean, PTL DEF AppSpec

-----------------------------------------------------------------------------
(* What is shown of a message.  The proofs are about one content, of which *)
(* any number of seconds, with or without words, of any kind.              *)

(* The first test that holds gives the result.                             *)
LEMMA FirstAt ==
  ASSUME NEW tests, NEW o, DOMAIN tests \subseteq Nat, NEW i \in DOMAIN tests, tests[i][1],
         \A j \in DOMAIN tests : j < i => ~tests[j][1]
  PROVE  Contents!FirstOf(tests, o) = tests[i][2]
<1>. DEFINE hits == {j \in DOMAIN tests : tests[j][1]}
<1>1. i \in hits /\ \A j \in hits : i <= j
  <2>1. i \in hits
    BY Zenon
  <2>2. \A j \in hits : j \in Nat /\ ~(j < i)
    BY Zenon
  <2>3. i \in Nat
    OBVIOUS
  <2>. HIDE DEF hits
  <2>. QED
    BY <2>1, <2>2, <2>3
<1>. HIDE DEF hits
<1>2. \A k \in hits : (\A j \in hits : k <= j) => k = i
  <2>1. hits \subseteq Nat
    BY Zenon DEF hits
  <2>. QED
    BY <1>1, <2>1
<1>3. (CHOOSE k \in hits : \A j \in hits : k <= j) = i
  BY <1>1, <1>2
<1>4. hits # {}
  BY <1>1
<1>. QED
  BY <1>3, <1>4, Zenon DEF Contents!FirstOf, hits

LEMMA FirstNone ==
  ASSUME NEW tests, NEW o, \A j \in DOMAIN tests : ~tests[j][1]
  PROVE  Contents!FirstOf(tests, o) = o
BY Zenon DEF Contents!FirstOf

(* A table of tests read as the chain of ifs the code has in its place.    *)
LEMMA FirstChain ==
  ASSUME NEW n \in 1 .. 12, NEW tests, NEW o, DOMAIN tests = 1 .. n
  PROVE  Contents!FirstOf(tests, o) =
    IF tests[1][1] THEN tests[1][2] ELSE
    IF n >= 2 /\ tests[2][1] THEN tests[2][2] ELSE
    IF n >= 3 /\ tests[3][1] THEN tests[3][2] ELSE
    IF n >= 4 /\ tests[4][1] THEN tests[4][2] ELSE
    IF n >= 5 /\ tests[5][1] THEN tests[5][2] ELSE
    IF n >= 6 /\ tests[6][1] THEN tests[6][2] ELSE
    IF n >= 7 /\ tests[7][1] THEN tests[7][2] ELSE
    IF n >= 8 /\ tests[8][1] THEN tests[8][2] ELSE
    IF n >= 9 /\ tests[9][1] THEN tests[9][2] ELSE
    IF n >= 10 /\ tests[10][1] THEN tests[10][2] ELSE
    IF n >= 11 /\ tests[11][1] THEN tests[11][2] ELSE
    IF n >= 12 /\ tests[12][1] THEN tests[12][2] ELSE
    o
<1>1. CASE tests[1][1]
  BY <1>1, FirstAt
<1>2. CASE n >= 2 /\ tests[2][1] /\ ~tests[1][1]
  BY <1>2, FirstAt
<1>3. CASE n >= 3 /\ tests[3][1] /\ ~tests[1][1] /\ ~tests[2][1]
  BY <1>3, FirstAt
<1>4. CASE n >= 4 /\ tests[4][1] /\ ~tests[1][1] /\ ~tests[2][1] /\ ~tests[3][1]
  BY <1>4, FirstAt
<1>5. CASE n >= 5 /\ tests[5][1] /\ ~tests[1][1] /\ ~tests[2][1] /\ ~tests[3][1] /\ ~tests[4][1]
  BY <1>5, FirstAt
<1>6. CASE n >= 6 /\ tests[6][1] /\ ~tests[1][1] /\ ~tests[2][1] /\ ~tests[3][1] /\ ~tests[4][1] /\ ~tests[5][1]
  BY <1>6, FirstAt
<1>7. CASE n >= 7 /\ tests[7][1] /\ ~tests[1][1] /\ ~tests[2][1] /\ ~tests[3][1] /\ ~tests[4][1] /\ ~tests[5][1] /\ ~tests[6][1]
  BY <1>7, FirstAt
<1>8. CASE n >= 8 /\ tests[8][1] /\ ~tests[1][1] /\ ~tests[2][1] /\ ~tests[3][1] /\ ~tests[4][1] /\ ~tests[5][1] /\ ~tests[6][1] /\ ~tests[7][1]
  BY <1>8, FirstAt
<1>9. CASE n >= 9 /\ tests[9][1] /\ ~tests[1][1] /\ ~tests[2][1] /\ ~tests[3][1] /\ ~tests[4][1] /\ ~tests[5][1] /\ ~tests[6][1] /\ ~tests[7][1] /\ ~tests[8][1]
  <2>1. \A j \in 1 .. n : j < 9 => ~tests[j][1]
    BY <1>9
  <2>2. Contents!FirstOf(tests, o) = tests[9][2]
    BY <1>9, <2>1, FirstAt
  <2>. QED
    BY <1>9, <2>2
<1>10. CASE n >= 10 /\ tests[10][1] /\ ~tests[1][1] /\ ~tests[2][1] /\ ~tests[3][1] /\ ~tests[4][1] /\ ~tests[5][1] /\ ~tests[6][1] /\ ~tests[7][1] /\ ~tests[8][1] /\ ~tests[9][1]
  <2>1. \A j \in 1 .. n : j < 10 => ~tests[j][1]
    BY <1>10
  <2>2. Contents!FirstOf(tests, o) = tests[10][2]
    BY <1>10, <2>1, FirstAt
  <2>. QED
    BY <1>10, <2>2
<1>11. CASE n >= 11 /\ tests[11][1] /\ ~tests[1][1] /\ ~tests[2][1] /\ ~tests[3][1] /\ ~tests[4][1] /\ ~tests[5][1] /\ ~tests[6][1] /\ ~tests[7][1] /\ ~tests[8][1] /\ ~tests[9][1] /\ ~tests[10][1]
  <2>1. \A j \in 1 .. n : j < 11 => ~tests[j][1]
    BY <1>11
  <2>2. 11 \in DOMAIN tests /\ DOMAIN tests \subseteq Nat
    BY <1>11
  <2>3. Contents!FirstOf(tests, o) = tests[11][2]
    BY <1>11, <2>1, <2>2, FirstAt
  <2>. QED
    BY <1>11, <2>3
<1>12. CASE n >= 12 /\ tests[12][1] /\ ~tests[1][1] /\ ~tests[2][1] /\ ~tests[3][1] /\ ~tests[4][1] /\ ~tests[5][1] /\ ~tests[6][1] /\ ~tests[7][1] /\ ~tests[8][1] /\ ~tests[9][1] /\ ~tests[10][1] /\ ~tests[11][1]
  <2>1. \A j \in 1 .. n : j < 12 => ~tests[j][1]
    BY <1>12
  <2>2. Contents!FirstOf(tests, o) = tests[12][2]
    BY <1>12, <2>1, FirstAt
  <2>. QED
    BY <1>12, <2>2
<1>13. CASE /\ ~tests[1][1]
            /\ n >= 2 => ~tests[2][1]
            /\ n >= 3 => ~tests[3][1]
            /\ n >= 4 => ~tests[4][1]
            /\ n >= 5 => ~tests[5][1]
            /\ n >= 6 => ~tests[6][1]
            /\ n >= 7 => ~tests[7][1]
            /\ n >= 8 => ~tests[8][1]
            /\ n >= 9 => ~tests[9][1]
            /\ n >= 10 => ~tests[10][1]
            /\ n >= 11 => ~tests[11][1]
            /\ n >= 12 => ~tests[12][1]
  <2>1. \A i \in 1 .. n : ~tests[i][1]
    <3>. SUFFICES ASSUME NEW i \in 1 .. n PROVE ~tests[i][1]
      OBVIOUS
    <3>1. i <= n /\ i \in 1 .. 12
      OBVIOUS
    <3>2. i = 1 \/ i = 2 \/ i = 3 \/ i = 4 \/ i = 5 \/ i = 6 \/ i = 7 \/ i = 8 \/ i = 9 \/ i = 10 \/ i = 11 \/ i = 12
      BY <3>1
    <3>. QED
      BY <1>13, <3>1, <3>2
  <2>. QED
    BY <1>13, <2>1, FirstNone
<1>14. CASE (n >= 1 /\ tests[1][1]) \/ (n >= 2 /\ tests[2][1]) \/ (n >= 3 /\ tests[3][1]) \/ (n >= 4 /\ tests[4][1]) \/ (n >= 5 /\ tests[5][1]) \/ (n >= 6 /\ tests[6][1])
  BY <1>14, <1>1, <1>2, <1>3, <1>4, <1>5, <1>6
<1>15. CASE /\ ~((n >= 1 /\ tests[1][1]) \/ (n >= 2 /\ tests[2][1]) \/ (n >= 3 /\ tests[3][1]) \/ (n >= 4 /\ tests[4][1]) \/ (n >= 5 /\ tests[5][1]) \/ (n >= 6 /\ tests[6][1]))
            /\ (n >= 7 /\ tests[7][1]) \/ (n >= 8 /\ tests[8][1]) \/ (n >= 9 /\ tests[9][1]) \/ (n >= 10 /\ tests[10][1]) \/ (n >= 11 /\ tests[11][1]) \/ (n >= 12 /\ tests[12][1])
  BY <1>15, <1>7, <1>8, <1>9, <1>10, <1>11, <1>12
<1>. QED
  BY <1>13, <1>14, <1>15

(* The tables of Contents as such chains.                                  *)
LEMMA LiveTypeChain ==
  ASSUME NEW c
  PROVE  Contents!LiveType(c) =
    IF Contents!Image(c) THEN "image" ELSE
    IF Contents!Has(c, {"templateText"}) THEN "text" ELSE
    IF Contents!Video(c) THEN "video" ELSE
    IF Contents!Has(c, {"audio"}) THEN "audio" ELSE
    IF Contents!Has(c, {"document"}) THEN "document" ELSE
    IF Contents!Contact(c) THEN "contact" ELSE
    IF Contents!Location(c) THEN "location" ELSE
    IF Contents!Has(c, {"sticker"}) THEN "sticker" ELSE
    IF Contents!Has(c, {"extended"}) /\ c.link THEN "link" ELSE
    IF Contents!Has(c, {"extended", "conversation"}) THEN "text" ELSE
    IF Contents!Unsupported(c) THEN "text" ELSE
    "none"
<1>. DEFINE t ==
      << <<Contents!Image(c), "image">>,
         <<Contents!Has(c, {"templateText"}), "text">>,
         <<Contents!Video(c), "video">>,
         <<Contents!Has(c, {"audio"}), "audio">>,
         <<Contents!Has(c, {"document"}), "document">>,
         <<Contents!Contact(c), "contact">>,
         <<Contents!Location(c), "location">>,
         <<Contents!Has(c, {"sticker"}), "sticker">>,
         <<Contents!Has(c, {"extended"}) /\ c.link, "link">>,
         <<Contents!Has(c, {"extended", "conversation"}), "text">>,
         <<Contents!Unsupported(c), "text">> >>
<1>1. DOMAIN t = 1 .. 11
  OBVIOUS
<1>2. /\ (t[1][1] <=> Contents!Image(c)) /\ t[1][2] = "image"
      /\ (t[2][1] <=> Contents!Has(c, {"templateText"})) /\ t[2][2] = "text"
      /\ (t[3][1] <=> Contents!Video(c)) /\ t[3][2] = "video"
      /\ (t[4][1] <=> Contents!Has(c, {"audio"})) /\ t[4][2] = "audio"
      /\ (t[5][1] <=> Contents!Has(c, {"document"})) /\ t[5][2] = "document"
      /\ (t[6][1] <=> Contents!Contact(c)) /\ t[6][2] = "contact"
      /\ (t[7][1] <=> Contents!Location(c)) /\ t[7][2] = "location"
      /\ (t[8][1] <=> Contents!Has(c, {"sticker"})) /\ t[8][2] = "sticker"
      /\ (t[9][1] <=> (Contents!Has(c, {"extended"}) /\ c.link)) /\ t[9][2] = "link"
      /\ (t[10][1] <=> Contents!Has(c, {"extended", "conversation"})) /\ t[10][2] = "text"
      /\ (t[11][1] <=> Contents!Unsupported(c)) /\ t[11][2] = "text"
  BY Zenon
<1>3. Contents!LiveType(c) = Contents!FirstOf(t, "none")
  BY Zenon DEF Contents!LiveType
<1>. HIDE DEF t
<1>. QED
  BY <1>1, <1>2, <1>3, FirstChain

LEMMA HistoryTypeChain ==
  ASSUME NEW c
  PROVE  Contents!HistoryType(c) =
    IF Contents!Has(c, {"extended"}) /\ c.link THEN "link" ELSE
    IF Contents!Image(c) THEN "image" ELSE
    IF Contents!Has(c, {"conversation", "extended", "templateText"}) THEN "text" ELSE
    IF Contents!Video(c) THEN "video" ELSE
    IF Contents!Has(c, {"audio"}) THEN "audio" ELSE
    IF Contents!Has(c, {"document"}) THEN "document" ELSE
    IF Contents!Contact(c) THEN "contact" ELSE
    IF Contents!Location(c) THEN "location" ELSE
    IF Contents!Has(c, {"sticker"}) THEN "sticker" ELSE
    IF Contents!Unsupported(c) THEN "text" ELSE
    "none"
<1>. DEFINE t ==
      << <<Contents!Has(c, {"extended"}) /\ c.link, "link">>,
         <<Contents!Image(c), "image">>,
         <<Contents!Has(c, {"conversation", "extended", "templateText"}), "text">>,
         <<Contents!Video(c), "video">>,
         <<Contents!Has(c, {"audio"}), "audio">>,
         <<Contents!Has(c, {"document"}), "document">>,
         <<Contents!Contact(c), "contact">>,
         <<Contents!Location(c), "location">>,
         <<Contents!Has(c, {"sticker"}), "sticker">>,
         <<Contents!Unsupported(c), "text">> >>
<1>1. DOMAIN t = 1 .. 10
  OBVIOUS
<1>2. /\ (t[1][1] <=> (Contents!Has(c, {"extended"}) /\ c.link)) /\ t[1][2] = "link"
      /\ (t[2][1] <=> Contents!Image(c)) /\ t[2][2] = "image"
      /\ (t[3][1] <=> Contents!Has(c, {"conversation", "extended", "templateText"})) /\ t[3][2] = "text"
      /\ (t[4][1] <=> Contents!Video(c)) /\ t[4][2] = "video"
      /\ (t[5][1] <=> Contents!Has(c, {"audio"})) /\ t[5][2] = "audio"
      /\ (t[6][1] <=> Contents!Has(c, {"document"})) /\ t[6][2] = "document"
      /\ (t[7][1] <=> Contents!Contact(c)) /\ t[7][2] = "contact"
      /\ (t[8][1] <=> Contents!Location(c)) /\ t[8][2] = "location"
      /\ (t[9][1] <=> Contents!Has(c, {"sticker"})) /\ t[9][2] = "sticker"
      /\ (t[10][1] <=> Contents!Unsupported(c)) /\ t[10][2] = "text"
  BY Zenon
<1>3. Contents!HistoryType(c) = Contents!FirstOf(t, "none")
  BY Zenon DEF Contents!HistoryType
<1>. HIDE DEF t
<1>. QED
  BY <1>1, <1>2, <1>3, FirstChain

LEMMA BodyChain ==
  ASSUME NEW c
  PROVE  Contents!Body(c) =
    IF Contents!Has(c, {"image"}) THEN "image" ELSE
    IF Contents!Image(c) THEN "templateImage" ELSE
    IF Contents!Video(c) THEN "video" ELSE
    IF Contents!Has(c, {"audio"}) THEN "audio" ELSE
    IF Contents!Has(c, {"document"}) THEN "document" ELSE
    IF Contents!Contact(c) THEN "contact" ELSE
    IF Contents!Location(c) THEN "location" ELSE
    "none"
<1>. DEFINE t ==
      << <<Contents!Has(c, {"image"}), "image">>,
         <<Contents!Image(c), "templateImage">>,
         <<Contents!Video(c), "video">>,
         <<Contents!Has(c, {"audio"}), "audio">>,
         <<Contents!Has(c, {"document"}), "document">>,
         <<Contents!Contact(c), "contact">>,
         <<Contents!Location(c), "location">> >>
<1>1. DOMAIN t = 1 .. 7
  OBVIOUS
<1>2. /\ (t[1][1] <=> Contents!Has(c, {"image"})) /\ t[1][2] = "image"
      /\ (t[2][1] <=> Contents!Image(c)) /\ t[2][2] = "templateImage"
      /\ (t[3][1] <=> Contents!Video(c)) /\ t[3][2] = "video"
      /\ (t[4][1] <=> Contents!Has(c, {"audio"})) /\ t[4][2] = "audio"
      /\ (t[5][1] <=> Contents!Has(c, {"document"})) /\ t[5][2] = "document"
      /\ (t[6][1] <=> Contents!Contact(c)) /\ t[6][2] = "contact"
      /\ (t[7][1] <=> Contents!Location(c)) /\ t[7][2] = "location"
  BY Zenon
<1>3. Contents!Body(c) = Contents!FirstOf(t, "none")
  BY Zenon DEF Contents!Body
<1>. HIDE DEF t
<1>. QED
  BY <1>1, <1>2, <1>3, FirstChain

LEMMA LiveTextChain ==
  ASSUME NEW c
  PROVE  Contents!LiveText(c) =
    IF Contents!LiveType(c) = "none" THEN "" ELSE
    IF Contents!Body(c) = "location" THEN Contents!Words(c) ELSE
    IF Contents!Has(c, {"conversation"}) THEN "words" ELSE
    IF Contents!Has(c, {"extended"}) THEN Contents!Words(c) ELSE
    IF Contents!LiveType(c) = "text" /\ Contents!Has(c, {"templateText"}) THEN "words" ELSE
    IF Contents!LiveType(c) = "text" THEN "unsupported" ELSE
    ""
<1>. DEFINE t ==
      << <<Contents!LiveType(c) = "none", "">>,
         <<Contents!Body(c) = "location", Contents!Words(c)>>,
         <<Contents!Has(c, {"conversation"}), "words">>,
         <<Contents!Has(c, {"extended"}), Contents!Words(c)>>,
         <<Contents!LiveType(c) = "text" /\ Contents!Has(c, {"templateText"}), "words">>,
         <<Contents!LiveType(c) = "text", "unsupported">> >>
<1>1. DOMAIN t = 1 .. 6
  OBVIOUS
<1>2. /\ (t[1][1] <=> Contents!LiveType(c) = "none") /\ t[1][2] = ""
      /\ (t[2][1] <=> Contents!Body(c) = "location") /\ t[2][2] = Contents!Words(c)
      /\ (t[3][1] <=> Contents!Has(c, {"conversation"})) /\ t[3][2] = "words"
      /\ (t[4][1] <=> Contents!Has(c, {"extended"})) /\ t[4][2] = Contents!Words(c)
      /\ (t[5][1] <=> (Contents!LiveType(c) = "text" /\ Contents!Has(c, {"templateText"}))) /\ t[5][2] = "words"
      /\ (t[6][1] <=> Contents!LiveType(c) = "text") /\ t[6][2] = "unsupported"
  BY Zenon
<1>3. Contents!LiveText(c) = Contents!FirstOf(t, "")
  BY Zenon DEF Contents!LiveText
<1>. HIDE DEF t
<1>4. \A o : Contents!FirstOf(t, o) =
      IF t[1][1] THEN t[1][2] ELSE IF t[2][1] THEN t[2][2] ELSE IF t[3][1] THEN t[3][2] ELSE
      IF t[4][1] THEN t[4][2] ELSE IF t[5][1] THEN t[5][2] ELSE IF t[6][1] THEN t[6][2] ELSE
      o
  BY <1>1, FirstChain
<1>5. Contents!LiveText(c) =
      IF t[1][1] THEN t[1][2] ELSE IF t[2][1] THEN t[2][2] ELSE IF t[3][1] THEN t[3][2] ELSE
      IF t[4][1] THEN t[4][2] ELSE IF t[5][1] THEN t[5][2] ELSE IF t[6][1] THEN t[6][2] ELSE
      ""
  BY <1>3, <1>4
<1>6. (IF t[1][1] THEN t[1][2] ELSE IF t[2][1] THEN t[2][2] ELSE IF t[3][1] THEN t[3][2] ELSE
      IF t[4][1] THEN t[4][2] ELSE IF t[5][1] THEN t[5][2] ELSE IF t[6][1] THEN t[6][2] ELSE
      "") =
     (IF Contents!LiveType(c) = "none" THEN "" ELSE
    IF Contents!Body(c) = "location" THEN Contents!Words(c) ELSE
    IF Contents!Has(c, {"conversation"}) THEN "words" ELSE
    IF Contents!Has(c, {"extended"}) THEN Contents!Words(c) ELSE
    IF Contents!LiveType(c) = "text" /\ Contents!Has(c, {"templateText"}) THEN "words" ELSE
    IF Contents!LiveType(c) = "text" THEN "unsupported" ELSE
    "")
  BY <1>2
<1>. QED
  BY <1>5, <1>6

LEMMA HistoryTextChain ==
  ASSUME NEW c
  PROVE  Contents!HistoryText(c) =
    IF Contents!HistoryType(c) = "none" THEN "" ELSE
    IF Contents!Body(c) = "location" THEN Contents!Words(c) ELSE
    IF Contents!Has(c, {"conversation"}) THEN "words" ELSE
    IF Contents!Has(c, {"extended"}) THEN Contents!Words(c) ELSE
    IF ~Contents!Image(c) /\ Contents!Has(c, {"templateText"}) THEN "words" ELSE
    IF Contents!HistoryType(c) = "text" THEN "unsupported" ELSE
    ""
<1>. DEFINE t ==
      << <<Contents!HistoryType(c) = "none", "">>,
         <<Contents!Body(c) = "location", Contents!Words(c)>>,
         <<Contents!Has(c, {"conversation"}), "words">>,
         <<Contents!Has(c, {"extended"}), Contents!Words(c)>>,
         <<~Contents!Image(c) /\ Contents!Has(c, {"templateText"}), "words">>,
         <<Contents!HistoryType(c) = "text", "unsupported">> >>
<1>1. DOMAIN t = 1 .. 6
  OBVIOUS
<1>2. /\ (t[1][1] <=> Contents!HistoryType(c) = "none") /\ t[1][2] = ""
      /\ (t[2][1] <=> Contents!Body(c) = "location") /\ t[2][2] = Contents!Words(c)
      /\ (t[3][1] <=> Contents!Has(c, {"conversation"})) /\ t[3][2] = "words"
      /\ (t[4][1] <=> Contents!Has(c, {"extended"})) /\ t[4][2] = Contents!Words(c)
      /\ (t[5][1] <=> (~Contents!Image(c) /\ Contents!Has(c, {"templateText"}))) /\ t[5][2] = "words"
      /\ (t[6][1] <=> Contents!HistoryType(c) = "text") /\ t[6][2] = "unsupported"
  BY Zenon
<1>3. Contents!HistoryText(c) = Contents!FirstOf(t, "")
  BY Zenon DEF Contents!HistoryText
<1>. HIDE DEF t
<1>4. \A o : Contents!FirstOf(t, o) =
      IF t[1][1] THEN t[1][2] ELSE IF t[2][1] THEN t[2][2] ELSE IF t[3][1] THEN t[3][2] ELSE
      IF t[4][1] THEN t[4][2] ELSE IF t[5][1] THEN t[5][2] ELSE IF t[6][1] THEN t[6][2] ELSE
      o
  BY <1>1, FirstChain
<1>5. Contents!HistoryText(c) =
      IF t[1][1] THEN t[1][2] ELSE IF t[2][1] THEN t[2][2] ELSE IF t[3][1] THEN t[3][2] ELSE
      IF t[4][1] THEN t[4][2] ELSE IF t[5][1] THEN t[5][2] ELSE IF t[6][1] THEN t[6][2] ELSE
      ""
  BY <1>3, <1>4
<1>6. (IF t[1][1] THEN t[1][2] ELSE IF t[2][1] THEN t[2][2] ELSE IF t[3][1] THEN t[3][2] ELSE
      IF t[4][1] THEN t[4][2] ELSE IF t[5][1] THEN t[5][2] ELSE IF t[6][1] THEN t[6][2] ELSE
      "") =
     (IF Contents!HistoryType(c) = "none" THEN "" ELSE
    IF Contents!Body(c) = "location" THEN Contents!Words(c) ELSE
    IF Contents!Has(c, {"conversation"}) THEN "words" ELSE
    IF Contents!Has(c, {"extended"}) THEN Contents!Words(c) ELSE
    IF ~Contents!Image(c) /\ Contents!Has(c, {"templateText"}) THEN "words" ELSE
    IF Contents!HistoryType(c) = "text" THEN "unsupported" ELSE
    "")
  BY <1>2
<1>. QED
  BY <1>5, <1>6

LEMMA DownloadChain ==
  ASSUME NEW c
  PROVE  Contents!Download(c) =
    IF Contents!Image(c) THEN "image" ELSE
    IF Contents!Video(c) THEN "video" ELSE
    IF Contents!Has(c, {"audio"}) THEN "audio" ELSE
    IF Contents!Has(c, {"document"}) THEN "document" ELSE
    IF Contents!Has(c, {"sticker"}) THEN "sticker" ELSE
    "none"
<1>. DEFINE t ==
      << <<Contents!Image(c), "image">>,
         <<Contents!Video(c), "video">>,
         <<Contents!Has(c, {"audio"}), "audio">>,
         <<Contents!Has(c, {"document"}), "document">>,
         <<Contents!Has(c, {"sticker"}), "sticker">> >>
<1>1. DOMAIN t = 1 .. 5
  OBVIOUS
<1>2. /\ (t[1][1] <=> Contents!Image(c)) /\ t[1][2] = "image"
      /\ (t[2][1] <=> Contents!Video(c)) /\ t[2][2] = "video"
      /\ (t[3][1] <=> Contents!Has(c, {"audio"})) /\ t[3][2] = "audio"
      /\ (t[4][1] <=> Contents!Has(c, {"document"})) /\ t[4][2] = "document"
      /\ (t[5][1] <=> Contents!Has(c, {"sticker"})) /\ t[5][2] = "sticker"
  BY Zenon
<1>3. Contents!Download(c) = Contents!FirstOf(t, "none")
  BY Zenon DEF Contents!Download
<1>. HIDE DEF t
<1>. QED
  BY <1>1, <1>2, <1>3, FirstChain

LEMMA HistoryPreviewChain ==
  ASSUME NEW c
  PROVE  Contents!HistoryPreview(c) =
    IF Contents!Has(c, {"conversation"}) THEN "words" ELSE
    IF Contents!Has(c, {"extended"}) /\ c.words THEN "words" ELSE
    IF Contents!Has(c, {"image"}) THEN Contents!Or(Contents!Words(c), "image") ELSE
    IF Contents!Image(c) THEN (IF Contents!Has(c, {"templateText"}) THEN "words" ELSE "image") ELSE
    IF Contents!Video(c) THEN Contents!Or(Contents!Words(c), "video") ELSE
    IF Contents!Location(c) THEN Contents!Or(Contents!Words(c), "location") ELSE
    IF Contents!Has(c, {"audio"}) THEN "audio" ELSE
    IF Contents!Has(c, {"document"}) THEN Contents!Or(Contents!Words(c), "document") ELSE
    IF Contents!Contact(c) THEN "contact" ELSE
    IF Contents!Has(c, {"sticker"}) THEN "sticker" ELSE
    IF Contents!Has(c, {"templateText"}) THEN "words" ELSE
    IF Contents!Unsupported(c) THEN "unsupported" ELSE
    ""
<1>. DEFINE t ==
      << <<Contents!Has(c, {"conversation"}), "words">>,
         <<Contents!Has(c, {"extended"}) /\ c.words, "words">>,
         <<Contents!Has(c, {"image"}), Contents!Or(Contents!Words(c), "image")>>,
         <<Contents!Image(c), IF Contents!Has(c, {"templateText"}) THEN "words" ELSE "image">>,
         <<Contents!Video(c), Contents!Or(Contents!Words(c), "video")>>,
         <<Contents!Location(c), Contents!Or(Contents!Words(c), "location")>>,
         <<Contents!Has(c, {"audio"}), "audio">>,
         <<Contents!Has(c, {"document"}), Contents!Or(Contents!Words(c), "document")>>,
         <<Contents!Contact(c), "contact">>,
         <<Contents!Has(c, {"sticker"}), "sticker">>,
         <<Contents!Has(c, {"templateText"}), "words">>,
         <<Contents!Unsupported(c), "unsupported">> >>
<1>1. DOMAIN t = 1 .. 12
  OBVIOUS
<1>2. /\ (t[1][1] <=> Contents!Has(c, {"conversation"})) /\ t[1][2] = "words"
      /\ (t[2][1] <=> (Contents!Has(c, {"extended"}) /\ c.words)) /\ t[2][2] = "words"
      /\ (t[3][1] <=> Contents!Has(c, {"image"})) /\ t[3][2] = Contents!Or(Contents!Words(c), "image")
      /\ (t[4][1] <=> Contents!Image(c)) /\ t[4][2] = (IF Contents!Has(c, {"templateText"}) THEN "words" ELSE "image")
      /\ (t[5][1] <=> Contents!Video(c)) /\ t[5][2] = Contents!Or(Contents!Words(c), "video")
      /\ (t[6][1] <=> Contents!Location(c)) /\ t[6][2] = Contents!Or(Contents!Words(c), "location")
      /\ (t[7][1] <=> Contents!Has(c, {"audio"})) /\ t[7][2] = "audio"
      /\ (t[8][1] <=> Contents!Has(c, {"document"})) /\ t[8][2] = Contents!Or(Contents!Words(c), "document")
      /\ (t[9][1] <=> Contents!Contact(c)) /\ t[9][2] = "contact"
      /\ (t[10][1] <=> Contents!Has(c, {"sticker"})) /\ t[10][2] = "sticker"
      /\ (t[11][1] <=> Contents!Has(c, {"templateText"})) /\ t[11][2] = "words"
      /\ (t[12][1] <=> Contents!Unsupported(c)) /\ t[12][2] = "unsupported"
  BY Zenon
<1>3. Contents!HistoryPreview(c) = Contents!FirstOf(t, "")
  BY Zenon DEF Contents!HistoryPreview
<1>. HIDE DEF t
<1>4. \A o : Contents!FirstOf(t, o) =
      IF t[1][1] THEN t[1][2] ELSE IF t[2][1] THEN t[2][2] ELSE IF t[3][1] THEN t[3][2] ELSE
      IF t[4][1] THEN t[4][2] ELSE IF t[5][1] THEN t[5][2] ELSE IF t[6][1] THEN t[6][2] ELSE
      IF t[7][1] THEN t[7][2] ELSE IF t[8][1] THEN t[8][2] ELSE IF t[9][1] THEN t[9][2] ELSE
      IF t[10][1] THEN t[10][2] ELSE IF t[11][1] THEN t[11][2] ELSE IF t[12][1] THEN t[12][2] ELSE
      o
  BY <1>1, FirstChain
<1>5. Contents!HistoryPreview(c) =
      IF t[1][1] THEN t[1][2] ELSE IF t[2][1] THEN t[2][2] ELSE IF t[3][1] THEN t[3][2] ELSE
      IF t[4][1] THEN t[4][2] ELSE IF t[5][1] THEN t[5][2] ELSE IF t[6][1] THEN t[6][2] ELSE
      IF t[7][1] THEN t[7][2] ELSE IF t[8][1] THEN t[8][2] ELSE IF t[9][1] THEN t[9][2] ELSE
      IF t[10][1] THEN t[10][2] ELSE IF t[11][1] THEN t[11][2] ELSE IF t[12][1] THEN t[12][2] ELSE
      ""
  BY <1>3, <1>4
<1>6. (IF t[1][1] THEN t[1][2] ELSE IF t[2][1] THEN t[2][2] ELSE IF t[3][1] THEN t[3][2] ELSE
      IF t[4][1] THEN t[4][2] ELSE IF t[5][1] THEN t[5][2] ELSE IF t[6][1] THEN t[6][2] ELSE
      IF t[7][1] THEN t[7][2] ELSE IF t[8][1] THEN t[8][2] ELSE IF t[9][1] THEN t[9][2] ELSE
      IF t[10][1] THEN t[10][2] ELSE IF t[11][1] THEN t[11][2] ELSE IF t[12][1] THEN t[12][2] ELSE
      "") =
     (IF Contents!Has(c, {"conversation"}) THEN "words" ELSE
    IF Contents!Has(c, {"extended"}) /\ c.words THEN "words" ELSE
    IF Contents!Has(c, {"image"}) THEN Contents!Or(Contents!Words(c), "image") ELSE
    IF Contents!Image(c) THEN (IF Contents!Has(c, {"templateText"}) THEN "words" ELSE "image") ELSE
    IF Contents!Video(c) THEN Contents!Or(Contents!Words(c), "video") ELSE
    IF Contents!Location(c) THEN Contents!Or(Contents!Words(c), "location") ELSE
    IF Contents!Has(c, {"audio"}) THEN "audio" ELSE
    IF Contents!Has(c, {"document"}) THEN Contents!Or(Contents!Words(c), "document") ELSE
    IF Contents!Contact(c) THEN "contact" ELSE
    IF Contents!Has(c, {"sticker"}) THEN "sticker" ELSE
    IF Contents!Has(c, {"templateText"}) THEN "words" ELSE
    IF Contents!Unsupported(c) THEN "unsupported" ELSE
    "")
  BY <1>2
<1>. QED
  BY <1>5, <1>6

LEMMA QuotedPreviewChain ==
  ASSUME NEW c
  PROVE  Contents!QuotedPreview(c) =
    IF Contents!Has(c, {"conversation"}) THEN "words" ELSE
    IF Contents!Has(c, {"extended"}) /\ c.words THEN "words" ELSE
    IF Contents!Has(c, {"image"}) THEN Contents!Or(Contents!Words(c), "image") ELSE
    IF Contents!Video(c) THEN Contents!Or(Contents!Words(c), "video") ELSE
    IF Contents!Has(c, {"audio"}) THEN "audio" ELSE
    IF Contents!Has(c, {"document"}) THEN Contents!Or(Contents!Words(c), "document") ELSE
    IF Contents!Contact(c) THEN "contact" ELSE
    IF Contents!Location(c) THEN Contents!Or(Contents!Words(c), "location") ELSE
    IF Contents!Has(c, {"sticker"}) THEN "sticker" ELSE
    IF Contents!Image(c) THEN (IF Contents!Has(c, {"templateText"}) THEN "words" ELSE "image") ELSE
    ""
<1>. DEFINE t ==
      << <<Contents!Has(c, {"conversation"}), "words">>,
         <<Contents!Has(c, {"extended"}) /\ c.words, "words">>,
         <<Contents!Has(c, {"image"}), Contents!Or(Contents!Words(c), "image")>>,
         <<Contents!Video(c), Contents!Or(Contents!Words(c), "video")>>,
         <<Contents!Has(c, {"audio"}), "audio">>,
         <<Contents!Has(c, {"document"}), Contents!Or(Contents!Words(c), "document")>>,
         <<Contents!Contact(c), "contact">>,
         <<Contents!Location(c), Contents!Or(Contents!Words(c), "location")>>,
         <<Contents!Has(c, {"sticker"}), "sticker">>,
         <<Contents!Image(c), IF Contents!Has(c, {"templateText"}) THEN "words" ELSE "image">> >>
<1>1. DOMAIN t = 1 .. 10
  OBVIOUS
<1>2. /\ (t[1][1] <=> Contents!Has(c, {"conversation"})) /\ t[1][2] = "words"
      /\ (t[2][1] <=> (Contents!Has(c, {"extended"}) /\ c.words)) /\ t[2][2] = "words"
      /\ (t[3][1] <=> Contents!Has(c, {"image"})) /\ t[3][2] = Contents!Or(Contents!Words(c), "image")
      /\ (t[4][1] <=> Contents!Video(c)) /\ t[4][2] = Contents!Or(Contents!Words(c), "video")
      /\ (t[5][1] <=> Contents!Has(c, {"audio"})) /\ t[5][2] = "audio"
      /\ (t[6][1] <=> Contents!Has(c, {"document"})) /\ t[6][2] = Contents!Or(Contents!Words(c), "document")
      /\ (t[7][1] <=> Contents!Contact(c)) /\ t[7][2] = "contact"
      /\ (t[8][1] <=> Contents!Location(c)) /\ t[8][2] = Contents!Or(Contents!Words(c), "location")
      /\ (t[9][1] <=> Contents!Has(c, {"sticker"})) /\ t[9][2] = "sticker"
      /\ (t[10][1] <=> Contents!Image(c)) /\ t[10][2] = (IF Contents!Has(c, {"templateText"}) THEN "words" ELSE "image")
  BY Zenon
<1>3. Contents!QuotedPreview(c) = Contents!FirstOf(t, "")
  BY Zenon DEF Contents!QuotedPreview
<1>. HIDE DEF t
<1>4. \A o : Contents!FirstOf(t, o) =
      IF t[1][1] THEN t[1][2] ELSE IF t[2][1] THEN t[2][2] ELSE IF t[3][1] THEN t[3][2] ELSE
      IF t[4][1] THEN t[4][2] ELSE IF t[5][1] THEN t[5][2] ELSE IF t[6][1] THEN t[6][2] ELSE
      IF t[7][1] THEN t[7][2] ELSE IF t[8][1] THEN t[8][2] ELSE IF t[9][1] THEN t[9][2] ELSE
      IF t[10][1] THEN t[10][2] ELSE
      o
  BY <1>1, FirstChain
<1>5. Contents!QuotedPreview(c) =
      IF t[1][1] THEN t[1][2] ELSE IF t[2][1] THEN t[2][2] ELSE IF t[3][1] THEN t[3][2] ELSE
      IF t[4][1] THEN t[4][2] ELSE IF t[5][1] THEN t[5][2] ELSE IF t[6][1] THEN t[6][2] ELSE
      IF t[7][1] THEN t[7][2] ELSE IF t[8][1] THEN t[8][2] ELSE IF t[9][1] THEN t[9][2] ELSE
      IF t[10][1] THEN t[10][2] ELSE
      ""
  BY <1>3, <1>4
<1>6. (IF t[1][1] THEN t[1][2] ELSE IF t[2][1] THEN t[2][2] ELSE IF t[3][1] THEN t[3][2] ELSE
      IF t[4][1] THEN t[4][2] ELSE IF t[5][1] THEN t[5][2] ELSE IF t[6][1] THEN t[6][2] ELSE
      IF t[7][1] THEN t[7][2] ELSE IF t[8][1] THEN t[8][2] ELSE IF t[9][1] THEN t[9][2] ELSE
      IF t[10][1] THEN t[10][2] ELSE
      "") =
     (IF Contents!Has(c, {"conversation"}) THEN "words" ELSE
    IF Contents!Has(c, {"extended"}) /\ c.words THEN "words" ELSE
    IF Contents!Has(c, {"image"}) THEN Contents!Or(Contents!Words(c), "image") ELSE
    IF Contents!Video(c) THEN Contents!Or(Contents!Words(c), "video") ELSE
    IF Contents!Has(c, {"audio"}) THEN "audio" ELSE
    IF Contents!Has(c, {"document"}) THEN Contents!Or(Contents!Words(c), "document") ELSE
    IF Contents!Contact(c) THEN "contact" ELSE
    IF Contents!Location(c) THEN Contents!Or(Contents!Words(c), "location") ELSE
    IF Contents!Has(c, {"sticker"}) THEN "sticker" ELSE
    IF Contents!Image(c) THEN (IF Contents!Has(c, {"templateText"}) THEN "words" ELSE "image") ELSE
    "")
  BY <1>2
<1>. QED
  BY <1>5, <1>6


(* A message shown as media has a file of that kind, whatever it mixes.    *)
LEMMA MediaHasFile ==
  ASSUME NEW c
  PROVE  Contents!ShownIsDownloadable(c)
<1>1. Contents!LiveType(c) \in Contents!MediaTypes => Contents!Download(c) = Contents!LiveType(c)
  BY LiveTypeChain, DownloadChain DEF Contents!MediaTypes
<1>2. Contents!HistoryType(c) \in Contents!MediaTypes => Contents!Download(c) = Contents!HistoryType(c)
  BY HistoryTypeChain, DownloadChain DEF Contents!MediaTypes
<1>. QED
  BY <1>1, <1>2 DEF Contents!ShownIsDownloadable

(* The content of one message: at most one part, or a template, and what   *)
(* is ignored; a recording may last any time.                              *)
OnePart(c) ==
  /\ c.parts \subseteq Contents!Parts /\ c.seconds \in Nat /\ c.words \in BOOLEAN
  /\ \/ \E part \in Contents!Parts : c.parts \subseteq {part, "ignored"}
     \/ c.parts \ {"ignored"} = Contents!Template

LEMMA SameCardinality ==
  ASSUME NEW S
  PROVE  Contents!Cardinality(S) = Cardinality(S)
BY DEF Contents!Cardinality, Cardinality

LEMMA RegularIsOnePart ==
  ASSUME NEW c \in Contents!Regular
  PROVE  OnePart(c)
<1>. DEFINE p == c.parts \ {"ignored"}
<1>1. c \in Contents!Content /\ (Contents!Cardinality(p) <= 1 \/ p = Contents!Template)
  BY Zenon DEF Contents!Regular
<1>2. c.parts \subseteq Contents!Parts /\ c.seconds \in Nat /\ c.words \in BOOLEAN
  BY <1>1 DEF Contents!Content
<1>3. CASE Contents!Cardinality(p) <= 1
  <2>1. IsFiniteSet(Contents!Parts)
    <3>1. \A S : IsFiniteSet(S) => \A x : IsFiniteSet(S \cup {x})
      BY FS_AddElement
    <3>2. IsFiniteSet({})
      BY FS_EmptySet
    <3>3. \A u, v, w, x : IsFiniteSet({u, v, w, x})
      <4>. TAKE u, v, w, x
      <4>1. IsFiniteSet({} \cup {u} \cup {v} \cup {w} \cup {x})
        BY <3>1, <3>2
      <4>2. {} \cup {u} \cup {v} \cup {w} \cup {x} = {u, v, w, x}
        OBVIOUS
      <4>. QED
        BY <4>1, <4>2
    <3>4. Contents!Parts =
             ({"conversation", "extended", "image", "video"} \cup {"ptv", "audio", "document", "contact"})
             \cup ({"contacts", "location", "liveLocation", "sticker"}
             \cup {"templateImage", "templateText", "unknown", "ignored"})
      BY DEF Contents!Parts, Contents!Plain, Contents!Template
    <3>. QED
      BY <3>3, <3>4, FS_Union
  <2>2. IsFiniteSet(p) /\ Cardinality(p) \in Nat
    BY <1>2, <2>1, FS_Subset, FS_CardinalityType
  <2>3. p = {} \/ \E part : p = {part}
    BY <1>3, <2>2, SameCardinality, FS_EmptySet, FS_Singleton
  <2>4. \E part \in Contents!Parts : p \subseteq {part}
    <3>1. "image" \in Contents!Parts
      BY DEF Contents!Parts, Contents!Plain
    <3>. QED
      BY <1>2, <2>3, <3>1
  <2>. QED
    BY <1>2, <2>4 DEF OnePart
<1>. QED
  BY <1>1, <1>2, <1>3 DEF OnePart

(* ... and the same type: with one part no two tests of it can disagree.   *)
LEMMA LooksLive ==
  ASSUME NEW c, OnePart(c)
  PROVE  Contents!HistoryType(c) = Contents!LiveType(c)
BY LiveTypeChain, HistoryTypeChain
   DEF OnePart, Contents!Has, Contents!Image, Contents!Video, Contents!Contact, Contents!Location,
       Contents!Unsupported, Contents!Template, Contents!Parts, Contents!Plain


(* A message from history has the fields of one come in live ...           *)
LEMMA SameText ==
  ASSUME NEW c, OnePart(c)
  PROVE  Contents!HistoryText(c) = Contents!LiveText(c)
<1>1. Contents!HistoryType(c) = Contents!LiveType(c)
  BY LooksLive
<1>2. Contents!LiveType(c) = "text" \/ ~Contents!Has(c, {"templateText"}) \/ Contents!Image(c)
  BY LiveTypeChain
<1>3. Contents!Image(c) /\ Contents!Has(c, {"templateText"}) => Contents!LiveType(c) = "image"
  BY LiveTypeChain
<1>. QED
  BY <1>1, <1>2, <1>3, LiveTextChain, HistoryTextChain

LEMMA SameFields ==
  ASSUME NEW c, OnePart(c)
  PROVE  /\ [Contents!HistoryFields(c) EXCEPT !.duration = 0] = [Contents!LiveFields(c) EXCEPT !.duration = 0]
         /\ Contents!HistoryFields(c).duration # Contents!LiveFields(c).duration => c.seconds = 0
<1>1. Contents!HistoryText(c) = Contents!LiveText(c)
  BY SameText
<1>2. PICK caption, name, d, e, f :
        /\ Contents!HistoryFields(c) = [text |-> f, caption |-> caption, duration |-> d, name |-> name]
        /\ Contents!LiveFields(c) = [text |-> f, caption |-> caption, duration |-> e, name |-> name]
        /\ d # e => c.seconds = 0
  <2>1. Contents!HistoryFields(c) =
          [text |-> Contents!LiveText(c), caption |-> Contents!Caption(c),
           duration |-> IF Contents!Body(c) \in {"video", "audio"} /\ c.seconds # 0
                        THEN Contents!Minutes(c) ELSE <<>>,
           name |-> Contents!Body(c) \in {"document", "contact"}]
    BY <1>1, Zenon DEF Contents!HistoryFields
  <2>2. Contents!LiveFields(c) =
          [text |-> Contents!LiveText(c), caption |-> Contents!Caption(c),
           duration |-> IF Contents!Body(c) \in {"video", "audio"} THEN Contents!Minutes(c) ELSE <<>>,
           name |-> Contents!Body(c) \in {"document", "contact"}]
    BY Zenon DEF Contents!LiveFields
  <2>3. (IF Contents!Body(c) \in {"video", "audio"} /\ c.seconds # 0 THEN Contents!Minutes(c) ELSE <<>>)
          # (IF Contents!Body(c) \in {"video", "audio"} THEN Contents!Minutes(c) ELSE <<>>)
        => c.seconds = 0
    BY Zenon
  <2>. QED
    BY <2>1, <2>2, <2>3, Zenon
<1>. QED
  BY <1>2

LEMMA CaptionIs ==
  ASSUME NEW c
  PROVE  Contents!Caption(c) =
           IF Contents!Body(c) \in {"image", "video", "document", "location"} THEN Contents!Words(c) ELSE
           IF Contents!Body(c) = "templateImage" /\ Contents!Has(c, {"templateText"}) THEN "words" ELSE ""
<1>1. CASE Contents!Body(c) \in {"image", "video", "document", "location"}
  <2>1. ~(Contents!Body(c) = "templateImage" /\ Contents!Has(c, {"templateText"}))
    BY <1>1
  <2>. QED
    BY <1>1, <2>1, Zenon DEF Contents!Caption
<1>2. CASE Contents!Body(c) = "templateImage" /\ Contents!Has(c, {"templateText"})
  <2>1. Contents!Body(c) \notin {"image", "video", "document", "location"}
    BY <1>2
  <2>. QED
    BY <1>2, <2>1, Zenon DEF Contents!Caption
<1>3. CASE /\ Contents!Body(c) \notin {"image", "video", "document", "location"}
           /\ ~(Contents!Body(c) = "templateImage" /\ Contents!Has(c, {"templateText"}))
  BY <1>3, Zenon DEF Contents!Caption
<1>. QED
  BY <1>1, <1>2, <1>3, Zenon

(* What each test of the code comes to: it asks for the content's one kind, *)
(* "template" being the kind of an image and a text in one.                *)
LEMMA KindOf ==
  ASSUME NEW c, OnePart(c)
  PROVE  \E kind \in Contents!Parts \cup {"template"} :
            /\ Contents!Has(c, {"conversation"}) <=> kind \in {"conversation"}
            /\ Contents!Has(c, {"extended"}) <=> kind \in {"extended"}
            /\ Contents!Has(c, {"image"}) <=> kind \in {"image"}
            /\ Contents!Image(c) <=> kind \in {"image", "templateImage", "template"}
            /\ Contents!Has(c, {"templateText"}) <=> kind \in {"templateText", "template"}
            /\ Contents!Video(c) <=> kind \in {"video", "ptv"}
            /\ Contents!Has(c, {"audio"}) <=> kind \in {"audio"}
            /\ Contents!Has(c, {"document"}) <=> kind \in {"document"}
            /\ Contents!Contact(c) <=> kind \in {"contact", "contacts"}
            /\ Contents!Location(c) <=> kind \in {"location", "liveLocation"}
            /\ Contents!Has(c, {"sticker"}) <=> kind \in {"sticker"}
            /\ Contents!Has(c, {"extended", "conversation"}) <=> kind \in {"extended", "conversation"}
            /\ Contents!Has(c, {"conversation", "extended", "templateText"}) <=> kind \in {"conversation", "extended", "templateText", "template"}
            /\ Contents!Has(c, {"templateText", "unknown"}) <=> kind \in {"templateText", "template", "unknown"}
            /\ Contents!Unsupported(c) <=> kind \in {"unknown"}
<1>. USE DEF Contents!Image, Contents!Video, Contents!Contact, Contents!Location, Contents!Unsupported
<1>1. CASE \E part \in Contents!Parts : c.parts \subseteq {part, "ignored"}
  <2>1. PICK part \in Contents!Parts : c.parts \subseteq {part, "ignored"}
    BY <1>1
  <2>2. PICK kind \in Contents!Parts : \A parts : "ignored" \notin parts => (Contents!Has(c, parts) <=> kind \in parts)
    <3>1. CASE part \in c.parts
      BY <2>1, <3>1 DEF Contents!Has
    <3>2. CASE part \notin c.parts
      <4>1. "ignored" \in Contents!Parts
        BY DEF Contents!Parts
      <4>. QED
        BY <2>1, <3>2, <4>1 DEF Contents!Has
    <3>. QED
      BY <3>1, <3>2
  <2>3. kind # "template"
    BY <2>2 DEF Contents!Parts, Contents!Plain, Contents!Template
  <2>. WITNESS kind \in Contents!Parts \cup {"template"}
  <2>. QED
    BY <2>2, <2>3
<1>2. CASE c.parts \ {"ignored"} = Contents!Template
  <2>1. \A parts : "ignored" \notin parts =>
           (Contents!Has(c, parts) <=> "templateImage" \in parts \/ "templateText" \in parts)
    <3>. SUFFICES ASSUME NEW parts, "ignored" \notin parts
                  PROVE  Contents!Has(c, parts) <=> "templateImage" \in parts \/ "templateText" \in parts
      OBVIOUS
    <3>1. \A part \in parts : part \in c.parts <=> part \in {"templateImage", "templateText"}
      BY <1>2 DEF Contents!Template
    <3>. QED
      BY <3>1 DEF Contents!Has
  <2>. DEFINE kind == "template"
  <2>. WITNESS kind \in Contents!Parts \cup {"template"}
  <2>. QED
    BY <2>1
<1>. QED
  BY <1>1, <1>2 DEF OnePart

(* ... and the preview, but for an extended text without words.            *)
LEMMA SamePreview ==
  ASSUME NEW c, OnePart(c), Contents!LiveType(c) # "none", Contents!HistoryPreview(c) # Contents!LivePreview(c)
  PROVE  Contents!Has(c, {"extended"}) /\ ~c.words
<1>0. PICK e : e = ""
  OBVIOUS
<1>1. PICK kind \in Contents!Parts \cup {"template"} :
        /\ Contents!Has(c, {"conversation"}) <=> kind \in {"conversation"}
        /\ Contents!Has(c, {"extended"}) <=> kind \in {"extended"}
        /\ Contents!Has(c, {"image"}) <=> kind \in {"image"}
        /\ Contents!Image(c) <=> kind \in {"image", "templateImage", "template"}
        /\ Contents!Has(c, {"templateText"}) <=> kind \in {"templateText", "template"}
        /\ Contents!Video(c) <=> kind \in {"video", "ptv"}
        /\ Contents!Has(c, {"audio"}) <=> kind \in {"audio"}
        /\ Contents!Has(c, {"document"}) <=> kind \in {"document"}
        /\ Contents!Contact(c) <=> kind \in {"contact", "contacts"}
        /\ Contents!Location(c) <=> kind \in {"location", "liveLocation"}
        /\ Contents!Has(c, {"sticker"}) <=> kind \in {"sticker"}
        /\ Contents!Has(c, {"extended", "conversation"}) <=> kind \in {"extended", "conversation"}
        /\ Contents!Has(c, {"conversation", "extended", "templateText"}) <=> kind \in {"conversation", "extended", "templateText", "template"}
        /\ Contents!Has(c, {"templateText", "unknown"}) <=> kind \in {"templateText", "template", "unknown"}
        /\ Contents!Unsupported(c) <=> kind \in {"unknown"}
  BY KindOf, Zenon
<1>2. Contents!LivePreview(c) =
        IF Contents!LiveType(c) = "location" THEN Contents!Or(Contents!LiveText(c), "location")
        ELSE Contents!Or(Contents!LiveText(c), Contents!Or(Contents!Caption(c), Contents!LiveType(c)))
  BY DEF Contents!LivePreview, Contents!LiveFields
<1>3. Contents!LiveType(c) =
          IF Contents!Image(c) THEN "image" ELSE
          IF Contents!Has(c, {"templateText"}) THEN "text" ELSE
          IF Contents!Video(c) THEN "video" ELSE
          IF Contents!Has(c, {"audio"}) THEN "audio" ELSE
          IF Contents!Has(c, {"document"}) THEN "document" ELSE
          IF Contents!Contact(c) THEN "contact" ELSE
          IF Contents!Location(c) THEN "location" ELSE
          IF Contents!Has(c, {"sticker"}) THEN "sticker" ELSE
          IF Contents!Has(c, {"extended"}) /\ c.link THEN "link" ELSE
          IF Contents!Has(c, {"extended", "conversation"}) THEN "text" ELSE
          IF Contents!Unsupported(c) THEN "text" ELSE
          "none"
  BY LiveTypeChain, Zenon
<1>4. Contents!LiveText(c) =
          IF Contents!LiveType(c) = "none" THEN e ELSE
          IF Contents!Body(c) = "location" THEN Contents!Words(c) ELSE
          IF Contents!Has(c, {"conversation"}) THEN "words" ELSE
          IF Contents!Has(c, {"extended"}) THEN Contents!Words(c) ELSE
          IF Contents!LiveType(c) = "text" /\ Contents!Has(c, {"templateText"}) THEN "words" ELSE
          IF Contents!LiveType(c) = "text" THEN "unsupported" ELSE
          e
  BY <1>0, LiveTextChain, Zenon
<1>5. Contents!Body(c) =
          IF Contents!Has(c, {"image"}) THEN "image" ELSE
          IF Contents!Image(c) THEN "templateImage" ELSE
          IF Contents!Video(c) THEN "video" ELSE
          IF Contents!Has(c, {"audio"}) THEN "audio" ELSE
          IF Contents!Has(c, {"document"}) THEN "document" ELSE
          IF Contents!Contact(c) THEN "contact" ELSE
          IF Contents!Location(c) THEN "location" ELSE
          "none"
  BY BodyChain, Zenon
<1>6. Contents!HistoryPreview(c) =
          IF Contents!Has(c, {"conversation"}) THEN "words" ELSE
          IF Contents!Has(c, {"extended"}) /\ c.words THEN "words" ELSE
          IF Contents!Has(c, {"image"}) THEN Contents!Or(Contents!Words(c), "image") ELSE
          IF Contents!Image(c) THEN (IF Contents!Has(c, {"templateText"}) THEN "words" ELSE "image") ELSE
          IF Contents!Video(c) THEN Contents!Or(Contents!Words(c), "video") ELSE
          IF Contents!Location(c) THEN Contents!Or(Contents!Words(c), "location") ELSE
          IF Contents!Has(c, {"audio"}) THEN "audio" ELSE
          IF Contents!Has(c, {"document"}) THEN Contents!Or(Contents!Words(c), "document") ELSE
          IF Contents!Contact(c) THEN "contact" ELSE
          IF Contents!Has(c, {"sticker"}) THEN "sticker" ELSE
          IF Contents!Has(c, {"templateText"}) THEN "words" ELSE
          IF Contents!Unsupported(c) THEN "unsupported" ELSE
          e
  BY <1>0, HistoryPreviewChain, Zenon
<1>7. Contents!Caption(c) =
           IF Contents!Body(c) \in {"image", "video", "document", "location"} THEN Contents!Words(c) ELSE
           IF Contents!Body(c) = "templateImage" /\ Contents!Has(c, {"templateText"}) THEN "words" ELSE e
  BY <1>0, CaptionIs, Zenon
<1>8. /\ Contents!Words(c) = (IF c.words THEN "words" ELSE e)
      /\ \A words, label : Contents!Or(words, label) = IF words # e THEN words ELSE label
  BY <1>0, Zenon DEF Contents!Words, Contents!Or
<1>9. e \notin {"words", "unsupported"}
  BY <1>0
<1>10. Contents!HistoryPreview(c) = Contents!LivePreview(c) \/ Contents!LiveType(c) = "none" \/ (kind = "extended" /\ ~c.words)
  BY <1>1, <1>2, <1>3, <1>4, <1>5, <1>6, <1>7, <1>8, <1>9
     DEF Contents!Parts, Contents!Plain, Contents!Template
<1>. QED
  BY <1>1, <1>10

(* What a reply shows of the message it quotes is that preview, or nothing.*)
LEMMA Quotes ==
  ASSUME NEW c, OnePart(c)
  PROVE  Contents!QuoteMatches(c)
<1>0. PICK e : e = ""
  OBVIOUS
<1>1. PICK kind \in Contents!Parts \cup {"template"} :
        /\ Contents!Has(c, {"conversation"}) <=> kind \in {"conversation"}
        /\ Contents!Has(c, {"extended"}) <=> kind \in {"extended"}
        /\ Contents!Has(c, {"image"}) <=> kind \in {"image"}
        /\ Contents!Image(c) <=> kind \in {"image", "templateImage", "template"}
        /\ Contents!Has(c, {"templateText"}) <=> kind \in {"templateText", "template"}
        /\ Contents!Video(c) <=> kind \in {"video", "ptv"}
        /\ Contents!Has(c, {"audio"}) <=> kind \in {"audio"}
        /\ Contents!Has(c, {"document"}) <=> kind \in {"document"}
        /\ Contents!Contact(c) <=> kind \in {"contact", "contacts"}
        /\ Contents!Location(c) <=> kind \in {"location", "liveLocation"}
        /\ Contents!Has(c, {"sticker"}) <=> kind \in {"sticker"}
        /\ Contents!Has(c, {"extended", "conversation"}) <=> kind \in {"extended", "conversation"}
        /\ Contents!Has(c, {"conversation", "extended", "templateText"}) <=> kind \in {"conversation", "extended", "templateText", "template"}
        /\ Contents!Has(c, {"templateText", "unknown"}) <=> kind \in {"templateText", "template", "unknown"}
        /\ Contents!Unsupported(c) <=> kind \in {"unknown"}
  BY KindOf, Zenon
<1>2. Contents!HistoryPreview(c) =
          IF Contents!Has(c, {"conversation"}) THEN "words" ELSE
          IF Contents!Has(c, {"extended"}) /\ c.words THEN "words" ELSE
          IF Contents!Has(c, {"image"}) THEN Contents!Or(Contents!Words(c), "image") ELSE
          IF Contents!Image(c) THEN (IF Contents!Has(c, {"templateText"}) THEN "words" ELSE "image") ELSE
          IF Contents!Video(c) THEN Contents!Or(Contents!Words(c), "video") ELSE
          IF Contents!Location(c) THEN Contents!Or(Contents!Words(c), "location") ELSE
          IF Contents!Has(c, {"audio"}) THEN "audio" ELSE
          IF Contents!Has(c, {"document"}) THEN Contents!Or(Contents!Words(c), "document") ELSE
          IF Contents!Contact(c) THEN "contact" ELSE
          IF Contents!Has(c, {"sticker"}) THEN "sticker" ELSE
          IF Contents!Has(c, {"templateText"}) THEN "words" ELSE
          IF Contents!Unsupported(c) THEN "unsupported" ELSE
          e
  BY <1>0, HistoryPreviewChain, Zenon
<1>3. Contents!QuotedPreview(c) =
          IF Contents!Has(c, {"conversation"}) THEN "words" ELSE
          IF Contents!Has(c, {"extended"}) /\ c.words THEN "words" ELSE
          IF Contents!Has(c, {"image"}) THEN Contents!Or(Contents!Words(c), "image") ELSE
          IF Contents!Video(c) THEN Contents!Or(Contents!Words(c), "video") ELSE
          IF Contents!Has(c, {"audio"}) THEN "audio" ELSE
          IF Contents!Has(c, {"document"}) THEN Contents!Or(Contents!Words(c), "document") ELSE
          IF Contents!Contact(c) THEN "contact" ELSE
          IF Contents!Location(c) THEN Contents!Or(Contents!Words(c), "location") ELSE
          IF Contents!Has(c, {"sticker"}) THEN "sticker" ELSE
          IF Contents!Image(c) THEN (IF Contents!Has(c, {"templateText"}) THEN "words" ELSE "image") ELSE
          e
  BY <1>0, QuotedPreviewChain, Zenon
<1>4. \/ Contents!QuotedPreview(c) = Contents!HistoryPreview(c)
      \/ Contents!QuotedPreview(c) = e /\ Contents!Has(c, {"templateText", "unknown"})
  BY <1>1, <1>2, <1>3 DEF Contents!Parts, Contents!Plain, Contents!Template
<1>. QED
  BY <1>0, <1>4, Zenon DEF Contents!QuoteMatches

(* A chat page takes a task up, or is at rest again, or goes on with its   *)
(* own; a task has the fields of its kind.                                 *)
LEMMA OneTask ==
  ASSUME [AppNext]_appVars
  PROVE  UNCHANGED task \/ task' = Resting \/ ChatTask
<1>1. CASE ChatTask \/ Rest
  BY <1>1 DEF Rest
<1>2. CASE \/ Launch \/ Startup \/ Tap \/ Quit \/ End \/ Link \/ Unlink \/ SessionEvent
           \/ Stored \/ Elsewhere \/ MigrationFails \/ UNCHANGED appVars
  <2>1. CASE Launch \/ Tap \/ Quit \/ End \/ Link \/ Unlink \/ SessionEvent
    BY <2>1 DEF Launch, Tap, Quit, End, Link, Unlink, SessionEvent, pageVars
  <2>2. CASE Startup
    BY <2>2 DEF Startup, Migrate, EndMigration, CallStep, Callback, StartupCallback, Migrating, Found, Installed,
       Versioned, NotFound, Enters, NotInstalled, Toggled, Cleared, Lost, Go, Show, pageVars
  <2>3. CASE Stored \/ Elsewhere \/ MigrationFails \/ UNCHANGED appVars
    BY <2>3 DEF Stored, Elsewhere, MigrationFails, appVars, pageVars
  <2>. QED
    BY <1>2, <2>1, <2>2, <2>3
<1>. QED
  BY <1>1, <1>2, Zenon DEF AppNext

LEMMA OtherTask ==
  ASSUME Asking \/ Listing
  PROVE  task'.kind \in {"call", "list"}
<1>1. CASE Asking
  <2>1. PICK call, daemon, fault, success, args :
          task' = [kind |-> "call", call |-> call, args |-> args, daemon |-> daemon,
                   fault |-> fault, success |-> success]
    BY <1>1, Zenon DEF Asking
  <2>. QED
    BY <2>1
<1>2. CASE Listing
  <2>1. PICK loaded, turns, cut :
          task' = [kind |-> "list", loaded |-> loaded, turns |-> turns, cut |-> cut]
    BY <1>2, Zenon DEF Listing
  <2>. QED
    BY <2>1
<1>. QED
  BY <1>1, <1>2

(* The properties of one task, whichever it is: nothing is asked of the    *)
(* others, and a task is given up whole.                                   *)
LEMMA TaskStep ==
  ASSUME ShownAlike, SentAsComposed, [AppNext]_appVars
  PROVE  ShownAlike' /\ SentAsComposed'
<1>1. CASE UNCHANGED task
  BY <1>1, Zenon DEF ShownAlike, SentAsComposed
<1>2. CASE task' = Resting
  BY <1>2 DEF Resting, ShownAlike, SentAsComposed
<1>3. CASE Showing
  <2>1. PICK c \in Contents!Regular : task' = [kind |-> "content", content |-> c]
    BY <1>3, Zenon DEF Showing
  <2>2. OnePart(c)
    BY RegularIsOnePart, Zenon
  <2>3. Contents!HistoryLooksLive(c)
    BY <2>2, LooksLive, SameFields, SamePreview, Zenon DEF Contents!HistoryLooksLive
  <2>4. Contents!QuoteMatches(c) /\ Contents!ShownIsDownloadable(c)
    BY <2>2, Quotes, MediaHasFile, Zenon
  <2>5. task'.content = c /\ task'.kind = "content"
    BY <2>1
  <2>6. ShownAlike'
    BY <2>3, <2>4, <2>5, Zenon DEF ShownAlike
  <2>7. SentAsComposed'
    BY <2>5 DEF SentAsComposed
  <2>. QED
    BY <2>6, <2>7
<1>4. CASE Writing
  <2>0. PICK text \in Texts : \E spans \in SUBSET Mentionable(text) :
          task' = [kind |-> "text", text |-> text, spans |-> spans]
    BY <1>4, Zenon DEF Writing
  <2>1. PICK spans \in SUBSET Mentionable(text) :
          task' = [kind |-> "text", text |-> text, spans |-> spans]
    BY <2>0
  <2>2. text \in Seq(Chars)
    BY TextsAssumption, Zenon
  <2>3. MentionsKept(text, spans)
    BY <2>2, MentionsAreKept, Zenon
  <2>4. task'.kind = "text" /\ task'.text = text /\ task'.spans = spans
    BY <2>1
  <2>5. (task.kind = "text" => MentionsKept(task.text, task.spans))'
    BY <2>3, <2>4, Zenon
  <2>6. task'.kind # "reply" /\ task'.kind # "file"
    BY <2>4
  <2>7. SentAsComposed'
    BY <2>5, <2>6, Zenon DEF SentAsComposed
  <2>8. ShownAlike'
    BY <2>4 DEF ShownAlike
  <2>. QED
    BY <2>7, <2>8
<1>5. CASE Replying
  <2>1. PICK who \in Participants, now \in Entries, later \in Entries :
          task' = [kind |-> "reply", who |-> who, now |-> now, later |-> later]
    BY <1>5, Zenon DEF Replying
  <2>2. ReplyKept(who, now, later)
    BY ReplyIsKept, Zenon
  <2>3. task'.kind = "reply" /\ task'.who = who /\ task'.now = now /\ task'.later = later
    BY <2>1
  <2>4. (task.kind = "reply" => ReplyKept(task.who, task.now, task.later))'
    BY <2>2, <2>3, Zenon
  <2>5. task'.kind # "text" /\ task'.kind # "file"
    BY <2>3
  <2>6. SentAsComposed'
    BY <2>4, <2>5, Zenon DEF SentAsComposed
  <2>7. ShownAlike'
    BY <2>3 DEF ShownAlike
  <2>. QED
    BY <2>6, <2>7
<1>6. CASE Attaching
  <2>1. PICK kind \in Kinds, seconds \in {0, 59, 60, 61} :
          task' = [kind |-> "file", of |-> kind, seconds |-> seconds]
    BY <1>6, Zenon DEF Attaching
  <2>2. FieldsKept(kind, seconds)
    BY FieldsAreKept
  <2>3. task'.kind = "file" /\ task'.of = kind /\ task'.seconds = seconds
    BY <2>1
  <2>4. (task.kind = "file" => FieldsKept(task.of, task.seconds))'
    BY <2>2, <2>3, Zenon
  <2>5. task'.kind # "text" /\ task'.kind # "reply"
    BY <2>3
  <2>6. SentAsComposed'
    BY <2>4, <2>5, Zenon DEF SentAsComposed
  <2>7. ShownAlike'
    BY <2>3 DEF ShownAlike
  <2>. QED
    BY <2>6, <2>7
<1>7. CASE Asking \/ Listing
  BY <1>7, OtherTask DEF ShownAlike, SentAsComposed
<1>. QED
  BY <1>1, <1>2, <1>3, <1>4, <1>5, <1>6, <1>7, OneTask, Zenon DEF ChatTask

(* Whichever way a message comes, live, with the history or quoted, the    *)
(* code's separate derivations agree on what is shown of it.               *)
THEOREM LooksAlike == AppSpec => []ShownAlike
<1>1. AppInit => ShownAlike /\ SentAsComposed
  BY DEF AppInit, Resting, ShownAlike, SentAsComposed
<1>2. ShownAlike /\ SentAsComposed /\ [AppNext]_appVars => (ShownAlike /\ SentAsComposed)'
  BY TaskStep
<1>. QED
  BY <1>1, <1>2, PTL DEF AppSpec

(* What is sent, at once or after any number of retries, is what was      *)
(* composed, for texts of any length: the mentions of the page reach the   *)
(* people they name and are shown there as they were written, a reply goes *)
(* to the person it was for, and every field the daemon uses was filled.   *)
THEOREM SendsAsComposed == AppSpec => []SentAsComposed
<1>1. AppInit => ShownAlike /\ SentAsComposed
  BY DEF AppInit, Resting, ShownAlike, SentAsComposed
<1>2. ShownAlike /\ SentAsComposed /\ [AppNext]_appVars => (ShownAlike /\ SentAsComposed)'
  BY TaskStep
<1>. QED
  BY <1>1, <1>2, PTL DEF AppSpec

(* A page is told of what it may be told of, and lists what is kept.       *)
LEMMA ListStep ==
  ASSUME ListShowsKept, [AppNext]_appVars
  PROVE  ListShowsKept'
<1>1. CASE UNCHANGED task
  BY <1>1, Zenon DEF ListShowsKept
<1>2. CASE task' = Resting
  BY <1>2 DEF Resting, ListShowsKept
<1>3. CASE Listing
  <2>0. PICK loaded \in Pages, turns \in Histories : \E cut \in 0 .. Len(turns) :
          task' = [kind |-> "list", loaded |-> loaded, turns |-> turns, cut |-> cut]
    BY <1>3, Zenon DEF Listing
  <2>1. PICK cut \in 0 .. Len(turns) :
          task' = [kind |-> "list", loaded |-> loaded, turns |-> turns, cut |-> cut]
    BY <2>0
  <2>2. IsHistory(turns)
    BY HistoriesAre
  <2>3. ShowsKept(loaded, turns, cut)
    BY <2>2, KeptIsShown
  <2>4. task'.loaded = loaded /\ task'.turns = turns /\ task'.cut = cut
    BY <2>1
  <2>. QED
    BY <2>3, <2>4, Zenon DEF ListShowsKept
<1>4. CASE Showing
  <2>1. PICK c \in Contents!Regular : task' = [kind |-> "content", content |-> c]
    BY <1>4, Zenon DEF Showing
  <2>. QED
    BY <2>1 DEF ListShowsKept
<1>5. CASE Writing
  <2>0. PICK text \in Texts : \E spans \in SUBSET Mentionable(text) :
          task' = [kind |-> "text", text |-> text, spans |-> spans]
    BY <1>5, Zenon DEF Writing
  <2>1. PICK spans \in SUBSET Mentionable(text) :
          task' = [kind |-> "text", text |-> text, spans |-> spans]
    BY <2>0
  <2>. QED
    BY <2>1 DEF ListShowsKept
<1>6. CASE Replying
  <2>1. PICK who \in Participants, now \in Entries, later \in Entries :
          task' = [kind |-> "reply", who |-> who, now |-> now, later |-> later]
    BY <1>6, Zenon DEF Replying
  <2>. QED
    BY <2>1 DEF ListShowsKept
<1>7. CASE Attaching
  <2>1. PICK kind \in Kinds, seconds \in {0, 59, 60, 61} :
          task' = [kind |-> "file", of |-> kind, seconds |-> seconds]
    BY <1>7, Zenon DEF Attaching
  <2>. QED
    BY <2>1 DEF ListShowsKept
<1>8. CASE Asking
  <2>1. PICK call, daemon, fault, success, args :
          task' = [kind |-> "call", call |-> call, args |-> args, daemon |-> daemon,
                   fault |-> fault, success |-> success]
    BY <1>8, Zenon DEF Asking
  <2>. QED
    BY <2>1 DEF ListShowsKept
<1>. QED
  BY <1>1, <1>2, <1>3, <1>4, <1>5, <1>6, <1>7, <1>8, OneTask, Zenon DEF ChatTask

(* The chat page lists what is kept, each message once, in its last state  *)
(* and at its place, and can be loaded again without a change: whatever it *)
(* had loaded, however many messages changed however often since, and      *)
(* however the changes were put into batches.                              *)
THEOREM ListsWhatIsKept == AppSpec => []ListShowsKept
<1>1. AppInit => ListShowsKept
  BY DEF AppInit, Resting, ListShowsKept
<1>2. ListShowsKept /\ [AppNext]_appVars => ListShowsKept'
  BY ListStep
<1>. QED
  BY <1>1, <1>2, PTL DEF AppSpec

=============================================================================
