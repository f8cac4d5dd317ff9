----------------------------------- MODULE App -----------------------------------
(***************************************************************************)
(* The application from its start to its end: the pages' calls bring kv.db *)
(* up to date, find or install the daemon, ask for the session and start   *)
(* the event loop; then the user has the chat pages, and the settings page *)
(* to switch the autostart or to remove everything.                        *)
(*                                                                         *)
(* StorageMigrations and Service say what the calls do, a page what it     *)
(* does with an answer.  What a chat page asks for, sends or shows is taken*)
(* one at a time, as a task: Calls, Composing, Contents and MessageList say*)
(* what comes of it.                                                       *)
(***************************************************************************)
EXTENDS StorageMigrations, Service, Composing, MessageList

Calls == INSTANCE Calls
Contents == INSTANCE Contents

CONSTANT Texts      \* what the user may write

ASSUME TextsAssumption == Texts \subseteq Seq(Chars)

VARIABLES
  screen,    \* "off", "splash", the "setup", "auth" or "chats" page, "closing"
  lost,      \* the call whose answer the page waits for in vain
  task       \* what a chat page is at

appVars == <<vars, serviceVars, screen, lost, task>>

Resting == [kind |-> "none"]
pageVars == <<screen, lost, task>>

AppInit ==
  /\ Init /\ ServiceInit
  /\ screen = "off" /\ lost = "none" /\ task = Resting

-----------------------------------------------------------------------------
(* The calls at work.                                                      *)

(* Main.qml calls run_storage_migrations, which opens kv.db or makes one.  *)
Launch ==
  /\ screen = "off" /\ stage = "off" /\ (Run \/ Raise)
  /\ screen' = "splash" /\ job' = Job("migrate", FALSE) /\ kept' = "kept"
  /\ UNCHANGED <<unit, enabled, running, stopOnExit, linked, loop, reply, lost, task>>

Migrate ==
  /\ job.call = "migrate"
  /\ ReadPage \/ CommitPage \/ PutVersion
  /\ UNCHANGED <<serviceVars, pageVars>>

MigrationFails == job.call = "migrate" /\ Raise /\ UNCHANGED <<serviceVars, pageVars>>

(* A kv.db of a newer version, or one that fails, makes the call raise.    *)
EndMigration ==
  /\ job.call = "migrate" /\ stage \in {"done", "refused", "failed"}
  /\ Answer(IF stage = "done" THEN "success" ELSE "raised")
  /\ UNCHANGED <<vars, unit, enabled, running, stopOnExit, kept, linked, loop, pageVars>>

CallStep ==
  /\ Work
  /\ IF Erases THEN Erase ELSE UNCHANGED vars
  /\ UNCHANGED pageVars

-----------------------------------------------------------------------------
(* The pages.                                                              *)

Begin(call, arg) == job' = Job(call, arg)
Answered(call) == reply.call = call /\ reply.said # "raised"
Taken == reply' = NoReply
LeaveService == UNCHANGED <<unit, enabled, running, stopOnExit, linked>>

(* Main.qml and DaemonSetupPage.qml: each callback makes the next call.    *)
Go(call) ==
  /\ Begin(call, FALSE) /\ Taken
  /\ LeaveService /\ UNCHANGED <<vars, kept, loop, screen, lost, task>>

Migrating == Answered("migrate") /\ Go("status")
Found == Answered("status") /\ reply.said = "active" /\ Go("version")
Installed == Answered("install") /\ reply.said = "success" /\ Go("version")
Versioned == Answered("version") /\ Go("session")

Show(next) ==
  /\ Taken /\ screen' = next
  /\ LeaveService /\ UNCHANGED <<vars, lost, task, job>>

NotFound ==
  Answered("status") /\ reply.said # "active" /\ Show("setup") /\ UNCHANGED <<kept, loop>>

(* start_event_loop opens kv.db, and starts no loop if it raises then.     *)
Enters ==
  /\ Answered("session")
  /\ Show(IF reply.said = "in" THEN "chats" ELSE "auth")
  /\ loop' \in {loop, "on"} /\ kept' = "kept"

(* The page with the button shows the message; the toggle is put back.     *)
NotInstalled ==
  Answered("install") /\ reply.said = "failure" /\ Show(screen) /\ UNCHANGED <<kept, loop>>

Toggled == Answered("set") /\ Show(screen) /\ UNCHANGED <<kept, loop>>
Cleared == Answered("clear") /\ Show("setup") /\ UNCHANGED <<kept, loop>>

(* No callback runs for a call that raises.                                *)
Lost ==
  /\ reply.said = "raised" /\ Taken /\ lost' = reply.call
  /\ LeaveService /\ UNCHANGED <<vars, kept, loop, screen, task, job>>

StartupCallback ==
  Migrating \/ Found \/ Installed \/ Versioned \/ NotFound \/ Enters \/ NotInstalled

Callback == StartupCallback \/ Toggled \/ Cleared \/ Lost

Idle == job = NoJob /\ reply = NoReply /\ task = Resting

(* What the user starts.                                                   *)
Tap ==
  /\ Idle /\ lost = "none"
  /\ \/ screen = "setup" /\ Begin("install", FALSE)
     \/ screen = "chats" /\ Begin("clear", FALSE)
     \/ screen = "chats" /\ \E arg \in BOOLEAN : Begin("set", arg)
  /\ LeaveService /\ UNCHANGED <<vars, kept, loop, reply, pageVars>>

(* onAboutToQuit.                                                          *)
Quit ==
  /\ Idle /\ screen \in {"setup", "auth", "chats"}
  /\ Begin("exit", FALSE) /\ screen' = "closing"
  /\ LeaveService /\ UNCHANGED <<vars, kept, loop, reply, lost, task>>

(* The application ends, or is killed at any time; so may be the session,  *)
(* and the next one starts the daemon if that is enabled.                  *)
End ==
  /\ screen # "off" /\ task = Resting /\ Die
  /\ running' \in {running, IF enabled /\ unit # "none" THEN "new" ELSE "no"}
  /\ screen' = "off" /\ lost' = "none" /\ UNCHANGED task
  /\ loop' = "off" /\ job' = NoJob /\ reply' = NoReply
  /\ UNCHANGED <<unit, enabled, stopOnExit, kept, linked>>

(* The account is linked from the authorization page, and unlinked on the  *)
(* phone.                                                                  *)
Link ==
  /\ Active /\ ~linked /\ screen = "auth" /\ linked' = TRUE
  /\ UNCHANGED <<vars, unit, enabled, running, stopOnExit, kept, loop, job, reply, pageVars>>

Unlink ==
  /\ Active /\ linked /\ task = Resting /\ linked' = FALSE
  /\ UNCHANGED <<vars, unit, enabled, running, stopOnExit, kept, loop, job, reply, pageVars>>

(* session-status: no event while the daemon cannot be asked.              *)
SessionEvent ==
  /\ loop = "on" /\ Active /\ task = Resting
  /\ \/ screen = "auth" /\ linked /\ screen' = "chats"
     \/ screen = "chats" /\ ~linked /\ screen' = "auth"
  /\ UNCHANGED <<vars, serviceVars, lost, task>>

-----------------------------------------------------------------------------
(* Tasks of the chat pages, taken up by an application at rest.            *)

Settled ==
  /\ screen = "chats" /\ Idle /\ lost = "none" /\ loop = "on" /\ kept = "kept"
  /\ unit = "new" /\ enabled /\ running = "new" /\ ~stopOnExit

(* The others do not look at kv.db: one state of it will do.               *)
Fresh == Settled /\ deaths = 0 /\ db = [r \in Rows |-> Absent]

Asking ==
  /\ Settled
  /\ \E call \in DOMAIN Calls!PageArgs, daemon \in Calls!Daemons, fault \in Calls!Faults,
        success \in BOOLEAN :
       \E args \in Calls!PageArgs[call] :
         task' = [kind |-> "call", call |-> call, args |-> args, daemon |-> daemon,
                  fault |-> fault, success |-> success]

Writing == Fresh /\ \E text \in Texts : \E spans \in SUBSET Mentionable(text) :
                      task' = [kind |-> "text", text |-> text, spans |-> spans]

Replying ==
  /\ Fresh
  /\ \E who \in Participants, now, later \in Entries :
       task' = [kind |-> "reply", who |-> who, now |-> now, later |-> later]

Attaching == Fresh /\ \E kind \in Kinds, seconds \in {0, 59, 60, 61} :
                        task' = [kind |-> "file", of |-> kind, seconds |-> seconds]

Showing == Fresh /\ \E c \in Contents!Regular : task' = [kind |-> "content", content |-> c]

Listing ==
  /\ Fresh
  /\ \E loaded \in Pages, turns \in Histories : \E cut \in 0 .. Len(turns) :
       task' = [kind |-> "list", loaded |-> loaded, turns |-> turns, cut |-> cut]

ChatTask ==
  /\ Asking \/ Writing \/ Replying \/ Attaching \/ Showing \/ Listing
  /\ UNCHANGED <<vars, serviceVars, screen, lost>>

Rest ==
  /\ task # Resting /\ task' = Resting
  /\ UNCHANGED <<vars, serviceVars, screen, lost>>

-----------------------------------------------------------------------------
(* What is stored once the migrations are through meets none.              *)
Stored ==
  /\ screen \in {"off", "splash"} /\ job.call \in {"none", "migrate"}
  /\ \E r \in Rows : Store(r)
  /\ UNCHANGED <<serviceVars, pageVars>>

Elsewhere == task = Resting /\ Meanwhile /\ UNCHANGED <<vars, pageVars>>

Startup == Migrate \/ EndMigration \/ CallStep \/ Callback

AppNext ==
  \/ Launch \/ Startup \/ MigrationFails \/ Tap \/ Quit \/ End
  \/ Link \/ Unlink \/ SessionEvent \/ ChatTask \/ Rest \/ Stored \/ Elsewhere

(* A call that runs goes on, and its answer is taken.                      *)
AppSpec == AppInit /\ [][AppNext]_appVars /\ WF_appVars(Startup)

-----------------------------------------------------------------------------
(* Properties.                                                             *)

(* A start comes to a page, whatever release left kv.db, the unit and the  *)
(* daemon as they are, whatever dies meanwhile and whatever command fails -*)
(* or a call of it raised and the splash stays: kv.db is of a newer release*)
(* or failed, an old unit file could not be replaced, or the daemon's      *)
(* session was no valid answer.                                            *)
StartupEnds ==
  (screen = "splash") ~>
    \/ screen # "splash"
    \/ lost = "migrate" /\ (version > Latest \/ stage = "failed")
    \/ lost = "version" /\ unit = "old"
    \/ lost = "session"

(* What an answer says of the unit, the daemon, the setting and the data   *)
(* is so when it is given, also after a command that failed on the way: a  *)
(* setting that could not be put into effect is the one that was there,    *)
(* unless putting that back failed as well.                                *)
AnswersTrue == [][reply' # reply /\ reply' # NoReply => AnswerHolds']_appVars

(* A page gets an answer to each call it makes, unless kv.db or the file   *)
(* it names cannot be read: its arguments are understood, here and by the  *)
(* daemon, the daemon's reply is understood here, a list or null, and the  *)
(* answer and the events fit their contracts.                              *)
AnswersFit ==
  task.kind = "call" =>
    LET readable == \A r \in Rows : Clean(r)
        outcome == Calls!Outcome(task.call, task.args, task.daemon, task.fault, readable, task.success)
    IN outcome = "answered" \/ (outcome = "raised" /\ task.fault # "none")

(* What is sent is what was composed, at once and from what is stored: the *)
(* mentions, the person replied to, the fields of each kind.               *)
SentAsComposed ==
  /\ task.kind = "text" => MentionsKept(task.text, task.spans)
  /\ task.kind = "reply" => ReplyKept(task.who, task.now, task.later)
  /\ task.kind = "file" => FieldsKept(task.of, task.seconds)

(* A message is shown the same whichever way it came, quoted as it was     *)
(* previewed, and has a file if it is shown with one.                      *)
ShownAlike ==
  task.kind = "content" =>
    /\ Contents!HistoryLooksLive(task.content)
    /\ Contents!QuoteMatches(task.content)
    /\ Contents!ShownIsDownloadable(task.content)

(* The chat page lists each message once, in its last state and at its     *)
(* place, however the changes were put into batches.                       *)
ListShowsKept ==
  task.kind = "list" => ShowsKept(task.loaded, task.turns, task.cut)
=============================================================================
