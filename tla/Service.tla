--------------------------------- MODULE Service ---------------------------------
(***************************************************************************)
(* The daemon as a systemd user unit, and the calls of the pages that      *)
(* install it, look after it, switch its autostart and remove it.          *)
(*                                                                         *)
(* The pages' calls run one at a time, in one thread.  A call is a sequence*)
(* of systemctl commands, writes of kv.db and changes to files, any of     *)
(* which may fail; a failed command is answered, or ignored, or ends the   *)
(* call without an answer.  Between two of them the daemon may die (systemd*)
(* starts it again) and the event loop may come to its end.                *)
(*                                                                         *)
(* A running daemon is of this release or of an old one; whatever starts   *)
(* it starts this release.                                                 *)
(***************************************************************************)
EXTENDS Naturals

VARIABLES
  unit,        \* the unit file: "none", an "old" one, or this release's, "new"
  enabled,     \* it starts with the session
  running,     \* the daemon: "no", "failed" (to be started again), "old", "new"
  stopOnExit,  \* kv.db: settings.stop_daemon_on_exit
  kept,        \* the data directory: "kept", "gone", "late" (written after it went)
  linked,      \* the daemon's account is linked
  loop,        \* the event loop: "off", "on", "ending"
  job,         \* the call that runs
  reply        \* its answer, until the page takes it

serviceVars == <<unit, enabled, running, stopOnExit, kept, linked, loop, job, reply>>

Active == running \in {"old", "new"}

(* A call is at a step.  It has the setting that was there, whether all    *)
(* went well so far, and whether putting the setting back failed too.      *)
First ==
  [migrate |-> "migrate", status |-> "test", version |-> "update", session |-> "ask",
   install |-> "copy", set |-> "put", exit |-> "readSetting", clear |-> "stopLoop"]

Job(call, arg) == [call |-> call, step |-> First[call], arg |-> arg, prev |-> arg,
                   smooth |-> TRUE, stuck |-> FALSE]
NoJob == [call |-> "none", step |-> "none", arg |-> FALSE, prev |-> FALSE,
          smooth |-> TRUE, stuck |-> FALSE]
NoReply == [call |-> "none", said |-> "none", arg |-> FALSE, prev |-> FALSE,
            smooth |-> TRUE, stuck |-> FALSE]

Goto(step) == job' = [job EXCEPT !.step = step]
Slip(step) == job' = [job EXCEPT !.step = step, !.smooth = FALSE]

(* "success" and "failure", or what was asked; "raised" if the call ends   *)
(* in an exception.                                                        *)
Answer(said) ==
  /\ reply' = [call |-> job.call, said |-> said, arg |-> job.arg, prev |-> job.prev,
               smooth |-> job.smooth, stuck |-> job.stuck]
  /\ job' = NoJob

(* What earlier sessions leave: no unit and nothing stored, or a unit, and *)
(* a daemon started from it by whichever release.                          *)
ServiceInit ==
  /\ unit \in {"none", "old", "new"} /\ running \in {"no", "old", "new"}
  /\ enabled \in BOOLEAN /\ stopOnExit \in BOOLEAN /\ linked \in BOOLEAN
  /\ unit = "none" => running = "no" /\ ~enabled /\ ~stopOnExit /\ ~linked
  /\ kept = "kept" /\ loop = "off" /\ job = NoJob /\ reply = NoReply

-----------------------------------------------------------------------------
(* systemctl                                                               *)

Cmd(command, done, failed) == [command |-> command, done |-> done, failed |-> failed]

InstallCommands ==
  [loadNew |-> Cmd("daemon-reload", "startNew", "failed"),
   startNew |-> Cmd("start", "enableNew", "failed"),
   enableNew |-> Cmd("enable", "succeeded", "failed")]

RemoveCommands ==
  [loadOld |-> Cmd("daemon-reload", "stopOld", "raised"),
   stopOld |-> Cmd("stop", "disableOld", "disableOld"),
   disableOld |-> Cmd("disable", "removeFile", "removeFile"),
   forget |-> Cmd("daemon-reload", "eraseConfig", "eraseConfig")]

StatusCommands == [wake |-> Cmd("start", "look", "look")]

UpdateCommands ==
  [loadUpdate |-> Cmd("daemon-reload", "restartUpdated", "restartUpdated"),
   restartUpdated |-> Cmd("restart", "compare", "compare")]

VersionCommands == [restartOutdated |-> Cmd("restart", "checked", "checked")]

SettingCommands ==
  [autostart |-> Cmd("enable", "succeeded", "undo"), noAutostart |-> Cmd("disable", "succeeded", "undo")]

ExitCommands == [leave |-> Cmd("stop", "left", "left")]

CommandAt(step) ==
  CASE step \in DOMAIN InstallCommands -> InstallCommands[step]
    [] step \in DOMAIN RemoveCommands -> RemoveCommands[step]
    [] step \in DOMAIN StatusCommands -> StatusCommands[step]
    [] step \in DOMAIN UpdateCommands -> UpdateCommands[step]
    [] step \in DOMAIN VersionCommands -> VersionCommands[step]
    [] step \in DOMAIN SettingCommands -> SettingCommands[step]
    [] step \in DOMAIN ExitCommands -> ExitCommands[step]
    [] OTHER -> Cmd("none", step, step)

(* Without a unit file nothing can be started, enabled or disabled.        *)
Systemctl ==
  LET c == CommandAt(job.step) IN
  /\ c.command # "none"
  /\ \/ /\ c.command \in {"daemon-reload", "stop"} \/ unit # "none"
        /\ running' = CASE c.command = "start" /\ ~Active -> "new"
                        [] c.command = "restart" -> "new"
                        [] c.command = "stop" -> "no"
                        [] OTHER -> running
        /\ enabled' = (c.command = "enable" \/ (enabled /\ c.command # "disable"))
        /\ Goto(c.done)
     \/ Slip(c.failed) /\ UNCHANGED <<running, enabled>>
  /\ UNCHANGED <<unit, stopOnExit, kept, linked, loop, reply>>

-----------------------------------------------------------------------------
(* The rest of each call.                                                  *)

At(step) == job.step = step
LeaveUnit == UNCHANGED <<unit, enabled, running>>
LeaveRest == UNCHANGED <<stopOnExit, kept, linked, loop>>

(* install_background_service_files: the old file is removed first.        *)
Copy ==
  /\ At("copy")
  /\ \/ unit' = "new" /\ Goto("loadNew")
     \/ unit' \in {"none", unit} /\ Goto("failed")
  /\ UNCHANGED <<enabled, running, reply>> /\ LeaveRest

Test ==
  /\ At("test")
  /\ Goto(IF unit # "none" /\ ~Active THEN "wake" ELSE "look")
  /\ LeaveUnit /\ LeaveRest /\ UNCHANGED reply

Look ==
  /\ At("look")
  /\ Answer(IF unit = "none" THEN "absent" ELSE IF Active THEN "active" ELSE "inactive")
  /\ LeaveUnit /\ LeaveRest

(* ensure_service_file: without a file of this release the old one stays;  *)
(* what the copy meets is not caught.                                      *)
Update ==
  /\ At("update")
  /\ \/ unit = "none" /\ Goto("checked") /\ UNCHANGED unit
     \/ unit = "new" /\ Goto("compare") /\ UNCHANGED unit
     \/ unit = "old" /\ unit' = "new" /\ Goto("loadUpdate")
     \/ unit = "old" /\ UNCHANGED unit /\ (Slip("compare") \/ Goto("raised"))
  /\ UNCHANGED <<enabled, running, reply>> /\ LeaveRest

(* GetVersion; a daemon that does not answer has no version.  If this      *)
(* release does not know its own, any will do.                             *)
Compare ==
  /\ At("compare")
  /\ \/ running # "old" /\ Goto("checked")
     \/ Active /\ (Slip("checked") \/ Goto("restartOutdated"))
  /\ LeaveUnit /\ LeaveRest /\ UNCHANGED reply

Checked == At("checked") /\ Answer("success") /\ LeaveUnit /\ LeaveRest

(* get_session_status: a daemon that cannot be asked is not logged in; what*)
(* it answers may fail validation, which is not caught.                    *)
AskSession ==
  /\ At("ask")
  /\ \/ Active /\ linked /\ Answer("in")
     \/ Active /\ Answer("raised")
     \/ Answer("out")
  /\ LeaveUnit /\ LeaveRest

(* set_stop_daemon_on_exit: the setting, then the unit, or the setting     *)
(* that was there, if that can be put.                                     *)
PutSetting ==
  /\ At("put")
  /\ \/ /\ stopOnExit' = job.arg
        /\ job' = [job EXCEPT !.prev = stopOnExit,
                              !.step = IF job.arg THEN "noAutostart" ELSE "autostart"]
     \/ /\ job' = [job EXCEPT !.prev = stopOnExit, !.step = "failed"] /\ UNCHANGED stopOnExit
  /\ LeaveUnit /\ UNCHANGED <<kept, linked, loop, reply>>

(* Mutation: the setting stays.                                            *)
KeepSetting == At("undo") /\ Goto("failed") /\ LeaveUnit /\ LeaveRest /\ UNCHANGED reply

Undo ==
  /\ At("undo")
  /\ \/ stopOnExit' = job.prev /\ Goto("failed")
     \/ job' = [job EXCEPT !.step = "failed", !.stuck = TRUE] /\ UNCHANGED stopOnExit
  /\ LeaveUnit /\ UNCHANGED <<kept, linked, loop, reply>>

ReadSetting ==
  /\ At("readSetting")
  /\ Goto(IF stopOnExit THEN "leave" ELSE "left")
  /\ LeaveUnit /\ LeaveRest /\ UNCHANGED reply

Left == At("left") /\ Answer("success") /\ LeaveUnit /\ LeaveRest

(* clear_data: stop only asks the loop to end; whether the daemon logs out *)
(* is not looked at.                                                       *)
StopLoop ==
  /\ At("stopLoop")
  /\ loop' = IF loop = "on" THEN "ending" ELSE loop
  /\ linked' \in {linked} \cup (IF Active THEN {FALSE} ELSE {})
  /\ Goto("loadOld")
  /\ LeaveUnit /\ UNCHANGED <<stopOnExit, kept, reply>>

RemoveFile ==
  /\ At("removeFile")
  /\ \/ unit' = "none" /\ Goto("forget")
     \/ unit # "none" /\ Goto("raised") /\ UNCHANGED unit
  /\ UNCHANGED <<enabled, running, reply>> /\ LeaveRest

(* The configuration directory holds kv.db and the daemon's databases; its *)
(* removal may end half way.  A daemon that still runs may keep its account*)
Erases == At("eraseConfig") /\ kept' = "gone"

EraseConfig ==
  /\ At("eraseConfig")
  /\ \/ /\ kept' = "gone" /\ linked' \in {FALSE} \cup (IF Active THEN {linked} ELSE {})
        /\ Goto("eraseCache")
     \/ kept' \in {kept, "gone"} /\ linked' \in {FALSE, linked} /\ Goto("raised")
  /\ stopOnExit' = (stopOnExit /\ kept' # "gone")
  /\ LeaveUnit /\ UNCHANGED <<loop, reply>>

(* The cache holds pictures and files.                                     *)
EraseCache ==
  /\ At("eraseCache")
  /\ Answer("success") \/ (Goto("raised") /\ UNCHANGED reply)
  /\ LeaveUnit /\ LeaveRest

Succeeded == At("succeeded") /\ Answer("success") /\ LeaveUnit /\ LeaveRest
Failed == At("failed") /\ Answer("failure") /\ LeaveUnit /\ LeaveRest
Raised == At("raised") /\ Answer("raised") /\ LeaveUnit /\ LeaveRest

Work ==
  \/ Systemctl \/ Copy \/ Test \/ Look \/ Update \/ Compare \/ Checked \/ AskSession
  \/ PutSetting \/ Undo \/ ReadSetting \/ Left \/ StopLoop \/ RemoveFile
  \/ EraseConfig \/ EraseCache
  \/ Succeeded \/ Failed \/ Raised

-----------------------------------------------------------------------------
(* What happens meanwhile.                                                 *)

DaemonDies ==
  /\ Active /\ running' = "failed"
  /\ UNCHANGED <<unit, enabled, stopOnExit, kept, linked, loop, job, reply>>

(* Restart=always                                                          *)
DaemonReturns ==
  /\ running = "failed" /\ unit # "none" /\ running' = "new"
  /\ UNCHANGED <<unit, enabled, stopOnExit, kept, linked, loop, job, reply>>

(* The event it is at may write to kv.db after that was deleted.           *)
LoopEnds ==
  /\ loop = "ending" /\ loop' = "off"
  /\ kept' \in IF kept = "gone" THEN {"gone", "late"} ELSE {kept}
  /\ UNCHANGED <<unit, enabled, running, stopOnExit, linked, job, reply>>

Meanwhile == DaemonDies \/ DaemonReturns \/ LoopEnds

-----------------------------------------------------------------------------
(* What an answer says is so when it is given.                             *)
AnswerHolds ==
  CASE reply.call = "install" -> reply.said = "success" => unit = "new" /\ enabled
    [] reply.call = "status" ->
         reply.said = (IF unit = "none" THEN "absent" ELSE IF Active THEN "active" ELSE "inactive")
    [] reply.call = "version" ->
         reply.said = "success" /\ reply.smooth /\ unit # "none" => unit = "new" /\ running # "old"
    [] reply.call = "session" -> reply.said = "in" => Active /\ linked
    [] reply.call = "set" ->
         IF reply.said = "success" THEN stopOnExit = reply.arg /\ enabled = ~reply.arg
                                   ELSE stopOnExit = IF reply.stuck THEN reply.arg ELSE reply.prev
    [] reply.call = "clear" ->
         reply.said = "success" =>
           /\ unit = "none" /\ kept # "kept" /\ ~stopOnExit
           /\ reply.smooth => ~enabled /\ running \notin {"old", "new"}
    [] OTHER -> TRUE

-----------------------------------------------------------------------------
(* Why the answers hold, for any number of commands that fail and whenever *)
(* the daemon dies and returns.                                            *)

(* The steps of each call.                                                 *)
StepsOf ==
  [none |-> {"none"}, migrate |-> {"migrate"},
   status |-> {"test", "wake", "look"},
   version |-> {"update", "loadUpdate", "restartUpdated", "compare", "restartOutdated",
                "checked", "raised"},
   session |-> {"ask"},
   install |-> {"copy", "loadNew", "startNew", "enableNew", "succeeded", "failed"},
   set |-> {"put", "autostart", "noAutostart", "undo", "succeeded", "failed"},
   exit |-> {"readSetting", "leave", "left"},
   clear |-> {"stopLoop", "loadOld", "stopOld", "disableOld", "removeFile", "forget",
              "eraseConfig", "eraseCache", "raised"}]
Steps == UNION {StepsOf[call] : call \in DOMAIN StepsOf}
Sayings == {"none", "success", "failure", "raised", "absent", "inactive", "active", "in", "out"}

ServiceTypeOK ==
  /\ unit \in {"none", "old", "new"} /\ running \in {"no", "failed", "old", "new"}
  /\ enabled \in BOOLEAN /\ stopOnExit \in BOOLEAN /\ linked \in BOOLEAN
  /\ kept \in {"kept", "gone", "late"} /\ loop \in {"off", "on", "ending"}
  /\ job \in [call : DOMAIN StepsOf, step : Steps, arg : BOOLEAN, prev : BOOLEAN,
              smooth : BOOLEAN, stuck : BOOLEAN]
  /\ job.step \in StepsOf[job.call]
  /\ reply \in [call : DOMAIN StepsOf, said : Sayings, arg : BOOLEAN, prev : BOOLEAN,
                smooth : BOOLEAN, stuck : BOOLEAN]

(* The new file stays once it is copied, and is enabled last.              *)
InstallSound ==
  job.call = "install" =>
    /\ job.step \in {"loadNew", "startNew", "enableNew", "succeeded"} => unit = "new"
    /\ job.step = "succeeded" => enabled

(* If nothing went wrong, an old daemon was restarted.                     *)
VersionSound ==
  job.call = "version" =>
    /\ job.step \in {"loadUpdate", "restartUpdated", "compare", "restartOutdated"} /\ job.smooth =>
         unit = "new"
    /\ job.step = "checked" /\ job.smooth /\ unit # "none" => unit = "new" /\ running # "old"

(* The setting and the unit change together, or neither does, unless the   *)
(* setting cannot be put back.                                             *)
SetSound ==
  job.call = "set" =>
    /\ job.step \in {"put", "autostart", "noAutostart", "undo"} => ~job.stuck
    /\ job.step \in {"autostart", "noAutostart", "undo"} => stopOnExit = job.arg
    /\ job.step \in {"autostart", "noAutostart"} => job.arg = (job.step = "noAutostart")
    /\ job.step = "succeeded" => stopOnExit = job.arg /\ enabled = ~job.arg
    /\ job.step = "failed" => stopOnExit = IF job.stuck THEN job.arg ELSE job.prev

(* If no command failed, the daemon was stopped, and does not return; no   *)
(* page takes an answer that would open kv.db again.                       *)
ClearSound ==
  job.call = "clear" =>
    /\ reply = NoReply
    /\ job.step \in {"forget", "eraseConfig", "eraseCache"} => unit = "none"
    /\ job.step = "eraseCache" => kept # "kept" /\ ~stopOnExit
    /\ job.smooth /\ job.step \in {"disableOld", "removeFile", "forget", "eraseConfig", "eraseCache"} =>
         running = "no"
    /\ job.smooth /\ job.step \in {"removeFile", "forget", "eraseConfig", "eraseCache"} => ~enabled

CallsSound == InstallSound /\ VersionSound /\ SetSound /\ ClearSound
=============================================================================
