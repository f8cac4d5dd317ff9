--------------------------- MODULE EventDispatcher ---------------------------
(***************************************************************************)
(* The event loop of the application (ut_components/event.py).             *)
(*                                                                         *)
(* A thread, started by start_event_loop, repeats: queue the periodic      *)
(* events whose next_execution_date has passed, pop and trigger the        *)
(* entries that are due, sleep.  The QML worker thread schedules events    *)
(* (a pending send), and starts and stops the loop (clear_data, and the    *)
(* set-up page that follows it), so several loop threads may exist.        *)
(*                                                                         *)
(* Nothing takes a lock.  heappush and heappop are single steps, but       *)
(* schedule reads the counter, pushes, and only then increments it: two    *)
(* threads may give two entries the same (key, counter), and heapq then    *)
(* compares the QueuedEvents themselves and raises TypeError.  What        *)
(* follows is modelled as CPython's heapq does it: a failed push leaves    *)
(* its entry in the list; a failed pop loses the entry it was to return,   *)
(* and leaves a list that need not be a heap any more.                     *)
(*                                                                         *)
(* Times are ticks of the wall clock, which may be set back.               *)
(***************************************************************************)
EXTENDS Naturals, FiniteSets

CONSTANTS
  Loops,        \* the threads start may create
  Periodic,     \* registered events with an execution_interval
  ErrorEvent,   \* the event that reports an exception to QML
  Worker,       \* the QML worker thread
  Interval,     \* execution_interval, in ticks
  MaxTime,      \* bound: the clock's last tick
  MaxSends,     \* bound: events the worker schedules
  MaxFaults     \* bound: exceptions and times the clock is set back

ASSUME NamesAssumption ==
  /\ Worker \notin Loops
  /\ ErrorEvent \notin Periodic \cup Nat
  /\ Periodic \cap Nat = {}
ASSUME TimeAssumption == Interval \in Nat \ {0} /\ MaxTime \in Nat \ {0}
ASSUME BoundAssumption == MaxSends \in Nat /\ MaxFaults \in Nat

VARIABLES
  \* the dispatcher object
  queue,     \* _queue
  counter,   \* _counter
  next,      \* next_execution_date of each periodic event, 0 for None
  running,   \* _running
  \* the threads
  pc,        \* where each thread is
  visit,     \* periodic events _enqueue has yet to look at
  job,       \* the event a loop is scheduling
  held,      \* the entry a loop has popped, if any
  \* history and environment
  clock,     \* datetime.now()
  sent,      \* events the worker has scheduled, numbered from 1
  ran,       \* the ones among them that were triggered
  stopped,   \* the last of start and stop to be called was stop
  raises,    \* triggers that raised
  setBacks,  \* times the clock was set back
  clashes    \* times heapq compared two QueuedEvents

objectVars == <<queue, counter, next, running>>
loopVars   == <<visit, job, held>>
vars == <<objectVars, pc, loopVars, clock, sent, ran, stopped, raises, setBacks, clashes>>

Sends == 1 .. MaxSends
Events == Periodic \cup {ErrorEvent} \cup Sends
Threads == Loops \cup {Worker}
Entry == [key : Nat, seq : Nat, event : Events, by : Threads]
LoopStates == {"none", "boot", "check", "run", "push", "bump", "trigger", "putback",
               "dead"}

Init ==
  /\ queue = {}
  /\ counter = 0
  /\ next = [p \in Periodic |-> 0]
  /\ running = FALSE
  /\ pc = [t \in Threads |-> IF t = Worker THEN "idle" ELSE "none"]
  /\ visit = [l \in Loops |-> {}]
  /\ job = [l \in Loops |-> ErrorEvent]
  /\ held = [l \in Loops |-> {}]
  /\ clock = 1
  /\ sent = 0
  /\ ran = {}
  /\ stopped = TRUE
  /\ raises = 0
  /\ setBacks = 0
  /\ clashes = 0

FaultLeft == raises + setBacks + clashes < MaxFaults

Goto(t, state) == pc' = [pc EXCEPT ![t] = state]

-----------------------------------------------------------------------------
(* The heap.                                                               *)

SameRank(x, y) == x.key = y.key /\ x.seq = y.seq
Before(x, y) == x.key < y.key \/ (x.key = y.key /\ x.seq < y.seq)

(* Mutation: entries of one millisecond leave in the opposite order.       *)
LastInFirst(e) ==
  /\ e \in queue
  /\ \A x \in queue : x.key > e.key \/ (x.key = e.key /\ x.seq <= e.seq)

(* heappop returns e.  After a pop that failed the list is no heap.        *)
IsHead(e) == e \in queue /\ (clashes > 0 \/ \A x \in queue : ~Before(x, e))

(* A push, or a pop, may compare two entries of the same rank.             *)
PushMayFail(e) == \E x \in queue : SameRank(x, e)
PopMayFail(e) ==
  \E x, y \in queue \ {e} : x # y /\ SameRank(x, y)

(* The comparison raises TypeError.                                        *)
Clash == FaultLeft /\ clashes' = clashes + 1

(* The entry schedule pushes now.                                          *)
NewEntry(e, t) == [key |-> clock, seq |-> counter, event |-> e, by |-> t]

-----------------------------------------------------------------------------
(* The QML worker thread.                                                  *)

(* queue_and_attempt_send schedules a message; its counter += 1 is a step  *)
(* of its own.  A push that fails raises into the QML call.                *)
ScheduleSend ==
  LET e == NewEntry(sent + 1, Worker) IN
  /\ pc[Worker] = "idle"
  /\ sent < MaxSends
  /\ \E l \in Loops : pc[l] # "none"   \* start_event_loop registered the event
  /\ sent' = sent + 1
  /\ queue' = queue \cup {e}
  /\ \/ Goto(Worker, "bump") /\ UNCHANGED clashes
     \/ PushMayFail(e) /\ Clash /\ UNCHANGED pc
  /\ UNCHANGED <<counter, next, running, loopVars, clock, ran, stopped,
                 raises, setBacks>>

BumpWorker ==
  /\ pc[Worker] = "bump"
  /\ counter' = counter + 1
  /\ Goto(Worker, "idle")
  /\ UNCHANGED <<queue, next, running, loopVars, clock, sent, ran, stopped,
                 raises, setBacks, clashes>>

(* start_event_loop registers fresh events and starts a thread.  The pages *)
(* call it once, and again only after clear_data has called stop: the      *)
(* thread start knows of is then None, or dead, and it creates another.    *)
Start ==
  /\ pc[Worker] = "idle"
  /\ stopped
  /\ stopped' = FALSE
  /\ next' = [p \in Periodic |-> 0]
  /\ \E l \in Loops : pc[l] = "none" /\ Goto(l, "boot")
  /\ UNCHANGED <<queue, counter, running, loopVars, clock, sent, ran, raises,
                 setBacks, clashes>>

(* stop, as clear_data calls it: it forgets the thread, and                *)
(* join(timeout=0) returns at once.                                        *)
Stop ==
  /\ pc[Worker] = "idle"
  /\ ~stopped
  /\ running' = FALSE
  /\ stopped' = TRUE
  /\ UNCHANGED <<queue, counter, next, pc, loopVars, clock, sent, ran, raises,
                 setBacks, clashes>>

-----------------------------------------------------------------------------
(* A loop thread.                                                          *)

(* _run registers error-event and sets _running.                           *)
Boot(l) ==
  /\ pc[l] = "boot"
  /\ running' = TRUE
  /\ Goto(l, "check")
  /\ UNCHANGED <<queue, counter, next, loopVars, clock, sent, ran, stopped,
                 raises, setBacks, clashes>>

(* The end of the sleep, and while self._running.                          *)
Check(l) ==
  /\ pc[l] = "check"
  /\ IF running THEN /\ visit' = [visit EXCEPT ![l] = Periodic]
                     /\ Goto(l, "run")
                ELSE /\ Goto(l, "dead")
                     /\ UNCHANGED visit
  /\ UNCHANGED <<objectVars, job, held, clock, sent, ran, stopped, raises,
                 setBacks, clashes>>

Due(p) == next[p] = 0 \/ next[p] < clock

(* _enqueue looks at one event, and sets its next date if it is due.       *)
Look(l, p) ==
  /\ pc[l] = "run"
  /\ p \in visit[l]
  /\ visit' = [visit EXCEPT ![l] = @ \ {p}]
  /\ IF Due(p) THEN /\ next' = [next EXCEPT ![p] = clock + Interval]
                    /\ job' = [job EXCEPT ![l] = p]
                    /\ Goto(l, "push")
               ELSE UNCHANGED <<next, job, pc>>
  /\ UNCHANGED <<queue, counter, running, held, clock, sent, ran, stopped,
                 raises, setBacks, clashes>>

(* An exception leaves _enqueue or _process: the handler of _run will      *)
(* schedule error-event.                                                   *)
Caught(l) ==
  /\ Goto(l, "push")
  /\ job' = [job EXCEPT ![l] = ErrorEvent]
  /\ visit' = [visit EXCEPT ![l] = {}]
  /\ held' = [held EXCEPT ![l] = {}]

(* schedule, called by _enqueue or by the handler of _run.  If the push    *)
(* fails in the handler, the exception leaves _run and the thread is gone. *)
Push(l) ==
  LET e == NewEntry(job[l], l) IN
  /\ pc[l] = "push"
  /\ queue' = queue \cup {e}
  /\ \/ Goto(l, "bump") /\ UNCHANGED <<loopVars, clashes>>
     \/ /\ PushMayFail(e)
        /\ Clash
        /\ \/ job[l] \in Periodic /\ Caught(l)
           \/ job[l] = ErrorEvent /\ Goto(l, "dead") /\ UNCHANGED loopVars
  /\ UNCHANGED <<counter, next, running, clock, sent, ran, stopped, raises,
                 setBacks>>

Bump(l) ==
  /\ pc[l] = "bump"
  /\ counter' = counter + 1
  /\ Goto(l, IF job[l] = ErrorEvent THEN "check" ELSE "run")
  /\ job' = [job EXCEPT ![l] = ErrorEvent]
  /\ UNCHANGED <<queue, next, running, visit, held, clock, sent, ran, stopped,
                 raises, setBacks, clashes>>

(* _process begins when _enqueue has looked at every event.                *)
Processing(l) == pc[l] = "run" /\ visit[l] = {}

(* while self._queue                                                       *)
ProcessEmpty(l) ==
  /\ Processing(l)
  /\ queue = {}
  /\ Goto(l, "check")
  /\ UNCHANGED <<objectVars, loopVars, clock, sent, ran, stopped, raises, setBacks, clashes>>

(* heappop, and whether the entry it returned is due.                      *)
Pop(l, e) ==
  /\ Processing(l)
  /\ IsHead(e)
  /\ queue' = queue \ {e}
  /\ \/ /\ held' = [held EXCEPT ![l] = {e}]
        /\ Goto(l, IF e.key <= clock THEN "trigger" ELSE "putback")
        /\ UNCHANGED <<visit, job, clashes>>
     \/ /\ PopMayFail(e)
        /\ Clash
        /\ Caught(l)
  /\ UNCHANGED <<counter, next, running, clock, sent, ran, stopped, raises, setBacks>>

(* Mutation: an entry that is not due yet is not pushed back.              *)
DropEntry(l, e) ==
  /\ pc[l] = "putback"
  /\ e \in held[l]
  /\ held' = [held EXCEPT ![l] = {}]
  /\ Goto(l, "check")
  /\ UNCHANGED <<objectVars, visit, job, clock, sent, ran, stopped, raises, setBacks, clashes>>

(* An entry that is not due goes back, and ends _process.                  *)
PutBack(l, e) ==
  /\ pc[l] = "putback"
  /\ e \in held[l]
  /\ queue' = queue \cup {e}
  /\ \/ /\ held' = [held EXCEPT ![l] = {}]
        /\ Goto(l, "check")
        /\ UNCHANGED <<visit, job, clashes>>
     \/ PushMayFail(e) /\ Clash /\ Caught(l)
  /\ UNCHANGED <<counter, next, running, clock, sent, ran, stopped, raises, setBacks>>

(* Mutation: one entry a round.                                            *)
TriggerOnePerRound(l, e) ==
  /\ pc[l] = "trigger"
  /\ e \in held[l]
  /\ ran' = ran \cup ({e.event} \cap Sends)
  /\ held' = [held EXCEPT ![l] = {}]
  /\ Goto(l, "check")
  /\ UNCHANGED <<objectVars, visit, job, clock, sent, stopped, raises, setBacks, clashes>>

(* trigger returns and its result goes to QML, or it raises: the rest of   *)
(* the queue waits for the next round.                                     *)
Trigger(l, e) ==
  /\ pc[l] = "trigger"
  /\ e \in held[l]
  /\ ran' = ran \cup ({e.event} \cap Sends)
  /\ \/ /\ held' = [held EXCEPT ![l] = {}]
        /\ Goto(l, "run")
        /\ UNCHANGED <<visit, job, raises>>
     \/ /\ e.event # ErrorEvent
        /\ FaultLeft
        /\ raises' = raises + 1
        /\ Caught(l)
  /\ UNCHANGED <<objectVars, clock, sent, stopped, setBacks, clashes>>

-----------------------------------------------------------------------------
(* The wall clock.                                                         *)

Tick ==
  /\ clock < MaxTime
  /\ clock' = clock + 1
  /\ UNCHANGED <<objectVars, pc, loopVars, sent, ran, stopped, raises, setBacks, clashes>>

(* The clock is set back, or summer time ends: datetime.now() is local.    *)
SetBack ==
  /\ FaultLeft
  /\ clock' \in 1 .. clock - 1
  /\ setBacks' = setBacks + 1
  /\ UNCHANGED <<objectVars, pc, loopVars, sent, ran, stopped, raises, clashes>>

-----------------------------------------------------------------------------
LoopStep(l) ==
  \/ Boot(l) \/ Check(l) \/ Push(l) \/ Bump(l) \/ ProcessEmpty(l)
  \/ \E p \in visit[l] : Look(l, p)
  \/ \E e \in queue : Pop(l, e)
  \/ \E e \in held[l] : PutBack(l, e) \/ Trigger(l, e)

Next ==
  \/ ScheduleSend \/ BumpWorker \/ Start \/ Stop
  \/ \E l \in Loops : LoopStep(l)
  \/ Tick \/ SetBack

Spec == Init /\ [][Next]_vars

(* The threads run, a trigger returns, and time passes.  Nothing makes the *)
(* user send, start or stop, or the clock go back.                         *)
Fairness ==
  /\ \A l \in Loops : WF_vars(LoopStep(l))
  /\ WF_vars(BumpWorker)
  /\ WF_vars(Tick)

FairSpec == Spec /\ Fairness

-----------------------------------------------------------------------------
(* Properties.                                                             *)

(* Every variable has its type, and a loop holds an entry exactly between  *)
(* the pop and the end of its trigger.                                     *)
TypeOK ==
  /\ queue \subseteq Entry
  /\ counter \in Nat
  /\ next \in [Periodic -> Nat]
  /\ running \in BOOLEAN
  /\ pc \in [Threads -> LoopStates \cup {"idle"}]
  /\ pc[Worker] \in {"idle", "bump"}
  /\ visit \in [Loops -> SUBSET Periodic]
  /\ job \in [Loops -> Periodic \cup {ErrorEvent}]
  /\ held \in [Loops -> SUBSET Entry]
  /\ \A l \in Loops : held[l] # {} <=> pc[l] \in {"trigger", "putback"}
  /\ \A l \in Loops : \A x, y \in held[l] : x = y
  /\ clock \in 1 .. MaxTime
  /\ sent \in 0 .. MaxSends
  /\ ran \subseteq Sends
  /\ stopped \in BOOLEAN
  /\ raises \in Nat
  /\ setBacks \in Nat
  /\ clashes \in Nat
  /\ raises + setBacks + clashes <= MaxFaults

(* The entries loops hold, and the messages they have taken up.            *)
Held == UNION {held[l] : l \in Loops}
Taken == ran \cup ({e.event : e \in Held} \cap Sends)

(* Messages are taken up in the order the worker scheduled them, even with *)
(* two loops and entries of the same number, unless the clock was set back *)
(* or heapq compared QueuedEvents.                                         *)
Tame == setBacks = 0 /\ clashes = 0
SendsInOrder == Tame => \A j \in Taken : 1 .. j - 1 \subseteq Taken

(* Missed intervals are not made up for: what a periodic event has waiting *)
(* is bounded by the rounds in progress, at most one for each loop         *)
(* started, and by the rounds cut short: one for each exception, and one   *)
(* of every loop each time the clock is set back.                          *)
Started == {l \in Loops : pc[l] # "none"}
Waiting(p) ==
  {e \in queue \cup Held : e.event = p}
Coalesced ==
  \A p \in Periodic :
    clashes > 0
    \/ Cardinality(Waiting(p)) <= Cardinality(Started) * (1 + setBacks) + raises

(* The failure of one event does not keep another from running: unless the *)
(* loop is stopped again and again or heapq compared QueuedEvents, every   *)
(* message scheduled is taken up, through exceptions and a clock set back. *)
EventuallyRuns ==
  \/ []<>(stopped \/ clashes > 0)
  \/ \A i \in Sends : (i <= sent) ~> (i \in ran)

(* "waits for the thread to terminate" (event.py): while stop is the last  *)
(* word, no loop thread is at work.                                        *)
StopWaits ==
  stopped /\ pc[Worker] = "idle" => \A l \in Loops : pc[l] \in {"none", "dead"}

-----------------------------------------------------------------------------
(* The inductive invariant behind SendsInOrder.                            *)

(* A message in the queue is due, and ranks below anything the worker      *)
(* schedules next: its number is smaller than the counter, except between  *)
(* the worker's push and its increment.                                    *)
QueuedSends ==
  \A e \in queue : e.event \in Sends =>
    /\ e.event <= sent
    /\ e.key <= clock
    /\ e.seq < counter \/ (pc[Worker] = "bump" /\ e.seq = counter)

(* Queued messages rank as they were scheduled.                            *)
RankedAsSent ==
  \A x, y \in queue :
    x.event \in Sends /\ y.event \in Sends /\ x.event < y.event => Before(x, y)

(* A message scheduled is in the queue, in the hands of a loop, or done.   *)
NoSendMissing == 1 .. sent \subseteq Taken \cup {e.event : e \in queue}

(* What a loop puts back is not a message.                                 *)
PutsBackOthers ==
  \A l \in Loops : pc[l] = "putback" => \A e \in held[l] : e.event \notin Sends

IInv ==
  /\ TypeOK
  /\ Tame => QueuedSends
  /\ Tame => RankedAsSent
  /\ Tame => NoSendMissing
  /\ Tame => PutsBackOthers
  /\ SendsInOrder

-----------------------------------------------------------------------------
(* The inductive invariant behind Coalesced.                               *)

(* The loops whose round has dealt with p, and not yet found the queue     *)
(* empty or its head not due: each may have left one entry of p behind.    *)
InRound(l, p) ==
  /\ p \notin visit[l]
  /\ \/ pc[l] \in {"run", "trigger"}
     \/ pc[l] = "push" /\ job[l] \notin {p, ErrorEvent}
     \/ pc[l] = "bump" /\ job[l] # ErrorEvent
Rounds(p) == {l \in Loops : InRound(l, p)}

(* The entries of p that are not due, or whose round was cut short, are    *)
(* among those in old; every other one belongs to a round in progress.     *)
LeftOver(p, old) ==
  /\ Cardinality(old) <= raises + Cardinality(Started) * setBacks
  /\ \A e \in queue : e.event = p => (e \in old \/ e.key <= clock)
  /\ \A l \in Loops : \A e \in held[l] :
        pc[l] = "putback" /\ e.event = p => e \in old
  /\ Cardinality(Waiting(p) \ old) <= Cardinality(Rounds(p))

Accounted(p) ==
  IsFiniteSet(Waiting(p)) /\ \E old \in SUBSET Waiting(p) : LeftOver(p, old)

(* What a loop is doing agrees with the events it has yet to look at.      *)
VisitsFit ==
  \A l \in Loops :
    /\ pc[l] = "trigger" => visit[l] = {}
    /\ pc[l] = "push" => job[l] \notin visit[l]

CoalescedInv ==
  /\ IsFiniteSet(Started)
  /\ VisitsFit
  /\ clashes = 0 => \A p \in Periodic : Accounted(p)
=============================================================================
