-------------------------------- MODULE TwaiReceiver --------------------------------
(* EspIdfTwaiReceiver and its BoundedSpscQueue: a receive task takes frames    *)
(* from the TWAI driver and pushes them; the owner of the receiver calls       *)
(* start(), stop() and tryReceive() and pops them.  The two threads interleave *)
(* between the accesses to what they share.                                    *)
(*                                                                             *)
(*   receiver  state_, driverInstalled_, running_, taskExited_, nextSequence_, *)
(*             currentFrameStatus_ (whether it holds ErrorWarning)             *)
(*   stats     the counters of statistics_ about frames                        *)
(*   queue     head_, tail_ and storage_                                       *)
(*   driver    the TWAI driver: its stage, whether the error counters are      *)
(*             above the warning limit, the alerts nobody has read, whether    *)
(*             the last alerts read held both crossings (history)              *)
(*   task      where the receive task stands, what it holds                    *)
(*   owner     where the owner stands, what it holds                           *)
(*   session   number of the last start that reset the counters (history)      *)
(*   orphans   tasks that were still running when another was created (history)*)
EXTENDS Integers

CONSTANTS Capacity,          \* FrameQueueCapacity
          MaxSessions,       \* bound: starts that reach the creation of the task
          MaxSequence        \* bound: frames received in the first session

VARIABLES receiver, stats, queue, driver, task, owner, session, orphans
receiverVars == <<receiver, stats, queue, driver, task, owner, session, orphans>>

NoFrame == [session |-> 0, sequence |-> 0]
NoStatistics == [received |-> 0, queued |-> 0, dequeued |-> 0, overruns |-> 0,
                 last |-> 0, high |-> 0]
NoDriver == [stage |-> "absent", above |-> FALSE, alerts |-> {}, blurred |-> FALSE]

\* The task is at "deleted" before its creation and after vTaskDelete(), at
\* "exited" once taskExited_ is stored, and "lost" if the task before deleted it.
TaskIsAlive == task.at \notin {"deleted", "exited", "lost"}
TaskAt(position) == task' = [task EXCEPT !.at = position]
OwnerAt(position) == owner' = [owner EXCEPT !.at = position]

\* The controller belongs to the driver: uninstalling it forgets the alerts.
DriverAt(stage) ==
    driver' = IF stage = "absent" THEN NoDriver ELSE [driver EXCEPT !.stage = stage]
-----------------------------------------------------------------------------
\* start().
StartAlreadyRunning ==
    /\ owner.at = "idle" /\ receiver.state = "running"
    /\ UNCHANGED receiverVars

\* Invalid configuration, barriers refused, driver not installed or not started:
\* a driver that is already installed cannot be installed again.
StartFails ==
    /\ owner.at = "idle" /\ receiver.state # "running"
    /\ receiver' = [receiver EXCEPT !.state = "fault"]
    /\ UNCHANGED <<stats, queue, driver, task, owner, session, orphans>>
DriverStartFails ==
    /\ owner.at = "idle" /\ receiver.state # "running" /\ driver.stage = "absent"
    /\ receiver' = [receiver EXCEPT !.state = "fault", !.installed = FALSE]
    /\ UNCHANGED <<stats, queue, driver, task, owner, session, orphans>>

\* Mutant: frames left by the previous session stay in the queue.
NotCleared(q) == q
\* BoundedSpscQueue::clear().
Cleared(q) == [q EXCEPT !.tail = q.head]

TaskStartFails ==
    /\ owner.at = "idle" /\ receiver.state # "running" /\ driver.stage = "absent"
    /\ session < MaxSessions
    /\ receiver' = [receiver EXCEPT !.state = "fault", !.installed = FALSE,
                                    !.running = FALSE, !.exited = TRUE,
                                    !.next = 1, !.warned = FALSE]
    /\ stats' = NoStatistics
    /\ queue' = Cleared(queue)
    /\ session' = session + 1
    /\ UNCHANGED <<driver, task, owner, orphans>>

\* Nothing waits for vTaskDelete(nullptr) of the task before.  One that stored
\* taskExited_ and has not reached that call runs on the stack and under the
\* control block the new task is given, and may delete the new task for itself.
TasksCreated == IF task.at = "exited" THEN {"loop", "lost"} ELSE {"loop"}

\* Everything but the last store of state_, by which time the task may run.
StartCreatesTask ==
    /\ owner.at = "idle" /\ receiver.state # "running" /\ driver.stage = "absent"
    /\ session < MaxSessions
    /\ receiver' = [receiver EXCEPT !.installed = TRUE, !.running = TRUE,
                                    !.exited = FALSE, !.next = 1, !.warned = FALSE]
    /\ stats' = NoStatistics
    /\ queue' = Cleared(queue)
    /\ DriverAt("started")
    /\ \E position \in TasksCreated : TaskAt(position)
    /\ OwnerAt("created")
    /\ session' = session + 1
    /\ orphans' = IF TaskIsAlive THEN orphans + 1 ELSE orphans

StartPublishesState ==
    /\ owner.at = "created"
    /\ receiver' = [receiver EXCEPT !.state = "running"]
    /\ OwnerAt("idle")
    /\ UNCHANGED <<stats, queue, driver, task, session, orphans>>
-----------------------------------------------------------------------------
\* stop().
StopWithoutDriver ==
    /\ owner.at = "idle" /\ ~receiver.installed
    /\ receiver' = [receiver EXCEPT !.state = "stopped"]
    /\ UNCHANGED <<stats, queue, driver, task, owner, session, orphans>>
StopBegins ==
    /\ owner.at = "idle" /\ receiver.installed
    /\ receiver' = [receiver EXCEPT !.running = FALSE]
    /\ DriverAt("stopped")
    /\ OwnerAt("waiting")
    /\ UNCHANGED <<stats, queue, task, session, orphans>>

\* The twenty waits of five milliseconds end before or after the task does.
\* Mutant: the driver is uninstalled although the task did not exit.
StopGivesUpUninstalling ==
    /\ owner.at = "waiting" /\ ~receiver.exited
    /\ receiver' = receiver
    /\ OwnerAt("uninstall")
    /\ UNCHANGED <<stats, queue, driver, task, session, orphans>>
StopGivesUp ==
    /\ owner.at = "waiting" /\ ~receiver.exited
    /\ receiver' = [receiver EXCEPT !.state = "fault"]
    /\ OwnerAt("idle")
    /\ UNCHANGED <<stats, queue, driver, task, session, orphans>>
StopSeesExit ==
    /\ owner.at = "waiting" /\ receiver.exited
    /\ OwnerAt("uninstall")
    /\ UNCHANGED <<receiver, stats, queue, driver, task, session, orphans>>
StopUninstalls ==
    /\ owner.at = "uninstall"
    /\ DriverAt("absent")
    /\ receiver' = [receiver EXCEPT !.installed = FALSE, !.state = "stopped"]
    /\ OwnerAt("idle")
    /\ UNCHANGED <<stats, queue, task, session, orphans>>
-----------------------------------------------------------------------------
\* tryReceive() and BoundedSpscQueue::tryPop().
PopLoads ==
    /\ owner.at = "idle"
    /\ queue.tail # queue.head
    /\ OwnerAt("take")
    /\ UNCHANGED <<receiver, stats, queue, driver, task, session, orphans>>
PopTakes ==
    /\ owner.at = "take"
    /\ owner' = [at |-> "release", frame |-> queue.storage[queue.tail % Capacity]]
    /\ UNCHANGED <<receiver, stats, queue, driver, task, session, orphans>>
PopReleases ==
    /\ owner.at = "release"
    /\ queue' = [queue EXCEPT !.tail = @ + 1]
    /\ stats' = [stats EXCEPT !.dequeued = @ + 1]
    /\ OwnerAt("idle")
    /\ UNCHANGED <<receiver, driver, task, session, orphans>>
-----------------------------------------------------------------------------
\* receiveTask().
\* Mutant: the task goes on after it was told to stop.
TaskLoopsForever ==
    /\ task.at = "loop"
    /\ TaskAt("receive")
    /\ UNCHANGED <<receiver, stats, queue, driver, owner, session, orphans>>
TaskLoops ==
    /\ task.at = "loop" /\ receiver.running
    /\ TaskAt("receive")
    /\ UNCHANGED <<receiver, stats, queue, driver, owner, session, orphans>>
TaskExits ==
    /\ task.at = "loop" /\ ~receiver.running
    /\ receiver' = [receiver EXCEPT !.exited = TRUE]
    /\ TaskAt("exited")
    /\ UNCHANGED <<stats, queue, driver, owner, session, orphans>>
TaskDeleted ==
    /\ task.at = "exited"
    /\ TaskAt("deleted")
    /\ UNCHANGED <<receiver, stats, queue, driver, owner, session, orphans>>

\* twai_receive() waits receiveTimeoutMs at most.
ReceiveTimesOut ==
    /\ task.at = "receive"
    /\ TaskAt("alerts")
    /\ UNCHANGED <<receiver, stats, queue, driver, owner, session, orphans>>

\* A frame gets its sequence before the queue decides about it.  What it carries
\* besides is left out, the copy of currentFrameStatus_ in its status included.
\* Bound: MaxSequence frames in the first session, one less in each later one.
FrameReceived ==
    /\ task.at = "receive" /\ driver.stage # "absent"
    /\ receiver.next + session <= MaxSequence + 1
    /\ task' = [at |-> "push",
                frame |-> [session |-> session, sequence |-> receiver.next]]
    /\ receiver' = [receiver EXCEPT !.next = @ + 1]
    /\ stats' = [stats EXCEPT !.received = @ + 1, !.last = receiver.next]
    /\ UNCHANGED <<queue, driver, owner, session, orphans>>

\* tryPush().
IsFull(q) == q.head - q.tail >= Capacity
PushRefused ==
    /\ task.at = "push" /\ IsFull(queue)
    /\ stats' = [stats EXCEPT !.overruns = @ + 1]
    /\ TaskAt("alerts")
    /\ UNCHANGED <<receiver, queue, driver, owner, session, orphans>>
PushFindsRoom ==
    /\ task.at = "push" /\ ~IsFull(queue)
    /\ TaskAt("store")
    /\ UNCHANGED <<receiver, stats, queue, driver, owner, session, orphans>>
PushStores ==
    /\ task.at = "store"
    /\ queue' = [queue EXCEPT !.storage[queue.head % Capacity] = task.frame]
    /\ TaskAt("publish")
    /\ UNCHANGED <<receiver, stats, driver, owner, session, orphans>>
PushPublishes ==
    /\ task.at = "publish"
    /\ queue' = [queue EXCEPT !.head = @ + 1]
    /\ TaskAt("count")
    /\ UNCHANGED <<receiver, stats, driver, owner, session, orphans>>
FrameCounted ==
    /\ task.at = "count"
    /\ stats' = [stats EXCEPT !.queued = @ + 1,
                              !.high = IF @ < queue.head - queue.tail
                                       THEN queue.head - queue.tail ELSE @]
    /\ TaskAt("alerts")
    /\ UNCHANGED <<receiver, queue, driver, owner, session, orphans>>

\* updateAlerts(): the word of alerts is read and cleared; "above" sets the flag
\* and "below", looked at after it, clears it, in whatever order the controller
\* crossed its limit.  The pairs of error-passive and bus-off go the same way.
Crossings == {"above", "below"}
BlurredAfter(alerts, blurred) == IF alerts = {} THEN blurred ELSE alerts = Crossings
StatusAfter(alerts, warned) == (warned \/ "above" \in alerts) /\ "below" \notin alerts
UpdateAlerts ==
    /\ task.at = "alerts"
    /\ receiver' = [receiver EXCEPT !.warned = StatusAfter(driver.alerts, @)]
    /\ driver' = [driver EXCEPT !.alerts = {}, !.blurred = BlurredAfter(driver.alerts, @)]
    /\ TaskAt("loop")
    /\ UNCHANGED <<stats, queue, owner, session, orphans>>
-----------------------------------------------------------------------------
\* The controller crosses the warning limit of its error counters, as often as the
\* bus makes it between two reads.  The alerts are bits without an order.
BusDegrades ==
    /\ driver.stage = "started" /\ ~driver.above
    /\ driver' = [driver EXCEPT !.above = TRUE, !.alerts = @ \cup {"above"}]
    /\ UNCHANGED <<receiver, stats, queue, task, owner, session, orphans>>
BusImproves ==
    /\ driver.stage = "started" /\ driver.above
    /\ driver' = [driver EXCEPT !.above = FALSE, !.alerts = @ \cup {"below"}]
    /\ UNCHANGED <<receiver, stats, queue, task, owner, session, orphans>>

ReceiverInit ==
    /\ receiver = [state |-> "stopped", installed |-> FALSE, running |-> FALSE,
                   exited |-> TRUE, next |-> 1, warned |-> FALSE]
    /\ stats = NoStatistics
    /\ queue = [head |-> 0, tail |-> 0, storage |-> [n \in 0..(Capacity - 1) |-> NoFrame]]
    /\ driver = NoDriver
    /\ task = [at |-> "deleted", frame |-> NoFrame]
    /\ owner = [at |-> "idle", frame |-> NoFrame]
    /\ session = 0 /\ orphans = 0

OwnerStep ==
    \/ StartAlreadyRunning \/ StartFails \/ DriverStartFails \/ TaskStartFails
    \/ StartCreatesTask \/ StartPublishesState
    \/ StopWithoutDriver \/ StopBegins \/ StopGivesUp \/ StopSeesExit \/ StopUninstalls
    \/ PopLoads \/ PopTakes \/ PopReleases
TaskStep ==
    \/ TaskLoops \/ TaskExits \/ TaskDeleted \/ ReceiveTimesOut \/ FrameReceived
    \/ PushRefused \/ PushFindsRoom \/ PushStores \/ PushPublishes \/ FrameCounted
    \/ UpdateAlerts
ReceiverNext == OwnerStep \/ TaskStep \/ BusDegrades \/ BusImproves

\* The scheduler runs the task, and its wait for a frame is bounded.
ReceiverSpec == ReceiverInit /\ [][ReceiverNext]_receiverVars /\ WF_receiverVars(TaskStep)
-----------------------------------------------------------------------------
\* A second task is never created while one may still push frames or touch the
\* driver, even after a stop() that gave up waiting.
OneProducer == orphans = 0

\* A stopped receiver has neither a driver nor a task that will use it, and one
\* that says it runs has both, unless the task before deleted the new one: only
\* then does nothing receive while the state says so.
StateIsTrue ==
    owner.at = "idle" =>
        /\ receiver.state = "stopped" => driver.stage = "absent" /\ ~TaskIsAlive
        /\ receiver.state = "running" =>
              driver.stage = "started" /\ (TaskIsAlive \/ task.at = "lost")
        /\ receiver.installed <=> driver.stage # "absent"

\* Once the task has read the alerts, the flag it stamps on frames says whether
\* the controller is above the warning limit, but for one case: a word that held
\* both crossings clears the flag of a controller that ended above it.  The flag
\* never warns of a controller that is below, and one word that holds a single
\* crossing puts it right.  docs/capture-format-v2.md:65 knows no such exception.
FlagFollowsController ==
    task.at = "loop" /\ driver.alerts = {} =>
        receiver.warned = (driver.above /\ ~driver.blurred)

\* What the receiver says of itself is what the driver, the bus and the task are,
\* but for the two exceptions above, whatever starts and stops fail
\* (esp_idf_twai_receiver.cpp, start, stop and updateAlerts).
ReceiverIsTrue == OneProducer /\ StateIsTrue /\ FlagFollowsController

\* The frames in the queue belong to the session, in the order of their sequence,
\* and come after the one that was delivered last.
Queued(n) == queue.storage[n % Capacity]
QueueIsInOrder ==
    LET waiting == queue.tail..(queue.head - 1)
    IN /\ \A n \in waiting :
             /\ Queued(n).session = session
             /\ \A k \in waiting : n < k => Queued(n).sequence < Queued(k).sequence
       /\ waiting # {} /\ owner.at # "release" /\ owner.frame.session = session =>
             owner.frame.sequence < Queued(queue.tail).sequence

\* Every frame of a session is delivered once and in order, queued, or counted as
\* an overrun, and a gap in the sequences delivered is never wider than the
\* overruns counted (esp_idf_twai_receiver.cpp, enqueueReceivedFrame;
\* bounded_spsc_queue.hpp, tryPush and tryPop;
\* docs/twai-listen-only-acquisition.md: losses are made visible).
LossesAreVisible ==
    /\ QueueIsInOrder
    /\ task.at \in {"deleted", "loop", "receive", "alerts", "exited", "lost"} =>
          /\ stats.received = stats.queued + stats.overruns
          /\ stats.last = stats.received
          /\ stats.queued = stats.dequeued + (queue.head - queue.tail)
          /\ owner.at \in {"idle", "created"} /\ owner.frame.session = session =>
                 owner.frame.sequence - stats.dequeued \in 0..stats.overruns

\* A task that was told to stop exits, whatever the bus does
\* (esp_idf_twai_receiver.cpp, receiveTask and stop).
StoppedTaskExits == (~receiver.running /\ TaskIsAlive) ~> ~TaskIsAlive
=============================================================================
