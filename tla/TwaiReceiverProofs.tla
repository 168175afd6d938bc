----------------------------- MODULE TwaiReceiverProofs -----------------------------
(* ReceiverIsTrue and LossesAreVisible for a queue of any capacity, any number *)
(* of sessions and of frames: which of its two threads may do what, and where  *)
(* each frame that was received is.  The last part follows the frames that     *)
(* carry the lock command into the pipeline which asks for a start.            *)
EXTENDS TwaiReceiver, LockGesture, TLAPS

\* The static assertion of BoundedSpscQueue.
QueueHasStorage == Capacity \in Nat \ {0}
-----------------------------------------------------------------------------
Frames == [session : Nat, sequence : Nat]

Receivers == [state : {"stopped", "running", "fault"}, installed : BOOLEAN,
              running : BOOLEAN, exited : BOOLEAN, next : Nat, warned : BOOLEAN]
Counters == [received : Nat, queued : Nat, dequeued : Nat, overruns : Nat,
             last : Nat, high : Nat]
Queues == [head : Nat, tail : Nat, storage : [0..(Capacity - 1) -> Frames]]

ReceiverTypeOK ==
    /\ receiver \in Receivers
    /\ stats \in Counters
    /\ queue \in Queues
    /\ driver \in [stage : {"absent", "started", "stopped"}, above : BOOLEAN,
                   alerts : SUBSET {"above", "below"}, blurred : BOOLEAN]
    /\ task \in [at : {"deleted", "loop", "receive", "push", "store", "publish",
                       "count", "alerts", "exited", "lost"}, frame : Frames]
    /\ owner \in [at : {"idle", "created", "waiting", "uninstall", "take", "release"},
                  frame : Frames]
    /\ session \in Nat /\ orphans \in Nat

\* running_ holds while the driver is started, taskExited_ once the task is gone,
\* and the owner uninstalls only the driver of a task that is gone.
DriverOutlivesTask ==
    /\ orphans = 0
    /\ receiver.installed <=> driver.stage # "absent"
    /\ receiver.running <=> driver.stage = "started"
    /\ receiver.exited <=> task.at \in {"deleted", "exited"}
    /\ driver.stage = "absent" => receiver.exited
    /\ receiver.running => ~receiver.exited

\* What the owner may still do, and what state_ says meanwhile.
OwnerKnows ==
    /\ owner.at = "created" => receiver.running
    /\ owner.at \in {"waiting", "uninstall"} => driver.stage = "stopped"
    /\ owner.at = "uninstall" => receiver.exited
    /\ receiver.state = "running" /\ owner.at \notin {"waiting", "uninstall"} =>
           receiver.running
    /\ receiver.state = "stopped" /\ owner.at # "created" => driver.stage = "absent"

\* The flag, once the unread alerts are applied to it, is the controller's state,
\* unless they hold both crossings.
FlagWillMatch ==
    /\ driver.stage = "absent" =>
           ~driver.above /\ driver.alerts = {} /\ ~driver.blurred
    /\ driver.stage # "absent" =>
           (StatusAfter(driver.alerts, receiver.warned)
                <=> driver.above /\ ~BlurredAfter(driver.alerts, driver.blurred))

ControlInv == DriverOutlivesTask /\ OwnerKnows /\ FlagWillMatch

\* Where the frame that the task holds is counted, and the newest frame that is
\* not held any more.
HoldsFrame == task.at \in {"push", "store", "publish"}
Uncounted == IF HoldsFrame \/ task.at = "count" THEN 1 ELSE 0
Unqueued == IF task.at = "count" THEN 1 ELSE 0
Newest == IF HoldsFrame THEN stats.last - 1 ELSE stats.last

\* Every counter tells what the others leave.
CountersAddUp ==
    /\ receiver.next = stats.last + 1
    /\ stats.last = stats.received
    /\ stats.received = stats.queued + stats.overruns + Uncounted
    /\ stats.queued + Unqueued = stats.dequeued + (queue.head - queue.tail)

\* Each thread has made sure of the slot it is about to use.
SlotsAreOwned ==
    /\ queue.tail <= queue.head /\ queue.head - queue.tail <= Capacity
    /\ task.at \in {"store", "publish"} => queue.head - queue.tail < Capacity
    /\ owner.at \in {"take", "release"} => queue.tail < queue.head
    /\ HoldsFrame => task.frame.session = session /\ task.frame.sequence = stats.last
    /\ task.at = "publish" => Queued(queue.head) = task.frame
    /\ owner.at = "release" => owner.frame = Queued(queue.tail)
    /\ owner.frame.session <= session

\* The frame that will be delivered as the n-th of its session has a sequence of
\* at least n, and at most as many more as frames were lost.
Waiting(n) == queue.tail <= n /\ n < queue.head
Late(sequence, n) == 0 <= sequence - n /\ sequence - n <= stats.overruns
QueueIsExact ==
    /\ \A n \in Int : Waiting(n) =>
          /\ Queued(n).session = session
          /\ Queued(n).sequence <= Newest
          /\ Late(Queued(n).sequence, stats.dequeued + (n - queue.tail) + 1)
    /\ \A n, k \in Int : Waiting(n) /\ Waiting(k) /\ n < k =>
          Queued(n).sequence < Queued(k).sequence
    /\ owner.at # "release" /\ owner.frame.session = session =>
          /\ Late(owner.frame.sequence, stats.dequeued)
          /\ owner.frame.sequence <= Newest
          /\ queue.tail < queue.head =>
                owner.frame.sequence < Queued(queue.tail).sequence

FlowInv == CountersAddUp /\ SlotsAreOwned /\ QueueIsExact

ReceiverInv == ReceiverTypeOK /\ ControlInv /\ FlowInv
-----------------------------------------------------------------------------
(* What the members are.                                                      *)

\* The slot of an index is one of the storage's.
LEMMA SlotIsStored ==
    ASSUME QueueHasStorage, NEW n \in Nat
    PROVE  n % Capacity \in 0..(Capacity - 1)
  BY DEF QueueHasStorage

\* Every step leaves every member of the type the class gives it.
LEMMA TypeStep ==
    ASSUME QueueHasStorage, ReceiverTypeOK, [ReceiverNext]_receiverVars
    PROVE  ReceiverTypeOK'
  <1> USE DEF ReceiverTypeOK
  <1>1. CASE StartAlreadyRunning
    BY <1>1 DEF StartAlreadyRunning, receiverVars
  <1>2. CASE StartFails
    BY <1>2 DEF StartFails, OwnerAt, DriverAt, NoDriver, Receivers
  <1>3. CASE DriverStartFails
    BY <1>3 DEF DriverStartFails, OwnerAt, DriverAt, NoDriver, Receivers
  <1>4. CASE TaskStartFails
    <2>1. receiver' \in Receivers
      BY <1>4 DEF TaskStartFails, Receivers
    <2>2. stats' \in Counters
      BY <1>4 DEF TaskStartFails, NoStatistics, Counters
    <2>3. queue' \in Queues
      BY <1>4 DEF TaskStartFails, Cleared, Queues
    <2> QED
      BY <1>4, <2>1, <2>2, <2>3 DEF TaskStartFails
  <1>5. CASE StartCreatesTask
    <2>1. receiver' \in Receivers
      BY <1>5 DEF StartCreatesTask, Receivers
    <2>2. stats' \in Counters
      BY <1>5 DEF StartCreatesTask, NoStatistics, Counters
    <2>3. queue' \in Queues
      BY <1>5 DEF StartCreatesTask, Cleared, Queues
    <2> QED
      BY <1>5, <2>1, <2>2, <2>3 DEF StartCreatesTask, OwnerAt, TaskAt, TasksCreated, DriverAt
  <1>6. CASE StartPublishesState
    BY <1>6 DEF StartPublishesState, OwnerAt, DriverAt, NoDriver, Receivers
  <1>7. CASE StopWithoutDriver
    BY <1>7 DEF StopWithoutDriver, OwnerAt, DriverAt, NoDriver, Receivers
  <1>8. CASE StopBegins
    BY <1>8 DEF StopBegins, OwnerAt, DriverAt, Receivers
  <1>9. CASE StopGivesUp
    BY <1>9 DEF StopGivesUp, OwnerAt, DriverAt, NoDriver, Receivers
  <1>10. CASE StopSeesExit
    BY <1>10 DEF StopSeesExit, TaskAt, OwnerAt, DriverAt, NoDriver
  <1>11. CASE StopUninstalls
    BY <1>11 DEF StopUninstalls, OwnerAt, DriverAt, NoDriver, Receivers
  <1>12. CASE PopLoads
    BY <1>12 DEF PopLoads, TaskAt, OwnerAt, DriverAt, NoDriver
  <1>13. CASE PopTakes
    BY <1>13, SlotIsStored DEF PopTakes, Queues
  <1>14. CASE PopReleases
    <2>1. queue' \in Queues
      BY <1>14 DEF PopReleases, Queues
    <2>2. stats' \in Counters
      BY <1>14 DEF PopReleases, Counters
    <2> QED
      BY <1>14, <2>1, <2>2 DEF PopReleases, OwnerAt
  <1>15. CASE TaskLoops
    BY <1>15 DEF TaskLoops, TaskAt, OwnerAt, DriverAt, NoDriver
  <1>16. CASE TaskExits
    BY <1>16 DEF TaskExits, TaskAt, Receivers
  <1>17. CASE TaskDeleted
    BY <1>17 DEF TaskDeleted, TaskAt, OwnerAt, DriverAt, NoDriver
  <1>18. CASE ReceiveTimesOut
    BY <1>18 DEF ReceiveTimesOut, TaskAt, OwnerAt, DriverAt, NoDriver
  <1>19. CASE FrameReceived
    <2>1. receiver' \in Receivers
      BY <1>19 DEF FrameReceived, Receivers
    <2>2. stats' \in Counters
      <3>1. receiver.next \in Nat /\ stats.received + 1 \in Nat
        BY DEF Receivers, Counters
      <3>2. stats' = [stats EXCEPT !.received = stats.received + 1,
                                   !.last = receiver.next]
        BY <1>19 DEF FrameReceived, Counters
      <3> QED
        BY <3>1, <3>2 DEF Counters
    <2>3. task'.frame \in Frames /\ task' = [at |-> "push", frame |-> task'.frame]
      BY <1>19 DEF FrameReceived, Frames, Receivers
    <2> QED
      BY <1>19, <2>1, <2>2, <2>3 DEF FrameReceived
  <1>20. CASE PushRefused
    <2>1. stats' \in Counters
      BY <1>20 DEF PushRefused, Counters
    <2> QED
      BY <1>20, <2>1 DEF PushRefused, TaskAt
  <1>21. CASE PushFindsRoom
    BY <1>21 DEF PushFindsRoom, TaskAt, OwnerAt, DriverAt, NoDriver
  <1>22. CASE PushStores
    <2>1. queue' \in Queues
      BY <1>22, SlotIsStored DEF PushStores, Queues
    <2> QED
      BY <1>22, <2>1 DEF PushStores, TaskAt
  <1>23. CASE PushPublishes
    <2>1. queue' \in Queues
      BY <1>23 DEF PushPublishes, Queues
    <2> QED
      BY <1>23, <2>1 DEF PushPublishes, TaskAt
  <1>24. CASE FrameCounted
    <2>1. stats' \in Counters
      <3> DEFINE peak == IF stats.high < queue.head - queue.tail
                         THEN queue.head - queue.tail ELSE stats.high
      <3>1. peak \in Nat /\ stats.queued + 1 \in Nat
        BY DEF Queues, Counters
      <3>2. stats' = [stats EXCEPT !.queued = stats.queued + 1, !.high = peak]
        BY <1>24 DEF FrameCounted, Counters
      <3> HIDE DEF peak
      <3> QED
        BY <3>1, <3>2 DEF Counters
    <2> QED
      BY <1>24, <2>1 DEF FrameCounted, TaskAt
  <1>25. CASE UpdateAlerts
    BY <1>25 DEF UpdateAlerts, TaskAt, StatusAfter, BlurredAfter, Crossings, Receivers
  <1>26. CASE BusDegrades
    BY <1>26 DEF BusDegrades, TaskAt, OwnerAt, DriverAt, NoDriver
  <1>27. CASE BusImproves
    BY <1>27 DEF BusImproves, TaskAt, OwnerAt, DriverAt, NoDriver
  <1>28. CASE UNCHANGED receiverVars
    BY <1>28 DEF receiverVars
  <1> QED
    BY <1>1, <1>2, <1>3, <1>4, <1>5, <1>6, <1>7, <1>8, <1>9, <1>10, <1>11, <1>12,
       <1>13, <1>14, <1>15, <1>16, <1>17, <1>18, <1>19, <1>20, <1>21, <1>22, <1>23,
       <1>24, <1>25, <1>26, <1>27, <1>28
       DEF ReceiverNext, OwnerStep, TaskStep

-----------------------------------------------------------------------------
(* Who may do what.                                                           *)

\* Every step keeps the driver, the task, the owner and the flag in agreement.
LEMMA ControlStep ==
    ASSUME ReceiverTypeOK, ControlInv, [ReceiverNext]_receiverVars
    PROVE  ControlInv'
  <1> USE DEF ReceiverTypeOK, ControlInv, DriverOutlivesTask, OwnerKnows, FlagWillMatch,
              TaskIsAlive, StatusAfter, BlurredAfter, Crossings, Receivers
  <1>1. CASE StartAlreadyRunning
    BY <1>1 DEF receiverVars, StartAlreadyRunning, TaskAt, OwnerAt, DriverAt, NoDriver
  <1>2. CASE StartFails
    BY <1>2 DEF StartFails, TaskAt, OwnerAt, DriverAt, NoDriver
  <1>3. CASE DriverStartFails
    BY <1>3 DEF DriverStartFails, TaskAt, OwnerAt, DriverAt, NoDriver
  <1>4. CASE TaskStartFails
    BY <1>4 DEF TaskStartFails, TaskAt, OwnerAt, DriverAt, NoDriver
  <1>5. CASE StartCreatesTask
    BY <1>5 DEF StartCreatesTask, TasksCreated, TaskAt, OwnerAt, DriverAt, NoDriver
  <1>6. CASE StartPublishesState
    BY <1>6 DEF StartPublishesState, TaskAt, OwnerAt, DriverAt, NoDriver
  <1>7. CASE StopWithoutDriver
    BY <1>7 DEF StopWithoutDriver, TaskAt, OwnerAt, DriverAt, NoDriver
  <1>8. CASE StopBegins
    BY <1>8 DEF StopBegins, TaskAt, OwnerAt, DriverAt, NoDriver
  <1>9. CASE StopGivesUp
    BY <1>9 DEF StopGivesUp, TaskAt, OwnerAt, DriverAt, NoDriver
  <1>10. CASE StopSeesExit
    BY <1>10 DEF StopSeesExit, TaskAt, OwnerAt, DriverAt, NoDriver
  <1>11. CASE StopUninstalls
    BY <1>11 DEF StopUninstalls, TaskAt, OwnerAt, DriverAt, NoDriver
  <1>12. CASE PopLoads
    BY <1>12 DEF PopLoads, TaskAt, OwnerAt, DriverAt, NoDriver
  <1>13. CASE PopTakes
    BY <1>13 DEF PopTakes, TaskAt, OwnerAt, DriverAt, NoDriver
  <1>14. CASE PopReleases
    BY <1>14 DEF PopReleases, TaskAt, OwnerAt, DriverAt, NoDriver
  <1>15. CASE TaskLoops
    BY <1>15 DEF TaskLoops, TaskAt, OwnerAt, DriverAt, NoDriver
  <1>16. CASE TaskExits
    BY <1>16 DEF TaskExits, TaskAt, OwnerAt, DriverAt, NoDriver
  <1>17. CASE TaskDeleted
    BY <1>17 DEF TaskDeleted, TaskAt, OwnerAt, DriverAt, NoDriver
  <1>18. CASE ReceiveTimesOut
    BY <1>18 DEF ReceiveTimesOut, TaskAt, OwnerAt, DriverAt, NoDriver
  <1>19. CASE FrameReceived
    BY <1>19 DEF FrameReceived, TaskAt, OwnerAt, DriverAt, NoDriver
  <1>20. CASE PushRefused
    BY <1>20 DEF PushRefused, TaskAt, OwnerAt, DriverAt, NoDriver
  <1>21. CASE PushFindsRoom
    BY <1>21 DEF PushFindsRoom, TaskAt, OwnerAt, DriverAt, NoDriver
  <1>22. CASE PushStores
    BY <1>22 DEF PushStores, TaskAt, OwnerAt, DriverAt, NoDriver
  <1>23. CASE PushPublishes
    BY <1>23 DEF PushPublishes, TaskAt, OwnerAt, DriverAt, NoDriver
  <1>24. CASE FrameCounted
    BY <1>24 DEF FrameCounted, TaskAt, OwnerAt, DriverAt, NoDriver
  <1>25. CASE UpdateAlerts
    BY <1>25 DEF UpdateAlerts, TaskAt, OwnerAt, DriverAt, NoDriver
  <1>26. CASE BusDegrades
    BY <1>26 DEF BusDegrades, TaskAt, OwnerAt, DriverAt, NoDriver
  <1>27. CASE BusImproves
    BY <1>27 DEF BusImproves, TaskAt, OwnerAt, DriverAt, NoDriver
  <1>28. CASE UNCHANGED receiverVars
    BY <1>28 DEF receiverVars, TaskAt, OwnerAt, DriverAt, NoDriver
  <1> QED
    BY <1>1, <1>2, <1>3, <1>4, <1>5, <1>6, <1>7, <1>8, <1>9, <1>10, <1>11, <1>12,
       <1>13, <1>14, <1>15, <1>16, <1>17, <1>18, <1>19, <1>20, <1>21, <1>22, <1>23,
       <1>24, <1>25, <1>26, <1>27, <1>28
       DEF ReceiverNext, OwnerStep, TaskStep

-----------------------------------------------------------------------------
(* Where the frames are.                                                      *)

\* Division with a remainder.
LEMMA Division ==
    ASSUME NEW m \in Nat \ {0}, NEW n \in Nat
    PROVE  n = m * (n \div m) + (n % m)
  OBVIOUS

\* No multiple of a number lies strictly between zero and it.
LEMMA NoSmallMultiple ==
    ASSUME NEW m \in Nat \ {0}, NEW d \in Int, 0 < m * d, m * d < m
    PROVE  FALSE
  <1>1. d >= 1
    OBVIOUS
  <1>2. m * d = m * (d - 1) + m
    OBVIOUS
  <1>3. m * (d - 1) >= 0
    BY <1>1
  <1> QED
    BY <1>2, <1>3

\* Fewer than Capacity indices apart, two indices have two slots.
LEMMA SlotsDiffer ==
    ASSUME QueueHasStorage, NEW n \in Nat, NEW k \in Nat, n < k, k - n < Capacity
    PROVE  n % Capacity # k % Capacity
  <1> SUFFICES ASSUME n % Capacity = k % Capacity PROVE FALSE
    OBVIOUS
  <1> DEFINE a == n \div Capacity
             b == k \div Capacity
             r == n % Capacity
  <1>1. /\ Capacity \in Nat \ {0} /\ a \in Int /\ b \in Int /\ r \in Int
    BY DEF QueueHasStorage
  <1>2. n = Capacity * a + r /\ k = Capacity * b + r
    BY <1>1, Division
  <1> HIDE DEF a, b, r
  <1>3. Capacity * (b - a) = k - n
    BY <1>1, <1>2
  <1> QED
    BY <1>1, <1>3, NoSmallMultiple

\* What the type invariant says of the numbers that are compared.
LEMMA NumbersAreNatural ==
    ASSUME QueueHasStorage, ReceiverTypeOK
    PROVE  /\ receiver.next \in Nat /\ session \in Nat
           /\ stats.received \in Nat /\ stats.queued \in Nat /\ stats.dequeued \in Nat
           /\ stats.overruns \in Nat /\ stats.last \in Nat
           /\ queue.head \in Nat /\ queue.tail \in Nat
           /\ owner.frame.session \in Nat /\ owner.frame.sequence \in Nat
           /\ task.frame.session \in Nat /\ task.frame.sequence \in Nat
           /\ \A n \in Nat : /\ Queued(n) \in Frames
                            /\ Queued(n).session \in Nat /\ Queued(n).sequence \in Nat
  <1>1. \A n \in Nat : Queued(n) \in Frames
    BY SlotIsStored DEF ReceiverTypeOK, Queues, Queued
  <1>2. owner.frame \in Frames /\ task.frame \in Frames
    BY DEF ReceiverTypeOK
  <1> QED
    BY <1>1, <1>2 DEF ReceiverTypeOK, Receivers, Counters, Queues, Frames

\* A step that only moves a thread, between places where it holds no frame.
LEMMA FlowIsLeft ==
    ASSUME FlowInv, receiver'.next = receiver.next, UNCHANGED <<stats, queue, session>>,
           \/ task' = task
           \/ /\ task.at \notin {"push", "store", "publish", "count"}
              /\ task'.at \notin {"push", "store", "publish", "count"},
           \/ owner' = owner
           \/ /\ owner.at \notin {"take", "release"} /\ owner'.at \notin {"take", "release"}
              /\ owner'.frame = owner.frame
    PROVE  FlowInv'
  <1>1. /\ Uncounted' = Uncounted /\ Unqueued' = Unqueued /\ Newest' = Newest
        /\ HoldsFrame' => HoldsFrame /\ task' = task
        /\ \A n : Queued(n)' = Queued(n)
        /\ \A n : Waiting(n)' <=> Waiting(n)
    BY DEF Uncounted, Unqueued, Newest, HoldsFrame, Queued, Waiting
  <1>2. CountersAddUp'
    BY <1>1 DEF FlowInv, CountersAddUp
  <1>3. SlotsAreOwned'
    BY <1>1 DEF FlowInv, SlotsAreOwned
  <1>4. QueueIsExact'
    BY <1>1 DEF FlowInv, QueueIsExact, Late
  <1> QED
    BY <1>2, <1>3, <1>4 DEF FlowInv

\* A start that resets the counters empties the queue, and no task holds a frame.
LEMMA FlowStartsAfresh ==
    ASSUME QueueHasStorage, ReceiverTypeOK, DriverOutlivesTask, FlowInv,
           driver.stage = "absent", owner.at = "idle",
           receiver'.next = 1, stats' = NoStatistics, queue' = Cleared(queue),
           session' = session + 1, owner'.frame = owner.frame,
           owner'.at \notin {"take", "release"},
           task' = task \/ task'.at \in {"loop", "lost"}
    PROVE  FlowInv'
  <1>1. /\ Uncounted' = 0 /\ Unqueued' = 0 /\ ~HoldsFrame'
        /\ task'.at \notin {"push", "store", "publish", "count"}
    BY DEF DriverOutlivesTask, TaskIsAlive, Uncounted, Unqueued, HoldsFrame
  <1>2. /\ queue'.head = queue.head /\ queue'.tail = queue.head
        /\ queue.head \in Nat /\ session \in Nat /\ owner.frame.session \in Nat
    BY NumbersAreNatural DEF ReceiverTypeOK, Queues, Cleared
  <1>3. CountersAddUp'
    BY <1>1, <1>2 DEF CountersAddUp, NoStatistics
  <1>4. owner'.frame.session < session'
    BY <1>2 DEF FlowInv, SlotsAreOwned
  <1>5. SlotsAreOwned'
    BY <1>1, <1>2, <1>4 DEF SlotsAreOwned, QueueHasStorage
  <1>6. \A n \in Int : ~Waiting(n)'
    BY <1>2 DEF Waiting
  <1>7. QueueIsExact'
    BY <1>2, <1>4, <1>6 DEF QueueIsExact
  <1> QED
    BY <1>3, <1>5, <1>7 DEF FlowInv

\* A pop that found a frame leaves everything where it is.
LEMMA PopLoadsFlow ==
    ASSUME QueueHasStorage, ReceiverTypeOK, FlowInv, PopLoads
    PROVE  FlowInv'
  <1>1. /\ Uncounted' = Uncounted /\ Unqueued' = Unqueued /\ Newest' = Newest
        /\ UNCHANGED <<receiver, stats, queue, task, session>>
        /\ owner'.at = "take" /\ owner.at = "idle" /\ owner'.frame = owner.frame
        /\ \A n : Queued(n)' = Queued(n)
        /\ \A n : Waiting(n)' <=> Waiting(n)
    BY DEF PopLoads, OwnerAt, Uncounted, Unqueued, Newest, HoldsFrame, Queued, Waiting,
       ReceiverTypeOK
  <1>2. CountersAddUp'
    BY <1>1 DEF FlowInv, CountersAddUp
  <1>3. queue.tail < queue.head
    BY NumbersAreNatural DEF PopLoads, FlowInv, SlotsAreOwned
  <1>4. SlotsAreOwned'
    BY <1>1, <1>3 DEF FlowInv, SlotsAreOwned, HoldsFrame
  <1>5. QueueIsExact'
    BY <1>1 DEF FlowInv, QueueIsExact, Late
  <1> QED
    BY <1>2, <1>4, <1>5 DEF FlowInv

\* The frame that is taken is the first that waits.
LEMMA PopTakesFlow ==
    ASSUME QueueHasStorage, ReceiverTypeOK, FlowInv, PopTakes
    PROVE  FlowInv'
  <1>1. /\ Uncounted' = Uncounted /\ Unqueued' = Unqueued /\ Newest' = Newest
        /\ UNCHANGED <<receiver, stats, queue, task, session>>
        /\ owner'.at = "release" /\ owner.at = "take" /\ owner'.frame = Queued(queue.tail)
        /\ \A n : Queued(n)' = Queued(n)
        /\ \A n : Waiting(n)' <=> Waiting(n)
    BY DEF PopTakes, Uncounted, Unqueued, Newest, HoldsFrame, Queued, Waiting
  <1>2. CountersAddUp'
    BY <1>1 DEF FlowInv, CountersAddUp
  <1>3. queue.tail < queue.head /\ Queued(queue.tail).session = session
    BY <1>1, NumbersAreNatural DEF FlowInv, SlotsAreOwned, QueueIsExact, Waiting
  <1>4. SlotsAreOwned'
    BY <1>1, <1>3, NumbersAreNatural DEF FlowInv, SlotsAreOwned, HoldsFrame
  <1>5. QueueIsExact'
    BY <1>1 DEF FlowInv, QueueIsExact, Late
  <1> QED
    BY <1>2, <1>4, <1>5 DEF FlowInv

\* The frame that is released is delivered, and the next one is the first.
LEMMA PopReleasesFlow ==
    ASSUME QueueHasStorage, ReceiverTypeOK, FlowInv, PopReleases
    PROVE  FlowInv'
  <1>1. /\ Uncounted' = Uncounted /\ Unqueued' = Unqueued /\ Newest' = Newest
        /\ UNCHANGED <<receiver, task, session>>
        /\ owner'.at = "idle" /\ owner.at = "release" /\ owner'.frame = owner.frame
        /\ queue'.head = queue.head /\ queue'.tail = queue.tail + 1
        /\ queue'.storage = queue.storage
        /\ stats'.received = stats.received /\ stats'.queued = stats.queued
        /\ stats'.overruns = stats.overruns /\ stats'.last = stats.last
        /\ stats'.dequeued = stats.dequeued + 1
        /\ \A n : Queued(n)' = Queued(n)
    BY DEF PopReleases, OwnerAt, Uncounted, Unqueued, Newest, HoldsFrame, Queued,
       ReceiverTypeOK, Queues, Counters
  <1>2. /\ queue.head \in Nat /\ queue.tail \in Nat /\ stats.dequeued \in Nat
        /\ stats.queued \in Nat /\ Unqueued \in Nat /\ queue.tail < queue.head
    BY <1>1, NumbersAreNatural DEF FlowInv, SlotsAreOwned, Unqueued
  <1>3. CountersAddUp'
    BY <1>1, <1>2 DEF FlowInv, CountersAddUp
  <1>4. SlotsAreOwned'
    BY <1>1, <1>2 DEF FlowInv, SlotsAreOwned, HoldsFrame, QueueHasStorage
  <1>5. \A n \in Int : Waiting(n)' => Waiting(n) /\ queue.tail < n
    BY <1>1, <1>2 DEF Waiting
  <1>6. \A n \in Int : stats'.dequeued + (n - queue'.tail) + 1
                        = stats.dequeued + (n - queue.tail) + 1
    BY <1>1, <1>2
  <1>7. \A n \in Int : Waiting(n)' =>
           /\ Queued(n)'.session = session'
           /\ Queued(n)'.sequence <= Newest'
           /\ Late(Queued(n).sequence, stats.dequeued + (n - queue.tail) + 1)'
    BY <1>1, <1>5, <1>6 DEF FlowInv, QueueIsExact, Late
  <1>8. Waiting(queue.tail) /\ owner.frame = Queued(queue.tail)
    BY <1>1, <1>2 DEF Waiting, FlowInv, SlotsAreOwned
  <1>9. /\ Late(owner.frame.sequence, stats.dequeued + 1)
        /\ owner.frame.sequence <= Newest
    BY <1>2, <1>8 DEF FlowInv, QueueIsExact
  <1>10. queue'.tail < queue'.head => owner.frame.sequence < Queued(queue'.tail).sequence
    BY <1>1, <1>2, <1>8 DEF FlowInv, QueueIsExact, Waiting
  <1>11. QueueIsExact'
    BY <1>1, <1>2, <1>5, <1>7, <1>9, <1>10 DEF FlowInv, QueueIsExact, Late
  <1> QED
    BY <1>3, <1>4, <1>11 DEF FlowInv

\* A frame that is received is newer than all that were.
LEMMA FrameReceivedFlow ==
    ASSUME QueueHasStorage, ReceiverTypeOK, FlowInv, FrameReceived
    PROVE  FlowInv'
  <1>1. /\ Uncounted = 0 /\ Uncounted' = 1 /\ Unqueued = 0 /\ Unqueued' = 0
        /\ ~HoldsFrame /\ HoldsFrame' /\ task'.at = "push"
        /\ UNCHANGED <<queue, owner, session>>
        /\ task'.frame.session = session /\ task'.frame.sequence = receiver.next
        /\ receiver'.next = receiver.next + 1
        /\ stats'.received = stats.received + 1 /\ stats'.queued = stats.queued
        /\ stats'.overruns = stats.overruns /\ stats'.last = receiver.next
        /\ stats'.dequeued = stats.dequeued
    BY DEF FrameReceived, Uncounted, Unqueued, HoldsFrame, ReceiverTypeOK, Receivers,
       Counters
  <1>2. /\ stats.received \in Nat /\ stats.queued \in Nat /\ stats.overruns \in Nat
        /\ stats.last \in Nat /\ receiver.next = stats.last + 1
    BY NumbersAreNatural DEF FlowInv, CountersAddUp
  <1>3. /\ Newest' = Newest
        /\ \A n : Queued(n)' = Queued(n)
        /\ \A n : Waiting(n)' <=> Waiting(n)
    BY <1>1, <1>2 DEF Newest, Queued, Waiting
  <1>4. CountersAddUp'
    BY <1>1, <1>2 DEF FlowInv, CountersAddUp
  <1>5. SlotsAreOwned'
    BY <1>1, <1>3 DEF FlowInv, SlotsAreOwned
  <1>6. QueueIsExact'
    BY <1>1, <1>3 DEF FlowInv, QueueIsExact, Late
  <1> QED
    BY <1>4, <1>5, <1>6 DEF FlowInv

\* A frame that finds the queue full is lost and counted.
LEMMA PushRefusedFlow ==
    ASSUME QueueHasStorage, ReceiverTypeOK, FlowInv, PushRefused
    PROVE  FlowInv'
  <1>1. /\ Uncounted = 1 /\ Uncounted' = 0 /\ Unqueued = 0 /\ Unqueued' = 0
        /\ HoldsFrame /\ ~HoldsFrame' /\ task'.at = "alerts"
        /\ UNCHANGED <<receiver, queue, owner, session>>
        /\ stats'.received = stats.received /\ stats'.queued = stats.queued
        /\ stats'.overruns = stats.overruns + 1 /\ stats'.last = stats.last
        /\ stats'.dequeued = stats.dequeued
        /\ \A n : Queued(n)' = Queued(n)
        /\ \A n : Waiting(n)' <=> Waiting(n)
    BY DEF PushRefused, TaskAt, Uncounted, Unqueued, HoldsFrame, Queued, Waiting,
       ReceiverTypeOK, Counters
  <1>2. /\ stats.queued \in Nat /\ stats.overruns \in Nat /\ stats.last \in Nat
        /\ stats.dequeued \in Nat /\ queue.tail \in Nat /\ queue.head \in Nat
        /\ owner.frame.sequence \in Nat
        /\ \A n \in Nat : Queued(n).sequence \in Nat
    BY NumbersAreNatural
  <1>3. Newest = stats.last - 1 /\ Newest' = stats.last
    BY <1>1 DEF Newest
  <1>4. CountersAddUp'
    BY <1>1, <1>2 DEF FlowInv, CountersAddUp
  <1>5. SlotsAreOwned'
    BY <1>1 DEF FlowInv, SlotsAreOwned
  <1>6. \A n \in Int : Waiting(n)' =>
           /\ Queued(n)'.session = session'
           /\ Queued(n)'.sequence <= Newest'
           /\ Late(Queued(n).sequence, stats.dequeued + (n - queue.tail) + 1)'
    <2> TAKE n \in Int
    <2> SUFFICES ASSUME Waiting(n)
                 PROVE  /\ Queued(n).session = session
                        /\ Queued(n).sequence <= stats.last
                        /\ 0 <= Queued(n).sequence
                                   - (stats.dequeued + (n - queue.tail) + 1)
                        /\ Queued(n).sequence - (stats.dequeued + (n - queue.tail) + 1)
                               <= stats.overruns + 1
      BY <1>1, <1>3 DEF Late
    <2>1. n \in Nat /\ Queued(n).sequence \in Nat
      BY <1>2 DEF Waiting
    <2>2. /\ Queued(n).session = session
          /\ Queued(n).sequence <= stats.last - 1
          /\ 0 <= Queued(n).sequence - (stats.dequeued + (n - queue.tail) + 1)
          /\ Queued(n).sequence - (stats.dequeued + (n - queue.tail) + 1)
                 <= stats.overruns
      BY <1>3 DEF FlowInv, QueueIsExact, Late
    <2> QED
      BY <1>2, <2>1, <2>2
  <1>7. owner.at # "release" /\ owner.frame.session = session =>
           /\ Late(owner.frame.sequence, stats.dequeued)'
           /\ owner.frame.sequence <= Newest'
    BY <1>1, <1>2, <1>3 DEF FlowInv, QueueIsExact, Late
  <1>8. QueueIsExact'
    BY <1>1, <1>6, <1>7 DEF FlowInv, QueueIsExact
  <1> QED
    BY <1>4, <1>5, <1>8 DEF FlowInv

\* The task stores a frame only where there is room for it.
LEMMA PushFindsRoomFlow ==
    ASSUME QueueHasStorage, ReceiverTypeOK, FlowInv, PushFindsRoom
    PROVE  FlowInv'
  <1>1. /\ Uncounted' = Uncounted /\ Unqueued' = Unqueued /\ Newest' = Newest
        /\ HoldsFrame /\ task'.at = "store" /\ task'.frame = task.frame
        /\ UNCHANGED <<receiver, stats, queue, owner, session>>
        /\ \A n : Queued(n)' = Queued(n)
        /\ \A n : Waiting(n)' <=> Waiting(n)
    BY DEF PushFindsRoom, TaskAt, Uncounted, Unqueued, Newest, HoldsFrame, Queued, Waiting,
       ReceiverTypeOK
  <1>2. queue.head - queue.tail < Capacity
    BY NumbersAreNatural DEF PushFindsRoom, IsFull, QueueHasStorage
  <1>3. CountersAddUp'
    BY <1>1 DEF FlowInv, CountersAddUp
  <1>4. SlotsAreOwned'
    BY <1>1, <1>2 DEF FlowInv, SlotsAreOwned
  <1>5. QueueIsExact'
    BY <1>1 DEF FlowInv, QueueIsExact, Late
  <1> QED
    BY <1>3, <1>4, <1>5 DEF FlowInv

\* A frame is stored in a slot from which nothing waits to be taken.
LEMMA PushStoresFlow ==
    ASSUME QueueHasStorage, ReceiverTypeOK, FlowInv, PushStores
    PROVE  FlowInv'
  <1>1. /\ Uncounted' = Uncounted /\ Unqueued' = Unqueued /\ Newest' = Newest
        /\ HoldsFrame /\ task.at = "store" /\ task'.at = "publish"
        /\ task'.frame = task.frame
        /\ UNCHANGED <<receiver, stats, owner, session>>
        /\ queue'.head = queue.head /\ queue'.tail = queue.tail
        /\ queue'.storage =
              [queue.storage EXCEPT ![queue.head % Capacity] = task.frame]
    BY DEF PushStores, TaskAt, Uncounted, Unqueued, Newest, HoldsFrame,
       ReceiverTypeOK, Queues
  <1>2. /\ queue.head \in Nat /\ queue.tail \in Nat
        /\ queue.head - queue.tail < Capacity
    BY <1>1, NumbersAreNatural DEF FlowInv, SlotsAreOwned
  <1>3. queue.storage \in [0..(Capacity - 1) -> Frames]
    BY DEF ReceiverTypeOK, Queues
  <1>4. Queued(queue.head)' = task.frame
    BY <1>1, <1>2, <1>3, SlotIsStored DEF Queued
  <1>5. \A n \in Int : Waiting(n) => Queued(n)' = Queued(n)
    <2> TAKE n \in Int
    <2> HAVE Waiting(n)
    <2>1. n \in Nat /\ n < queue.head /\ queue.head - n < Capacity
      BY <1>2 DEF Waiting, QueueHasStorage
    <2>2. n % Capacity # queue.head % Capacity
      BY <1>2, <2>1, SlotsDiffer
    <2>3. n % Capacity \in 0..(Capacity - 1)
      BY <2>1, SlotIsStored
    <2> QED
      BY <1>1, <1>3, <2>2, <2>3 DEF Queued
  <1>6. \A n : Waiting(n)' <=> Waiting(n)
    BY <1>1 DEF Waiting
  <1>7. queue.tail < queue.head => Waiting(queue.tail)
    BY <1>2 DEF Waiting
  <1>8. CountersAddUp'
    BY <1>1 DEF FlowInv, CountersAddUp
  <1>9. SlotsAreOwned'
    BY <1>1, <1>2, <1>4, <1>5, <1>7 DEF FlowInv, SlotsAreOwned
  <1>10. QueueIsExact'
    BY <1>1, <1>2, <1>5, <1>6, <1>7 DEF FlowInv, QueueIsExact, Late
  <1> QED
    BY <1>8, <1>9, <1>10 DEF FlowInv

\* The frame that is published is the newest, and as late as frames were lost.
LEMMA PushPublishesFlow ==
    ASSUME QueueHasStorage, ReceiverTypeOK, FlowInv, PushPublishes
    PROVE  FlowInv'
  <1>1. /\ Uncounted = 1 /\ Uncounted' = 1 /\ Unqueued = 0 /\ Unqueued' = 1
        /\ HoldsFrame /\ ~HoldsFrame' /\ task.at = "publish" /\ task'.at = "count"
        /\ UNCHANGED <<receiver, stats, owner, session>>
        /\ queue'.head = queue.head + 1 /\ queue'.tail = queue.tail
        /\ queue'.storage = queue.storage
        /\ \A n : Queued(n)' = Queued(n)
    BY DEF PushPublishes, TaskAt, Uncounted, Unqueued, HoldsFrame, Queued,
       ReceiverTypeOK, Queues
  <1>2. /\ queue.head \in Nat /\ queue.tail \in Nat /\ queue.tail <= queue.head
        /\ queue.head - queue.tail < Capacity
        /\ stats.queued \in Nat /\ stats.overruns \in Nat /\ stats.last \in Nat
        /\ stats.dequeued \in Nat /\ owner.frame.sequence \in Nat
        /\ \A n \in Nat : Queued(n).sequence \in Nat
    BY <1>1, NumbersAreNatural DEF FlowInv, SlotsAreOwned
  <1>3. Newest = stats.last - 1 /\ Newest' = stats.last
    BY <1>1 DEF Newest
  <1>4. /\ Queued(queue.head).session = session
        /\ Queued(queue.head).sequence = stats.last
    BY <1>1 DEF FlowInv, SlotsAreOwned
  <1>5. /\ stats.last = stats.queued + stats.overruns + 1
        /\ stats.queued = stats.dequeued + (queue.head - queue.tail)
    BY <1>1, <1>2 DEF FlowInv, CountersAddUp
  <1>6. CountersAddUp'
    BY <1>1, <1>2, <1>5 DEF FlowInv, CountersAddUp
  <1>7. SlotsAreOwned'
    BY <1>1, <1>2 DEF FlowInv, SlotsAreOwned, QueueHasStorage
  <1>8. \A n \in Int : Waiting(n)' => Waiting(n) \/ n = queue.head
    BY <1>1, <1>2 DEF Waiting
  <1>9. Late(stats.last, stats.dequeued + (queue.head - queue.tail) + 1)
    BY <1>2, <1>5 DEF Late
  <1>10. \A n \in Int : Waiting(n) => n \in Nat /\ Queued(n).sequence < stats.last
    BY <1>2, <1>3 DEF FlowInv, QueueIsExact, Waiting
  <1>11. \A n \in Int : Waiting(n)' =>
            /\ Queued(n)'.session = session'
            /\ Queued(n)'.sequence <= Newest'
            /\ Late(Queued(n).sequence, stats.dequeued + (n - queue.tail) + 1)'
    <2> TAKE n \in Int
    <2> HAVE Waiting(n)'
    <2>1. CASE n = queue.head
      BY <1>1, <1>2, <1>3, <1>4, <1>9, <2>1 DEF Late
    <2>2. CASE Waiting(n)
      <3>1. /\ Queued(n).session = session
            /\ Queued(n).sequence <= stats.last
            /\ Late(Queued(n).sequence, stats.dequeued + (n - queue.tail) + 1)
        BY <1>2, <1>10, <2>2 DEF FlowInv, QueueIsExact
      <3> QED
        BY <1>1, <1>3, <3>1 DEF Late
    <2> QED
      BY <1>8, <2>1, <2>2
  <1>12. \A n, k \in Int : Waiting(n)' /\ Waiting(k)' /\ n < k =>
            Queued(n).sequence < Queued(k).sequence
    <2> TAKE n, k \in Int
    <2> HAVE Waiting(n)' /\ Waiting(k)' /\ n < k
    <2>1. Waiting(n)
      BY <1>1, <1>2 DEF Waiting
    <2>2. CASE k = queue.head
      BY <1>4, <1>10, <2>1, <2>2
    <2>3. CASE Waiting(k)
      BY <2>1, <2>3 DEF FlowInv, QueueIsExact
    <2> QED
      BY <1>8, <2>2, <2>3
  <1>13. owner.at # "release" /\ owner.frame.session = session =>
            /\ Late(owner.frame.sequence, stats.dequeued)
            /\ owner.frame.sequence < stats.last
            /\ owner.frame.sequence < Queued(queue.tail).sequence
    <2> HAVE owner.at # "release" /\ owner.frame.session = session
    <2>1. /\ Late(owner.frame.sequence, stats.dequeued)
          /\ owner.frame.sequence <= stats.last - 1
          /\ queue.tail < queue.head =>
                owner.frame.sequence < Queued(queue.tail).sequence
      BY <1>3 DEF FlowInv, QueueIsExact
    <2>2. owner.frame.sequence < stats.last
      BY <1>2, <2>1
    <2> QED
      BY <1>2, <1>4, <2>1, <2>2
  <1>14. QueueIsExact'
    BY <1>1, <1>2, <1>3, <1>11, <1>12, <1>13 DEF QueueIsExact, Late
  <1> QED
    BY <1>6, <1>7, <1>14 DEF FlowInv

\* The statistics catch up with the queue.
LEMMA FrameCountedFlow ==
    ASSUME QueueHasStorage, ReceiverTypeOK, FlowInv, FrameCounted
    PROVE  FlowInv'
  <1>1. /\ Uncounted = 1 /\ Uncounted' = 0 /\ Unqueued = 1 /\ Unqueued' = 0
        /\ ~HoldsFrame /\ ~HoldsFrame' /\ task'.at = "alerts"
        /\ UNCHANGED <<receiver, queue, owner, session>>
        /\ stats'.received = stats.received /\ stats'.queued = stats.queued + 1
        /\ stats'.overruns = stats.overruns /\ stats'.last = stats.last
        /\ stats'.dequeued = stats.dequeued
        /\ \A n : Queued(n)' = Queued(n)
        /\ \A n : Waiting(n)' <=> Waiting(n)
    BY DEF FrameCounted, TaskAt, Uncounted, Unqueued, HoldsFrame, Queued, Waiting,
       ReceiverTypeOK, Counters
  <1>2. Newest' = Newest
    BY <1>1 DEF Newest
  <1>3. CountersAddUp'
    <2>1. /\ stats.queued \in Nat /\ stats.overruns \in Nat /\ stats.dequeued \in Nat
          /\ queue.head \in Nat /\ queue.tail \in Nat
      BY NumbersAreNatural
    <2>2. /\ receiver.next = stats.last + 1 /\ stats.last = stats.received
          /\ stats.received = stats.queued + stats.overruns + 1
          /\ stats.queued + 1 = stats.dequeued + (queue.head - queue.tail)
      BY <1>1 DEF FlowInv, CountersAddUp
    <2> QED
      BY <1>1, <2>1, <2>2 DEF CountersAddUp
  <1>4. SlotsAreOwned'
    BY <1>1 DEF FlowInv, SlotsAreOwned
  <1>5. QueueIsExact'
    BY <1>1, <1>2 DEF FlowInv, QueueIsExact, Late
  <1> QED
    BY <1>3, <1>4, <1>5 DEF FlowInv

\* Every step keeps the account of the frames.
LEMMA FlowStep ==
    ASSUME QueueHasStorage, ReceiverTypeOK, DriverOutlivesTask, FlowInv,
           [ReceiverNext]_receiverVars
    PROVE  FlowInv'
  <1>1. CASE StartAlreadyRunning \/ UNCHANGED receiverVars
    BY <1>1, FlowIsLeft DEF StartAlreadyRunning, receiverVars
  <1>2. CASE TaskStartFails
    <2>1. receiver'.next = 1
      BY <1>2 DEF TaskStartFails, ReceiverTypeOK, Receivers
    <2> QED
      BY <1>2, <2>1, FlowStartsAfresh DEF TaskStartFails
  <1>3. CASE StartCreatesTask
    <2>1. /\ receiver'.next = 1 /\ task'.at \in {"loop", "lost"}
          /\ owner'.at = "created" /\ owner'.frame = owner.frame
      BY <1>3 DEF StartCreatesTask, TasksCreated, TaskAt, OwnerAt, ReceiverTypeOK, Receivers
    <2> QED
      BY <1>3, <2>1, FlowStartsAfresh DEF StartCreatesTask
  <1>4. CASE PopLoads \/ PopTakes \/ PopReleases
    BY <1>4, PopLoadsFlow, PopTakesFlow, PopReleasesFlow
  <1>5. CASE FrameReceived
    BY <1>5, FrameReceivedFlow
  <1>6. CASE PushRefused \/ PushFindsRoom \/ PushStores \/ PushPublishes
    BY <1>6, PushRefusedFlow, PushFindsRoomFlow, PushStoresFlow, PushPublishesFlow
  <1>7. CASE FrameCounted
    BY <1>7, FrameCountedFlow
  <1>8. CASE StartFails
    <2>1. /\ receiver'.next = receiver.next /\ UNCHANGED <<stats, queue, session>>
          /\ task' = task /\ owner' = owner
      BY <1>8 DEF StartFails, ReceiverTypeOK, Receivers
    <2> QED
      BY <2>1, FlowIsLeft
  <1>9. CASE DriverStartFails
    <2>1. /\ receiver'.next = receiver.next /\ UNCHANGED <<stats, queue, session>>
          /\ task' = task /\ owner' = owner
      BY <1>9 DEF DriverStartFails, ReceiverTypeOK, Receivers
    <2> QED
      BY <2>1, FlowIsLeft
  <1>10. CASE StartPublishesState
    <2>1. /\ receiver'.next = receiver.next /\ UNCHANGED <<stats, queue, session>>
          /\ owner.at \notin {"take", "release"} /\ owner'.at \notin {"take", "release"}
          /\ owner'.frame = owner.frame /\ task' = task
      BY <1>10 DEF StartPublishesState, OwnerAt, ReceiverTypeOK, Receivers
    <2> QED
      BY <2>1, FlowIsLeft
  <1>11. CASE StopWithoutDriver
    <2>1. /\ receiver'.next = receiver.next /\ UNCHANGED <<stats, queue, session>>
          /\ task' = task /\ owner' = owner
      BY <1>11 DEF StopWithoutDriver, ReceiverTypeOK, Receivers
    <2> QED
      BY <2>1, FlowIsLeft
  <1>12. CASE StopBegins
    <2>1. /\ receiver'.next = receiver.next /\ UNCHANGED <<stats, queue, session>>
          /\ owner.at \notin {"take", "release"} /\ owner'.at \notin {"take", "release"}
          /\ owner'.frame = owner.frame /\ task' = task
      BY <1>12 DEF StopBegins, OwnerAt, ReceiverTypeOK, Receivers
    <2> QED
      BY <2>1, FlowIsLeft
  <1>13. CASE StopGivesUp
    <2>1. /\ receiver'.next = receiver.next /\ UNCHANGED <<stats, queue, session>>
          /\ owner.at \notin {"take", "release"} /\ owner'.at \notin {"take", "release"}
          /\ owner'.frame = owner.frame /\ task' = task
      BY <1>13 DEF StopGivesUp, OwnerAt, ReceiverTypeOK, Receivers
    <2> QED
      BY <2>1, FlowIsLeft
  <1>14. CASE StopSeesExit
    <2>1. /\ receiver'.next = receiver.next /\ UNCHANGED <<stats, queue, session>>
          /\ owner.at \notin {"take", "release"} /\ owner'.at \notin {"take", "release"}
          /\ owner'.frame = owner.frame /\ task' = task
      BY <1>14 DEF StopSeesExit, OwnerAt, ReceiverTypeOK, Receivers
    <2> QED
      BY <2>1, FlowIsLeft
  <1>15. CASE StopUninstalls
    <2>1. /\ receiver'.next = receiver.next /\ UNCHANGED <<stats, queue, session>>
          /\ owner.at \notin {"take", "release"} /\ owner'.at \notin {"take", "release"}
          /\ owner'.frame = owner.frame /\ task' = task
      BY <1>15 DEF StopUninstalls, OwnerAt, ReceiverTypeOK, Receivers
    <2> QED
      BY <2>1, FlowIsLeft
  <1>16. CASE TaskLoops
    <2>1. /\ receiver'.next = receiver.next /\ UNCHANGED <<stats, queue, session>>
          /\ task.at \notin {"push", "store", "publish", "count"}
          /\ task'.at \notin {"push", "store", "publish", "count"} /\ owner' = owner
      BY <1>16 DEF TaskLoops, TaskAt, ReceiverTypeOK, Receivers
    <2> QED
      BY <2>1, FlowIsLeft
  <1>17. CASE TaskExits
    <2>1. /\ receiver'.next = receiver.next /\ UNCHANGED <<stats, queue, session>>
          /\ task.at \notin {"push", "store", "publish", "count"}
          /\ task'.at \notin {"push", "store", "publish", "count"} /\ owner' = owner
      BY <1>17 DEF TaskExits, TaskAt, ReceiverTypeOK, Receivers
    <2> QED
      BY <2>1, FlowIsLeft
  <1>18. CASE TaskDeleted
    <2>1. /\ receiver'.next = receiver.next /\ UNCHANGED <<stats, queue, session>>
          /\ task.at \notin {"push", "store", "publish", "count"}
          /\ task'.at \notin {"push", "store", "publish", "count"} /\ owner' = owner
      BY <1>18 DEF TaskDeleted, TaskAt, ReceiverTypeOK, Receivers
    <2> QED
      BY <2>1, FlowIsLeft
  <1>19. CASE ReceiveTimesOut
    <2>1. /\ receiver'.next = receiver.next /\ UNCHANGED <<stats, queue, session>>
          /\ task.at \notin {"push", "store", "publish", "count"}
          /\ task'.at \notin {"push", "store", "publish", "count"} /\ owner' = owner
      BY <1>19 DEF ReceiveTimesOut, TaskAt, ReceiverTypeOK, Receivers
    <2> QED
      BY <2>1, FlowIsLeft
  <1>20. CASE UpdateAlerts
    <2>1. /\ receiver'.next = receiver.next /\ UNCHANGED <<stats, queue, session>>
          /\ task.at \notin {"push", "store", "publish", "count"}
          /\ task'.at \notin {"push", "store", "publish", "count"} /\ owner' = owner
      BY <1>20 DEF UpdateAlerts, TaskAt, ReceiverTypeOK, Receivers
    <2> QED
      BY <2>1, FlowIsLeft
  <1>21. CASE BusDegrades
    <2>1. /\ receiver'.next = receiver.next /\ UNCHANGED <<stats, queue, session>>
          /\ task' = task /\ owner' = owner
      BY <1>21 DEF BusDegrades, ReceiverTypeOK, Receivers
    <2> QED
      BY <2>1, FlowIsLeft
  <1>22. CASE BusImproves
    <2>1. /\ receiver'.next = receiver.next /\ UNCHANGED <<stats, queue, session>>
          /\ task' = task /\ owner' = owner
      BY <1>22 DEF BusImproves, ReceiverTypeOK, Receivers
    <2> QED
      BY <2>1, FlowIsLeft
  <1> QED
    BY <1>1, <1>2, <1>3, <1>4, <1>5, <1>6, <1>7, <1>8, <1>9, <1>10, <1>11, <1>12,
       <1>13, <1>14, <1>15, <1>16, <1>17, <1>18, <1>19, <1>20, <1>21, <1>22
       DEF ReceiverNext, OwnerStep, TaskStep
-----------------------------------------------------------------------------
(* Theorems.                                                                  *)

\* Before the first start there is no driver, no task and no frame.
LEMMA ReceiverStarts ==
    ASSUME QueueHasStorage, ReceiverInit
    PROVE  ReceiverInv
  <1>1. [n \in 0..(Capacity - 1) |-> NoFrame] \in [0..(Capacity - 1) -> Frames]
    BY DEF NoFrame, Frames
  <1>2. ReceiverTypeOK
    BY <1>1 DEF ReceiverInit, ReceiverTypeOK, NoDriver, NoStatistics, NoFrame, Frames,
       Receivers,
       Counters, Queues
  <1>3. ControlInv
    BY DEF ReceiverInit, ControlInv, DriverOutlivesTask, OwnerKnows, FlagWillMatch,
       TaskIsAlive,
       NoDriver
  <1>4. ~HoldsFrame /\ Uncounted = 0 /\ Unqueued = 0 /\ \A n \in Int : ~Waiting(n)
    BY DEF ReceiverInit, HoldsFrame, Uncounted, Unqueued, Waiting
  <1>5. FlowInv
    BY <1>4 DEF ReceiverInit, FlowInv, CountersAddUp, SlotsAreOwned, QueueIsExact, Newest,
       Late,
       NoStatistics, NoFrame, QueueHasStorage
  <1> QED
    BY <1>2, <1>3, <1>5 DEF ReceiverInv

\* The inductive invariant: the driver outlives the task, the flag will follow the
\* controller, and every frame received is delivered, waiting, held or lost.
THEOREM ReceiverInvariant ==
    ASSUME QueueHasStorage
    PROVE  ReceiverSpec => []ReceiverInv
  <1>1. ReceiverInit => ReceiverInv
    BY ReceiverStarts
  <1>2. ReceiverInv /\ [ReceiverNext]_receiverVars => ReceiverInv'
    BY TypeStep, ControlStep, FlowStep DEF ReceiverInv, ControlInv
  <1> QED
    BY <1>1, <1>2, PTL DEF ReceiverSpec

\* One task at a time, a state that is true of the driver and of the task unless
\* the task before deleted the new one, and a flag that is true of the controller
\* unless the last word of alerts held both crossings, however starts, stops and
\* the bus interleave with the task and whichever of them fail.
THEOREM ReceiverTellsTheTruth ==
    ASSUME QueueHasStorage
    PROVE  ReceiverSpec => []ReceiverIsTrue
  <1>1. ReceiverInv => ReceiverIsTrue
    <2> SUFFICES ASSUME ReceiverInv PROVE ReceiverIsTrue
      OBVIOUS
    <2>1. OneProducer
      BY DEF ReceiverInv, ControlInv, DriverOutlivesTask, OneProducer
    <2>2. StateIsTrue
      BY DEF ReceiverInv, ControlInv, DriverOutlivesTask, OwnerKnows, StateIsTrue,
         TaskIsAlive
    <2>3. FlagFollowsController
      <3> SUFFICES ASSUME task.at = "loop", driver.alerts = {}
                   PROVE  receiver.warned = (driver.above /\ ~driver.blurred)
        BY DEF FlagFollowsController
      <3>1. driver.stage # "absent"
        BY DEF ReceiverInv, ControlInv, DriverOutlivesTask
      <3>2. receiver.warned \in BOOLEAN
        BY DEF ReceiverInv, ReceiverTypeOK, Receivers
      <3> QED
        BY <3>1, <3>2
           DEF ReceiverInv, ControlInv, FlagWillMatch, StatusAfter, BlurredAfter
    <2> QED
      BY <2>1, <2>2, <2>3 DEF ReceiverIsTrue
  <1> QED
    BY <1>1, ReceiverInvariant, PTL

\* Frames are delivered once and in the order of their sequence, and a gap in what
\* is delivered is never wider than the losses that are counted.
THEOREM LossesStayVisible ==
    ASSUME QueueHasStorage
    PROVE  ReceiverSpec => []LossesAreVisible
  <1>1. ReceiverInv => LossesAreVisible
    <2> SUFFICES ASSUME ReceiverInv PROVE LossesAreVisible
      OBVIOUS
    <2>1. queue.head \in Nat /\ queue.tail \in Nat
      BY DEF ReceiverInv, ReceiverTypeOK, Queues
    <2>2. \A n \in queue.tail..(queue.head - 1) : n \in Int /\ Waiting(n)
      BY <2>1 DEF Waiting
    <2>3. QueueIsInOrder
      <3>1. ASSUME queue.tail..(queue.head - 1) # {}
            PROVE  queue.tail < queue.head
        BY <2>1, <3>1
      <3> QED
        BY <2>2, <3>1 DEF ReceiverInv, FlowInv, QueueIsExact, QueueIsInOrder
    <2>4. ASSUME task.at \in {"deleted", "loop", "receive", "alerts", "exited",
                            "lost"}
          PROVE  /\ stats.received = stats.queued + stats.overruns
                 /\ stats.last = stats.received
                 /\ stats.queued = stats.dequeued + (queue.head - queue.tail)
      <3>1. Uncounted = 0 /\ Unqueued = 0
        BY <2>4 DEF Uncounted, Unqueued, HoldsFrame
      <3> QED
        BY <3>1 DEF ReceiverInv, ReceiverTypeOK, Counters, FlowInv, CountersAddUp
    <2>5. owner.at \in {"idle", "created"} /\ owner.frame.session = session =>
             owner.frame.sequence - stats.dequeued \in 0..stats.overruns
      BY DEF ReceiverInv, ReceiverTypeOK, Frames, Counters, FlowInv, QueueIsExact, Late
    <2> QED
      BY <2>3, <2>4, <2>5 DEF LossesAreVisible
  <1> QED
    BY <1>1, ReceiverInvariant, PTL
-----------------------------------------------------------------------------
(* The frames of the lock command: a start needs a gesture.                   *)
(*                                                                            *)
(* The detector knows the ages of the first and of the last press it counts,  *)
(* the gate that of the last evidence it accepted, all on a clock that wraps. *)
(* The invariant ties them to the true ages of the presses: the count stands  *)
(* for presses that were made (Supports), none of its ages has wrapped        *)
(* (PressesAreCounted), and what the gate remembers refuses the last sound    *)
(* press and all before it, even once its own clock has wrapped               *)
(* (LastPressIsKnown), so that none is counted twice.                         *)

\* What the members are; an age that is in use has not wrapped.
GestureTypeOK ==
    /\ adapter \in [initialized : BOOLEAN, stamp : 0..MaximumQuiet, active : BOOLEAN]
    /\ gate \in [clocked : BOOLEAN, now : 0..MaximumQuiet, evidenced : BOOLEAN,
                 seen : 0..(ClockPeriod - 1), lag : Nat]
    /\ detector \in [count : 0..(RequiredPresses - 1), first : Nat, last : Nat]
    /\ presses \subseteq 0..Horizon
    /\ newest \in 0..Horizon

\* What the gate and the adapter remember refuses the last sound press, and all that
\* came before it.
LastPressIsKnown ==
    /\ newest < Horizon =>
          /\ adapter.initialized /\ adapter.stamp <= newest
          /\ gate.evidenced /\ ~NewerAge(newest, gate.seen)
    /\ \A age \in presses : newest <= age

\* The presses a detector has counted are among these ages, unless the first is older
\* than the history.
Supports(ages, d) ==
    \E press \in [1..d.count -> 0..d.first] :
        /\ press[1] = d.first /\ press[d.count] = d.last
        /\ \A n \in 1..(d.count - 1) :
              /\ press[n] > press[n + 1]
              /\ press[n] - press[n + 1] \in MinimumGap..MaximumGap
        /\ d.first <= Horizon => \A n \in 1..d.count : press[n] \in ages

\* The presses counted are sound ones, spaced as the gesture asks; the gate has seen
\* the last of them, or a bounce of it.
PressesAreCounted ==
    detector.count > 0 =>
        /\ outcome # "remote_start_requested"
        /\ gate.clocked /\ gate.evidenced
        /\ gate.seen <= gate.now + MaximumEvidenceAge
        /\ detector.last - gate.seen \in 0..MinimumGap
        /\ detector.first - detector.last \in 0..MaximumSequence
        /\ Supports(presses, detector)

GestureInv ==
    /\ GestureTypeOK /\ LastPressIsKnown /\ PressesAreCounted /\ RequestNeedsGesture
-----------------------------------------------------------------------------
(* The differences of two ages, of which the code keeps 32 bits.              *)

\* The constants one by one.
LEMMA GestureConstants ==
    /\ RequiredPresses \in Nat \ {0} /\ MinimumGap \in Nat /\ MaximumGap \in Nat
    /\ MaximumSequence \in Nat /\ MaximumEvidenceAge \in Nat
    /\ CounterPeriod \in Nat \ {0} /\ ClockPeriod \in Nat \ {0}
    /\ SequencePeriod \in Nat \ {0}
    /\ MaximumDelay \in Nat /\ MaximumQuiet \in Nat /\ MaximumLag \in Nat
    /\ Horizon \in Nat
    /\ 2 * MaximumQuiet < ClockPeriod - 1 /\ MaximumDelay <= MaximumQuiet
    /\ MaximumQuiet + MaximumEvidenceAge + MinimumGap + MaximumSequence < ClockPeriod
    /\ 2 * MaximumLag + CounterPeriod <= SequencePeriod
    /\ MaximumSequence + MaximumEvidenceAge < Horizon /\ Horizon <= ClockPeriod
  BY GestureAssumption

\* A remainder is one of the period's values, and that of one of them is itself.
LEMMA Remainders ==
    /\ \A p \in Nat \ {0}, n \in Int : n % p \in 0..(p - 1)
    /\ \A p \in Nat \ {0} : \A n \in 0..(p - 1) : n % p = n
    /\ \A p \in Nat \ {0} : \A n \in Int : n < 0 /\ 0 <= n + p => n % p = n + p
<1>1. \A p \in Nat \ {0}, n \in Int : n % p \in 0..(p - 1)
  OBVIOUS
<1>2. \A p \in Nat \ {0} : \A n \in 0..(p - 1) : n % p = n
  OBVIOUS
<1>3. \A p \in Nat \ {0} : \A n \in Int : n < 0 /\ 0 <= n + p => n % p = n + p
  OBVIOUS
<1> QED  BY <1>1, <1>2, <1>3

\* Half a period.
LEMMA Halves ==
    \A p \in Nat : p \div 2 \in Nat /\ 2 * (p \div 2) <= p /\ p <= 2 * (p \div 2) + 1
  OBVIOUS

\* Two timestamps that age together keep their difference.
LEMMA AgeingKeepsDifferences ==
    ASSUME NEW p \in Nat \ {0}, NEW a \in 0..(p - 1), NEW b \in 0..(p - 1)
    PROVE  (((a + 1) % p) - (b + 1)) % p = (a - b) % p
<1>1. CASE a + 1 < p
  <2>0. a + 1 \in 0..(p - 1)
    BY <1>1
  <2>1. (a + 1) % p = a + 1
    BY <2>0, Remainders
  <2>2. (a + 1) - (b + 1) = a - b
    OBVIOUS
  <2> QED  BY <2>1, <2>2
<1>2. CASE a + 1 = p
  <2>1. (a + 1) % p = 0
    BY <1>2
  <2>2. 0 - (b + 1) \in Int /\ 0 - (b + 1) < 0 /\ 0 <= (0 - (b + 1)) + p
    OBVIOUS
  <2>3. (0 - (b + 1)) % p = (0 - (b + 1)) + p
    BY <2>2, Remainders
  <2>4. a - b \in 0..(p - 1) /\ (0 - (b + 1)) + p = a - b
    BY <1>2
  <2>5. (a - b) % p = a - b
    BY <2>4, Remainders
  <2> QED  BY <2>1, <2>3, <2>4, <2>5
<1> QED  BY <1>1, <1>2

\* A silence within half of the clock is not a regression.
LEMMA SilenceIsAccepted ==
    ASSUME NEW now \in 0..MaximumQuiet, now # 0
    PROVE  StrictlyNewer(now, ClockPeriod)
<1>1. now % ClockPeriod = now
  BY GestureConstants, Remainders
<1>2. now < ClockPeriod \div 2
  BY GestureConstants, Halves
<1> QED  BY <1>1, <1>2 DEF StrictlyNewer

\* A timestamp accepted as newer is the younger one.
LEMMA NewerIsYounger ==
    ASSUME NEW seen \in 0..(ClockPeriod - 1), NEW age \in 0..MaximumQuiet,
           NewerAge(age, seen)
    PROVE  age < seen
<1>1. (seen - age) % ClockPeriod # 0 /\ (seen - age) % ClockPeriod < ClockPeriod \div 2
  BY DEF NewerAge, StrictlyNewer
<1>2. CASE seen < age
  <2>0. seen - age \in Int /\ seen - age < 0 /\ 0 <= (seen - age) + ClockPeriod
    BY <1>2, GestureConstants
  <2>1. (seen - age) % ClockPeriod = (seen - age) + ClockPeriod
    BY <2>0, GestureConstants, Remainders
  <2> QED  BY <1>1, <2>1, GestureConstants, Halves
<1>3. CASE seen = age
  <2>1. (seen - age) % ClockPeriod = 0
    BY <1>3, GestureConstants, Remainders
  <2> QED  BY <1>1, <2>1
<1> QED  BY <1>2, <1>3, GestureConstants

\* A counter accepted by the adapter is accepted by the gate.
LEMMA AdvanceIsAccepted ==
    ASSUME NEW lag \in Nat, lag <= MaximumLag, NEW distance \in Nat, distance # 0,
           distance < CounterPeriod \div 2
    PROVE  StrictlyNewer(lag + distance, SequencePeriod)
<1>1. 2 * (lag + distance) < SequencePeriod - 1
  BY GestureConstants, Halves
<1>2. (lag + distance) % SequencePeriod = lag + distance
  <2>1. lag + distance \in 0..(SequencePeriod - 1)
    BY <1>1, GestureConstants
  <2> QED  BY <2>1, GestureConstants, Remainders
<1>3. lag + distance < SequencePeriod \div 2
  BY <1>1, GestureConstants, Halves
<1> QED  BY <1>2, <1>3 DEF StrictlyNewer

-----------------------------------------------------------------------------
(* What one frame may do.                                                     *)

\* The fields of a frame.
LEMMA FrameFields ==
    ASSUME NEW frame \in CanFrames
    PROVE  /\ frame.delay \in 0..MaximumDelay /\ frame.distance \in Nat
           /\ frame.active \in BOOLEAN /\ frame.secured \in BOOLEAN
           /\ frame.kind \in {"foreign", "invalid", "lock"}
<1>1. \A d \in Distances : d \in Nat
  BY GestureAssumption
<1>2. 0 \in 0..MaximumDelay
  BY GestureConstants
<1>3. CASE frame \in [kind : {"foreign", "invalid"}, delay : {0}, distance : {1},
                      active : {FALSE}, secured : {FALSE}]
  <2>1. /\ frame.distance = 1 /\ frame.delay \in 0..MaximumDelay
        /\ frame.kind \in {"foreign", "invalid"}
    BY <1>2, <1>3
  <2>2. frame.active \in BOOLEAN /\ frame.secured \in BOOLEAN
    BY <1>3
  <2> QED  BY <2>1, <2>2
<1>4. CASE frame \in [kind : {"lock"}, delay : 0..MaximumDelay, distance : {1},
                      active : {FALSE}, secured : {FALSE}]
  <2>1. frame.distance = 1 /\ frame.delay \in 0..MaximumDelay /\ frame.kind = "lock"
    BY <1>4
  <2>2. frame.active \in BOOLEAN /\ frame.secured \in BOOLEAN
    BY <1>4
  <2> QED  BY <2>1, <2>2
<1>5. CASE frame \in [kind : {"lock"}, delay : 0..MaximumDelay, distance : {1},
                      active : {TRUE}, secured : BOOLEAN]
  <2>1. frame.distance = 1 /\ frame.delay \in 0..MaximumDelay /\ frame.kind = "lock"
    BY <1>5
  <2>2. frame.active \in BOOLEAN /\ frame.secured \in BOOLEAN
    BY <1>5
  <2> QED  BY <2>1, <2>2
<1>6. CASE frame \in [kind : {"lock"}, delay : {0}, distance : Distances,
                      active : BOOLEAN, secured : {TRUE}]
  BY <1>1, <1>2, <1>6
<1> QED  BY <1>3, <1>4, <1>5, <1>6 DEF CanFrames

Statuses == {"rejected_invalid_frame", "ignored", "rejected_timestamp_regression", "primed",
             "rejected_duplicate_counter", "rejected_out_of_order_counter",
             "evidence_produced", "no_command"}

\* A frame recognised by an adapter that already knows one is not older than it, and
\* its counter is ahead by less than half a period.
LEMMA Decoded ==
    ASSUME GestureTypeOK, NEW frame \in CanFrames
    PROVE  /\ Decode(adapter, frame) \in Statuses
           /\ Decode(adapter, frame) = "primed" => ~adapter.initialized
           /\ Decode(adapter, frame) \in {"no_command", "evidence_produced"} =>
                 /\ adapter.initialized /\ frame.delay <= adapter.stamp
                 /\ frame.distance # 0 /\ frame.distance < CounterPeriod \div 2
<1>1. /\ adapter.stamp \in 0..MaximumQuiet /\ adapter.initialized \in BOOLEAN
      /\ adapter.active \in BOOLEAN
  BY DEF GestureTypeOK
<1>2. /\ frame.delay \in 0..MaximumQuiet /\ frame.distance \in Nat
      /\ adapter.stamp \in 0..(ClockPeriod - 1)
  BY <1>1, FrameFields, GestureConstants
<1>3. NewerAge(frame.delay, adapter.stamp) => frame.delay < adapter.stamp
  BY <1>2, NewerIsYounger
<1>4. CounterPeriod \div 2 \in Nat
  BY GestureConstants, Halves
<1> DEFINE status == Decode(adapter, frame)
<1>5. status \in Statuses
  BY DEF Decode, Statuses
<1>6. status = "primed" => ~adapter.initialized
  BY DEF Decode
<1>7. status \in {"no_command", "evidence_produced"} =>
         /\ adapter.initialized
         /\ frame.delay = adapter.stamp \/ NewerAge(frame.delay, adapter.stamp)
         /\ frame.distance # 0 /\ ~(frame.distance >= CounterPeriod \div 2)
  BY DEF Decode
<1> QED  BY <1>2, <1>3, <1>4, <1>5, <1>6, <1>7

\* The gate accepts nothing but sound presses, and refuses a sound one only as not newer
\* than the last evidence it has accepted.
LEMMA GateAcceptsSoundPresses ==
    ASSUME GestureTypeOK, LastPressIsKnown, NEW frame \in CanFrames,
           Decode(adapter, frame) = "evidence_produced",
           gate.evidenced => gate.lag <= MaximumLag,
           NEW g, g = [gate EXCEPT !.lag = LagAfter(gate, frame, "evidence_produced")]
    PROVE  LET reason == GateRefusal(g, frame.delay, frame.secured)
           IN /\ reason = "none" =>
                    /\ IsSound(frame)
                    /\ gate.evidenced => frame.delay < gate.seen
              /\ reason # "none" /\ IsSound(frame) =>
                    gate.evidenced /\ ~NewerAge(frame.delay, gate.seen)
<1> DEFINE reason == GateRefusal(g, frame.delay, frame.secured)
<1>1. /\ gate \in [clocked : BOOLEAN, now : 0..MaximumQuiet, evidenced : BOOLEAN,
                   seen : 0..(ClockPeriod - 1), lag : Nat]
      /\ newest \in 0..Horizon
  BY DEF GestureTypeOK
<1>2. /\ g.clocked = gate.clocked /\ g.now = gate.now /\ g.evidenced = gate.evidenced
      /\ g.seen = gate.seen
      /\ g.lag = IF gate.evidenced THEN gate.lag + frame.distance ELSE gate.lag
  BY <1>1 DEF LagAfter
<1>3. /\ frame.delay \in 0..MaximumQuiet /\ frame.distance \in Nat /\ frame.distance # 0
      /\ frame.distance < CounterPeriod \div 2 /\ frame.delay <= adapter.stamp
  BY FrameFields, Decoded, GestureConstants
<1>4. ~(g.clocked /\ g.now # 0 /\ ~StrictlyNewer(g.now, ClockPeriod))
  BY <1>1, <1>2, SilenceIsAccepted
<1>5. gate.evidenced => StrictlyNewer(g.lag, SequencePeriod)
  BY <1>1, <1>2, <1>3, AdvanceIsAccepted
<1>6. reason # "none" /\ IsSound(frame) => gate.evidenced /\ ~NewerAge(frame.delay, gate.seen)
  <2>1. IsSound(frame) => ~(frame.delay > MaximumEvidenceAge)
    BY <1>3, GestureConstants DEF IsSound
  <2>2. ~IsFuture(frame.delay)
    <3>1. 0 \in 0..(ClockPeriod - 1) /\ ~(frame.delay < 0)
      BY <1>3, GestureConstants
    <3> QED  BY <1>3, <3>1, NewerIsYounger DEF IsFuture
  <2> QED  BY <1>2, <1>4, <1>5, <2>1, <2>2 DEF GateRefusal, IsSound
<1>7. reason = "none" =>
         /\ Trust = "verified" /\ frame.secured /\ ~(frame.delay > MaximumEvidenceAge)
         /\ gate.evidenced => NewerAge(frame.delay, gate.seen)
  BY <1>2 DEF GateRefusal
<1>8. ASSUME reason = "none"
      PROVE  IsSound(frame) /\ (gate.evidenced => frame.delay < gate.seen)
  <2>1. frame.delay <= MaximumEvidenceAge
    BY <1>3, <1>7, <1>8, GestureConstants
  <2>2. gate.evidenced => frame.delay < gate.seen
    BY <1>1, <1>3, <1>7, <1>8, NewerIsYounger
  <2>3. CASE newest < Horizon
    <3>1. adapter.stamp <= newest /\ gate.evidenced /\ ~NewerAge(newest, gate.seen)
      BY <2>3 DEF LastPressIsKnown
    <3>2. frame.delay # newest
      BY <1>7, <1>8, <3>1
    <3>3. adapter.stamp \in Nat
      BY GestureConstants DEF GestureTypeOK
    <3>4. newest > frame.delay
      BY <1>1, <1>3, <3>1, <3>2, <3>3
    <3> QED  BY <1>7, <1>8, <2>1, <2>2, <3>4 DEF IsSound
  <2>4. CASE ~(newest < Horizon)
    <3>1. newest > frame.delay
      BY <1>1, <1>3, <2>1, <2>4, GestureConstants
    <3> QED  BY <1>7, <1>8, <2>1, <2>2, <3>1 DEF IsSound
  <2> QED  BY <2>3, <2>4
<1> QED  BY <1>6, <1>8

-----------------------------------------------------------------------------
(* The presses the detector counts.                                           *)

Detectors == [count : Nat, first : Nat, last : Nat]
OnePress(age) == [count |-> 1, first |-> age, last |-> age]
OneMore(d, age) == [count |-> d.count + 1, first |-> d.first, last |-> age]

\* A count of one press.
LEMMA OneIsSupported ==
    ASSUME NEW ages, NEW age \in Nat, age \in ages
    PROVE  Supports(ages, OnePress(age))
<1> DEFINE press == [n \in 1..1 |-> age]
<1>1. press \in [1..1 -> 0..age] /\ press[1] = age
  OBVIOUS
<1>2. \A n \in 1..(1 - 1) : FALSE
  OBVIOUS
<1>3. \A n \in 1..1 : press[n] \in ages
  OBVIOUS
<1> HIDE DEF press
<1> QED  BY <1>1, <1>2, <1>3 DEF Supports, OnePress

\* A count stands however many other presses there are.
LEMMA MoreAgesSupport ==
    ASSUME NEW ages, NEW more, ages \subseteq more, NEW d, Supports(ages, d)
    PROVE  Supports(more, d)
  BY DEF Supports

\* A count and the press that follows it.
LEMMA OneMoreIsSupported ==
    ASSUME NEW d \in Detectors, d.count > 0, d.last <= d.first, NEW ages, Supports(ages, d),
           NEW age \in Nat, age < d.last, d.last - age \in MinimumGap..MaximumGap
    PROVE  Supports(ages \cup {age}, OneMore(d, age))
<1>1. d.count \in Nat /\ d.first \in Nat /\ d.last \in Nat
  BY DEF Detectors
<1>2. PICK press \in [1..d.count -> 0..d.first] :
         /\ press[1] = d.first /\ press[d.count] = d.last
         /\ \A n \in 1..(d.count - 1) :
               /\ press[n] > press[n + 1]
               /\ press[n] - press[n + 1] \in MinimumGap..MaximumGap
         /\ d.first <= Horizon => \A n \in 1..d.count : press[n] \in ages
  BY DEF Supports
<1> DEFINE more == [n \in 1..(d.count + 1) |-> IF n <= d.count THEN press[n] ELSE age]
<1>3. \A n \in 1..d.count : more[n] = press[n]
  BY <1>1
<1>4. more[d.count + 1] = age
  BY <1>1
<1>5. more \in [1..(d.count + 1) -> 0..d.first]
  BY <1>1, <1>2
<1> HIDE DEF more
<1>6. more[1] = d.first
  BY <1>1, <1>2, <1>3
<1>7. ASSUME NEW n \in 1..((d.count + 1) - 1)
      PROVE  more[n] > more[n + 1] /\ more[n] - more[n + 1] \in MinimumGap..MaximumGap
  <2>1. CASE n = d.count
    BY <1>1, <1>2, <1>3, <1>4, <2>1
  <2>2. CASE n # d.count
    <3>1. n \in 1..(d.count - 1) /\ n \in 1..d.count /\ n + 1 \in 1..d.count
      BY <1>1, <2>2
    <3> QED  BY <1>2, <1>3, <3>1
  <2> QED  BY <2>1, <2>2
<1>8. ASSUME d.first <= Horizon, NEW n \in 1..(d.count + 1) PROVE more[n] \in ages \cup {age}
  <2>1. CASE n = d.count + 1
    BY <1>4, <2>1
  <2>2. CASE n # d.count + 1
    <3>1. n \in 1..d.count
      BY <1>1, <2>2
    <3> QED  BY <1>2, <1>3, <1>8, <3>1
  <2> QED  BY <2>1, <2>2
<1>9. /\ OneMore(d, age).count = d.count + 1 /\ OneMore(d, age).first = d.first
      /\ OneMore(d, age).last = age
  BY DEF OneMore
<1> QED  BY <1>4, <1>5, <1>6, <1>7, <1>8, <1>9 DEF Supports

\* One millisecond later.
Older(d) == [count |-> d.count, first |-> d.first + 1, last |-> d.last + 1]
\* A count and its presses age together.
LEMMA OlderIsSupported ==
    ASSUME NEW d \in Detectors, d.count > 0, NEW ages \in SUBSET Nat, Supports(ages, d)
    PROVE  Supports({age \in {a + 1 : a \in ages} : age <= Horizon}, Older(d))
<1>1. d.count \in Nat /\ d.first \in Nat /\ d.last \in Nat
  BY DEF Detectors
<1>2. PICK press \in [1..d.count -> 0..d.first] :
         /\ press[1] = d.first /\ press[d.count] = d.last
         /\ \A n \in 1..(d.count - 1) :
               /\ press[n] > press[n + 1]
               /\ press[n] - press[n + 1] \in MinimumGap..MaximumGap
         /\ d.first <= Horizon => \A n \in 1..d.count : press[n] \in ages
  BY DEF Supports
<1> DEFINE older == [n \in 1..d.count |-> press[n] + 1]
           aged == {age \in {a + 1 : a \in ages} : age <= Horizon}
<1>3. \A n \in 1..d.count : older[n] = press[n] + 1 /\ press[n] \in 0..d.first
  BY <1>2
<1>4. older \in [1..d.count -> 0..(d.first + 1)]
  BY <1>1, <1>3
<1> HIDE DEF older
<1>5. older[1] = d.first + 1 /\ older[d.count] = d.last + 1
  BY <1>1, <1>2, <1>3
<1>6. ASSUME NEW n \in 1..(d.count - 1)
      PROVE  older[n] > older[n + 1] /\ older[n] - older[n + 1] \in MinimumGap..MaximumGap
  <2>1. n \in 1..d.count /\ n + 1 \in 1..d.count
    BY <1>1
  <2>2. press[n] \in Int /\ press[n + 1] \in Int
    BY <1>1, <1>3, <2>1
  <2>3. press[n] > press[n + 1] /\ press[n] - press[n + 1] \in MinimumGap..MaximumGap
    BY <1>2
  <2>4. older[n] = press[n] + 1 /\ older[n + 1] = press[n + 1] + 1
    BY <1>3, <2>1
  <2>5. older[n] - older[n + 1] = press[n] - press[n + 1]
    BY <2>2, <2>4
  <2> QED  BY <2>2, <2>3, <2>4, <2>5
<1>7. ASSUME d.first + 1 <= Horizon, NEW n \in 1..d.count PROVE older[n] \in aged
  <2>1. press[n] \in ages /\ press[n] \in 0..d.first
    BY <1>1, <1>2, <1>3, <1>7, GestureConstants
  <2>2. press[n] + 1 <= Horizon
    BY <1>1, <1>7, <2>1, GestureConstants
  <2> QED  BY <1>3, <2>1, <2>2
<1>8. Older(d).count = d.count /\ Older(d).first = d.first + 1 /\ Older(d).last = d.last + 1
  BY DEF Older
<1> HIDE DEF aged
<1>9. Supports(aged, Older(d))
  BY <1>4, <1>5, <1>6, <1>7, <1>8 DEF Supports
<1> QED  BY <1>9 DEF aged

\* A count that is complete becomes a request and starts again.
Verdict(next, status) ==
    IF next.count < RequiredPresses THEN [state |-> next, status |-> status]
    ELSE [state |-> DetectorReset, status |-> "remote_start_requested"]
IsVerdict(next, o) ==
    \/ /\ next.count < RequiredPresses /\ o.state = next
       /\ o.status # "remote_start_requested"
    \/ /\ ~(next.count < RequiredPresses) /\ o.state = DetectorReset
       /\ o.status = "remote_start_requested"

\* A verdict tells the request from the rest.
LEMMA Verdicts ==
    ASSUME NEW next, NEW status, status # "remote_start_requested"
    PROVE  IsVerdict(next, Verdict(next, status))
  BY DEF Verdict, IsVerdict

\* observe(), where no age has wrapped: a bounce leaves the count as it was, any other
\* press is the first of a count or one more of it.
LEMMA ObserveLeadsTo ==
    ASSUME NEW d \in [count : 0..(RequiredPresses - 1), first : Nat, last : Nat],
           NEW age \in Nat,
           d.count > 0 => age < d.last /\ d.last <= d.first /\ d.first < ClockPeriod
    PROVE  LET o == Observe(d, age)
           IN \/ /\ d.count > 0 /\ d.last - age < MinimumGap
                 /\ o.state = d /\ o.status # "remote_start_requested"
              \/ IsVerdict(OnePress(age), o)
              \/ /\ d.count > 0 /\ d.last - age \in MinimumGap..MaximumGap
                 /\ d.first - age <= MaximumSequence
                 /\ IsVerdict(OneMore(d, age), o)
<1> DEFINE o == Observe(d, age)
           sinceLast == (d.last - age) % ClockPeriod
           sinceFirst == (d.first - age) % ClockPeriod
<1>0. d \in Detectors /\ d.count \in Nat
  BY GestureConstants DEF Detectors
<1>1. [d EXCEPT !.last = age, !.count = @ + 1] = OneMore(d, age)
  <2> DEFINE e == [d EXCEPT !.last = age, !.count = @ + 1]
  <2>0. d.count + 1 \in Nat /\ d.first \in Nat /\ d.last \in Nat
    BY <1>0 DEF Detectors
  <2>1. e \in [count : Nat, first : Nat, last : Nat]
    BY <1>0, <2>0 DEF Detectors
  <2>2. e.count = d.count + 1 /\ e.first = d.first /\ e.last = age
    BY <1>0 DEF Detectors
  <2> HIDE DEF e
  <2>3. e = [count |-> e.count, first |-> e.first, last |-> e.last]
    BY <2>1 DEF Detectors
  <2>4. e = OneMore(d, age)
    BY <2>2, <2>3 DEF OneMore
  <2> QED  BY <2>4 DEF e
<1>2. o = IF d.count = 0 THEN Verdict(OnePress(age), "press_accepted")
          ELSE IF sinceLast < MinimumGap THEN [state |-> d, status |-> "rejected_timing"]
          ELSE IF sinceLast > MaximumGap \/ sinceFirst > MaximumSequence
               THEN Verdict(OnePress(age), "sequence_restarted")
          ELSE Verdict(OneMore(d, age), "press_accepted")
  BY <1>1, Zenon DEF Observe, Verdict, OnePress
<1>3. d.count > 0 => sinceLast = d.last - age /\ sinceFirst = d.first - age
  <2> SUFFICES ASSUME d.count > 0 PROVE sinceLast = d.last - age /\ sinceFirst = d.first - age
    OBVIOUS
  <2>1. d.last - age \in 0..(ClockPeriod - 1) /\ d.first - age \in 0..(ClockPeriod - 1)
    BY <1>0, GestureConstants DEF Detectors
  <2> QED  BY <2>1, GestureConstants, Remainders
<1>4. /\ IsVerdict(OnePress(age), Verdict(OnePress(age), "press_accepted"))
      /\ IsVerdict(OnePress(age), Verdict(OnePress(age), "sequence_restarted"))
      /\ IsVerdict(OneMore(d, age), Verdict(OneMore(d, age), "press_accepted"))
  BY Verdicts
<1> HIDE DEF o, sinceLast, sinceFirst
<1>5. CASE d.count = 0
  BY <1>2, <1>4, <1>5 DEF o
<1>6. CASE d.count > 0 /\ sinceLast < MinimumGap
  <2>1. o = [state |-> d, status |-> "rejected_timing"]
    BY <1>0, <1>2, <1>6
  <2> QED  BY <1>3, <1>6, <2>1 DEF o
<1>7. CASE /\ d.count > 0 /\ ~(sinceLast < MinimumGap)
           /\ sinceLast > MaximumGap \/ sinceFirst > MaximumSequence
  <2>1. o = Verdict(OnePress(age), "sequence_restarted")
    BY <1>0, <1>2, <1>7
  <2> QED  BY <1>4, <2>1 DEF o
<1>8. CASE /\ d.count > 0 /\ ~(sinceLast < MinimumGap)
           /\ ~(sinceLast > MaximumGap \/ sinceFirst > MaximumSequence)
  <2>1. o = Verdict(OneMore(d, age), "press_accepted")
    BY <1>0, <1>2, <1>8
  <2>2. d.last - age \in MinimumGap..MaximumGap /\ d.first - age <= MaximumSequence
    BY <1>0, <1>3, <1>8, GestureConstants DEF Detectors
  <2> QED  BY <1>4, <1>8, <2>1, <2>2 DEF o
<1> QED  BY <1>0, <1>5, <1>6, <1>7, <1>8

\* A count that is complete is a gesture.
LEMMA CompleteCountIsGesture ==
    ASSUME NEW ages, NEW d \in Detectors, d.count = RequiredPresses, Supports(ages, d),
           d.first <= Horizon, d.first - d.last <= MaximumSequence
    PROVE  \E press \in [1..RequiredPresses -> ages] :
              IsGesture(press) /\ press[RequiredPresses] = d.last
<1>1. PICK press \in [1..d.count -> 0..d.first] :
         /\ press[1] = d.first /\ press[d.count] = d.last
         /\ \A n \in 1..(d.count - 1) :
               /\ press[n] > press[n + 1]
               /\ press[n] - press[n + 1] \in MinimumGap..MaximumGap
         /\ d.first <= Horizon => \A n \in 1..d.count : press[n] \in ages
  BY DEF Supports
<1>2. press \in [1..RequiredPresses -> ages]
  BY <1>1
<1> QED  BY <1>1, <1>2 DEF IsGesture

\* What the history holds before the next press.
LEMMA RememberedNow ==
    ASSUME presses \subseteq 0..Horizon
    PROVE  Remembered(0) = IF outcome = "remote_start_requested" THEN {} ELSE presses
<1>1. \A a \in presses : a + 0 = a /\ a <= Horizon
  BY GestureConstants
<1>2. {age \in {a + 0 : a \in presses} : age <= Horizon} = presses
  BY <1>1
<1> QED  BY <1>2 DEF Remembered

\* A press that the gate accepts is counted, or completes the gesture.
IsCounted(ages, age, o) ==
    \/ /\ o.status # "remote_start_requested"
       /\ o.state \in [count : 1..(RequiredPresses - 1), first : Nat, last : Nat]
       /\ o.state.last - age \in 0..MinimumGap
       /\ o.state.first - o.state.last \in 0..MaximumSequence
       /\ Supports(ages, o.state)
    \/ /\ o.status = "remote_start_requested" /\ o.state = DetectorReset
       /\ \E press \in [1..RequiredPresses -> ages] :
             IsGesture(press) /\ press[RequiredPresses] = age

\* Observed by the detector, it is counted as IsCounted says.
LEMMA AcceptedPressIsCounted ==
    ASSUME GestureInv, NEW age \in Nat, age <= MaximumEvidenceAge,
           gate.evidenced => age < gate.seen
    PROVE  IsCounted(Remembered(0) \cup {age}, age, Observe(detector, age))
<1> DEFINE o == Observe(detector, age)
           ages == Remembered(0) \cup {age}
<1>1. /\ detector \in [count : 0..(RequiredPresses - 1), first : Nat, last : Nat]
      /\ gate.seen \in Nat /\ gate.now \in 0..MaximumQuiet /\ presses \subseteq 0..Horizon
  BY GestureConstants DEF GestureInv, GestureTypeOK
<1>2. /\ detector \in Detectors /\ detector.count \in Nat /\ detector.first \in Nat
      /\ detector.last \in Nat /\ detector.count < RequiredPresses
  BY <1>1, GestureConstants DEF Detectors
<1>3. ASSUME detector.count > 0
      PROVE  /\ Remembered(0) = presses /\ Supports(presses, detector)
             /\ age < detector.last /\ detector.last <= detector.first
             /\ detector.first < ClockPeriod
             /\ detector.first - detector.last \in 0..MaximumSequence
  <2>1. /\ outcome # "remote_start_requested" /\ gate.evidenced
        /\ gate.seen <= gate.now + MaximumEvidenceAge
        /\ detector.last - gate.seen \in 0..MinimumGap
        /\ detector.first - detector.last \in 0..MaximumSequence
        /\ Supports(presses, detector)
    BY <1>3 DEF GestureInv, PressesAreCounted
  <2>2. age < gate.seen
    BY <2>1
  <2>3. Remembered(0) = presses
    BY <1>1, <2>1, RememberedNow
  <2>4. age < detector.last /\ detector.last <= detector.first
    BY <1>1, <1>2, <2>1, <2>2, GestureConstants
  <2>5. detector.first <= MaximumQuiet + MaximumEvidenceAge + MinimumGap + MaximumSequence
    BY <1>1, <1>2, <2>1, GestureConstants
  <2>6. detector.first < ClockPeriod
    BY <1>2, <2>5, GestureConstants
  <2> QED  BY <2>1, <2>3, <2>4, <2>6
<1>4. /\ OnePress(age) \in Detectors /\ OnePress(age).count = 1
      /\ OnePress(age).first = age /\ OnePress(age).last = age
  BY DEF OnePress, Detectors
<1>5. /\ OneMore(detector, age) \in Detectors
      /\ OneMore(detector, age).count = detector.count + 1
      /\ OneMore(detector, age).first = detector.first /\ OneMore(detector, age).last = age
  BY <1>2 DEF OneMore, Detectors
<1>6. CASE /\ detector.count > 0 /\ detector.last - age < MinimumGap
           /\ o.state = detector /\ o.status # "remote_start_requested"
  <2>1. detector.last - age \in 0..MinimumGap
    BY <1>2, <1>3, <1>6, GestureConstants
  <2>2. Supports(ages, detector)
    BY <1>3, <1>6, MoreAgesSupport
  <2>3. detector \in [count : 1..(RequiredPresses - 1), first : Nat, last : Nat]
    BY <1>1, <1>2, <1>6, GestureConstants
  <2> QED  BY <1>3, <1>6, <2>1, <2>2, <2>3 DEF IsCounted
<1>7. ASSUME NEW next \in Detectors, IsVerdict(next, o), Supports(ages, next),
             next.count > 0, next.count <= RequiredPresses, next.last = age,
             next.first - age \in 0..MaximumSequence
      PROVE  IsCounted(ages, age, o)
  <2>1. next.count \in Nat /\ next.first \in Nat /\ next.last \in Nat
    BY <1>7 DEF Detectors
  <2>2. CASE next.count < RequiredPresses
    <3>1. o.state = next /\ o.status # "remote_start_requested"
      BY <1>7, <2>2 DEF IsVerdict
    <3>2. next \in [count : 1..(RequiredPresses - 1), first : Nat, last : Nat]
      <4>1. next.count \in 1..(RequiredPresses - 1)
        BY <1>7, <2>1, <2>2, GestureConstants
      <4> QED  BY <1>7, <4>1 DEF Detectors
    <3>3. next.last - age \in 0..MinimumGap
      BY <1>7, GestureConstants
    <3> QED  BY <1>7, <3>1, <3>2, <3>3 DEF IsCounted
  <2>3. CASE ~(next.count < RequiredPresses)
    <3>1. o.state = DetectorReset /\ o.status = "remote_start_requested"
      BY <1>7, <2>3 DEF IsVerdict
    <3>2. next.count = RequiredPresses
      BY <1>7, <2>1, <2>3, GestureConstants
    <3>3. next.first <= Horizon /\ next.first - next.last <= MaximumSequence
      BY <1>7, <2>1, GestureConstants
    <3>4. \E press \in [1..RequiredPresses -> ages] :
             IsGesture(press) /\ press[RequiredPresses] = next.last
      BY <1>7, <3>2, <3>3, CompleteCountIsGesture
    <3> QED  BY <1>7, <3>1, <3>4 DEF IsCounted
  <2> QED  BY <2>2, <2>3
<1>8. CASE IsVerdict(OnePress(age), o)
  <2>1. Supports(ages, OnePress(age))
    BY OneIsSupported
  <2>2. OnePress(age).first - age \in 0..MaximumSequence
    BY <1>4, GestureConstants
  <2>3. OnePress(age).count > 0 /\ OnePress(age).count <= RequiredPresses
    BY <1>4, GestureConstants
  <2> QED  BY <1>4, <1>7, <1>8, <2>1, <2>2, <2>3
<1>9. CASE /\ detector.count > 0 /\ detector.last - age \in MinimumGap..MaximumGap
           /\ detector.first - age <= MaximumSequence
           /\ IsVerdict(OneMore(detector, age), o)
  <2>1. Supports(ages, OneMore(detector, age))
    BY <1>2, <1>3, <1>9, OneMoreIsSupported
  <2>2. OneMore(detector, age).first - age \in 0..MaximumSequence
    BY <1>2, <1>3, <1>5, <1>9, GestureConstants
  <2>3. OneMore(detector, age).count > 0 /\ OneMore(detector, age).count <= RequiredPresses
    BY <1>2, <1>5, GestureConstants
  <2> QED  BY <1>5, <1>7, <1>9, <2>1, <2>2, <2>3
<1> QED  BY <1>1, <1>3, <1>6, <1>8, <1>9, ObserveLeadsTo

-----------------------------------------------------------------------------
(* The steps.                                                                 *)

\* Nothing counted and nothing remembered.
Forgotten ==
    /\ adapter = AdapterReset /\ gate = GateReset /\ detector = DetectorReset
    /\ presses = {} /\ newest = Horizon /\ outcome # "remote_start_requested"

\* An anomaly, or a reset, makes every count start again.
LEMMA ForgottenIsSafe == Forgotten => GestureInv
<1> SUFFICES ASSUME Forgotten PROVE GestureInv
  OBVIOUS
<1> USE DEF Forgotten, AdapterReset, GateReset, DetectorReset
<1>1. 0 \in 0..MaximumQuiet /\ 0 \in 0..(ClockPeriod - 1) /\ 0 \in 0..(RequiredPresses - 1)
  BY GestureConstants
<1>2. GestureTypeOK
  <2>1. adapter \in [initialized : BOOLEAN, stamp : 0..MaximumQuiet, active : BOOLEAN]
    BY <1>1
  <2>2. gate \in [clocked : BOOLEAN, now : 0..MaximumQuiet, evidenced : BOOLEAN,
                  seen : 0..(ClockPeriod - 1), lag : Nat]
    BY <1>1
  <2>3. detector \in [count : 0..(RequiredPresses - 1), first : Nat, last : Nat]
    BY <1>1
  <2>4. newest \in 0..Horizon
    BY GestureConstants
  <2> QED  BY <2>1, <2>2, <2>3, <2>4 DEF GestureTypeOK
<1>3. LastPressIsKnown
  BY GestureConstants DEF LastPressIsKnown
<1>4. PressesAreCounted
  BY DEF PressesAreCounted
<1> QED  BY <1>2, <1>3, <1>4 DEF GestureInv, RequestNeedsGesture

\* The same after the step.
LEMMA ForgettingIsSafe == Forgotten' => GestureInv'
  BY ForgottenIsSafe, PTL

\* Every age grows together.
LEMMA TickKeepsGestureInv == GestureInv /\ Tick => GestureInv'
<1> SUFFICES ASSUME GestureInv, Tick PROVE GestureInv'
  OBVIOUS
<1>1. /\ adapter \in [initialized : BOOLEAN, stamp : 0..MaximumQuiet, active : BOOLEAN]
      /\ gate \in [clocked : BOOLEAN, now : 0..MaximumQuiet, evidenced : BOOLEAN,
                   seen : 0..(ClockPeriod - 1), lag : Nat]
      /\ detector \in [count : 0..(RequiredPresses - 1), first : Nat, last : Nat]
      /\ presses \subseteq 0..Horizon /\ newest \in 0..Horizon
  BY DEF GestureInv, GestureTypeOK
<1>2. /\ adapter.stamp \in 0..MaximumQuiet /\ adapter.stamp < MaximumQuiet
      /\ gate.now \in 0..MaximumQuiet /\ gate.now < MaximumQuiet
      /\ gate.seen \in 0..(ClockPeriod - 1)
      /\ detector.count \in 0..(RequiredPresses - 1) /\ detector.first \in Nat
      /\ detector.last \in Nat
  BY <1>1 DEF Tick
<1>3. /\ (adapter.stamp + 1) % ClockPeriod = adapter.stamp + 1
      /\ (gate.now + 1) % ClockPeriod = gate.now + 1
  <2>1. /\ adapter.stamp + 1 \in 0..(ClockPeriod - 1)
        /\ gate.now + 1 \in 0..(ClockPeriod - 1)
    BY <1>2, GestureConstants
  <2> QED  BY <2>1, GestureConstants, Remainders
<1>4. /\ adapter'.initialized = adapter.initialized /\ adapter'.active = adapter.active
      /\ adapter'.stamp = IF adapter.initialized THEN adapter.stamp + 1 ELSE adapter.stamp
  BY <1>1, <1>3 DEF Tick, Grown
<1>5. /\ gate'.clocked = gate.clocked /\ gate'.evidenced = gate.evidenced
      /\ gate'.lag = gate.lag
      /\ gate'.now = IF gate.clocked THEN gate.now + 1 ELSE gate.now
      /\ gate'.seen = IF gate.evidenced THEN (gate.seen + 1) % ClockPeriod ELSE gate.seen
  BY <1>1, <1>3 DEF Tick, Grown
<1>6. \A n \in Int : n % ClockPeriod \in 0..(ClockPeriod - 1) /\ n % ClockPeriod \in Nat
  BY GestureConstants, Remainders
<1>7. /\ detector'.count = detector.count
      /\ detector'.first = IF detector.count # 0 THEN (detector.first + 1) % ClockPeriod
                                                ELSE detector.first
      /\ detector'.last = IF detector.count # 0 THEN (detector.last + 1) % ClockPeriod
                                               ELSE detector.last
  BY <1>1 DEF Tick, Grown
<1>8. presses' = Remembered(1) /\ outcome' = "waiting"
      /\ newest' = IF newest < Horizon THEN newest + 1 ELSE newest
  BY DEF Tick
<1>9. presses' \subseteq 0..Horizon /\ \A age \in presses' : age - 1 \in presses
  BY <1>1, <1>8, GestureConstants DEF Remembered
<1>10. adapter' \in [initialized : BOOLEAN, stamp : 0..MaximumQuiet, active : BOOLEAN]
  <2>1. adapter.stamp + 1 \in 0..MaximumQuiet
    BY <1>2, GestureConstants
  <2> QED  BY <1>1, <1>3, <2>1 DEF Tick, Grown
<1>11. gate' \in [clocked : BOOLEAN, now : 0..MaximumQuiet, evidenced : BOOLEAN,
                  seen : 0..(ClockPeriod - 1), lag : Nat]
  <2>1. gate.now + 1 \in 0..MaximumQuiet
    BY <1>2, GestureConstants
  <2>2. /\ Grown(gate.now, gate.clocked) \in 0..MaximumQuiet
        /\ Grown(gate.seen, gate.evidenced) \in 0..(ClockPeriod - 1)
    <3>1. gate.seen + 1 \in Int
      BY <1>2
    <3> QED  BY <1>2, <1>3, <1>6, <2>1, <3>1 DEF Grown
  <2>3. gate' = [gate EXCEPT !.now = Grown(gate.now, gate.clocked),
                             !.seen = Grown(gate.seen, gate.evidenced)]
    BY DEF Tick
  <2> QED  BY <1>1, <2>2, <2>3
<1>12. detector' \in [count : 0..(RequiredPresses - 1), first : Nat, last : Nat]
  <2>1. /\ (detector.first + 1) % ClockPeriod \in Nat
        /\ (detector.last + 1) % ClockPeriod \in Nat
    <3>1. detector.first + 1 \in Int /\ detector.last + 1 \in Int
      BY <1>2
    <3> QED  BY <1>6, <3>1
  <2>2. /\ Grown(detector.first, detector.count # 0) \in Nat
        /\ Grown(detector.last, detector.count # 0) \in Nat
    BY <1>2, <2>1 DEF Grown
  <2>3. detector' = [detector EXCEPT !.first = Grown(detector.first, detector.count # 0),
                                     !.last = Grown(detector.last, detector.count # 0)]
    BY DEF Tick
  <2> QED  BY <1>1, <2>2, <2>3
<1>13. GestureTypeOK'
  <2>1. newest' \in 0..Horizon
    BY <1>1, <1>8, GestureConstants
  <2> QED  BY <1>9, <1>10, <1>11, <1>12, <2>1 DEF GestureTypeOK
<1>14. LastPressIsKnown'
  <2>1. ASSUME newest' < Horizon
        PROVE  /\ adapter'.initialized /\ adapter'.stamp <= newest'
               /\ gate'.evidenced /\ ~NewerAge(newest', gate'.seen)
    <3>1. newest < Horizon /\ newest' = newest + 1
      BY <1>1, <1>8, <2>1, GestureConstants
    <3>2. /\ adapter.initialized /\ adapter.stamp <= newest
          /\ gate.evidenced /\ ~NewerAge(newest, gate.seen)
      BY <3>1 DEF GestureInv, LastPressIsKnown
    <3>3. newest \in 0..(ClockPeriod - 1)
      BY <1>1, <3>1, GestureConstants
    <3>4. (((gate.seen + 1) % ClockPeriod) - (newest + 1)) % ClockPeriod
             = (gate.seen - newest) % ClockPeriod
      BY <1>2, <3>3, GestureConstants, AgeingKeepsDifferences
    <3>5. gate'.seen = (gate.seen + 1) % ClockPeriod
      BY <1>5, <3>2
    <3>6. (gate'.seen - newest') % ClockPeriod = (gate.seen - newest) % ClockPeriod
      BY <3>1, <3>4, <3>5
    <3>7. ~NewerAge(newest', gate'.seen)
      BY <3>2, <3>6, Remainders, GestureConstants DEF NewerAge, StrictlyNewer
    <3>8. adapter'.stamp <= newest'
      BY <1>1, <1>2, <1>4, <3>1, <3>2
    <3> QED  BY <1>4, <1>5, <3>2, <3>7, <3>8
  <2>2. ASSUME NEW age \in presses' PROVE newest' <= age
    <3>1. age - 1 \in presses /\ age \in Nat
      BY <1>9
    <3>2. newest <= age - 1
      BY <3>1 DEF GestureInv, LastPressIsKnown
    <3> QED  BY <1>1, <1>8, <3>1, <3>2, GestureConstants
  <2> QED  BY <2>1, <2>2 DEF LastPressIsKnown
<1>15. PressesAreCounted'
  <2> SUFFICES ASSUME detector'.count > 0 PROVE PressesAreCounted'
    BY DEF PressesAreCounted
  <2>1. detector.count > 0 /\ detector.count # 0
    BY <1>2, <1>7
  <2>2. /\ outcome # "remote_start_requested" /\ gate.clocked /\ gate.evidenced
        /\ gate.seen <= gate.now + MaximumEvidenceAge
        /\ detector.last - gate.seen \in 0..MinimumGap
        /\ detector.first - detector.last \in 0..MaximumSequence
        /\ Supports(presses, detector)
    BY <2>1 DEF GestureInv, PressesAreCounted
  <2>3. /\ gate.seen + 1 \in 0..(ClockPeriod - 1) /\ detector.last + 1 \in 0..(ClockPeriod - 1)
        /\ detector.first + 1 \in 0..(ClockPeriod - 1)
    BY <1>2, <2>2, GestureConstants
  <2>4. /\ (gate.seen + 1) % ClockPeriod = gate.seen + 1
        /\ (detector.last + 1) % ClockPeriod = detector.last + 1
        /\ (detector.first + 1) % ClockPeriod = detector.first + 1
    BY <2>3, GestureConstants, Remainders
  <2>5. /\ gate'.seen = gate.seen + 1 /\ gate'.now = gate.now + 1
        /\ detector'.last = detector.last + 1 /\ detector'.first = detector.first + 1
    BY <1>5, <1>7, <2>1, <2>2, <2>4
  <2>6. detector' = Older(detector)
    BY <1>7, <1>12, <2>5 DEF Older
  <2>7. presses' = {age \in {a + 1 : a \in presses} : age <= Horizon}
    BY <1>8, <2>2 DEF Remembered
  <2>8. Supports(presses', detector')
    <3>1. detector \in Detectors /\ presses \in SUBSET Nat
      BY <1>1, <1>2 DEF Detectors
    <3> QED  BY <2>1, <2>2, <2>6, <2>7, <3>1, OlderIsSupported
  <2>9. /\ gate'.seen <= gate'.now + MaximumEvidenceAge
        /\ detector'.last - gate'.seen \in 0..MinimumGap
        /\ detector'.first - detector'.last \in 0..MaximumSequence
    BY <1>2, <2>2, <2>5, GestureConstants
  <2> QED  BY <1>5, <1>8, <2>2, <2>8, <2>9 DEF PressesAreCounted
<1>16. RequestNeedsGesture'
  BY <1>8 DEF RequestNeedsGesture
<1> QED  BY <1>13, <1>14, <1>15, <1>16 DEF GestureInv

\* A frame that is no evidence leaves the count as it was.
LEMMA FrameWithoutEvidence ==
    ASSUME GestureInv, NEW frame \in CanFrames, Receive(frame),
           Decode(adapter, frame) \in {"ignored", "primed", "no_command"}
    PROVE  GestureInv'
<1> DEFINE status == Decode(adapter, frame)
           lagging == [gate EXCEPT !.lag = LagAfter(gate, frame, status)]
<1>1. ~RequiresGestureReset(status) /\ status # "evidence_produced"
  BY DEF RequiresGestureReset
<1>2. /\ adapter' = AdapterAfter(adapter, frame, status) /\ gate' = lagging
      /\ detector' = detector /\ outcome' = status /\ presses' = Remembered(0)
      /\ newest' = newest
  BY <1>1, Zenon DEF Receive, Pipeline, PressesAfter
<1>3. GestureTypeOK
  BY DEF GestureInv
<1>4. /\ adapter \in [initialized : BOOLEAN, stamp : 0..MaximumQuiet, active : BOOLEAN]
      /\ gate \in [clocked : BOOLEAN, now : 0..MaximumQuiet, evidenced : BOOLEAN,
                   seen : 0..(ClockPeriod - 1), lag : Nat]
      /\ presses \subseteq 0..Horizon
  BY <1>3 DEF GestureTypeOK
<1>5. /\ frame.delay \in 0..MaximumQuiet /\ frame.distance \in Nat
      /\ frame.active \in BOOLEAN
  BY FrameFields, GestureConstants
<1>6. LagAfter(gate, frame, status) \in Nat
  BY <1>4, <1>5 DEF LagAfter
<1>7. /\ gate' \in [clocked : BOOLEAN, now : 0..MaximumQuiet, evidenced : BOOLEAN,
                    seen : 0..(ClockPeriod - 1), lag : Nat]
      /\ gate'.clocked = gate.clocked /\ gate'.evidenced = gate.evidenced
      /\ gate'.seen = gate.seen /\ gate'.now = gate.now
  BY <1>2, <1>4, <1>6
<1>8. presses' \subseteq presses /\ (outcome # "remote_start_requested" => presses' = presses)
  BY <1>2, <1>4, RememberedNow
<1>9. CASE status = "ignored"
  <2>1. adapter' = adapter
    BY <1>1, <1>2, <1>9 DEF AdapterAfter, Recognised
  <2>2. GestureTypeOK'
    BY <1>2, <1>3, <1>7, <1>8, <2>1 DEF GestureTypeOK
  <2>3. LastPressIsKnown'
    BY <1>2, <1>7, <1>8, <2>1 DEF GestureInv, LastPressIsKnown
  <2>4. PressesAreCounted'
    BY <1>2, <1>7, <1>8, <1>9 DEF GestureInv, PressesAreCounted
  <2> QED  BY <1>2, <1>9, <2>2, <2>3, <2>4 DEF GestureInv, RequestNeedsGesture
<1>10. CASE status \in {"primed", "no_command"}
  <2>1. adapter' = [initialized |-> TRUE, stamp |-> frame.delay, active |-> frame.active]
    BY <1>1, <1>2, <1>10 DEF AdapterAfter, Recognised
  <2>2. /\ adapter' \in [initialized : BOOLEAN, stamp : 0..MaximumQuiet, active : BOOLEAN]
        /\ adapter'.initialized /\ adapter'.stamp = frame.delay
    BY <1>5, <2>1
  <2>3. GestureTypeOK'
    BY <1>2, <1>3, <1>7, <1>8, <2>2 DEF GestureTypeOK
  <2>4. LastPressIsKnown'
    <3>1. ASSUME newest < Horizon PROVE frame.delay <= newest
      <4>1. adapter.initialized /\ adapter.stamp <= newest
        BY <3>1 DEF GestureInv, LastPressIsKnown
      <4>2. status = "no_command"
        BY <1>3, <1>10, <4>1, Decoded
      <4>3. frame.delay <= adapter.stamp
        BY <1>3, <4>2, Decoded
      <4> QED  BY <1>3, <1>4, <1>5, <4>1, <4>3, GestureConstants DEF GestureTypeOK
    <3> QED  BY <1>2, <1>7, <1>8, <2>2, <3>1 DEF GestureInv, LastPressIsKnown
  <2>5. PressesAreCounted'
    BY <1>2, <1>7, <1>8, <1>10 DEF GestureInv, PressesAreCounted
  <2> QED  BY <1>2, <1>10, <2>3, <2>4, <2>5 DEF GestureInv, RequestNeedsGesture
<1> QED  BY <1>9, <1>10

\* An evidence that the gate refuses clears the count; if it is sound the gate knows
\* why: it has accepted a later one, as far as its clock tells.
LEMMA EvidenceRefused ==
    ASSUME GestureInv, NEW frame \in CanFrames, Receive(frame),
           Decode(adapter, frame) = "evidence_produced",
           NEW g, g = [gate EXCEPT !.lag = LagAfter(gate, frame, "evidence_produced")],
           GateRefusal(g, frame.delay, frame.secured) # "none"
    PROVE  GestureInv'
<1> DEFINE reason == GateRefusal(g, frame.delay, frame.secured)
<1>1. ~RequiresGestureReset("evidence_produced")
  BY DEF RequiresGestureReset
<1>2. /\ adapter' = AdapterAfter(adapter, frame, "evidence_produced")
      /\ gate' = Refused(g, detector, reason).gate
      /\ detector' = Refused(g, detector, reason).detector
      /\ outcome' = Refused(g, detector, reason).status
      /\ presses' = IF IsSound(frame) THEN Remembered(0) \cup {frame.delay} ELSE {}
      /\ newest' = IF IsSound(frame) THEN frame.delay ELSE newest
  BY <1>1, Zenon DEF Receive, Pipeline, PressesAfter, Process
<1>3. GestureTypeOK /\ LastPressIsKnown /\ (gate.evidenced => gate.lag <= MaximumLag)
  BY DEF GestureInv, Receive
<1>4. /\ adapter \in [initialized : BOOLEAN, stamp : 0..MaximumQuiet, active : BOOLEAN]
      /\ gate \in [clocked : BOOLEAN, now : 0..MaximumQuiet, evidenced : BOOLEAN,
                   seen : 0..(ClockPeriod - 1), lag : Nat]
      /\ presses \subseteq 0..Horizon /\ newest \in 0..Horizon
  BY <1>3 DEF GestureTypeOK
<1>5. /\ frame.delay \in 0..MaximumQuiet /\ frame.distance \in Nat
      /\ frame.active \in BOOLEAN /\ frame.delay <= adapter.stamp
  BY <1>3, FrameFields, Decoded, GestureConstants
<1>6. adapter' = [initialized |-> TRUE, stamp |-> frame.delay, active |-> frame.active]
  BY <1>1, <1>2 DEF AdapterAfter, Recognised
<1>7. LagAfter(gate, frame, "evidence_produced") \in Nat
  BY <1>4, <1>5 DEF LagAfter
<1>8. /\ g \in [clocked : BOOLEAN, now : 0..MaximumQuiet, evidenced : BOOLEAN,
                seen : 0..(ClockPeriod - 1), lag : Nat]
      /\ g.evidenced = gate.evidenced /\ g.seen = gate.seen
  BY <1>4, <1>7
<1>9. /\ detector' = DetectorReset /\ outcome' = reason
      /\ gate' = IF reason = "rejected_clock_regression" THEN g
                 ELSE [g EXCEPT !.clocked = TRUE, !.now = 0]
  BY <1>2 DEF Refused
<1>10. /\ gate' \in [clocked : BOOLEAN, now : 0..MaximumQuiet, evidenced : BOOLEAN,
                     seen : 0..(ClockPeriod - 1), lag : Nat]
       /\ gate'.evidenced = gate.evidenced /\ gate'.seen = gate.seen
  <2>1. 0 \in 0..MaximumQuiet
    BY GestureConstants
  <2> HIDE DEF reason
  <2> QED  BY <1>8, <1>9, <2>1
<1>11. IsSound(frame) => gate.evidenced /\ ~NewerAge(frame.delay, gate.seen)
  BY <1>3, GateAcceptsSoundPresses
<1>12. IsSound(frame) => frame.delay < newest
  BY <1>4, <1>5 DEF IsSound
<1>13. /\ adapter' \in [initialized : BOOLEAN, stamp : 0..MaximumQuiet, active : BOOLEAN]
       /\ adapter'.initialized /\ adapter'.stamp = frame.delay
  BY <1>5, <1>6
<1>14. Remembered(0) \subseteq presses
  BY <1>4, RememberedNow
<1>15. GestureTypeOK'
  <2>1. detector' \in [count : 0..(RequiredPresses - 1), first : Nat, last : Nat]
    <3>1. 0 \in 0..(RequiredPresses - 1) /\ 0 \in Nat
      BY GestureConstants
    <3> QED  BY <1>9, <3>1 DEF DetectorReset
  <2>2. presses' \subseteq 0..Horizon /\ newest' \in 0..Horizon
    <3>1. IsSound(frame) => frame.delay \in 0..Horizon
      BY <1>4, <1>5, <1>12, GestureConstants
    <3> QED  BY <1>2, <1>4, <1>14, <3>1
  <2> QED  BY <1>10, <1>13, <2>1, <2>2 DEF GestureTypeOK
<1>16. LastPressIsKnown'
  <2>1. CASE IsSound(frame)
    <3>1. newest' = frame.delay /\ presses' = Remembered(0) \cup {frame.delay}
      BY <1>2, <2>1
    <3>2. \A age \in presses' : frame.delay <= age
      <4>1. \A age \in presses : newest <= age
        BY <1>3 DEF LastPressIsKnown
      <4>2. \A age \in presses : frame.delay <= age
        BY <1>4, <1>5, <1>12, <2>1, <4>1
      <4> QED  BY <1>5, <1>14, <3>1, <4>2
    <3> QED  BY <1>5, <1>10, <1>11, <1>13, <2>1, <3>1, <3>2 DEF LastPressIsKnown
  <2>2. CASE ~IsSound(frame)
    <3>1. newest' = newest /\ presses' = {}
      BY <1>2, <2>2
    <3>2. ASSUME newest < Horizon
          PROVE  frame.delay <= newest /\ gate.evidenced /\ ~NewerAge(newest, gate.seen)
      <4>1. adapter.stamp <= newest /\ gate.evidenced /\ ~NewerAge(newest, gate.seen)
        BY <1>3, <3>2 DEF LastPressIsKnown
      <4> QED  BY <1>4, <1>5, <4>1
    <3> QED  BY <1>10, <1>13, <3>1, <3>2 DEF LastPressIsKnown
  <2> QED  BY <2>1, <2>2
<1>17. PressesAreCounted'
  BY <1>9 DEF PressesAreCounted, DetectorReset
<1>18. outcome' # "remote_start_requested"
  BY <1>9 DEF GateRefusal
<1> QED  BY <1>15, <1>16, <1>17, <1>18 DEF GestureInv, RequestNeedsGesture

\* An evidence that the gate accepts is a sound press.
LEMMA EvidenceAccepted ==
    ASSUME GestureInv, NEW frame \in CanFrames, Receive(frame),
           Decode(adapter, frame) = "evidence_produced",
           NEW g, g = [gate EXCEPT !.lag = LagAfter(gate, frame, "evidence_produced")],
           GateRefusal(g, frame.delay, frame.secured) = "none"
    PROVE  GestureInv'
<1> DEFINE o == Observe(detector, frame.delay)
           ages == Remembered(0) \cup {frame.delay}
<1>1. ~RequiresGestureReset("evidence_produced")
  BY DEF RequiresGestureReset
<1>2. GestureTypeOK /\ LastPressIsKnown /\ (gate.evidenced => gate.lag <= MaximumLag)
  BY DEF GestureInv, Receive
<1>3. IsSound(frame) /\ (gate.evidenced => frame.delay < gate.seen)
  BY <1>2, GateAcceptsSoundPresses
<1>4. /\ adapter' = AdapterAfter(adapter, frame, "evidence_produced")
      /\ gate' = [clocked |-> TRUE, now |-> 0, evidenced |-> TRUE,
                  seen |-> frame.delay, lag |-> 0]
      /\ detector' = o.state /\ outcome' = o.status
      /\ presses' = ages /\ newest' = frame.delay
  BY <1>1, <1>3, Zenon DEF Receive, Pipeline, PressesAfter, Process
<1>5. /\ adapter \in [initialized : BOOLEAN, stamp : 0..MaximumQuiet, active : BOOLEAN]
      /\ presses \subseteq 0..Horizon /\ newest \in 0..Horizon
  BY <1>2 DEF GestureTypeOK
<1>6. /\ frame.delay \in 0..MaximumQuiet /\ frame.active \in BOOLEAN /\ frame.delay \in Nat
  BY FrameFields, GestureConstants
<1>7. adapter' = [initialized |-> TRUE, stamp |-> frame.delay, active |-> frame.active]
  BY <1>1, <1>4 DEF AdapterAfter, Recognised
<1>8. /\ frame.delay <= MaximumEvidenceAge /\ frame.delay < newest
      /\ frame.delay \in 0..Horizon
  BY <1>3, <1>5, <1>6, GestureConstants DEF IsSound
<1>9. IsCounted(ages, frame.delay, o)
  BY <1>3, <1>6, <1>8, AcceptedPressIsCounted
<1>10. Remembered(0) \subseteq presses
  BY <1>5, RememberedNow
<1>11. \A age \in presses' : frame.delay <= age
  <2>1. \A age \in presses : newest <= age
    BY <1>2 DEF LastPressIsKnown
  <2>2. \A age \in presses : frame.delay <= age
    BY <1>5, <1>6, <1>8, <2>1
  <2> QED  BY <1>4, <1>6, <1>10, <2>2
<1> HIDE DEF o, ages
<1>12. GestureTypeOK'
  <2>1. adapter' \in [initialized : BOOLEAN, stamp : 0..MaximumQuiet, active : BOOLEAN]
    BY <1>6, <1>7
  <2>2. gate' \in [clocked : BOOLEAN, now : 0..MaximumQuiet, evidenced : BOOLEAN,
                   seen : 0..(ClockPeriod - 1), lag : Nat]
    <3>1. 0 \in 0..MaximumQuiet /\ frame.delay \in 0..(ClockPeriod - 1)
      BY <1>6, GestureConstants
    <3> QED  BY <1>4, <3>1
  <2>3. detector' \in [count : 0..(RequiredPresses - 1), first : Nat, last : Nat]
    <3>1. 0 \in 0..(RequiredPresses - 1) /\ 0 \in Nat
      BY GestureConstants
    <3>2. DetectorReset \in [count : 0..(RequiredPresses - 1), first : Nat, last : Nat]
      BY <3>1 DEF DetectorReset
    <3>3. [count : 1..(RequiredPresses - 1), first : Nat, last : Nat]
             \subseteq [count : 0..(RequiredPresses - 1), first : Nat, last : Nat]
      BY GestureConstants
    <3> QED  BY <1>4, <1>9, <3>2, <3>3 DEF IsCounted
  <2>4. presses' \subseteq 0..Horizon /\ newest' \in 0..Horizon
    BY <1>4, <1>5, <1>8, <1>10 DEF ages
  <2> QED  BY <2>1, <2>2, <2>3, <2>4 DEF GestureTypeOK
<1>13. LastPressIsKnown'
  <2>1. ~NewerAge(frame.delay, frame.delay)
    <3>1. (frame.delay - frame.delay) % ClockPeriod = 0
      BY <1>6, GestureConstants, Remainders
    <3> QED  BY <3>1 DEF NewerAge, StrictlyNewer
  <2>2. adapter'.initialized /\ adapter'.stamp <= frame.delay
    BY <1>6, <1>7
  <2>3. gate'.evidenced /\ gate'.seen = frame.delay
    BY <1>4
  <2> QED  BY <1>4, <1>11, <2>1, <2>2, <2>3 DEF LastPressIsKnown
<1>14. PressesAreCounted'
  <2> SUFFICES ASSUME detector'.count > 0 PROVE PressesAreCounted'
    BY DEF PressesAreCounted
  <2>1. /\ o.status # "remote_start_requested"
        /\ o.state.last - frame.delay \in 0..MinimumGap
        /\ o.state.first - o.state.last \in 0..MaximumSequence
        /\ Supports(ages, o.state)
    BY <1>4, <1>9 DEF IsCounted, DetectorReset
  <2>2. gate'.clocked /\ gate'.evidenced /\ gate'.seen = frame.delay /\ gate'.now = 0
    BY <1>4
  <2>3. gate'.seen <= gate'.now + MaximumEvidenceAge
    BY <1>6, <1>8, <2>2, GestureConstants
  <2> QED  BY <1>4, <2>1, <2>2, <2>3 DEF PressesAreCounted
<1>15. RequestNeedsGesture'
  <2> SUFFICES ASSUME outcome' = "remote_start_requested"
               PROVE  \E press \in [1..RequiredPresses -> presses'] :
                         /\ IsGesture(press)
                         /\ \A age \in presses' : press[RequiredPresses] <= age
    BY DEF RequestNeedsGesture
  <2>1. PICK press \in [1..RequiredPresses -> ages] :
           IsGesture(press) /\ press[RequiredPresses] = frame.delay
    BY <1>4, <1>9 DEF IsCounted
  <2> QED  BY <1>4, <1>11, <2>1
<1> QED  BY <1>12, <1>13, <1>14, <1>15 DEF GestureInv

\* One frame through the pipeline.
LEMMA ReceiveKeepsGestureInv ==
    ASSUME GestureInv, NEW frame \in CanFrames, Receive(frame)
    PROVE  GestureInv'
<1> DEFINE status == Decode(adapter, frame)
           g == [gate EXCEPT !.lag = LagAfter(gate, frame, "evidence_produced")]
<1>1. status \in Statuses
  BY Decoded DEF GestureInv
<1>2. CASE RequiresGestureReset(status)
  <2>1. /\ adapter' = AdapterReset /\ gate' = GateReset /\ detector' = DetectorReset
        /\ presses' = {} /\ newest' = Horizon
    BY <1>2 DEF Receive, Pipeline, PressesAfter, AdapterAfter
  <2>2. status # "evidence_produced" /\ status # "remote_start_requested"
    BY <1>1, <1>2 DEF Statuses, RequiresGestureReset
  <2>3. outcome' = status
    BY <2>2, Zenon DEF Receive, Pipeline
  <2> QED  BY <2>1, <2>2, <2>3, ForgettingIsSafe DEF Forgotten
<1>3. CASE status \in {"ignored", "primed", "no_command"}
  BY <1>3, FrameWithoutEvidence
<1>4. CASE status = "evidence_produced"
  BY <1>4, EvidenceRefused, EvidenceAccepted
<1> QED  BY <1>1, <1>2, <1>3, <1>4 DEF Statuses, RequiresGestureReset

\* What is counted is sound, spaced and new after every step of the pipeline.
THEOREM GestureInvariant == GestureSpec => []GestureInv
<1>1. GestureInit => GestureInv
  BY ForgottenIsSafe DEF GestureInit, Forgotten
<1>2. GestureInv /\ [GestureNext]_gestureVars => GestureInv'
  <2> SUFFICES ASSUME GestureInv, [GestureNext]_gestureVars PROVE GestureInv'
    OBVIOUS
  <2>1. CASE Tick
    BY <2>1, TickKeepsGestureInv
  <2>2. CASE ResetPipeline
    <3>1. outcome' # "remote_start_requested"
      BY <2>2 DEF ResetPipeline
    <3> QED  BY <2>2, <3>1, ForgettingIsSafe DEF ResetPipeline, Forgotten
  <2>3. CASE \E frame \in CanFrames : Receive(frame)
    BY <2>3, ReceiveKeepsGestureInv
  <2>4. CASE UNCHANGED gestureVars
    BY <2>4 DEF gestureVars, GestureInv, GestureTypeOK, LastPressIsKnown,
                PressesAreCounted, RequestNeedsGesture
  <2> QED  BY <2>1, <2>2, <2>3, <2>4 DEF GestureNext
<1> QED  BY <1>1, <1>2, PTL DEF GestureSpec

\* No start is requested without the configured presses, each of them verified, secured,
\* fresh and new, and spaced in true time (lock_command_gate.cpp, process;
\* lock_sequence_detector.cpp, observe), as long as the silences are within half a
\* turn of the clock.
THEOREM StartNeedsGesture == GestureSpec => []RequestNeedsGesture
<1>1. GestureInv => RequestNeedsGesture
  BY DEF GestureInv
<1> QED  BY <1>1, GestureInvariant, PTL
=============================================================================
