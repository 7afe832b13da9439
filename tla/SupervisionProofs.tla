------------------------- MODULE SupervisionProofs -------------------------
(***************************************************************************)
(* Theorems about Supervision, for every value of its constants.           *)
(*                                                                         *)
(* The inductive invariant has four parts: the types; how far the stop and *)
(* the counters are; the order of the send queue, in which every order     *)
(* stands before every query as long as none was submitted late or sent    *)
(* again; and what the cleanup has done at each stage.                     *)
(***************************************************************************)
EXTENDS Supervision, SequenceTheorems, TLAPS

Commanded == {"order", "boot", "cancelAll", "query", "void"}
Orders == {"order", "boot"}

StatusType == status \in Over \cup {"INITIALIZING", "RUNNING", "PAUSED",
                                    "PAUSED_EXTERNAL_INTERVENTION"}
MainType == main \in {"running", "draining", "cleanup", "pollWs", "cancelRest",
                      "pollRest", "sell", "closing", "closed"}
QueueType == sendq \in Seq(Commanded)
NetType == net \in {"up", "down", "mute"}
BootType == boot \in {"none", "working", "filled", "refused"}
StartType == start \in {"query", "recover", "init", "done"}
Dogs == [count : Nat, warm : BOOLEAN, debounced : BOOLEAN, settled : BOOLEAN]
Polls == [pc : {"idle", "sleep", "asked", "selling", "empty", "stopped", "rest",
                "cancelled", "restStopped", "incomplete"},
          attempt : Nat, timeouts : Nat, answer : {"", "some", "none"}]
DogType == dog \in Dogs
EmgType == emg \in Polls

Types == /\ StatusType /\ MainType /\ QueueType /\ NetType /\ BootType /\ StartType
         /\ DogType /\ EmgType

(* What an emergency under way says of the rest, and the bounds of the      *)
(* counters.                                                                *)
QueueBound == Len(sendq) <= QueueMax
Ending == main \notin {"running", "draining"} => ~tasks
Started == emg.pc # "idle" => inProgress
DogBound == dog.count <= 3
EmgBound == /\ emg.attempt <= CancelRetryMax /\ emg.timeouts <= 2
            /\ emg.pc \in {"sleep", "asked"} =>
                  emg.attempt < CancelRetryMax /\ emg.timeouts < 2
            /\ emg.pc = "idle" => emg.attempt = 0 /\ emg.timeouts = 0

Stopping == QueueBound /\ Ending /\ Started /\ DogBound /\ EmgBound

NoOrder(q) == \A i \in DOMAIN q : q[i] \notin Orders
NoQuery(q) == \A i \in DOMAIN q : q[i] # "query"
OrdersFirst(q) == \A i, j \in DOMAIN q : q[i] \in Orders /\ q[j] = "query" => i < j

(* The queries of the emergency stand behind the orders, and its answer     *)
(* "none" is about the exchange and the queue alike.                        *)
Queued ==
    /\ emg.pc = "idle" => emg.answer = "" /\ NoQuery(sendq)
    /\ ~resent /\ ~late => OrdersFirst(sendq)
    /\ ~resent /\ ~late /\ (emg.answer = "none" \/ emg.pc \in {"selling", "empty", "stopped"})
          => ~opens /\ NoOrder(sendq)

Cleaned ==
    /\ main = "pollRest" => ~opens
    /\ main \in {"sell", "closing", "closed"} /\ Action # "force_exit" /\ ~restFailed
          => ~opens

SupervisionInv == Types /\ Stopping /\ Queued /\ Cleaned

-----------------------------------------------------------------------------
(* The send queue *)

\* A command more at the end of the queue.
LEMMA Appended ==
  ASSUME NEW q \in Seq(Commanded), NEW c \in Commanded
  PROVE  /\ Append(q, c) \in Seq(Commanded)
         /\ Len(Append(q, c)) = Len(q) + 1
         /\ NoOrder(q) /\ c \notin Orders => NoOrder(Append(q, c))
         /\ NoQuery(q) /\ c # "query" => NoQuery(Append(q, c))
         /\ OrdersFirst(q) /\ c \notin Orders => OrdersFirst(Append(q, c))
         /\ NoQuery(q) => OrdersFirst(Append(q, c))
  BY DEF NoOrder, NoQuery, OrdersFirst, Orders

\* The first command of the queue is taken; behind a query there is no order.
LEMMA HeadTaken ==
  ASSUME NEW q \in Seq(Commanded), q # <<>>
  PROVE  /\ Head(q) \in Commanded
         /\ Tail(q) \in Seq(Commanded)
         /\ Len(Tail(q)) = Len(q) - 1 /\ Len(q) \in Nat
         /\ NoOrder(q) => NoOrder(Tail(q)) /\ Head(q) \notin Orders
         /\ NoQuery(q) => NoQuery(Tail(q)) /\ Head(q) # "query"
         /\ OrdersFirst(q) => OrdersFirst(Tail(q))
         /\ OrdersFirst(q) /\ Head(q) = "query" => NoOrder(Tail(q))
<1> USE DEF NoOrder, NoQuery, OrdersFirst, Orders
<1>1. /\ Head(q) \in Commanded /\ Head(q) = q[1] /\ 1 \in DOMAIN q
      /\ Tail(q) \in Seq(Commanded)
      /\ Len(Tail(q)) = Len(q) - 1 /\ Len(q) \in Nat
  OBVIOUS
<1>2. \A i \in DOMAIN Tail(q) : i \in Nat /\ i + 1 \in DOMAIN q /\ Tail(q)[i] = q[i + 1]
  OBVIOUS
<1> QED
  BY <1>1, <1>2

\* A query nobody waits for any more keeps its place.
LEMMA Voided ==
  ASSUME NEW q \in Seq(Commanded)
  PROVE  /\ Void(q) \in Seq(Commanded)
         /\ Len(Void(q)) = Len(q)
         /\ NoOrder(q) => NoOrder(Void(q))
         /\ NoQuery(Void(q))
         /\ OrdersFirst(Void(q))
<1>1. /\ DOMAIN Void(q) = 1 .. Len(q) /\ Len(q) \in Nat /\ DOMAIN q = 1 .. Len(q)
      /\ \A i \in 1 .. Len(q) : Void(q)[i] = IF q[i] = "query" THEN "void" ELSE q[i]
  BY DEF Void
<1>2. \A i \in 1 .. Len(q) : Void(q)[i] \in Commanded
  BY <1>1 DEF Commanded
<1>3. Void(q) \in Seq(Commanded) /\ Len(Void(q)) = Len(q)
  BY <1>1, <1>2 DEF Void
<1> QED
  BY <1>1, <1>3 DEF NoOrder, NoQuery, OrdersFirst, Orders

-----------------------------------------------------------------------------
(* Frames: which steps change what *)

EmergencyBegins == CheckStream \/ CheckSilent \/ EmergencyCommand
Submits == Submit \/ BootReport \/ Initialize

\* The steps by the variables they may change.
LEMMA Frame ==
  ASSUME Next
  PROVE  /\ emg' = emg \/ Send \/ EmgRest \/ MarkStopped \/ EmergencyBegins \/ EmgPoll
         /\ dog' = dog \/ Reconnect \/ CheckSilent \/ CheckSettled \/ TimePasses \/ Crash
         /\ \/ sendq' = sendq \/ Send \/ SendFails \/ Submits \/ EmergencyBegins
            \/ EmgPoll \/ Begin \/ StartCleanup
         /\ \/ status' = status \/ EmergencyBegins \/ MarkStopped \/ StopCommand
            \/ Recover \/ Initialize \/ PauseCommand \/ ResumeCommand \/ ExternalCancel \/ StartCleanup \/ Close
         /\ inProgress' = inProgress \/ EmergencyBegins
         /\ tasks' = tasks \/ EmergencyBegins \/ Initialize \/ Crash
         /\ \/ main' = main \/ EmergencyBegins \/ Initialize \/ StopCommand \/ Signalled \/ Crash
            \/ StartCleanup \/ PollWs \/ CancelRest \/ PollRest \/ SellBase \/ Close
         /\ opens' = opens \/ Send \/ SendFails \/ EmgRest \/ CancelRest
         /\ \/ boot' = boot \/ Send \/ SendFails \/ EmgRest \/ CancelRest \/ BootEnds
            \/ BootReport
         /\ start' = start \/ Begin \/ Recover \/ Initialize
         /\ late' = late \/ Submits
         /\ restFailed' = restFailed \/ CancelRest \/ PollRest
         /\ resent' = resent \/ SendFails
         /\ net' = net \/ SendFails \/ Reconnect \/ GoesDown \/ GoesMute \/ CheckSilent
<1> USE DEF Next, Network, Start, Streams, Watchdog, Emergency, Commands, Shutdown,
            EmergencyBegins, Submits, Execute, engineVars, netVars, startVars, dogVars,
            mainVars
<1>1. CASE Network
  BY <1>1 DEF Send, SendFails, Heard, Reconnect, GoesDown, GoesMute, GrowsSilent, Submit,
              BootEnds, BootReport
<1>6. CASE Start
  BY <1>6 DEF Begin, Recover, Initialize
<1>2. CASE Streams \/ Watchdog
  BY <1>2 DEF ReaderEnds, StreamAges, CheckStream, CheckSilent, CheckSettled, TimePasses
<1>3. CASE Emergency
  BY <1>3 DEF EmgPoll, EmgRest, MarkStopped
<1>4. CASE Commands
  BY <1>4 DEF StopCommand, Signalled, PauseCommand, ResumeCommand, EmergencyCommand,
              ExternalCancel
<1>5. CASE Shutdown
  BY <1>5 DEF Crash, StartCleanup, PollWs, CancelRest, PollRest, SellBase, Close
<1> QED
  BY <1>1, <1>2, <1>3, <1>4, <1>5, <1>6

\* What is submitted, and when it is late.
LEMMA Submitting ==
  ASSUME Submits
  PROVE  /\ UNCHANGED <<opens, resent, emg, inProgress>>
         /\ \/ UNCHANGED <<sendq, late>>
            \/ /\ HasRoom /\ late' = (late \/ inProgress)
               /\ \E c \in Orders : sendq' = Append(sendq, c)
<1>1. CASE Submit
  BY <1>1 DEF Submit, Place, Orders, engineVars
<1>2. CASE BootReport
  BY <1>2 DEF BootReport, Place, Orders, engineVars
<1>3. CASE Initialize
  BY <1>3 DEF Initialize, Place, Orders
<1> QED
  BY <1>1, <1>2, <1>3 DEF Submits

\* What a call of execute does.
LEMMA Begins ==
  ASSUME EmergencyBegins
  PROVE  \/ UNCHANGED <<status, inProgress, sendq, emg, main, tasks>>
         \/ /\ ~inProgress /\ inProgress' = TRUE /\ status' = "EMERGENCY_STOPPING"
            /\ HasRoom /\ sendq' = Append(sendq, "cancelAll")
            /\ emg' = [emg EXCEPT !.pc = IF CancelRetryMax = 0 THEN "rest" ELSE "sleep"]
            /\ UNCHANGED <<main, tasks>>
         \/ /\ ~inProgress /\ inProgress' = TRUE /\ status' = "EMERGENCY_STOPPING"
            /\ main' = "cleanup" /\ tasks' = FALSE
            /\ UNCHANGED <<sendq, emg>>
<1>1. Execute \/ UNCHANGED <<status, inProgress, sendq, emg, main, tasks>>
  BY DEF EmergencyBegins, CheckStream, CheckSilent, EmergencyCommand, engineVars
<1> QED
  BY <1>1 DEF Execute, engineVars

-----------------------------------------------------------------------------
(* Types *)

\* A failed attempt and a successful one are counted.
LEMMA AttemptTyped ==
  ASSUME EmgType
  PROVE  /\ NextAttempt \in Polls
         /\ \A before \in Nat : FailedAttempt(before) \in Polls
<1>1. emg.attempt + 1 \in Nat
  <2>1. emg.attempt \in Nat
    BY DEF EmgType, Polls
  <2> QED
    BY <2>1
<1>2. NextAttempt \in Polls
  BY <1>1 DEF NextAttempt, EmgType, Polls
<1>3. ASSUME NEW before \in Nat PROVE FailedAttempt(before) \in Polls
  <2>1. before + 1 \in Nat
    OBVIOUS
  <2> QED
    BY <1>1, <2>1 DEF FailedAttempt, EmgType, Polls
<1> QED
  BY <1>2, <1>3

\* The record of the emergency's polling task stays typed.
LEMMA EmgTyped ==
  ASSUME EmgType, Next
  PROVE  EmgType'
<1> USE DEF EmgType
<1>1. CASE Send \/ EmgRest \/ MarkStopped
  BY <1>1 DEF Send, EmgRest, MarkStopped, Polls
<1>2. CASE EmergencyBegins
  BY <1>2, Begins DEF Polls
<1>3. CASE EmgPoll
  <2> emg.timeouts \in Nat
    BY DEF Polls
  <2>1. CASE EmgAsk
    <3>1. [emg EXCEPT !.pc = "asked"] \in Polls
      BY DEF Polls
    <3> QED
      BY <2>1, <3>1, AttemptTyped DEF EmgAsk
  <2>2. CASE EmgTimeout \/ EmgSome
    BY <2>2, AttemptTyped DEF EmgTimeout, EmgSome
  <2>3. CASE EmgNone \/ EmgSold
    BY <2>3 DEF EmgNone, EmgSold, Polls
  <2> QED
    BY <1>3, <2>1, <2>2, <2>3 DEF EmgPoll
<1> QED
  BY <1>1, <1>2, <1>3, Frame

\* The watchdog's record stays typed.
LEMMA DogTyped ==
  ASSUME DogType, Next
  PROVE  DogType'
<1> USE DEF DogType
<1>1. CASE Reconnect
  <2>1. [dog EXCEPT !.warm = TRUE] \in Dogs
    BY DEF Dogs
  <2> QED
    BY <1>1, <2>1 DEF Reconnect
<1>2. CASE CheckSilent
  <2>1. dog.count + 1 \in Nat
    BY DEF Dogs
  <2> QED
    BY <1>2, <2>1 DEF CheckSilent, Dogs
<1>3. CASE CheckSettled
  <2>1. [dog EXCEPT !.count = 0, !.settled = FALSE] \in Dogs
    BY DEF Dogs
  <2> QED
    BY <1>3, <2>1 DEF CheckSettled
<1>4. CASE TimePasses
  <2>1. /\ [dog EXCEPT !.warm = FALSE] \in Dogs
        /\ [dog EXCEPT !.debounced = FALSE] \in Dogs
        /\ [dog EXCEPT !.settled = TRUE] \in Dogs
    BY DEF Dogs
  <2> QED
    BY <1>4, <2>1 DEF TimePasses
<1>5. CASE Crash
  BY <1>5 DEF Crash, NewDog, Dogs
<1> QED
  BY <1>1, <1>2, <1>3, <1>4, <1>5, Frame

\* The send queue stays typed and within its bound.
LEMMA QueueTyped ==
  ASSUME QueueType, QueueBound, Next
  PROVE  QueueType' /\ QueueBound'
<1> USE SupervisionAssumption DEF QueueType, QueueBound
<1>1. CASE Send
  BY <1>1, HeadTaken DEF Send
<1>2. CASE SendFails
  BY <1>2, HeadTaken, Appended DEF SendFails
<1>3. CASE HasRoom /\ \E c \in Commanded : sendq' = Append(sendq, c)
  BY <1>3, Appended DEF HasRoom
<1>4. CASE sendq' = Void(sendq)
  BY <1>4, Voided
<1>5. CASE EmergencyBegins
  BY <1>3, <1>5, Begins DEF Commanded
<1>6. CASE EmgPoll
  BY <1>3, <1>4, <1>6 DEF EmgPoll, EmgAsk, EmgTimeout, EmgSome, EmgNone, EmgSold, Commanded
<1>7. CASE Submits
  BY <1>3, <1>7, Submitting DEF Commanded, Orders
<1>8. CASE Begin \/ StartCleanup
  BY <1>3, <1>8 DEF Begin, StartCleanup, Commanded
<1> QED
  BY <1>1, <1>2, <1>5, <1>6, <1>7, <1>8, Frame

\* The bot's status, main()'s place and the connection stay typed.
LEMMA StatesTyped ==
  ASSUME StatusType, MainType, NetType, BootType, StartType, Next
  PROVE  StatusType' /\ MainType' /\ NetType' /\ BootType' /\ StartType'
<1>1. StatusType'
  BY Frame DEF StatusType, Over, Ended, Recover, Initialize, EmergencyBegins, CheckStream, CheckSilent, EmergencyCommand,
     Execute, MarkStopped, StopCommand, PauseCommand, ResumeCommand, ExternalCancel,
     StartCleanup, Close, engineVars
<1>2. MainType'
  BY Frame DEF MainType, EmergencyBegins, CheckStream, CheckSilent, EmergencyCommand, Execute,
     StopCommand, Signalled, Crash, StartCleanup, PollWs, CancelRest, PollRest, SellBase,
     Close, Initialize
<1>3. NetType'
  BY Frame DEF NetType, SendFails, Reconnect, GoesDown, GoesMute, CheckSilent
<1>4. BootType'
  BY Frame DEF BootType, Send, SendFails, Taken, Emptied, EmgRest, CancelRest, BootEnds,
     BootReport
<1>5. StartType'
  BY Frame DEF StartType, Begin, Recover, Initialize
<1> QED
  BY <1>1, <1>2, <1>3, <1>4, <1>5

-----------------------------------------------------------------------------
(* Stopping *)

\* The cleanup only starts once the tasks are gone, which never come back.
LEMMA EndingKept ==
  ASSUME Ending, Next
  PROVE  Ending'
<1> USE DEF Ending
<1>1. CASE EmergencyBegins
  BY <1>1, Begins
<1>2. CASE StopCommand \/ Signalled
  BY <1>2 DEF StopCommand, Signalled
<1>3. CASE Crash \/ StartCleanup \/ PollWs \/ CancelRest \/ PollRest \/ SellBase \/ Close
  BY <1>3 DEF Crash, StartCleanup, PollWs, CancelRest, PollRest, SellBase, Close
<1>4. CASE main' = main /\ tasks' = tasks
  BY <1>4
<1>5. CASE Initialize
  BY <1>5 DEF Initialize
<1> QED
  BY <1>1, <1>2, <1>3, <1>4, <1>5, Frame

\* The polling task exists only after execute.
LEMMA StartedKept ==
  ASSUME EmgType, Started, Next
  PROVE  Started'
<1> USE DEF Started, EmgType
<1>1. CASE Send \/ EmgRest \/ MarkStopped
  BY <1>1 DEF Send, EmgRest, MarkStopped, Asked, Polls, engineVars
<1>2. CASE EmergencyBegins
  BY <1>2, Begins
<1>3. CASE EmgPoll
  BY <1>3 DEF EmgPoll, EmgAsk, EmgTimeout, EmgSome, EmgNone, EmgSold, Asked, engineVars
<1>4. CASE emg' = emg /\ inProgress' = inProgress
  BY <1>4
<1> QED
  BY <1>1, <1>2, <1>3, <1>4, Frame

\* The watchdog counts no further than three.
LEMMA DogBoundKept ==
  ASSUME DogType, DogBound, Next
  PROVE  DogBound'
<1> USE DEF DogBound, DogType
<1>1. CASE CheckSilent
  <2>1. dog.count \in Nat /\ dog'.count = IF dog.count < 3 THEN dog.count + 1 ELSE 3
    BY <1>1 DEF CheckSilent, Dogs
  <2> QED
    BY <2>1
<1>2. CASE Reconnect
  BY <1>2 DEF Reconnect, Dogs
<1>3. CASE CheckSettled
  BY <1>3 DEF CheckSettled, Dogs
<1>4. CASE TimePasses
  BY <1>4 DEF TimePasses, Dogs
<1>5. CASE Crash
  BY <1>5 DEF Crash, NewDog
<1> QED
  BY <1>1, <1>2, <1>3, <1>4, <1>5, Frame

\* The attempts and the timeouts of the polling task keep within their limits.
LEMMA EmgBoundKept ==
  ASSUME EmgType, Started, EmgBound, Next
  PROVE  EmgBound'
<1> USE SupervisionAssumption DEF EmgBound, EmgType
<1>0. emg.attempt \in Nat /\ emg.timeouts \in Nat
  BY DEF Polls
<1>1. CASE Send \/ EmgRest \/ MarkStopped
  BY <1>1 DEF Send, EmgRest, MarkStopped, Polls
<1>2. CASE EmergencyBegins
  <2>1. CASE ~inProgress /\ emg' = [emg EXCEPT !.pc = IF CancelRetryMax = 0
                                                     THEN "rest" ELSE "sleep"]
    <3>1. emg.attempt = 0 /\ emg.timeouts = 0
      BY <2>1 DEF Started
    <3>2. /\ emg'.attempt = emg.attempt /\ emg'.timeouts = emg.timeouts
          /\ emg'.pc = IF CancelRetryMax = 0 THEN "rest" ELSE "sleep"
      BY <2>1 DEF Polls
    <3> QED
      BY <3>1, <3>2
  <2> QED
    BY <1>2, <2>1, Begins
<1>3. CASE EmgPoll
  <2>1. CASE emg' = NextAttempt /\ Asked
    <3>1. /\ emg'.attempt = emg.attempt + 1 /\ emg'.timeouts = 0
          /\ emg'.pc = IF emg.attempt + 1 >= CancelRetryMax THEN "rest" ELSE "sleep"
      BY <2>1 DEF NextAttempt, Polls
    <3> QED
      BY <1>0, <2>1, <3>1 DEF Asked
  <2>2. ASSUME NEW before \in Nat, before < 2, emg' = FailedAttempt(before),
               emg.pc \in {"sleep", "asked"}
        PROVE  EmgBound'
    <3>1. /\ emg'.attempt = emg.attempt + 1 /\ emg'.timeouts = before + 1
          /\ emg'.pc = IF before + 1 >= 2 \/ emg.attempt + 1 >= CancelRetryMax
                       THEN "rest" ELSE "sleep"
      BY <2>2 DEF FailedAttempt, Polls
    <3> QED
      BY <1>0, <2>2, <3>1
  <2>3. CASE EmgAsk
    BY <1>0, <2>2, <2>3 DEF EmgAsk, Polls
  <2>4. CASE EmgTimeout
    BY <1>0, <2>2, <2>4 DEF EmgTimeout, Asked
  <2>5. CASE EmgSome
    BY <1>0, <2>1, <2>2, <2>5 DEF EmgSome, Asked
  <2>6. CASE EmgNone \/ EmgSold
    BY <1>0, <2>6 DEF EmgNone, EmgSold, Polls
  <2> QED
    BY <1>3, <2>3, <2>4, <2>5, <2>6 DEF EmgPoll
<1>4. CASE emg' = emg
  BY <1>4
<1> QED
  BY <1>1, <1>2, <1>3, <1>4, Frame

-----------------------------------------------------------------------------
(* The order of the send queue *)

\* The polling task's query stands behind every order, and what it is answered is
\* true of the queue as well.
LEMMA QueuedKept ==
  ASSUME QueueType, EmgType, Started, Queued, Next
  PROVE  Queued'
<1> USE DEF Queued, QueueType
<1>0. ~late' => ~late
  BY Frame, Submitting
<1>1. CASE Send
  <2>1. sendq # <<>> /\ sendq' = Tail(sendq) /\ resent' = resent /\ late' = late
    BY <1>1 DEF Send, startVars
  <2>2. emg'.pc = emg.pc
    BY <1>1 DEF Send, EmgType, Polls
  <2>3. emg.pc = "idle" => emg' = emg
    BY <1>1 DEF Send, Asked
  <2>4. NoOrder(sendq) /\ ~opens => ~opens' /\ NoOrder(sendq')
    BY <1>1, <2>1, HeadTaken DEF Send, Taken, Emptied, Orders
  <2>5. CASE emg' = emg
    BY <1>0, <2>1, <2>3, <2>4, <2>5, HeadTaken
  <2>6. CASE Head(sendq) = "query" /\ Asked /\ net = "up"
             /\ emg' = [emg EXCEPT !.answer = IF opens THEN "some" ELSE "none"]
    <3>1. opens' = opens /\ (emg'.answer = "none" => ~opens)
      BY <1>1, <2>6 DEF Send, Taken, EmgType, Polls
    <3>2. ~resent /\ ~late => OrdersFirst(sendq') /\ NoOrder(sendq')
      BY <2>1, <2>6, HeadTaken
    <3> QED
      BY <2>1, <2>2, <2>6, <3>1, <3>2 DEF Asked
  <2> QED
    BY <1>1, <2>5, <2>6 DEF Send
<1>2. CASE SendFails
  <2>1. resent' /\ emg' = emg
    BY <1>2 DEF SendFails
  <2>2. NoQuery(sendq) => NoQuery(sendq')
    BY <1>2, HeadTaken, Appended DEF SendFails
  <2> QED
    BY <2>1, <2>2
<1>3. CASE Submits
  <2>1. UNCHANGED <<opens, emg, resent>>
    BY <1>3, Submitting
  <2>2. CASE UNCHANGED <<sendq, late>>
    BY <2>1, <2>2
  <2>3. ASSUME NEW c \in Orders, sendq' = Append(sendq, c), late' = (late \/ inProgress)
        PROVE  Queued'
    <3>1. emg.pc # "idle" => late'
      BY <2>3 DEF Started
    <3>2. NoQuery(sendq) => NoQuery(sendq') /\ OrdersFirst(sendq')
      BY <2>3, Appended DEF Commanded, Orders
    <3> QED
      BY <2>1, <3>1, <3>2
  <2> QED
    BY <1>3, <2>2, <2>3, Submitting
<1>4. CASE EmergencyBegins
  <2>1. opens' = opens /\ resent' = resent
    BY <1>4, Frame DEF EmergencyBegins, CheckStream, CheckSilent, EmergencyCommand
  <2>2. CASE ~inProgress /\ sendq' = Append(sendq, "cancelAll")
             /\ emg' = [emg EXCEPT !.pc = IF CancelRetryMax = 0 THEN "rest" ELSE "sleep"]
    <3>1. emg.pc = "idle" /\ emg'.answer = "" /\ emg'.pc \in {"rest", "sleep"}
      BY <2>2 DEF Started, EmgType, Polls
    <3>2. ~resent /\ ~late => OrdersFirst(sendq')
      BY <2>2, Appended DEF Commanded, Orders
    <3> QED
      BY <1>0, <2>1, <3>1, <3>2
  <2>3. CASE UNCHANGED <<sendq, emg>>
    BY <1>0, <2>1, <2>3
  <2> QED
    BY <1>4, <2>2, <2>3, Begins
<1>5. CASE EmgPoll
  <2>1. opens' = opens /\ resent' = resent /\ emg.pc # "idle"
    BY <1>5 DEF EmgPoll, EmgAsk, EmgTimeout, EmgSome, EmgNone, EmgSold, Asked
  <2>2. CASE EmgAsk
    <3>1. emg'.pc \in {"asked", "sleep", "rest"} /\ (emg'.answer # "none" \/ emg' = [emg EXCEPT !.pc = "asked"])
      BY <2>2 DEF EmgAsk, FailedAttempt, EmgType, Polls
    <3> QED
      BY <1>0, <2>1, <2>2, <3>1, Appended DEF EmgAsk, Commanded, Orders, EmgType, Polls
  <2>3. CASE EmgTimeout
    BY <1>0, <2>1, <2>3, Voided DEF EmgTimeout, FailedAttempt, EmgType, Polls
  <2>4. CASE EmgSome
    <3>1. emg'.pc \in {"sleep", "rest"} /\ emg'.answer = ""
      BY <2>4 DEF EmgSome, FailedAttempt, NextAttempt, EmgType, Polls
    <3>2. ~resent /\ ~late => OrdersFirst(sendq')
      BY <2>4, Appended DEF EmgSome, Commanded, Orders
    <3> QED
      BY <1>0, <2>1, <3>1, <3>2
  <2>5. CASE EmgNone \/ EmgSold
    BY <1>0, <2>1, <2>5 DEF EmgNone, EmgSold, Asked, EmgType, Polls
  <2> QED
    BY <1>5, <2>2, <2>3, <2>4, <2>5 DEF EmgPoll
<1>6. CASE EmgRest \/ MarkStopped
  <2>1. UNCHANGED <<sendq, resent>> /\ (~opens => ~opens')
    <3>1. CASE Emptied /\ UNCHANGED <<sendq, resent>>
      BY <3>1 DEF Emptied
    <3>2. CASE UNCHANGED <<sendq, resent, opens>>
      BY <3>2
    <3> QED
      BY <1>6, <3>1, <3>2 DEF EmgRest, MarkStopped, netVars
  <2>2. emg'.answer = emg.answer /\ emg.pc \in {"rest", "empty", "cancelled"}
    BY <1>6 DEF EmgRest, MarkStopped, EmgType, Polls
  <2>3. emg'.pc # "idle" /\ (emg'.pc \in {"selling", "empty", "stopped"} => emg.pc = "empty")
    BY <1>6 DEF EmgRest, MarkStopped, EmgType, Polls
  <2> QED
    BY <1>0, <2>1, <2>2, <2>3
<1>7. CASE StartCleanup
  <2>1. UNCHANGED <<opens, resent, emg>>
    BY <1>7 DEF StartCleanup
  <2>2. sendq' = sendq \/ sendq' = Append(sendq, "cancelAll")
    BY <1>7 DEF StartCleanup
  <2> QED
    BY <1>0, <2>1, <2>2, Appended DEF Commanded, Orders
<1>10. CASE Begin
  <2>1. UNCHANGED <<opens, resent, emg>>
    BY <1>10 DEF Begin
  <2>2. sendq' = sendq \/ sendq' = Append(sendq, "cancelAll")
    BY <1>10 DEF Begin
  <2> QED
    BY <1>0, <2>1, <2>2, Appended DEF Commanded, Orders
<1>8. CASE UNCHANGED <<emg, sendq, opens, resent>>
  BY <1>0, <1>8
<1>9. CASE CancelRest
  <2>1. UNCHANGED <<emg, sendq, resent>> /\ (~opens => ~opens')
    <3>1. CASE Emptied /\ UNCHANGED <<emg, sendq, resent>>
      BY <3>1 DEF Emptied
    <3>2. CASE UNCHANGED <<emg, sendq, resent, opens>>
      BY <3>2
    <3> QED
      BY <1>9, <3>1, <3>2 DEF CancelRest
  <2> QED
    BY <1>0, <2>1
<1> QED
  BY <1>1, <1>2, <1>3, <1>4, <1>5, <1>6, <1>7, <1>8, <1>9, <1>10, Frame

-----------------------------------------------------------------------------
(* What the cleanup has done *)

\* From the REST cancel on nothing is open, unless REST failed.
LEMMA CleanedKept ==
  ASSUME Ending, Cleaned, Next
  PROVE  Cleaned'
<1> USE DEF Cleaned, Ending
<1>1. CASE EmergencyBegins
  <2>1. tasks /\ UNCHANGED <<opens, restFailed>>
    BY <1>1, Frame DEF EmergencyBegins, CheckStream, CheckSilent, EmergencyCommand
  <2>2. main \in {"running", "draining"} /\ (main' = main \/ main' = "cleanup")
    BY <1>1, <2>1, Begins
  <2> QED
    BY <2>1, <2>2
<1>2. CASE Send \/ SendFails
  <2>1. main' = main /\ tasks
    BY <1>2 DEF Send, SendFails, mainVars
  <2> QED
    BY <2>1
<1>3. CASE StopCommand \/ Signalled \/ Crash
  <2>1. main' \in {"draining", "cleanup"}
    BY <1>3 DEF StopCommand, Signalled, Crash
  <2> QED
    BY <2>1
<1>4. CASE EmgRest
  BY <1>4 DEF EmgRest, Emptied, mainVars
<1>5. CASE StartCleanup \/ PollWs
  BY <1>5 DEF StartCleanup, PollWs, netVars
<1>6. CASE CancelRest
  BY <1>6 DEF CancelRest, Emptied
<1>7. CASE PollRest
  BY <1>7 DEF PollRest, netVars
<1>8. CASE SellBase \/ Close
  BY <1>8 DEF SellBase, Close, netVars
<1>9. CASE UNCHANGED <<main, opens, restFailed>>
  BY <1>9
<1>10. CASE Initialize
  <2>1. tasks /\ UNCHANGED <<opens, restFailed>> /\ (main' = main \/ main' = "cleanup")
    BY <1>10 DEF Initialize
  <2> QED
    BY <2>1
<1> QED
  BY <1>1, <1>2, <1>3, <1>4, <1>5, <1>6, <1>7, <1>8, <1>9, <1>10, Frame

-----------------------------------------------------------------------------
(* Theorems *)

\* Every step keeps the invariant.
LEMMA InvKept ==
  ASSUME SupervisionInv, [Next]_vars
  PROVE  SupervisionInv'
<1>1. CASE Next
  <2>1. Types'
    BY <1>1, EmgTyped, DogTyped, QueueTyped, StatesTyped DEF SupervisionInv, Types, Stopping
  <2>2. Stopping'
    BY <1>1, EndingKept, StartedKept, DogBoundKept, EmgBoundKept, QueueTyped
       DEF SupervisionInv, Types, Stopping
  <2>3. Queued' /\ Cleaned'
    BY <1>1, QueuedKept, CleanedKept DEF SupervisionInv, Types, Stopping
  <2> QED
    BY <2>1, <2>2, <2>3 DEF SupervisionInv
<1>2. CASE UNCHANGED vars
  <2> USE <1>2 DEF vars
  <2>1. Types'
    BY DEF SupervisionInv, Types, StatusType, MainType, QueueType, NetType, BootType,
           StartType, DogType, EmgType
  <2>2. Stopping'
    BY DEF SupervisionInv, Stopping, QueueBound, Ending, Started, DogBound, EmgBound
  <2>3. Queued' /\ Cleaned'
    BY DEF SupervisionInv, Queued, Cleaned
  <2> QED
    BY <2>1, <2>2, <2>3 DEF SupervisionInv
<1> QED
  BY <1>1, <1>2

\* A bot that has just started: nothing stopped, nothing queued.
LEMMA InitInv == Init => SupervisionInv
<1> SUFFICES ASSUME Init PROVE SupervisionInv
  OBVIOUS
<1>1. sendq \in Seq(Commanded) /\ Len(sendq) = 0 /\ \A i \in DOMAIN sendq : FALSE
  <2>1. sendq = <<>>
    BY DEF Init
  <2>2. DOMAIN sendq = 1 .. 0 /\ Len(sendq) = 0 /\ sendq \in Seq(Commanded)
    BY <2>1
  <2> QED
    BY <2>2
<1>2. dog \in Dogs /\ dog.count = 0
  BY DEF Init, NewDog, Dogs
<1>3. /\ emg \in Polls /\ emg.pc = "idle" /\ emg.answer = ""
      /\ emg.attempt = 0 /\ emg.timeouts = 0
  BY DEF Init, Polls
<1>4. Types
  BY <1>1, <1>2, <1>3
     DEF Init, Types, StatusType, MainType, QueueType, NetType, BootType, StartType,
         DogType, EmgType
<1>5. Stopping
  <2>1. QueueBound /\ DogBound /\ EmgBound
    <3>1. 0 <= QueueMax /\ 0 <= CancelRetryMax
      BY SupervisionAssumption
    <3>2. QueueBound
      BY <1>1, <3>1 DEF QueueBound
    <3>3. DogBound
      BY <1>2 DEF DogBound
    <3>4. EmgBound
      <4>1. emg.attempt <= CancelRetryMax /\ emg.timeouts <= 2
        <5>1. emg.attempt = 0 /\ emg.timeouts = 0
          BY <1>3
        <5> QED
          BY <5>1, <3>1
      <4>2. emg.pc \notin {"sleep", "asked"}
        BY <1>3
      <4>3. emg.pc = "idle" => emg.attempt = 0 /\ emg.timeouts = 0
        BY <1>3
      <4> QED
        BY <4>1, <4>2, <4>3 DEF EmgBound
    <3> QED
      BY <3>2, <3>3, <3>4
  <2>2. Ending /\ Started
    BY <1>3 DEF Init, Ending, Started
  <2> QED
    BY <2>1, <2>2 DEF Stopping
<1>6. Queued /\ Cleaned
  BY <1>1, <1>3 DEF Init, Queued, Cleaned, NoQuery, OrdersFirst
<1> QED
  BY <1>4, <1>5, <1>6 DEF SupervisionInv

\* The inductive invariant holds in every reachable state.
THEOREM Invariance == Spec => []SupervisionInv
  BY InitInv, InvKept, PTL DEF Spec

\* The states, the send queue and the counters of watchdog and polling task stay
\* in their ranges: no more than three forced closes, no attempt beyond the limit.
THEOREM TypeCorrect == Spec => []SupervisionType
<1>1. SupervisionInv => SupervisionType
  <2> SUFFICES ASSUME SupervisionInv PROVE SupervisionType
    OBVIOUS
  <2>1. /\ dog.count \in Nat /\ dog.count <= 3
        /\ emg.attempt \in Nat /\ emg.attempt <= CancelRetryMax
        /\ emg.timeouts \in Nat /\ emg.timeouts <= 2
    BY DEF SupervisionInv, Types, DogType, EmgType, Dogs, Polls, Stopping, DogBound, EmgBound
  <2>2. dog.count \in 0 .. 3 /\ emg.attempt \in 0 .. CancelRetryMax /\ emg.timeouts \in 0 .. 2
    BY <2>1, SupervisionAssumption
  <2> QED
    BY <2>2 DEF SupervisionInv, Types, StatusType, QueueType, NetType, BootType, StartType,
                MainType, Stopping, QueueBound, SupervisionType, Commanded
<1> QED
  BY <1>1, Invariance, PTL

\* An emergency stop that ended on the answer "none open" left no order behind, on
\* the exchange or in the send queue, whatever the queue held when it began, unless a
\* failed send changed the queue's order or an order was submitted after the stop.
THEOREM EmptyIsEmpty == Spec => []EmptyMeansEmpty
<1>1. SupervisionInv => EmptyMeansEmpty
  BY DEF SupervisionInv, Queued, NoOrder, Orders, EmptyMeansEmpty
<1> QED
  BY <1>1, Invariance, PTL

\* With REST at work no order outlives the process, however many polls there are.
THEOREM ClosesClean == Spec => []ClosedClean
<1>1. SupervisionInv => ClosedClean
  BY DEF SupervisionInv, Cleaned, ClosedClean
<1> QED
  BY <1>1, Invariance, PTL

\* No command, report or cleanup step brings a stopped bot back to life once its
\* start is over; while it is not, the end of recover() or of initialize() does.
THEOREM StoppedStays == Spec => StaysStopped
<1>1. Next /\ status \in Over /\ start = "done" => status' \in Over
  <2> SUFFICES ASSUME Next, status \in Over, start = "done"
               PROVE  status' \in Over
    OBVIOUS
  <2> USE DEF Over, Ended
  <2>1. CASE EmergencyBegins
    BY <2>1, Begins
  <2>2. CASE MarkStopped \/ StopCommand \/ PauseCommand \/ ResumeCommand \/ ExternalCancel
    BY <2>2 DEF MarkStopped, StopCommand, PauseCommand, ResumeCommand, ExternalCancel
  <2>3. CASE StartCleanup \/ Close
    BY <2>3 DEF StartCleanup, Close
  <2>4. CASE Recover \/ Initialize
    BY <2>4 DEF Recover, Initialize
  <2>5. CASE status' = status
    BY <2>5
  <2> QED
    BY <2>1, <2>2, <2>3, <2>4, <2>5, Frame
<1>2. [Next]_vars => [(status \in Over /\ start = "done") => (status' \in Over)]_vars
  BY <1>1
<1> QED
  BY <1>2, PTL DEF Spec, StaysStopped
=============================================================================
