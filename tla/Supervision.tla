---------------------------- MODULE Supervision ----------------------------
(***************************************************************************)
(* Who stops the bot and how: the watchdog (supervisor/watchdog.py), the   *)
(* emergency stop (supervisor/emergency.py) with its detached polling      *)
(* task, the commands, and the life of main() from its start to            *)
(* graceful_shutdown (app/main.py).  The engine is its status, which       *)
(* initialize() and recover() set in the end whatever it was, its          *)
(* bootstrap, and the orders it may have in the send queue; the WebSocket  *)
(* API is a FIFO and a connection that may be down or mute; REST is a call *)
(* that works or fails.                                                    *)
(*                                                                         *)
(* Ages are flags: a flag is set when the clock is reset and falls some    *)
(* time later (TimePasses), so any order of the timers is possible.        *)
(***************************************************************************)
EXTENDS Naturals, Sequences

CONSTANTS
    Action,        \* safety.shutdown_action
    Policy,        \* safety.external_intervention_policy
    SellOnStop,    \* safety.sell_on_emergency_stop
    Bootstrap,     \* inventory_mode is quote_only_bootstrap
    CancelRetryMax,\* safety.cancel_retry_max
    ShutdownPolls, \* bound: the polls of graceful_shutdown (20 and 10)
    QueueMax,      \* bound: commands in the send queue
    MaxEvents,     \* bound: what the environment does
    Env            \* what the environment may do

ASSUME SupervisionAssumption ==
    /\ Action \in {"cancel_only", "cancel_and_sell", "force_exit"}
    /\ Policy \in {"pause", "continue_reconcile", "emergency_stop"}
    /\ SellOnStop \in BOOLEAN /\ Bootstrap \in BOOLEAN
    /\ CancelRetryMax \in Nat /\ ShutdownPolls \in Nat \ {0}
    /\ QueueMax \in Nat /\ MaxEvents \in Nat
    /\ Env \subseteq {"submit", "down", "mute", "deaf", "crash", "command",
                      "external", "rest_fails", "resend", "refuse"}

VARIABLES
    status,        \* engine.status
    sendq,         \* ws_api.send_queue: "order", "boot" (with the bootstrap's
                   \* order), "cancelAll", "query", or "void", a query nobody
                   \* waits for any more
    net,           \* the connection: "up", "down" or "mute"
    resent,        \* a send failed and its command went to the end of the queue
    opens,         \* the exchange has orders of the bot open
    boot,          \* the bootstrap on the exchange: "none", "working", or a
                   \* report of it is on its way: "filled", "refused"
    start,         \* where main() has the engine: "query", "recover", "init"
                   \* or "done"
    late,          \* history: an order was submitted after an emergency stop
    stream,        \* the user stream: "live", "deaf" (no reader) or "stale"
    dog,           \* the watchdog: [count, warm, debounced, settled]
    silent,        \* last_msg_age_sec is beyond the limit
    emg,           \* _wait_for_canceled: [pc, attempt, timeouts, answer]
    inProgress,    \* EmergencyStop._in_progress
    main,          \* where main() is
    polls,         \* the poll graceful_shutdown is at
    tasks,         \* the TaskGroup's tasks run
    restFailed,    \* a REST call of graceful_shutdown failed
    events         \* what the environment has done so far

engineVars == <<status, inProgress>>
netVars == <<sendq, net, resent, opens, boot>>
startVars == <<start, late>>
dogVars == <<stream, dog, silent>>
mainVars == <<main, polls, tasks, restFailed>>
vars == <<status, sendq, net, resent, opens, boot, start, late, stream, dog, silent, emg,
          inProgress, main, polls, tasks, restFailed, events>>

Ended == {"EMERGENCY_STOPPING", "EMERGENCY_STOPPED", "STOPPED"}
Over == Ended \cup {"STOPPING"}
Asked == emg.pc = "asked"

\* A watchdog that has just started.
NewDog == [count |-> 0, warm |-> FALSE, debounced |-> FALSE, settled |-> FALSE]

Happens(e) == e \in Env /\ events < MaxEvents /\ events' = events + 1

\* Mutant: one command too many.
HasRoomForOne == Len(sendq) <= QueueMax

(* put_nowait: QueueFull is an exception of the caller. *)
HasRoom == Len(sendq) < QueueMax

-----------------------------------------------------------------------------
(* The exchange, the connection and the writer, which is one of the tasks.  *)

(* No order is open: a bootstrap that was working is gone with the rest.    *)
Emptied == opens' = FALSE /\ boot' = IF boot = "working" THEN "none" ELSE boot

(* A command reaches the exchange.                                          *)
Taken(c) ==
    \/ c = "order" /\ opens' = TRUE /\ UNCHANGED boot
    \/ c = "boot" /\ opens' = TRUE /\ boot' = "working"
    \/ c = "cancelAll" /\ Emptied
    \/ c \in {"query", "void"} /\ UNCHANGED <<opens, boot>>

(* A command leaves the queue: a mute connection swallows it.  The exchange *)
(* answers an openOrders.status with what is open when it gets there.       *)
Send ==
    /\ tasks /\ net # "down" /\ sendq # <<>> /\ main # "closed"
    /\ sendq' = Tail(sendq)
    /\ IF net = "up" THEN Taken(Head(sendq)) ELSE UNCHANGED <<opens, boot>>
    /\ IF net = "up" /\ Head(sendq) = "query" /\ Asked
       THEN emg' = [emg EXCEPT !.answer = IF opens THEN "some" ELSE "none"]
       ELSE UNCHANGED emg
    /\ UNCHANGED <<engineVars, net, resent, startVars, dogVars, mainVars, events>>

(* The socket fails under a command: it may have arrived or not, and it is  *)
(* put back at the end of the queue, behind what was asked after it.        *)
SendFails ==
    /\ Happens("resend") /\ tasks /\ net = "up" /\ sendq # <<>>
    /\ net' = "down" /\ resent' = TRUE
    /\ sendq' = Append(Tail(sendq), Head(sendq))
    /\ Taken(Head(sendq)) \/ UNCHANGED <<opens, boot>>
    /\ UNCHANGED <<engineVars, startVars, dogVars, emg, mainVars>>

(* An answer arrives, at the latest to the next heartbeat.                  *)
Heard == /\ tasks /\ net = "up" /\ silent /\ silent' = FALSE
         /\ UNCHANGED <<engineVars, netVars, startVars, stream, dog, emg,
                        mainVars, events>>

\* Mutant: a new connection clears the watchdog's count.
ReconnectForgets ==
    /\ tasks /\ net = "down"
    /\ \E n \in {"up"} \cup (IF "mute" \in Env THEN {"mute"} ELSE {}) :
          net' = n
    /\ dog' = [dog EXCEPT !.warm = TRUE, !.count = 0]
    /\ UNCHANGED <<engineVars, sendq, resent, opens, boot, startVars, stream,
                   silent, emg, mainVars, events>>

Reconnect ==
    /\ tasks /\ net = "down"
    /\ \E n \in {"up"} \cup (IF "mute" \in Env THEN {"mute"} ELSE {}) :
          net' = n
    /\ dog' = [dog EXCEPT !.warm = TRUE]
    /\ UNCHANGED <<engineVars, sendq, resent, opens, boot, startVars, stream,
                   silent, emg, mainVars, events>>

GoesDown == /\ Happens("down") /\ net # "down" /\ net' = "down"
            /\ UNCHANGED <<engineVars, sendq, resent, opens, boot, startVars,
                           dogVars, emg, mainVars>>

GoesMute == /\ Happens("mute") /\ net = "up" /\ net' = "mute"
            /\ UNCHANGED <<engineVars, sendq, resent, opens, boot, startVars,
                           dogVars, emg, mainVars>>

(* Five minutes pass on a mute connection. *)
GrowsSilent == /\ tasks /\ net = "mute" /\ ~silent /\ silent' = TRUE
               /\ UNCHANGED <<engineVars, netVars, startVars, stream, dog, emg,
                              mainVars, events>>

(* A command with an order, which is late after an emergency stop.          *)
Place(c) == /\ HasRoom /\ sendq' = Append(sendq, c)
            /\ late' = (late \/ inProgress)

(* The running engine has submitted an order. *)
Submit == /\ Happens("submit") /\ status = "RUNNING" /\ tasks
          /\ Place("order")
          /\ UNCHANGED <<engineVars, net, resent, opens, boot, start, dogVars,
                         emg, mainVars>>

(* The bootstrap is filled, or what is left of it refused.  Its report is   *)
(* lost when nobody reads the stream.                                       *)
BootEnds ==
    /\ boot = "working"
    /\ \/ /\ boot' = IF stream = "live" THEN "filled" ELSE "none"
          /\ UNCHANGED events
       \/ Happens("refuse") /\ boot' = IF stream = "live" THEN "refused" ELSE "none"
    /\ UNCHANGED <<engineVars, sendq, net, resent, opens, startVars, dogVars,
                   emg, mainVars>>

(* A filled bootstrap is answered by the SELLs, one that was refused by     *)
(* another, in every status but one.  A full queue raises into the          *)
(* dispatcher, which logs it.                                               *)
BootReport ==
    /\ tasks /\ boot \in {"filled", "refused"} /\ boot' = "none"
    /\ IF status # "EMERGENCY_STOPPING" /\ HasRoom
       THEN Place(IF boot = "filled" THEN "order" ELSE "boot")
       ELSE UNCHANGED <<sendq, late>>
    /\ UNCHANGED <<engineVars, net, resent, opens, start, dogVars, emg, mainVars,
                   events>>

-----------------------------------------------------------------------------
(* The start: main() asks for the open orders and lets the engine recover   *)
(* them or, where the bot has none or they belong to no run it knows (which *)
(* it cancels), initialize a new grid if nobody has touched its status.     *)
Begin ==
    /\ tasks /\ start = "query"
    /\ LET fresh == IF status = "INITIALIZING" THEN "init" ELSE "done"
       IN  \/ opens /\ start' = "recover" /\ UNCHANGED sendq
           \/ ~opens /\ start' = fresh /\ UNCHANGED sendq
           \/ opens /\ HasRoom /\ start' = fresh /\ sendq' = Append(sendq, "cancelAll")
    /\ UNCHANGED <<engineVars, net, resent, opens, boot, late, dogVars, emg,
                   mainVars, events>>

(* recover() ends, after its last await. *)
Recover ==
    /\ tasks /\ start = "recover" /\ start' = "done"
    /\ status' = "RUNNING"
    /\ UNCHANGED <<inProgress, netVars, late, dogVars, emg, mainVars, events>>

(* initialize() ends, after its last await: the grid is placed, one command *)
(* standing for all its orders.  A full queue ends its task, and with it    *)
(* the TaskGroup.                                                           *)
Initialize ==
    /\ tasks /\ start = "init" /\ start' = "done"
    /\ status' = "RUNNING"
    /\ \/ Place(IF Bootstrap THEN "boot" ELSE "order") /\ UNCHANGED <<main, tasks>>
       \/ ~HasRoom /\ main' = "cleanup" /\ tasks' = FALSE /\ UNCHANGED <<sendq,
                                                                         late>>
    /\ UNCHANGED <<inProgress, net, resent, opens, boot, dogVars, emg, polls,
                   restFailed, events>>

-----------------------------------------------------------------------------
(* The user stream: its reader ends (closed, listenKeyExpired), the gather  *)
(* in start() still waits for the keepalive loop, which never ends, so      *)
(* nobody connects again, and the age grows.                                *)
ReaderEnds == /\ Happens("deaf") /\ stream = "live" /\ tasks
              /\ stream' = "deaf"
              /\ UNCHANGED <<engineVars, netVars, startVars, dog, silent, emg,
                             mainVars>>

StreamAges == /\ tasks /\ stream = "deaf" /\ stream' = "stale"
              /\ UNCHANGED <<engineVars, netVars, startVars, dog, silent, emg,
                             mainVars, events>>

-----------------------------------------------------------------------------
(* EmergencyStop.execute, whoever calls it.  A full queue raises after the  *)
(* engine is stopped and before the polling task exists: in the watchdog or *)
(* the command processor this ends the task, and with it the TaskGroup.     *)
Execute ==
    IF inProgress THEN UNCHANGED <<engineVars, sendq, emg, main, tasks>>
    ELSE /\ inProgress' = TRUE
         /\ status' = "EMERGENCY_STOPPING"
         /\ IF HasRoom
            THEN /\ sendq' = Append(sendq, "cancelAll")
                 /\ emg' = [emg EXCEPT !.pc = IF CancelRetryMax = 0 THEN "rest"
                                              ELSE "sleep"]
                 /\ UNCHANGED <<main, tasks>>
            ELSE /\ main' = "cleanup" /\ tasks' = FALSE
                 /\ UNCHANGED <<sendq, emg>>

(* Watchdog._check.  The flags the timers hold: warm until a minute after   *)
(* the connect, debounced until a minute after a forced close, settled once *)
(* five minutes passed since.  The count stops at three: all that is asked  *)
(* of it is whether it has come that far.                                   *)
Mute == net # "down" /\ silent

\* Mutant: nothing is checked while the trading connection is down.
CheckStreamConnected ==
    /\ tasks /\ status \notin Ended /\ stream = "stale" /\ net # "down"
    /\ Execute
    /\ UNCHANGED <<net, resent, opens, boot, startVars, dogVars, polls,
                   restFailed, events>>

CheckStream ==
    /\ tasks /\ status \notin Ended /\ stream = "stale"
    /\ Execute
    /\ UNCHANGED <<net, resent, opens, boot, startVars, dogVars, polls,
                   restFailed, events>>

CheckSilent ==
    /\ tasks /\ status \notin Ended /\ stream # "stale" /\ Mute
    /\ ~dog.debounced /\ ~dog.warm
    /\ dog' = [dog EXCEPT !.count = IF dog.count < 3 THEN dog.count + 1 ELSE 3,
                          !.debounced = TRUE, !.settled = FALSE]
    /\ net' = "down"
    /\ IF dog'.count >= 3 THEN Execute
       ELSE UNCHANGED <<engineVars, sendq, emg, main, tasks>>
    /\ UNCHANGED <<resent, opens, boot, startVars, stream, silent, polls,
                   restFailed, events>>

CheckSettled ==
    /\ tasks /\ status \notin Ended /\ stream # "stale"
    /\ net # "down" /\ ~silent /\ dog.count > 0 /\ dog.settled
    /\ dog' = [dog EXCEPT !.count = 0, !.settled = FALSE]
    /\ UNCHANGED <<engineVars, netVars, startVars, stream, silent, emg, mainVars,
                   events>>

TimePasses ==
    /\ tasks
    /\ \/ dog.warm /\ dog' = [dog EXCEPT !.warm = FALSE]
       \/ dog.debounced /\ dog' = [dog EXCEPT !.debounced = FALSE]
       \/ dog.count > 0 /\ ~dog.settled /\ ~dog.debounced
          /\ dog' = [dog EXCEPT !.settled = TRUE]
    /\ UNCHANGED <<engineVars, netVars, startVars, stream, silent, emg, mainVars,
                   events>>

-----------------------------------------------------------------------------
(* The polling task of the emergency stop.  It is no task of the TaskGroup: *)
(* it goes on while main() cleans up, until the event loop is closed.       *)
Void(q) == [i \in DOMAIN q |-> IF q[i] = "query" THEN "void" ELSE q[i]]

NextAttempt == [emg EXCEPT !.attempt = emg.attempt + 1, !.timeouts = 0, !.answer = "",
                           !.pc = IF emg.attempt + 1 >= CancelRetryMax
                                  THEN "rest" ELSE "sleep"]
\* Mutant: a timeout is no attempt.
FailedAttemptFree(before) == [emg EXCEPT !.answer = "", !.pc = "sleep"]

FailedAttempt(before) ==
    [emg EXCEPT !.attempt = emg.attempt + 1, !.timeouts = before + 1, !.answer = "",
                !.pc = IF before + 1 >= 2 \/ emg.attempt + 1 >= CancelRetryMax
                       THEN "rest" ELSE "sleep"]

(* After the sleep get_open_orders waits for a connection, however long,    *)
(* and only then its ten seconds start.                                     *)
EmgAsk ==
    /\ emg.pc = "sleep" /\ net # "down"
    /\ IF HasRoom
       THEN emg' = [emg EXCEPT !.pc = "asked"] /\ sendq' = Append(sendq, "query")
       ELSE emg' = FailedAttempt(emg.timeouts) /\ UNCHANGED sendq

\* Mutant: no answer is taken for an empty one.
EmgTimeoutEmpty ==
    /\ Asked /\ emg.answer = ""
    /\ emg' = [emg EXCEPT !.answer = "none"]
    /\ sendq' = Void(sendq)

EmgTimeout ==
    /\ Asked /\ emg.answer = ""
    /\ emg' = FailedAttempt(emg.timeouts)
    /\ sendq' = Void(sendq)

(* Orders are left: another cancelAll; a full queue counts as a failure.    *)
EmgSome ==
    /\ Asked /\ emg.answer = "some"
    /\ IF HasRoom
       THEN emg' = NextAttempt /\ sendq' = Append(sendq, "cancelAll")
       ELSE emg' = FailedAttempt(0) /\ UNCHANGED sendq

(* None is left.  Selling the base first asks for the account, and fails    *)
(* on the names of the stream's fields: it ends without an order.           *)
EmgNone ==
    /\ Asked /\ emg.answer = "none"
    /\ emg' = [emg EXCEPT !.pc = IF SellOnStop THEN "selling" ELSE "empty"]
    /\ UNCHANGED sendq

EmgSold == /\ emg.pc = "selling" /\ net # "down"
           /\ emg' = [emg EXCEPT !.pc = "empty"] /\ UNCHANGED sendq

EmgPoll == /\ main # "closed"
           /\ EmgAsk \/ EmgTimeout \/ EmgSome \/ EmgNone \/ EmgSold
           /\ UNCHANGED <<engineVars, net, resent, opens, boot, startVars,
                          dogVars, mainVars, events>>

(* _rest_fallback_cleanup: what REST answers decides, not what is open.     *)
EmgRest ==
    /\ main # "closed" /\ emg.pc = "rest"
    /\ \/ Emptied /\ emg' = [emg EXCEPT !.pc = "cancelled"]
       \/ "rest_fails" \in Env /\ UNCHANGED <<opens, boot>>
          /\ emg' = [emg EXCEPT !.pc = "incomplete"]
    /\ UNCHANGED <<engineVars, sendq, net, resent, startVars, dogVars, mainVars,
                   events>>

(* _mark_stopped. *)
MarkStopped ==
    /\ main # "closed" /\ emg.pc \in {"empty", "cancelled"}
    /\ emg' = [emg EXCEPT !.pc = IF emg.pc = "empty" THEN "stopped"
                                 ELSE "restStopped"]
    /\ status' = "EMERGENCY_STOPPED"
    /\ UNCHANGED <<inProgress, netVars, startVars, dogVars, mainVars, events>>

-----------------------------------------------------------------------------
(* command_processor; a stop also sets _shutdown, which ends the body of    *)
(* the TaskGroup, not its tasks.                                            *)
StopCommand ==
    /\ Happens("command") /\ tasks
    /\ status' = "STOPPED"
    /\ main' = "draining"
    /\ UNCHANGED <<inProgress, netVars, startVars, dogVars, emg, polls, tasks,
                   restFailed>>

(* SIGINT or SIGTERM: only _shutdown is set. *)
Signalled ==
    /\ Happens("command") /\ tasks /\ main' = "draining"
    /\ UNCHANGED <<engineVars, netVars, startVars, dogVars, emg, polls, tasks,
                   restFailed>>

PauseCommand ==
    /\ Happens("command") /\ tasks /\ status = "RUNNING" /\ status' = "PAUSED"
    /\ UNCHANGED <<inProgress, netVars, startVars, dogVars, emg, mainVars>>

ResumeCommand ==
    /\ Happens("command") /\ tasks
    /\ status \in {"PAUSED", "PAUSED_EXTERNAL_INTERVENTION"} /\ status' = "RUNNING"
    /\ UNCHANGED <<inProgress, netVars, startVars, dogVars, emg, mainVars>>

EmergencyCommand ==
    /\ Happens("command") /\ tasks
    /\ Execute
    /\ UNCHANGED <<net, resent, opens, boot, startVars, dogVars, polls, restFailed>>

\* Mutant: the cancels of a stopping bot count as the user's.
ExternalCancelAny ==
    /\ Happens("external") /\ tasks
    /\ status' = CASE Policy = "pause" -> "PAUSED_EXTERNAL_INTERVENTION"
                   [] Policy = "emergency_stop" -> "EMERGENCY_STOPPING"
                   [] OTHER -> status
    /\ UNCHANGED <<inProgress, netVars, startVars, dogVars, emg, mainVars>>

(* A cancel by the user is reported; the emergency policy stops the engine  *)
(* and nothing else: no order is cancelled.                                 *)
ExternalCancel ==
    /\ Happens("external") /\ tasks
    /\ status \notin Over
    /\ status' = CASE Policy = "pause" -> "PAUSED_EXTERNAL_INTERVENTION"
                   [] Policy = "emergency_stop" -> "EMERGENCY_STOPPING"
                   [] OTHER -> status
    /\ UNCHANGED <<inProgress, netVars, startVars, dogVars, emg, mainVars>>

(* A task raises: the others are cancelled, main() goes on to its finally.  *)
(* What the watchdog kept goes with its task.                               *)
Crash ==
    /\ Happens("crash") /\ tasks
    /\ tasks' = FALSE /\ main' = "cleanup"
    /\ dog' = NewDog /\ silent' = FALSE
    /\ UNCHANGED <<engineVars, netVars, startVars, stream, emg, polls, restFailed>>

-----------------------------------------------------------------------------
(* graceful_shutdown.  It is only reached after a crash, with the tasks     *)
(* gone: what it puts into the send queue is not sent any more, and each    *)
(* of its polls over WS runs into its two seconds.                          *)
StartCleanup ==
    /\ main = "cleanup" /\ ~tasks
    /\ IF Action = "force_exit"
       THEN main' = "closing" /\ UNCHANGED <<status, sendq>>
       ELSE /\ status' = "STOPPING"
            /\ IF HasRoom
               THEN main' = "pollWs" /\ sendq' = Append(sendq, "cancelAll")
               ELSE main' = "cancelRest" /\ UNCHANGED sendq
    /\ UNCHANGED <<inProgress, net, resent, opens, boot, startVars, dogVars, emg,
                   polls, tasks, restFailed, events>>

\* Mutant: a cancelAll that was queued counts as done.
PollWsTrusts ==
    /\ main = "pollWs"
    /\ IF polls < ShutdownPolls THEN polls' = polls + 1 /\ UNCHANGED main
       ELSE polls' = 0 /\ main' = "sell"
    /\ UNCHANGED <<engineVars, netVars, startVars, dogVars, emg, tasks,
                   restFailed, events>>

PollWs ==
    /\ main = "pollWs"
    /\ IF polls < ShutdownPolls THEN polls' = polls + 1 /\ UNCHANGED main
       ELSE polls' = 0 /\ main' = "cancelRest"
    /\ UNCHANGED <<engineVars, netVars, startVars, dogVars, emg, tasks,
                   restFailed, events>>

CancelRest ==
    /\ main = "cancelRest"
    /\ \/ main' = "pollRest" /\ Emptied /\ UNCHANGED restFailed
       \/ /\ "rest_fails" \in Env /\ main' = "sell" /\ restFailed' = TRUE
          /\ UNCHANGED <<opens, boot>>
    /\ UNCHANGED <<engineVars, sendq, net, resent, startVars, dogVars, emg,
                   polls, tasks, events>>

PollRest ==
    /\ main = "pollRest"
    /\ \/ /\ IF opens /\ polls < ShutdownPolls
             THEN polls' = polls + 1 /\ UNCHANGED main
             ELSE main' = "sell" /\ UNCHANGED polls
          /\ UNCHANGED restFailed
       \/ /\ "rest_fails" \in Env /\ main' = "sell" /\ restFailed' = TRUE
          /\ UNCHANGED polls
    /\ UNCHANGED <<engineVars, netVars, startVars, dogVars, emg, tasks, events>>

(* The base is sold over REST, which leaves the orders alone.               *)
SellBase ==
    /\ main = "sell" /\ main' = "closing"
    /\ UNCHANGED <<engineVars, netVars, startVars, dogVars, emg, polls, tasks,
                   restFailed, events>>

Close ==
    /\ main = "closing" /\ main' = "closed"
    /\ status' = IF status \in {"EMERGENCY_STOPPING", "EMERGENCY_STOPPED"}
                 THEN status ELSE "STOPPED"
    /\ UNCHANGED <<inProgress, netVars, startVars, dogVars, emg, polls, tasks,
                   restFailed, events>>

-----------------------------------------------------------------------------
Init ==
    /\ status = "INITIALIZING" /\ start = "query" /\ late = FALSE
    /\ opens \in BOOLEAN /\ boot = "none"
    /\ sendq = <<>> /\ net = "up" /\ resent = FALSE
    /\ stream = "live" /\ silent = FALSE
    /\ dog = NewDog
    /\ emg = [pc |-> "idle", attempt |-> 0, timeouts |-> 0, answer |-> ""]
    /\ inProgress = FALSE
    /\ main = "running" /\ polls = 0 /\ tasks = TRUE /\ restFailed = FALSE
    /\ events = 0

Network == Send \/ SendFails \/ Heard \/ Reconnect \/ GoesDown \/ GoesMute \/ GrowsSilent
           \/ Submit \/ BootEnds \/ BootReport
Start == Begin \/ Recover \/ Initialize
Streams == ReaderEnds \/ StreamAges
Watchdog == CheckStream \/ CheckSilent \/ CheckSettled \/ TimePasses
Emergency == EmgPoll \/ EmgRest \/ MarkStopped
Commands == StopCommand \/ Signalled \/ PauseCommand \/ ResumeCommand \/ EmergencyCommand
            \/ ExternalCancel
Shutdown == Crash \/ StartCleanup \/ PollWs \/ CancelRest \/ PollRest
            \/ SellBase \/ Close

Next == Network \/ Start \/ Streams \/ Watchdog \/ Emergency \/ Commands \/ Shutdown

Spec == Init /\ [][Next]_vars

(* The tasks are scheduled, clocks advance, calls return and the writer     *)
(* tries to connect again and again; a connection need not come up: that a  *)
(* property asks for, where it needs it.  Whoever waits for it is woken by  *)
(* every connection, however short: the polling task is strongly fair.      *)
FairSpec ==
    /\ Spec
    /\ WF_vars(Send) /\ WF_vars(GrowsSilent) /\ WF_vars(StreamAges)
    /\ WF_vars(CheckStream) /\ WF_vars(CheckSilent) /\ WF_vars(TimePasses)
    /\ SF_vars(EmgPoll) /\ WF_vars(EmgRest \/ MarkStopped)
    /\ WF_vars(StartCleanup \/ PollWs \/ CancelRest \/ PollRest \/ SellBase \/ Close)

-----------------------------------------------------------------------------
SupervisionType ==
    /\ status \in Over \cup {"INITIALIZING", "RUNNING", "PAUSED",
                             "PAUSED_EXTERNAL_INTERVENTION"}
    /\ sendq \in Seq({"order", "boot", "cancelAll", "query", "void"})
    /\ Len(sendq) <= QueueMax
    /\ net \in {"up", "down", "mute"}
    /\ boot \in {"none", "working", "filled", "refused"}
    /\ start \in {"query", "recover", "init", "done"}
    /\ dog.count \in 0 .. 3
    /\ emg.attempt \in 0 .. CancelRetryMax /\ emg.timeouts \in 0 .. 2
    /\ main \in {"running", "draining", "cleanup", "pollWs", "cancelRest",
                 "pollRest", "sell", "closing", "closed"}

(* An emergency stop that ended on the answer "none open" over the          *)
(* connection left nothing behind: no order is open, and none waits in the  *)
(* send queue, which the query has passed through.  It takes the queue's    *)
(* order, which a failed send upsets (resent), and an engine                *)
(* that submits nothing any more (SilentOnceStopped).                       *)
EmptyMeansEmpty ==
    emg.pc \in {"selling", "empty", "stopped"} /\ ~resent /\ ~late =>
        ~opens /\ \A i \in DOMAIN sendq : sendq[i] \notin {"order", "boot"}

(* "The grid engine stops at once (generates no new order)": criterion 3 of *)
(* tests/test_emergency_stop.py, against what a bootstrap's report and the  *)
(* ends of initialize() and recover() still do.                             *)
SilentOnceStopped == ~late

(* A process that ended with REST at work has no order open, although the   *)
(* tasks that send and read were gone before the cleanup began, and an      *)
(* emergency stop may have been under way.                                  *)
ClosedClean ==
    main = "closed" /\ Action # "force_exit" /\ ~restFailed => ~opens

(* Nobody revives the bot: once its start is over and it is stopped, in an  *)
(* emergency or for good, it never runs or pauses again.  Before, the end   *)
(* of the start does: Recover and Initialize look at no status.             *)
StaysStopped ==
    [][(status \in Over /\ start = "done") => (status' \in Over)]_vars

(* A user stream nobody reads any more ends the bot: the watchdog does what *)
(* the stream's own reconnect does not.  Where an emergency stop has begun, *)
(* it has nothing left to do, be the bot revived or not.                    *)
DeafStreamEnds ==
    stream = "deaf" ~> (inProgress \/ status \in Ended \/ ~tasks)

(* A connection that stays silent is closed three times and then stopped.   *)
SilenceEnds == (<>[]silent /\ []<>(net # "down")) => <>(status \in Ended \/ ~tasks)

(* With a connection again and again, an emergency stop comes to an end:    *)
(* stopped, or reported as incomplete.                                      *)
EmergencyComesToEnd ==
    []<>(net # "down") =>
      (emg.pc = "sleep" ~> \/ emg.pc \in {"stopped", "restStopped", "incomplete"}
                           \/ main = "closed")
=============================================================================
