----------------------------- MODULE ModbusMotor -----------------------------
(***************************************************************************)
(* A MightyZap motor behind a serial line: the session that owns the port  *)
(* (io/serial_session.py), what its parser accepts (io/modbus_framing.py), *)
(* the adapter (plugins/mightyzap_modbus/adapter.py), and as much of the   *)
(* TargetRunner as gives its commands to it (see DeviceRuntime).           *)
(*                                                                         *)
(* Coroutines of the loop put transactions into a queue and wait for a     *)
(* future each; a worker thread takes one after the other, and hands what  *)
(* it read back to the loop.  Modbus RTU has no transaction number: an     *)
(* answer that is late stands in the input buffer of some later            *)
(* transaction.  Frames are seen by what the parser looks at: an answer    *)
(* echoes a write, shows the registers, is a Modbus exception, or damaged. *)
(***************************************************************************)
EXTENDS Naturals, Sequences, Functions

CONSTANTS
  Moves,      \* commands that move the motor
  Controls,   \* commands that stop or restart it
  ActionOf,   \* Controls -> {"stop", "restart"}
  GoalOf,     \* Moves -> the position asked for, zero is where the motor starts
  MaxFaults,  \* bound of what goes wrong on the line, in the port, the motor
  None        \* no command, no transaction

Commands == Moves \cup Controls
Jobs == Commands \cup {"force", "poll"}

ASSUME MotorAssumption ==
  /\ Moves \cap Controls = {}
  /\ Commands \cap {"force", "poll", "close", "idle", "ended"} = {}
  /\ ActionOf \in [Controls -> {"stop", "restart"}]
  /\ GoalOf \in [Moves -> Nat]
  /\ MaxFaults \in Nat
  /\ None \notin Jobs

VARIABLES
  registers,  \* of the motor: goal, position, moving, error
  coming,     \* answers in the port's input buffer and on their way, in order
  faults,     \* how much has gone wrong
  queue,      \* ModbusSerialSession._queue, "close" is its None
  worker,     \* the transaction of the thread, "idle" or "ended"
  results,    \* call_soon_threadsafe: what the loop has still to resolve
  future,     \* of each transaction: none, pending, done, cancelled
  poll,       \* the adapter's connect and poll loop
  shown,      \* what the adapter believes: moving, alarm, connected
  status,     \* of each command
  generation, \* TargetRunner.execution_generation
  stamped,    \* the execution_generation of each command, 0 before it is accepted
  active,     \* TargetRunner._active
  carried     \* the writes the motor has carried out, in order

lineVars   == <<registers, coming, faults, carried>>
threadVars == <<queue, worker, results>>
runnerVars == <<status, generation, stamped, active>>
vars == <<lineVars, threadVars, future, poll, shown, runnerVars>>

-----------------------------------------------------------------------------
\* Frames.

\* Register and value of a write request.
Request(j) ==
  CASE j \in Moves -> <<"GOAL_POSITION", GoalOf[j]>>
    [] j \in Controls /\ ActionOf[j] = "stop" -> <<"ACTUATOR_STOP", 1>>
    [] j \in Controls /\ ActionOf[j] = "restart" -> <<"RESTART", 1>>
    [] j = "force" -> <<"FORCE_ON_OFF", 1>>

Echo(j) == [kind |-> "echo", write |-> Request(j)]
Shows(regs) == [kind |-> "registers", moving |-> regs.moving, error |-> regs.error]
Exception == [kind |-> "exception"]
Damaged == [kind |-> "damaged"]
Nothing == [kind |-> "short"]

Answers ==
  {Exception, Damaged, Nothing} \cup {Echo(j) : j \in Jobs \ {"poll"}}
    \cup [kind : {"registers"}, moving : BOOLEAN, error : BOOLEAN]

\* (mutant of Parses: any well-formed answer to a write is its echo)
ParsesAnyEcho(j, answer) ==
  IF j = "poll" THEN answer.kind = "registers" ELSE answer.kind = "echo"

\* Slave, CRC, function code, length and, for a write, address and value.
Parses(j, answer) ==
  IF j = "poll" THEN answer.kind = "registers"
                ELSE answer.kind = "echo" /\ answer = Echo(j)

-----------------------------------------------------------------------------
\* The motor.

Goes(regs, write) ==
  CASE write[1] = "GOAL_POSITION" ->
         [regs EXCEPT !.goal = write[2], !.moving = ~regs.error /\ regs.position # write[2]]
    [] write[1] = "ACTUATOR_STOP" -> [regs EXCEPT !.goal = regs.position, !.moving = FALSE]
    [] write[1] = "RESTART" -> [regs EXCEPT !.error = FALSE]
    [] write[1] = "FORCE_ON_OFF" -> regs

Arrive ==
  /\ registers.moving
  /\ registers' = [registers EXCEPT !.position = registers.goal, !.moving = FALSE]
  /\ UNCHANGED <<coming, faults, carried, threadVars, future, poll, shown, runnerVars>>

Fault == faults < MaxFaults /\ faults' = faults + 1

HardwareError ==
  /\ Fault
  /\ registers' = [registers EXCEPT !.error = TRUE, !.moving = FALSE]
  /\ UNCHANGED <<coming, carried, threadVars, future, poll, shown, runnerVars>>

-----------------------------------------------------------------------------
\* The worker thread (_worker, _transact).

\* What comes of a request: the motor carries it out and answers, the answer
\* possibly damaged; it refuses; or it never gets it.
Delivered(j, answer, before) ==
  /\ IF j = "poll" THEN UNCHANGED <<registers, carried>>
                   ELSE /\ registers' = Goes(registers, Request(j))
                        /\ carried' = Append(carried, j)
  /\ coming' = Append(before, answer)

Transmit(j, before) ==
  \/ /\ Delivered(j, IF j = "poll" THEN Shows(registers) ELSE Echo(j), before)
     /\ UNCHANGED faults
  \/ Fault /\ Delivered(j, Damaged, before)
  \/ Fault /\ coming' = Append(before, Exception) /\ UNCHANGED <<registers, carried>>
  \/ Fault /\ coming' = before /\ UNCHANGED <<registers, carried>>

\* reset_input_buffer forgets what has arrived, not what is still on its way.
StillComing == {SubSeq(coming, n, Len(coming)) : n \in 1..(Len(coming) + 1)}

\* (mutant of TakeJob: the newest transaction first)
TakeNewest ==
  LET last == queue[Len(queue)]
  IN  /\ worker = "idle" /\ queue # <<>> /\ last # "close"
      /\ queue' = SubSeq(queue, 1, Len(queue) - 1)
      /\ worker' = last
      /\ \E before \in StillComing : Transmit(last, before)
      /\ UNCHANGED <<results, future, poll, shown, runnerVars>>

TakeJob ==
  /\ worker = "idle" /\ queue # <<>> /\ Head(queue) # "close"
  /\ queue' = Tail(queue)
  /\ worker' = Head(queue)
  /\ \E before \in StillComing : Transmit(Head(queue), before)
  /\ UNCHANGED <<results, future, poll, shown, runnerVars>>

Busy == worker \notin {"idle", "ended"}

Hand(answer) ==
  /\ results' = Append(results, [job |-> worker, answer |-> answer])
  /\ worker' = "idle"
  /\ UNCHANGED <<queue, future, poll, shown, runnerVars>>

\* The first answer that comes is taken for the answer.
ReadAnswer ==
  /\ Busy /\ coming # <<>>
  /\ Hand(Head(coming))
  /\ coming' = Tail(coming)
  /\ UNCHANGED <<registers, faults, carried>>

\* read() returns too few bytes: nothing is coming, or not within the timeout.
ReadTimesOut ==
  /\ Busy
  /\ IF coming = <<>> THEN UNCHANGED faults ELSE Fault
  /\ Hand(Nothing)
  /\ UNCHANGED <<registers, coming, carried>>

\* (mutant of PortRaises: the thread ends with the exception)
PortRaisesThrough ==
  /\ Busy /\ Fault
  /\ worker' = "ended"
  /\ UNCHANGED <<registers, coming, carried, queue, results, future, poll, shown, runnerVars>>

\* The port raises; the exception goes to the future, the thread goes on.
PortRaises ==
  /\ Busy /\ Fault
  /\ Hand(Exception)
  /\ UNCHANGED <<registers, coming, carried>>

WorkerEnds ==
  /\ worker = "idle" /\ queue # <<>> /\ Head(queue) = "close"
  /\ worker' = "ended"
  /\ queue' = Tail(queue)
  /\ UNCHANGED <<lineVars, results, future, poll, shown, runnerVars>>

\* The session belongs to whoever opened it, and outlives the adapter's use of it.
Close ==
  /\ poll = "off" /\ worker # "ended" /\ "close" \notin Range(queue)
  /\ queue' = Append(queue, "close")
  /\ UNCHANGED <<lineVars, worker, results, future, poll, shown, runnerVars>>

-----------------------------------------------------------------------------
\* The loop: _submit, and _resolve_result with the coroutine it wakes up.

Submit(j) ==
  /\ queue' = Append(queue, j)
  /\ future' = [future EXCEPT ![j] = "pending"]
  /\ UNCHANGED <<worker, results>>

\* Completion of adapter.execute and what submit does next.
ExecuteReturns(c, ok) ==
  /\ status' = [status EXCEPT ![c] = IF ~ok THEN "FAILED"
                                     ELSE IF c \in Moves THEN "observing" ELSE "SUCCEEDED"]
  /\ active' = IF status'[c] # "observing" /\ active = c THEN None ELSE active
  /\ UNCHANGED <<generation, stamped, poll, shown>>

\* (mutant of PollReturns: the connection is only noted by connect)
PollNotesLossOnly(answer, ok) ==
  /\ shown' = IF ok THEN [shown EXCEPT !.moving = answer.moving, !.alarm = answer.error]
                    ELSE [shown EXCEPT !.connected = FALSE]
  /\ poll' = "sleeping"
  /\ UNCHANGED runnerVars

\* _poll_once never raises: a failed read is a lost connection.
PollReturns(answer, ok) ==
  /\ shown' = IF ok THEN [moving |-> answer.moving, alarm |-> answer.error, connected |-> TRUE]
                    ELSE [shown EXCEPT !.connected = FALSE]
  /\ poll' = "sleeping"
  /\ UNCHANGED runnerVars

\* What the adapter tells of the motor; age and position are left out.
Snapshot ==
  [connection |-> IF shown.connected THEN "CONNECTED" ELSE "DISCONNECTED",
   moving |-> shown.moving, alarm |-> shown.alarm]

\* connect raises if force is not acknowledged, and nothing is started.
ForceReturns(ok) ==
  /\ poll' = IF ok THEN "first" ELSE "off"
  /\ UNCHANGED <<shown, runnerVars>>

\* A future that is done by now stays as it is.
Resolve ==
  /\ results # <<>>
  /\ LET j == Head(results).job
         answer == Head(results).answer
     IN  IF future[j] # "pending" THEN UNCHANGED <<future, poll, shown, runnerVars>>
         ELSE /\ future' = [future EXCEPT ![j] = "done"]
              /\ \/ j \in Commands /\ ExecuteReturns(j, Parses(j, answer))
                 \/ j = "poll" /\ PollReturns(answer, Parses(j, answer))
                 \/ j = "force" /\ ForceReturns(Parses(j, answer))
  /\ results' = Tail(results)
  /\ UNCHANGED <<lineVars, queue, worker>>

-----------------------------------------------------------------------------
\* The adapter's connection and its poll loop.

Connect ==
  /\ poll = "new"
  /\ Submit("force")
  /\ poll' = "forcing"
  /\ UNCHANGED <<lineVars, shown, runnerVars>>

Poll ==
  /\ poll \in {"first", "sleeping"}
  /\ Submit("poll")
  /\ poll' = "polling"
  /\ UNCHANGED <<lineVars, shown, runnerVars>>

\* disconnect cancels the poll task; what it has queued stays queued.
Disconnect ==
  /\ poll \in {"sleeping", "polling"}
  /\ poll' = "off"
  /\ future' = IF poll = "polling" THEN [future EXCEPT !["poll"] = "cancelled"] ELSE future
  /\ UNCHANGED <<lineVars, threadVars, shown, runnerVars>>

-----------------------------------------------------------------------------
\* Commands (TargetRunner.submit and _observe with this adapter).

Live(c) == status[c] \in {"executing", "observing"}
RunnerBusy == active # None /\ Live(active)

\* A control command preempts whatever is live.  A move into an alarm that is
\* known is refused before anything is written.
Start(c) ==
  /\ status[c] = "new"
  /\ poll \notin {"new", "forcing", "first"}
  /\ ~RunnerBusy \/ c \in Controls
  /\ generation' = IF RunnerBusy THEN generation + 1 ELSE generation
  /\ stamped' = [stamped EXCEPT ![c] = generation']
  /\ IF c \in Moves /\ shown.alarm
     THEN /\ status' = [status EXCEPT ![c] = "FAILED"]
          /\ active' = None
          /\ UNCHANGED <<threadVars, future>>
     ELSE /\ status' = [status EXCEPT ![c] = "executing"]
          /\ active' = c
          /\ Submit(c)
  /\ UNCHANGED <<lineVars, poll, shown>>

Conclude(c, outcome) ==
  /\ status' = [status EXCEPT ![c] = outcome]
  /\ active' = IF active = c THEN None ELSE active
  /\ UNCHANGED <<registers, coming, carried, threadVars, poll, shown, generation, stamped>>

\* The task that awaits execute is cancelled; its transaction goes on.
ExecuteCancelled(c) ==
  /\ status[c] = "executing"
  /\ Fault
  /\ future' = [future EXCEPT ![c] = "cancelled"]
  /\ Conclude(c, "CANCELLED")

\* is_action_complete looks at what the last poll has shown.
Observe(c) ==
  /\ status[c] = "observing"
  /\ \/ stamped[c] # generation /\ Conclude(c, "CANCELLED")
     \/ stamped[c] = generation /\ ~shown.moving /\ Conclude(c, "SUCCEEDED")
  /\ UNCHANGED <<faults, future>>

ObserveExpires(c) ==
  /\ status[c] = "observing"
  /\ Conclude(c, "EXPIRED")
  /\ UNCHANGED <<faults, future>>

-----------------------------------------------------------------------------
LineInit ==
  /\ registers = [goal |-> 0, position |-> 0, moving |-> FALSE, error |-> FALSE]
  /\ coming = <<>> /\ faults = 0 /\ carried = <<>>

SessionInit ==
  /\ queue = <<>> /\ worker = "idle" /\ results = <<>>
  /\ future = [j \in Jobs |-> "none"]

AdapterInit ==
  /\ poll = "new"
  /\ shown = [moving |-> FALSE, alarm |-> FALSE, connected |-> FALSE]

Init ==
  /\ LineInit /\ SessionInit /\ AdapterInit
  /\ status = [c \in Commands |-> "new"]
  /\ generation = 1 /\ stamped = [c \in Commands |-> 0] /\ active = None

Motor == Arrive \/ HardwareError
Thread == TakeJob \/ ReadAnswer \/ ReadTimesOut \/ PortRaises \/ WorkerEnds
Adapter == Connect \/ Poll \/ Disconnect \/ Close \/ Resolve
Runner(c) == Start(c) \/ ExecuteCancelled(c) \/ Observe(c) \/ ObserveExpires(c)

Next == Motor \/ Thread \/ Adapter \/ \E c \in Commands : Runner(c)

\* The thread and the loop run, a read ends by its timeout, and the poll loop wakes
\* up.  The motor may be blocked; nobody need disconnect.
Fairness ==
  /\ WF_vars(TakeJob \/ WorkerEnds)
  /\ WF_vars(ReadAnswer \/ ReadTimesOut)
  /\ WF_vars(Resolve)
  /\ WF_vars(Poll)

Spec == Init /\ [][Next]_vars /\ Fairness

-----------------------------------------------------------------------------
TypeOK ==
  /\ registers \in [goal : Nat, position : Nat, moving : BOOLEAN, error : BOOLEAN]
  /\ coming \in Seq(Answers)
  /\ faults \in 0..MaxFaults
  /\ carried \in Seq(Jobs \ {"poll"})
  /\ queue \in Seq(Jobs \cup {"close"})
  /\ worker \in Jobs \cup {"idle", "ended"}
  /\ results \in Seq([job : Jobs, answer : Answers])
  /\ future \in [Jobs -> {"none", "pending", "done", "cancelled"}]
  /\ poll \in {"new", "forcing", "first", "polling", "sleeping", "off"}
  /\ shown \in [moving : BOOLEAN, alarm : BOOLEAN, connected : BOOLEAN]
  /\ status \in [Commands -> {"new", "executing", "observing", "SUCCEEDED", "FAILED",
                              "CANCELLED", "EXPIRED"}]
  /\ generation \in Nat /\ stamped \in [Commands -> 0..generation]
  /\ active \in Commands \cup {None}

\* A command that got past its acknowledgement was carried out by the motor:
\* whatever answers were lost, late or damaged, an echo that the parser accepted
\* is that of the same write (modbus_framing.py:111).
AcknowledgedIsCarried ==
  \A c \in Commands :
    status[c] \in {"observing", "SUCCEEDED", "EXPIRED"} =>
      \E i \in DOMAIN carried : Request(carried[i]) = Request(c)

\* What the runner and the adapter believe of a write is true of the motor.
WriteInv == TypeOK /\ AcknowledgedIsCarried

\* What a control command has overtaken in the runner has not overtaken it on the
\* line: once the stop is carried out, the move it preempted, which has an earlier
\* execution_generation, will not be (target_runner.py:74-80, serial_session.py:93).
PreemptedStaysPreempted ==
  [][\A i \in DOMAIN carried' \ DOMAIN carried :
       ~\E k \in DOMAIN carried :
           /\ {carried[k], carried'[i]} \subseteq Commands
           /\ stamped[carried[k]] > stamped[carried'[i]]]_vars

\* The worker thread answers every transaction that was queued before the session
\* was closed, whatever the port and the motor do (serial_session.py:96-105).
Accepted(j) ==
  \/ worker = j
  \/ \E i \in DOMAIN queue : queue[i] = j /\ \A k \in 1..i : queue[k] # "close"

EveryWaiterAnswered ==
  \A j \in Jobs :
    (future[j] = "pending" /\ worker # "ended" /\ Accepted(j)) ~> (future[j] # "pending")

\* As long as the adapter polls an open session, what it shows comes to agree with
\* the motor: no failed poll ends the poll loop (adapter.py:206-224).
ShownConverges ==
  <>[](poll \in {"first", "polling", "sleeping"} /\ "close" \notin Range(queue) /\ worker # "ended")
    => <>[](Snapshot = [connection |-> "CONNECTED",
                        moving |-> registers.moving, alarm |-> registers.error])

\* A move that ends successfully has ended: the motor is not on its way.  Stated
\* by docs/Fusion_New_Development_Spec_v1.0.md:185; the code completes the move on
\* the poll before it (adapter.py:176).
ObservedHasArrived ==
  [][\A c \in Moves :
       status[c] # "SUCCEEDED" /\ status'[c] = "SUCCEEDED" => ~registers.moving]_vars
=============================================================================
