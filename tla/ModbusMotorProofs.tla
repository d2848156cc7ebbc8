-------------------------- MODULE ModbusMotorProofs --------------------------
(***************************************************************************)
(* Theorems about ModbusMotor, for any commands and goals, and however     *)
(* often the line, the port and the motor fail.                            *)
(***************************************************************************)
EXTENDS ModbusMotor, Integers, SequenceTheorems, TLAPS

USE DEF lineVars, threadVars, runnerVars

\* A write that is among those carried out.
Carried(write, writes) == \E i \in DOMAIN writes : Request(writes[i]) = write

\* Every echo on the line, or on its way to the loop, is that of a write the motor has
\* carried out.
EchoesAreTrue ==
  /\ \A i \in DOMAIN coming : coming[i].kind = "echo" => Carried(coming[i].write, carried)
  /\ \A i \in DOMAIN results :
       results[i].answer.kind = "echo" => Carried(results[i].answer.write, carried)

\* What is queued or carried out was accepted: it has its stamp.
Stamped(j, states) == j \in Commands => states[j] # "new"

\* Of two transactions, the second was accepted no earlier.
InOrder(i, j, stamps) == i \in Commands /\ j \in Commands => stamps[i] <= stamps[j]

\* The line carries out writes in the order in which the runner accepted them.
QueuesAreOrdered ==
  /\ \A i \in DOMAIN carried : Stamped(carried[i], status)
  /\ \A i \in DOMAIN queue : Stamped(queue[i], status)
  /\ \A i \in DOMAIN carried : \A k \in DOMAIN queue : InOrder(carried[i], queue[k], stamped)
  /\ \A i \in DOMAIN queue : \A k \in i..Len(queue) : InOrder(queue[i], queue[k], stamped)
  /\ \A i \in DOMAIN carried : \A k \in i..Len(carried) : InOrder(carried[i], carried[k], stamped)

IInv == TypeOK /\ AcknowledgedIsCarried /\ EchoesAreTrue /\ QueuesAreOrdered

-----------------------------------------------------------------------------
LEMMA MotorJobs ==
  /\ Commands \subseteq Jobs /\ {"force", "poll"} \subseteq Jobs
  /\ "idle" \notin Jobs /\ "ended" \notin Jobs /\ "close" \notin Jobs
  /\ "force" \notin Commands /\ "poll" \notin Commands
BY MotorAssumption DEF Jobs

\* TypeOK, as far as the sequences go.
LEMMA MotorTypes ==
  TypeOK =>
    /\ coming \in Seq(Answers) /\ Len(coming) \in Nat
    /\ carried \in Seq(Jobs \ {"poll"}) /\ Len(carried) \in Nat
    /\ queue \in Seq(Jobs \cup {"close"}) /\ Len(queue) \in Nat
    /\ results \in Seq([job : Jobs, answer : Answers]) /\ Len(results) \in Nat
    /\ generation \in Nat /\ stamped \in [Commands -> 0..generation]
    /\ faults \in Int /\ MaxFaults \in Int /\ faults >= 0 /\ faults <= MaxFaults
BY MotorAssumption DEF TypeOK

\* The frames.
LEMMA AnswerTypes ==
  /\ Exception \in Answers /\ Damaged \in Answers /\ Nothing \in Answers
  /\ Exception.kind # "echo" /\ Damaged.kind # "echo" /\ Nothing.kind # "echo"
  /\ \A j \in Jobs \ {"poll"} : Echo(j) \in Answers /\ Echo(j).write = Request(j)
  /\ \A regs \in [goal : Nat, position : Nat, moving : BOOLEAN, error : BOOLEAN] :
       Shows(regs) \in Answers /\ Shows(regs).kind # "echo"
<1>1. ASSUME NEW regs \in [goal : Nat, position : Nat, moving : BOOLEAN, error : BOOLEAN]
      PROVE  Shows(regs) \in Answers /\ Shows(regs).kind # "echo"
  BY DEF Answers, Shows
<1>2. /\ Exception \in Answers /\ Damaged \in Answers /\ Nothing \in Answers
      /\ Exception.kind # "echo" /\ Damaged.kind # "echo" /\ Nothing.kind # "echo"
  BY DEF Answers, Exception, Damaged, Nothing
<1>3. \A j \in Jobs \ {"poll"} : Echo(j) \in Answers /\ Echo(j).write = Request(j)
  BY DEF Answers, Echo
<1> QED
  BY <1>1, <1>2, <1>3

\* reset_input_buffer leaves answers that were on their way.
LEMMA BeforeIs ==
  ASSUME TypeOK, NEW before \in StillComing
  PROVE  /\ before \in Seq(Answers) /\ Len(before) \in Nat
         /\ \A i \in DOMAIN before : \E k \in DOMAIN coming : before[i] = coming[k]
<1>1. PICK n \in 1..(Len(coming) + 1) : before = SubSeq(coming, n, Len(coming))
  BY DEF StillComing
<1>2. coming \in Seq(Answers) /\ Len(coming) \in Nat /\ n \in Int
  BY MotorTypes
<1>3. /\ before \in Seq(Answers) /\ Len(before) = Len(coming) - n + 1
      /\ \A i \in 1..(Len(coming) - n + 1) : before[i] = coming[n + i - 1]
  BY <1>1, <1>2, SubSeqProperties
<1>4. ASSUME NEW i \in DOMAIN before
      PROVE  \E k \in DOMAIN coming : before[i] = coming[k]
  <2>1. i \in 1..(Len(coming) - n + 1)
    BY <1>3
  <2>2. n + i - 1 \in 1..Len(coming)
    BY <2>1, <1>1, <1>2
  <2> QED
    BY <2>1, <2>2, <1>2, <1>3
<1> QED
  BY <1>1, <1>2, <1>3, <1>4

\* A request changes the motor and what is carried out together.
LEMMA DeliveredIs ==
  ASSUME TypeOK, NEW j \in Jobs, NEW answer, NEW before, Delivered(j, answer, before)
  PROVE  /\ registers' \in [goal : Nat, position : Nat, moving : BOOLEAN, error : BOOLEAN]
         /\ \/ j = "poll" /\ UNCHANGED carried
            \/ j # "poll" /\ carried' = Append(carried, j)
         /\ coming' = Append(before, answer)
<1>1. registers \in [goal : Nat, position : Nat, moving : BOOLEAN, error : BOOLEAN]
  BY DEF TypeOK
<1>2. CASE j = "poll"
  BY <1>1, <1>2 DEF Delivered
<1>3. CASE j # "poll"
  <2> DEFINE w == Request(j)
  <2>1. /\ w[1] \in {"GOAL_POSITION", "ACTUATOR_STOP", "RESTART", "FORCE_ON_OFF"}
        /\ w[1] = "GOAL_POSITION" => w[2] \in Nat
    <3>1. CASE j \in Moves
      BY <3>1, MotorAssumption DEF Request, Jobs, Commands
    <3>2. CASE j \in Controls
      <4>1. j \notin Moves /\ ActionOf[j] \in {"stop", "restart"}
        BY <3>2, MotorAssumption
      <4> QED
        BY <3>2, <4>1 DEF Request
    <3>3. CASE j = "force"
      BY <3>3, MotorJobs DEF Request, Commands
    <3> QED
      BY <1>3, <3>1, <3>2, <3>3 DEF Jobs, Commands
  <2>2. /\ registers' = Goes(registers, w) /\ carried' = Append(carried, j)
        /\ coming' = Append(before, answer)
    BY <1>3 DEF Delivered
  <2> HIDE DEF w
  <2>3. Goes(registers, w) \in [goal : Nat, position : Nat, moving : BOOLEAN, error : BOOLEAN]
    BY <1>1, <2>1 DEF Goes
  <2> QED
    BY <1>3, <2>2, <2>3
<1> QED
  BY <1>2, <1>3

\* A transaction leaves only true echoes on the line.
LEMMA TransmitIs ==
  ASSUME TypeOK, EchoesAreTrue, NEW j \in Jobs, NEW before \in StillComing, Transmit(j, before)
  PROVE  /\ registers' \in [goal : Nat, position : Nat, moving : BOOLEAN, error : BOOLEAN]
         /\ faults' \in 0..MaxFaults /\ coming' \in Seq(Answers)
         /\ carried' = carried \/ (j # "poll" /\ carried' = Append(carried, j))
         /\ \A i \in DOMAIN coming' : coming'[i].kind = "echo" => Carried(coming'[i].write, carried')
<1>a. /\ registers \in [goal : Nat, position : Nat, moving : BOOLEAN, error : BOOLEAN]
      /\ carried \in Seq(Jobs \ {"poll"})
  BY DEF TypeOK
<1>b. /\ before \in Seq(Answers) /\ Len(before) \in Nat
      /\ \A i \in DOMAIN before : before[i].kind = "echo" => Carried(before[i].write, carried)
  BY BeforeIs DEF EchoesAreTrue
<1>c. faults' \in 0..MaxFaults
  BY MotorTypes DEF Transmit, Fault
<1>1. ASSUME NEW answer \in Answers, Delivered(j, answer, before),
             answer.kind = "echo" => j # "poll" /\ answer.write = Request(j)
      PROVE  /\ registers' \in [goal : Nat, position : Nat, moving : BOOLEAN, error : BOOLEAN]
             /\ coming' \in Seq(Answers)
             /\ carried' = carried \/ (j # "poll" /\ carried' = Append(carried, j))
             /\ \A i \in DOMAIN coming' :
                  coming'[i].kind = "echo" => Carried(coming'[i].write, carried')
  <2>1. /\ registers' \in [goal : Nat, position : Nat, moving : BOOLEAN, error : BOOLEAN]
        /\ \/ j = "poll" /\ UNCHANGED carried
           \/ j # "poll" /\ carried' = Append(carried, j)
        /\ coming' = Append(before, answer)
    BY <1>1, DeliveredIs
  <2>2. /\ coming' \in Seq(Answers) /\ DOMAIN coming' = 1..(Len(before) + 1)
        /\ \A i \in DOMAIN before : coming'[i] = before[i]
        /\ coming'[Len(before) + 1] = answer /\ DOMAIN before = 1..Len(before)
    BY <2>1, <1>b, AppendProperties
  <2>3. /\ j # "poll" => j \in Jobs \ {"poll"}
        /\ \A i \in DOMAIN carried : i \in DOMAIN carried' /\ carried'[i] = carried[i]
    <3>1. j # "poll" => j \in Jobs \ {"poll"}
      OBVIOUS
    <3>2. CASE j = "poll"
      BY <3>1, <3>2, <2>1
    <3>3. CASE j # "poll"
      BY <3>1, <3>3, <2>1, <1>a, AppendProperties
    <3> QED
      BY <3>2, <3>3
  <2>4. j # "poll" => Len(carried) + 1 \in DOMAIN carried' /\ carried'[Len(carried) + 1] = j
    BY <2>1, <2>3, <1>a, AppendProperties
  <2>5. \A write : Carried(write, carried) => Carried(write, carried')
    BY <2>3 DEF Carried
  <2>6. j # "poll" => Carried(Request(j), carried')
    BY <2>4 DEF Carried
  <2>7. ASSUME NEW i \in DOMAIN coming', coming'[i].kind = "echo"
        PROVE  Carried(coming'[i].write, carried')
    <3>1. CASE i \in DOMAIN before
      BY <3>1, <2>2, <2>5, <2>7, <1>b
    <3>2. CASE i = Len(before) + 1
      BY <3>2, <2>2, <2>6, <2>7, <1>1
    <3> QED
      BY <3>1, <3>2, <2>2, <1>b
  <2> QED
    BY <2>1, <2>2, <2>7
<1>2. ASSUME UNCHANGED <<registers, carried>>, NEW answer \in Answers, answer.kind # "echo",
             coming' \in {before, Append(before, answer)}
      PROVE  /\ coming' \in Seq(Answers)
             /\ \A i \in DOMAIN coming' :
                  coming'[i].kind = "echo" => Carried(coming'[i].write, carried')
  <2>1. \A write : Carried(write, carried) => Carried(write, carried')
    BY <1>2 DEF Carried
  <2>2. CASE coming' = before
    BY <2>1, <2>2, <1>b
  <2>3. CASE coming' = Append(before, answer)
    <3>1. /\ coming' \in Seq(Answers) /\ DOMAIN coming' = 1..(Len(before) + 1)
          /\ \A i \in DOMAIN before : coming'[i] = before[i]
          /\ coming'[Len(before) + 1] = answer /\ DOMAIN before = 1..Len(before)
      BY <2>3, <1>b, AppendProperties
    <3>2. ASSUME NEW i \in DOMAIN coming', coming'[i].kind = "echo"
          PROVE  i \in DOMAIN before
      BY <3>1, <3>2, <1>2, <1>b
    <3> QED
      BY <3>1, <3>2, <2>1, <1>b
  <2> QED
    BY <1>2, <2>2, <2>3
<1>3. CASE Delivered(j, IF j = "poll" THEN Shows(registers) ELSE Echo(j), before)
  <2>1. CASE j = "poll"
    BY <2>1, <1>3, <1>1, <1>a, <1>c, AnswerTypes
  <2>2. CASE j # "poll"
    BY <2>2, <1>3, <1>1, <1>c, AnswerTypes
  <2> QED
    BY <2>1, <2>2
<1>4. CASE Delivered(j, Damaged, before)
  BY <1>4, <1>1, <1>c, AnswerTypes
<1>5. CASE coming' \in {before, Append(before, Exception)} /\ UNCHANGED <<registers, carried>>
  BY <1>5, <1>2, <1>a, <1>c, AnswerTypes
<1> QED
  BY <1>3, <1>4, <1>5 DEF Transmit

\* The thread takes the oldest transaction, and only the thread has writes carried out.
LEMMA TakeIs ==
  ASSUME TypeOK, EchoesAreTrue, TakeJob
  PROVE  /\ Head(queue) \in Jobs /\ Head(queue) = queue[1] /\ queue # <<>>
         /\ queue' \in Seq(Jobs \cup {"close"}) /\ Len(queue') = Len(queue) - 1
         /\ \A i \in DOMAIN queue' : queue'[i] = queue[i + 1] /\ i + 1 \in DOMAIN queue
         /\ registers' \in [goal : Nat, position : Nat, moving : BOOLEAN, error : BOOLEAN]
         /\ faults' \in 0..MaxFaults /\ coming' \in Seq(Answers)
         /\ \/ carried' = carried
            \/ Head(queue) # "poll" /\ carried' = Append(carried, Head(queue))
         /\ \A i \in DOMAIN coming' :
              coming'[i].kind = "echo" => Carried(coming'[i].write, carried')
         /\ worker' = Head(queue)
         /\ UNCHANGED <<results, future, poll, shown, runnerVars>>
<1>1. queue \in Seq(Jobs \cup {"close"}) /\ queue # <<>> /\ Head(queue) # "close"
  BY MotorTypes DEF TakeJob
<1>2. Head(queue) = queue[1] /\ Head(queue) \in Jobs /\ Len(queue) \in Nat /\ Len(queue) > 0
  BY <1>1, HeadTailProperties, EmptySeq
<1>3. /\ queue' = Tail(queue) /\ worker' = Head(queue)
      /\ UNCHANGED <<results, future, poll, shown, runnerVars>>
  BY DEF TakeJob
<1>4. /\ queue' \in Seq(Jobs \cup {"close"}) /\ Len(queue') = Len(queue) - 1
      /\ \A i \in 1..Len(queue') : queue'[i] = queue[i + 1]
  BY <1>1, <1>3, HeadTailProperties
<1>5. \A i \in DOMAIN queue' : queue'[i] = queue[i + 1] /\ i + 1 \in DOMAIN queue
  BY <1>1, <1>2, <1>4
<1>6. PICK before \in StillComing : Transmit(Head(queue), before)
  BY DEF TakeJob
<1> QED
  BY <1>1, <1>2, <1>3, <1>4, <1>5, <1>6, TransmitIs

\* Whatever is done, what was carried out was carried out.
LEMMA CarriedStays ==
  ASSUME IInv, [Next]_vars
  PROVE  /\ carried' = carried \/ (TakeJob /\ carried' = Append(carried, Head(queue)))
         /\ carried' \in Seq(Jobs \ {"poll"})
         /\ \A write : Carried(write, carried) => Carried(write, carried')
<1>a. TypeOK /\ EchoesAreTrue /\ carried \in Seq(Jobs \ {"poll"})
  BY MotorTypes DEF IInv
<1>1. carried' = carried \/ TakeJob
  BY DEF Next, Motor, Thread, Adapter, Runner, Arrive, HardwareError, ReadAnswer, ReadTimesOut,
         PortRaises, WorkerEnds, Connect, Poll, Disconnect, Close, Resolve, Start,
         ExecuteCancelled, Observe, ObserveExpires, Conclude, vars
<1>2. CASE carried' = carried
  BY <1>a, <1>2
<1>3. ASSUME TakeJob, carried' # carried
      PROVE  /\ carried' = Append(carried, Head(queue)) /\ carried' \in Seq(Jobs \ {"poll"})
             /\ \A i \in DOMAIN carried : i \in DOMAIN carried' /\ carried'[i] = carried[i]
  <2>1. carried' = Append(carried, Head(queue)) /\ Head(queue) \in Jobs \ {"poll"}
    BY <1>3, <1>a, TakeIs
  <2> QED
    BY <2>1, <1>a, AppendProperties
<1>4. CASE TakeJob /\ carried' # carried
  BY <1>3, <1>4 DEF Carried
<1> QED
  BY <1>1, <1>2, <1>3, <1>4

\* What Submit puts into the queue is behind all that was there.
LEMMA SubmitIs ==
  ASSUME TypeOK, NEW j \in Jobs \cup {"close"}, queue' = Append(queue, j)
  PROVE  /\ queue' \in Seq(Jobs \cup {"close"}) /\ Len(queue') = Len(queue) + 1
         /\ \A i \in DOMAIN queue : queue'[i] = queue[i]
         /\ queue'[Len(queue) + 1] = j
         /\ DOMAIN queue = 1..Len(queue) /\ DOMAIN queue' = 1..(Len(queue) + 1)
<1>1. queue \in Seq(Jobs \cup {"close"})
  BY MotorTypes
<1> QED
  BY <1>1, AppendProperties

\* Every step keeps the types and the bounds.
LEMMA TypeStep == IInv /\ [Next]_vars => TypeOK'
<1> SUFFICES ASSUME IInv, [Next]_vars PROVE TypeOK'
  OBVIOUS
<1>a. TypeOK /\ EchoesAreTrue
  BY DEF IInv
<1>b. /\ queue \in Seq(Jobs \cup {"close"}) /\ results \in Seq([job : Jobs, answer : Answers])
      /\ coming \in Seq(Answers) /\ generation \in Nat
      /\ stamped \in [Commands -> 0..generation]
  BY <1>a, MotorTypes
<1>c. Fault => faults' \in 0..MaxFaults
  BY <1>a, MotorTypes DEF Fault
<1>1. CASE Arrive \/ HardwareError
  <2>1. registers' \in [goal : Nat, position : Nat, moving : BOOLEAN, error : BOOLEAN]
    BY <1>1, <1>a DEF Arrive, HardwareError, TypeOK
  <2>2. faults' \in 0..MaxFaults
    BY <1>1, <1>a, <1>c DEF Arrive, HardwareError, TypeOK
  <2>3. UNCHANGED <<coming, carried, threadVars, future, poll, shown, runnerVars>>
    BY <1>1 DEF Arrive, HardwareError
  <2> QED
    BY <2>1, <2>2, <2>3, <1>a DEF TypeOK
<1>2. CASE TakeJob
  <2>1. /\ Head(queue) \in Jobs /\ queue' \in Seq(Jobs \cup {"close"})
        /\ registers' \in [goal : Nat, position : Nat, moving : BOOLEAN, error : BOOLEAN]
        /\ faults' \in 0..MaxFaults /\ coming' \in Seq(Answers) /\ worker' = Head(queue)
        /\ UNCHANGED <<results, future, poll, shown, runnerVars>>
    BY <1>2, <1>a, TakeIs
  <2>2. carried' \in Seq(Jobs \ {"poll"})
    BY CarriedStays
  <2> QED
    BY <2>1, <2>2, <1>a DEF TypeOK
<1>3. ASSUME NEW answer \in Answers, Busy, Hand(answer),
             coming' \in Seq(Answers), faults' \in 0..MaxFaults, UNCHANGED <<registers, carried>>
      PROVE  TypeOK'
  <2>1. [job |-> worker, answer |-> answer] \in [job : Jobs, answer : Answers]
    BY <1>3, <1>a DEF Busy, TypeOK
  <2>2. results' \in Seq([job : Jobs, answer : Answers])
    BY <2>1, <1>3, <1>b, AppendProperties DEF Hand
  <2> QED
    BY <2>2, <1>3, <1>a DEF Hand, TypeOK
<1>4. CASE ReadAnswer
  <2>1. Head(coming) \in Answers /\ coming' \in Seq(Answers)
    BY <1>4, <1>b, HeadTailProperties DEF ReadAnswer
  <2>2. faults' \in 0..MaxFaults
    BY <1>4, <1>a DEF ReadAnswer, TypeOK
  <2> QED
    BY <2>1, <2>2, <1>3, <1>4 DEF ReadAnswer
<1>5. CASE ReadTimesOut \/ PortRaises
  <2>1. faults' \in 0..MaxFaults /\ coming' \in Seq(Answers)
    BY <1>5, <1>a, <1>b, <1>c DEF ReadTimesOut, PortRaises, TypeOK
  <2> QED
    BY <2>1, <1>3, <1>5, AnswerTypes DEF ReadTimesOut, PortRaises
<1>6. CASE WorkerEnds
  <2>1. queue' \in Seq(Jobs \cup {"close"})
    BY <1>6, <1>b, HeadTailProperties DEF WorkerEnds
  <2> QED
    BY <2>1, <1>6, <1>a DEF WorkerEnds, TypeOK
<1>7. CASE Close \/ Connect \/ Poll \/ Disconnect
  <2>1. queue' \in Seq(Jobs \cup {"close"})
    BY <1>7, <1>a, <1>b, SubmitIs, MotorJobs DEF Close, Connect, Poll, Submit, Disconnect
  <2> QED
    BY <2>1, <1>7, <1>a, MotorJobs DEF Close, Connect, Poll, Submit, Disconnect, TypeOK
<1>8. CASE Resolve
  <2> DEFINE j == Head(results).job
             answer == Head(results).answer
  <2>1. /\ j \in Jobs /\ answer \in Answers
        /\ results' \in Seq([job : Jobs, answer : Answers])
    <3>1. Head(results) \in [job : Jobs, answer : Answers]
      BY <1>8, <1>b, HeadTailProperties DEF Resolve
    <3> QED
      BY <3>1, <1>8, <1>b, HeadTailProperties DEF Resolve
  <2>2. /\ UNCHANGED <<lineVars, queue, worker, generation, stamped>>
        /\ future' \in [Jobs -> {"none", "pending", "done", "cancelled"}]
        /\ poll' \in {poll, "sleeping", "first", "off"}
    BY <2>1, <1>8, <1>a
       DEF Resolve, ExecuteReturns, PollReturns, ForceReturns, TypeOK
  <2>3. shown' \in [moving : BOOLEAN, alarm : BOOLEAN, connected : BOOLEAN]
    <3>1. answer.kind = "registers" => answer.moving \in BOOLEAN /\ answer.error \in BOOLEAN
      <4>1. CASE answer \in {Exception, Damaged, Nothing}
        BY <4>1 DEF Exception, Damaged, Nothing
      <4>2. CASE answer \in {Echo(k) : k \in Jobs \ {"poll"}}
        <5>1. PICK k \in Jobs \ {"poll"} : answer = Echo(k)
          BY <4>2
        <5>2. Echo(k).kind = "echo"
          BY DEF Echo
        <5> HIDE DEF answer
        <5> QED
          BY <5>1, <5>2
      <4>3. CASE answer \in [kind : {"registers"}, moving : BOOLEAN, error : BOOLEAN]
        BY <4>3
      <4> QED
        BY <2>1, <4>1, <4>2, <4>3 DEF Answers
    <3>2. shown' = shown \/ PollReturns(answer, Parses("poll", answer))
      BY <1>8 DEF Resolve, ExecuteReturns, ForceReturns
    <3>3. shown \in [moving : BOOLEAN, alarm : BOOLEAN, connected : BOOLEAN]
      BY <1>a DEF TypeOK
    <3> QED
      <4> HIDE DEF answer
      <4>1. CASE shown' = shown
        BY <3>3, <4>1
      <4>2. CASE PollReturns(answer, Parses("poll", answer)) /\ Parses("poll", answer)
        BY <3>1, <4>2 DEF PollReturns, Parses
      <4>3. CASE PollReturns(answer, Parses("poll", answer)) /\ ~Parses("poll", answer)
        BY <3>3, <4>3 DEF PollReturns
      <4> QED
        BY <3>2, <4>1, <4>2, <4>3
  <2>4. /\ status' \in [Commands -> {"new", "executing", "observing", "SUCCEEDED", "FAILED",
                                    "CANCELLED", "EXPIRED"}]
        /\ active' \in Commands \cup {None}
    BY <1>8, <1>a DEF Resolve, ExecuteReturns, PollReturns, ForceReturns, TypeOK
  <2> QED
    BY <2>1, <2>2, <2>3, <2>4, <1>a DEF TypeOK
<1>9. ASSUME NEW c \in Commands, Start(c) PROVE TypeOK'
  <2>1. /\ queue' = queue \/ queue' = Append(queue, c)
        /\ generation' \in {generation, generation + 1}
        /\ stamped' = [stamped EXCEPT ![c] = generation']
        /\ UNCHANGED <<lineVars, worker, results, poll, shown>>
    BY <1>9 DEF Start, Submit
  <2>2. queue' \in Seq(Jobs \cup {"close"})
    BY <2>1, <1>a, <1>b, SubmitIs, MotorJobs
  <2>3. generation' \in Nat /\ stamped' \in [Commands -> 0..generation']
    BY <2>1, <1>b
  <2>4. /\ status' \in [Commands -> {"new", "executing", "observing", "SUCCEEDED", "FAILED",
                                    "CANCELLED", "EXPIRED"}]
        /\ active' \in Commands \cup {None}
        /\ future' \in [Jobs -> {"none", "pending", "done", "cancelled"}]
    BY <1>9, <1>a DEF Start, Submit, TypeOK
  <2> QED
    BY <2>1, <2>2, <2>3, <2>4, <1>a DEF TypeOK
<1>10. ASSUME NEW c \in Commands, ExecuteCancelled(c) \/ Observe(c) \/ ObserveExpires(c)
       PROVE  TypeOK'
  BY <1>10, <1>a, <1>c DEF ExecuteCancelled, Observe, ObserveExpires, Conclude, TypeOK
<1>11. CASE UNCHANGED vars
  BY <1>11, <1>a DEF vars, TypeOK
<1> QED
  BY <1>1, <1>2, <1>4, <1>5, <1>6, <1>7, <1>8, <1>9, <1>10, <1>11
     DEF Next, Motor, Thread, Adapter, Runner

\* Every step keeps the echoes true: those that are put on the line, and those that the
\* thread hands to the loop.
LEMMA EchoStep == IInv /\ [Next]_vars => EchoesAreTrue'
<1> SUFFICES ASSUME IInv, [Next]_vars PROVE EchoesAreTrue'
  OBVIOUS
<1>a. TypeOK /\ EchoesAreTrue
  BY DEF IInv
<1>b. /\ results \in Seq([job : Jobs, answer : Answers]) /\ coming \in Seq(Answers)
      /\ \A write : Carried(write, carried) => Carried(write, carried')
  BY <1>a, CarriedStays, MotorTypes
<1>c. ASSUME NEW i \in DOMAIN results, results[i].answer.kind = "echo"
      PROVE  Carried(results[i].answer.write, carried')
  BY <1>a, <1>b, <1>c DEF EchoesAreTrue
<1>d. ASSUME NEW i \in DOMAIN coming, coming[i].kind = "echo"
      PROVE  Carried(coming[i].write, carried')
  BY <1>a, <1>b, <1>d DEF EchoesAreTrue
<1>1. CASE UNCHANGED <<coming, results>>
  BY <1>1, <1>c, <1>d DEF EchoesAreTrue
<1>2. CASE TakeJob
  <2>1. UNCHANGED results
        /\ \A i \in DOMAIN coming' :
             coming'[i].kind = "echo" => Carried(coming'[i].write, carried')
    BY <1>2, <1>a, TakeIs
  <2> QED
    BY <2>1, <1>c DEF EchoesAreTrue
<1>3. ASSUME NEW answer, Hand(answer), answer.kind = "echo" => Carried(answer.write, carried')
      PROVE  \A i \in DOMAIN results' :
               results'[i].answer.kind = "echo" => Carried(results'[i].answer.write, carried')
  <2> DEFINE e == [job |-> worker, answer |-> answer]
  <2>1. results' = Append(results, e) /\ e.answer = answer
    BY <1>3 DEF Hand
  <2> HIDE DEF e
  <2>2. /\ DOMAIN results' = 1..(Len(results) + 1) /\ DOMAIN results = 1..Len(results)
        /\ \A i \in 1..Len(results) : results'[i] = results[i]
        /\ results'[Len(results) + 1] = e /\ Len(results) \in Nat
    BY <2>1, <1>b
  <2>3. ASSUME NEW i \in DOMAIN results', results'[i].answer.kind = "echo"
        PROVE  Carried(results'[i].answer.write, carried')
    <3>1. CASE i = Len(results) + 1
      BY <3>1, <2>1, <2>2, <2>3, <1>3
    <3>2. CASE i \in DOMAIN results
      BY <3>2, <2>2, <2>3, <1>c
    <3> QED
      BY <3>1, <3>2, <2>2
  <2> QED
    BY <2>3
<1>4. CASE ReadAnswer
  <2>1. /\ Hand(Head(coming)) /\ coming # <<>> /\ coming' = Tail(coming)
    BY <1>4 DEF ReadAnswer
  <2>2. Head(coming) = coming[1] /\ 1 \in DOMAIN coming
    BY <2>1, <1>b, EmptySeq
  <2>3. Head(coming).kind = "echo" => Carried(Head(coming).write, carried')
    BY <2>2, <1>d
  <2>4. \A i \in DOMAIN coming' : i + 1 \in DOMAIN coming /\ coming'[i] = coming[i + 1]
    BY <2>1, <1>b, HeadTailProperties
  <2>5. \A i \in DOMAIN coming' :
          coming'[i].kind = "echo" => Carried(coming'[i].write, carried')
    BY <2>4, <1>d
  <2> QED
    BY <2>1, <2>3, <2>5, <1>3 DEF EchoesAreTrue
<1>5. CASE ReadTimesOut \/ PortRaises
  <2>1. UNCHANGED coming /\ (Hand(Nothing) \/ Hand(Exception))
    BY <1>5 DEF ReadTimesOut, PortRaises
  <2>2. /\ \A i \in DOMAIN coming' :
             coming'[i].kind = "echo" => Carried(coming'[i].write, carried')
        /\ Nothing.kind # "echo" /\ Exception.kind # "echo"
    BY <2>1, <1>d, AnswerTypes
  <2> QED
    BY <2>1, <2>2, <1>3 DEF EchoesAreTrue
<1>6. CASE Resolve
  <2>1. UNCHANGED coming /\ results # <<>> /\ results' = Tail(results)
    BY <1>6 DEF Resolve
  <2>2. \A i \in DOMAIN results' : i + 1 \in DOMAIN results /\ results'[i] = results[i + 1]
    BY <2>1, <1>b, HeadTailProperties
  <2>3. \A i \in DOMAIN results' :
          results'[i].answer.kind = "echo" => Carried(results'[i].answer.write, carried')
    BY <2>2, <1>c
  <2> QED
    BY <2>1, <2>3, <1>d DEF EchoesAreTrue
<1> QED
  BY <1>1, <1>2, <1>4, <1>5, <1>6
     DEF Next, Motor, Thread, Adapter, Runner, Arrive, HardwareError, WorkerEnds, Connect, Poll,
         Disconnect, Close, Submit, Start, ExecuteCancelled, Observe, ObserveExpires, Conclude,
         vars

\* Every step keeps acknowledged writes carried out: an echo the parser accepts is that of
\* the same write.
LEMMA AcknowledgedStep == IInv /\ [Next]_vars => AcknowledgedIsCarried'
<1> SUFFICES ASSUME IInv, [Next]_vars, NEW c \in Commands,
                    status'[c] \in {"observing", "SUCCEEDED", "EXPIRED"}
             PROVE  Carried(Request(c), carried')
  BY DEF AcknowledgedIsCarried, Carried
<1>a. /\ TypeOK /\ EchoesAreTrue
      /\ status \in [Commands -> {"new", "executing", "observing", "SUCCEEDED", "FAILED",
                                  "CANCELLED", "EXPIRED"}]
  BY DEF IInv, TypeOK
<1>b. /\ results \in Seq([job : Jobs, answer : Answers])
      /\ \A write : Carried(write, carried) => Carried(write, carried')
  BY <1>a, CarriedStays, MotorTypes
<1>1. CASE status[c] \in {"observing", "SUCCEEDED", "EXPIRED"}
  BY <1>1, <1>b DEF IInv, AcknowledgedIsCarried, Carried
<1>2. CASE Resolve
  <2> DEFINE j == Head(results).job
             answer == Head(results).answer
  <2>1. /\ \/ UNCHANGED status
           \/ /\ j \in Commands
              /\ status' = [status EXCEPT ![j] = IF ~Parses(j, answer) THEN "FAILED"
                                                 ELSE IF j \in Moves THEN "observing"
                                                 ELSE "SUCCEEDED"]
        /\ results # <<>>
    BY <1>2 DEF Resolve, ExecuteReturns, PollReturns, ForceReturns
  <2>2. 1 \in DOMAIN results /\ Head(results) = results[1]
    BY <2>1, <1>b, EmptySeq
  <2>3. answer.kind = "echo" => Carried(answer.write, carried')
    BY <2>2, <1>a, <1>b DEF EchoesAreTrue
  <2>4. CASE c = j /\ j \in Commands /\ Parses(j, answer)
    <3>1. j \in Jobs \ {"poll"}
      BY <2>4, MotorJobs
    <3>2. answer.kind = "echo" /\ answer = Echo(j)
      BY <3>1, <2>4 DEF Parses
    <3>3. answer.write = Request(j)
      BY <3>1, <3>2, AnswerTypes
    <3> QED
      BY <3>2, <3>3, <2>3, <2>4
  <2>5. CASE ~(c = j /\ j \in Commands /\ Parses(j, answer))
    <3>1. status'[c] = status[c] \/ status'[c] = "FAILED"
      BY <2>1, <2>5, <1>a
    <3> QED
      BY <3>1, <1>1
  <2> QED
    BY <2>4, <2>5
<1>3. ASSUME NEW d \in Commands, Runner(d), c # d \/ ~(Observe(d) \/ ObserveExpires(d))
      PROVE  status[c] = status'[c]
  BY <1>3, <1>a DEF Runner, Start, ExecuteCancelled, Observe, ObserveExpires, Conclude
<1>4. CASE Observe(c) \/ ObserveExpires(c)
  BY <1>4, <1>1 DEF Observe, ObserveExpires
<1>5. CASE UNCHANGED status
  BY <1>5, <1>1
<1> QED
  BY <1>1, <1>2, <1>3, <1>4, <1>5
     DEF Next, Motor, Thread, Adapter, Arrive, HardwareError, TakeJob, ReadAnswer, ReadTimesOut,
         PortRaises, Hand, WorkerEnds, Connect, Poll, Disconnect, Close, Submit, vars

\* No command becomes new again, and only its acceptance gives it a stamp, which none
\* that was accepted before exceeds.
LEMMA StampsStay ==
  ASSUME TypeOK, [Next]_vars
  PROVE  /\ \A c \in Commands :
              status[c] # "new" => status'[c] # "new" /\ stamped'[c] = stamped[c]
         /\ \A c \in Commands : Start(c) =>
              /\ status[c] = "new" /\ status'[c] # "new"
              /\ stamped'[c] \in Nat
              /\ \A d \in Commands : stamped'[d] <= stamped'[c]
         /\ stamped = stamped' \/ \E c \in Commands : Start(c)
<1>a. /\ generation \in Nat /\ stamped \in [Commands -> 0..generation]
      /\ status \in [Commands -> {"new", "executing", "observing", "SUCCEEDED", "FAILED",
                                  "CANCELLED", "EXPIRED"}]
  BY MotorTypes DEF TypeOK
<1>1. ASSUME NEW d \in Commands, Start(d)
      PROVE  /\ \A c \in Commands :
                  status[c] # "new" => status'[c] # "new" /\ stamped'[c] = stamped[c]
             /\ status[d] = "new" /\ status'[d] # "new"
             /\ stamped'[d] \in Nat
             /\ \A c \in Commands : stamped'[c] <= stamped'[d]
  <2>1. /\ status[d] = "new" /\ status' \in {[status EXCEPT ![d] = "FAILED"],
                                             [status EXCEPT ![d] = "executing"]}
        /\ generation' \in {generation, generation + 1}
        /\ stamped' = [stamped EXCEPT ![d] = generation']
    BY <1>1 DEF Start
  <2> QED
    BY <2>1, <1>a
<1>2. ASSUME NEW d \in Commands, ExecuteCancelled(d) \/ Observe(d) \/ ObserveExpires(d)
      PROVE  /\ stamped' = stamped
             /\ \A c \in Commands : status[c] # "new" => status'[c] # "new"
  BY <1>2, <1>a DEF ExecuteCancelled, Observe, ObserveExpires, Conclude
<1>3. CASE Resolve
  <2>1. /\ stamped' = stamped
        /\ \A c \in Commands : status[c] # "new" => status'[c] # "new"
    BY <1>3, <1>a DEF Resolve, ExecuteReturns, PollReturns, ForceReturns
  <2>2. ASSUME NEW d \in Commands PROVE ~Start(d)
    BY <1>3, <1>a DEF Start, Resolve, ExecuteReturns, PollReturns, ForceReturns
  <2> QED
    BY <2>1, <2>2
<1>4. \/ Resolve \/ UNCHANGED <<status, stamped>>
      \/ \E d \in Commands : Runner(d)
  BY DEF Next, Motor, Thread, Adapter, Arrive, HardwareError, TakeJob, ReadAnswer, ReadTimesOut,
         PortRaises, Hand, WorkerEnds, Connect, Poll, Disconnect, Close, Submit, vars
<1> QED
  BY <1>1, <1>2, <1>3, <1>4 DEF Runner

\* Every step keeps the queue in order.
LEMMA OrderStep == IInv /\ [Next]_vars => QueuesAreOrdered'
<1> SUFFICES ASSUME IInv, [Next]_vars PROVE QueuesAreOrdered'
  OBVIOUS
<1>a. /\ TypeOK /\ EchoesAreTrue /\ QueuesAreOrdered
      /\ carried \in Seq(Jobs \ {"poll"}) /\ queue \in Seq(Jobs \cup {"close"})
      /\ Len(queue) \in Nat /\ Len(carried) \in Nat
      /\ stamped \in [Commands -> 0..generation] /\ generation \in Nat
  BY MotorTypes DEF IInv
<1>b. ASSUME NEW j, Stamped(j, status) PROVE Stamped(j, status')
  BY <1>a, <1>b, StampsStay DEF Stamped
<1>c. ASSUME NEW i, NEW j, Stamped(i, status), Stamped(j, status), InOrder(i, j, stamped)
      PROVE  InOrder(i, j, stamped')
  BY <1>a, <1>c, StampsStay DEF Stamped, InOrder
<1>d. /\ DOMAIN queue = 1..Len(queue) /\ DOMAIN carried = 1..Len(carried)
  BY <1>a
<1>1. ASSUME carried' = carried, queue' = queue
      PROVE  QueuesAreOrdered'
  BY <1>1, <1>a, <1>b, <1>c, <1>d DEF QueuesAreOrdered
<1>2. ASSUME carried' = carried, queue # <<>>, Len(queue') \in Nat,
             queue' \in Seq(Jobs \cup {"close"}), Len(queue') = Len(queue) - 1,
             \A i \in DOMAIN queue' : queue'[i] = queue[i + 1] /\ i + 1 \in DOMAIN queue
      PROVE  QueuesAreOrdered'
  <2>1. \A i \in DOMAIN queue' : Stamped(queue'[i], status')
    BY <1>2, <1>a, <1>b DEF QueuesAreOrdered
  <2>2. \A i \in DOMAIN carried : \A k \in DOMAIN queue' : InOrder(carried[i], queue'[k], stamped')
    BY <1>2, <1>a, <1>c DEF QueuesAreOrdered
  <2>3. ASSUME NEW i \in DOMAIN queue', NEW k \in i..Len(queue')
        PROVE  InOrder(queue'[i], queue'[k], stamped')
    <3>1. /\ k \in DOMAIN queue' /\ i + 1 \in DOMAIN queue /\ k + 1 \in (i + 1)..Len(queue)
      BY <1>2, <1>a, <1>d, <2>3
    <3>2. /\ Stamped(queue[i + 1], status) /\ Stamped(queue[k + 1], status)
          /\ InOrder(queue[i + 1], queue[k + 1], stamped)
      BY <3>1, <1>2, <1>a DEF QueuesAreOrdered
    <3> QED
      BY <3>1, <3>2, <1>2, <1>c
  <2>4. /\ \A i \in DOMAIN carried : Stamped(carried[i], status')
        /\ \A i \in DOMAIN carried : \A k \in i..Len(carried) :
             InOrder(carried[i], carried[k], stamped')
    BY <1>a, <1>b, <1>c, <1>d DEF QueuesAreOrdered
  <2> QED
    BY <2>1, <2>2, <2>3, <2>4, <1>2 DEF QueuesAreOrdered
<1>3. CASE TakeJob
  <2>1. /\ Head(queue) = queue[1] /\ queue # <<>> /\ Head(queue) \in Jobs
        /\ queue' \in Seq(Jobs \cup {"close"}) /\ Len(queue') = Len(queue) - 1
        /\ \A i \in DOMAIN queue' : queue'[i] = queue[i + 1] /\ i + 1 \in DOMAIN queue
        /\ carried' = carried \/ carried' = Append(carried, Head(queue))
        /\ UNCHANGED <<status, stamped>>
    BY <1>3, <1>a, TakeIs
  <2>2. CASE carried' = carried
    BY <2>1, <2>2, <1>2, <1>a
  <2>3. CASE carried' = Append(carried, Head(queue))
    <3>1. /\ DOMAIN carried' = 1..(Len(carried) + 1) /\ Len(carried') = Len(carried) + 1
          /\ \A i \in DOMAIN carried : carried'[i] = carried[i]
          /\ carried'[Len(carried) + 1] = queue[1]
          /\ 1 \in DOMAIN queue
      BY <2>1, <2>3, <1>a, <1>d, EmptySeq
    <3>2. \A i, j : InOrder(i, j, stamped') <=> InOrder(i, j, stamped)
      BY <2>1 DEF InOrder
    <3>3. \A j : Stamped(j, status') <=> Stamped(j, status)
      BY <2>1 DEF Stamped
    <3>4. ASSUME NEW i \in DOMAIN queue', NEW k \in i..Len(queue')
          PROVE  InOrder(queue'[i], queue'[k], stamped)
      <4>1. k \in DOMAIN queue' /\ i + 1 \in DOMAIN queue /\ k + 1 \in (i + 1)..Len(queue)
        BY <2>1, <1>a, <1>d, <3>4
      <4> QED
        BY <4>1, <2>1, <1>a DEF QueuesAreOrdered
    <3>5. \A k \in DOMAIN queue' : InOrder(queue[1], queue'[k], stamped)
      <4>1. \A k \in DOMAIN queue' : k + 1 \in 1..Len(queue) /\ queue'[k] = queue[k + 1]
        BY <2>1, <1>d
      <4> QED
        BY <4>1, <3>1, <1>a DEF QueuesAreOrdered
    <3>6. \A i \in DOMAIN carried' : \A k \in DOMAIN queue' : InOrder(carried'[i], queue'[k], stamped)
      <4>1. \A i \in DOMAIN carried : \A k \in DOMAIN queue' : InOrder(carried[i], queue'[k], stamped)
        BY <2>1, <1>a DEF QueuesAreOrdered
      <4> QED
        BY <4>1, <3>1, <3>5, <1>d, <1>a
    <3>7. ASSUME NEW i \in DOMAIN carried', NEW k \in i..Len(carried')
          PROVE  InOrder(carried'[i], carried'[k], stamped)
      <4>1. k \in DOMAIN carried' /\ i \in Int /\ k \in Int
        BY <3>1, <3>7, <1>a
      <4>2. CASE k \in DOMAIN carried
        <5>1. i \in DOMAIN carried /\ k \in i..Len(carried)
          BY <4>1, <4>2, <3>1, <3>7, <1>a, <1>d
        <5> QED
          BY <5>1, <3>1, <4>2, <1>a DEF QueuesAreOrdered
      <4>3. CASE k = Len(carried) + 1 /\ i \in DOMAIN carried
        BY <4>3, <3>1, <1>a DEF QueuesAreOrdered
      <4>4. CASE k = Len(carried) + 1 /\ i = Len(carried) + 1
        <5>1. InOrder(queue[1], queue[1], stamped)
          BY <1>a DEF InOrder
        <5> QED
          BY <5>1, <4>4, <3>1
      <4> QED
        BY <4>1, <4>2, <4>3, <4>4, <3>1, <1>d, <1>a
    <3>8. /\ \A i \in DOMAIN carried' : Stamped(carried'[i], status)
          /\ \A i \in DOMAIN queue' : Stamped(queue'[i], status)
      BY <3>1, <2>1, <1>a, <1>d DEF QueuesAreOrdered
    <3> QED
      BY <3>2, <3>3, <3>4, <3>6, <3>7, <3>8 DEF QueuesAreOrdered
  <2> QED
    BY <2>1, <2>2, <2>3
<1>4. CASE WorkerEnds
  <2>1. carried' = carried /\ queue # <<>> /\ queue' = Tail(queue)
    BY <1>4 DEF WorkerEnds
  <2>2. /\ queue' \in Seq(Jobs \cup {"close"}) /\ Len(queue') = Len(queue) - 1
        /\ \A i \in 1..Len(queue') : queue'[i] = queue[i + 1]
    BY <2>1, <1>a, HeadTailProperties
  <2>3. \A i \in DOMAIN queue' : queue'[i] = queue[i + 1] /\ i + 1 \in DOMAIN queue
    BY <2>2, <1>a, <1>d
  <2> QED
    BY <2>1, <2>2, <2>3, <1>2
<1>5. ASSUME NEW j \in Jobs \cup {"close"}, queue' = Append(queue, j), carried' = carried,
             Stamped(j, status'),
             \A i : Stamped(i, status) => InOrder(i, j, stamped'), InOrder(j, j, stamped')
      PROVE  QueuesAreOrdered'
  <2>1. /\ Len(queue') = Len(queue) + 1
        /\ \A i \in DOMAIN queue : queue'[i] = queue[i]
        /\ queue'[Len(queue) + 1] = j
        /\ DOMAIN queue = 1..Len(queue) /\ DOMAIN queue' = 1..(Len(queue) + 1)
    BY <1>5, <1>a, SubmitIs
  <2>2. \A i \in DOMAIN queue' : Stamped(queue'[i], status')
    BY <2>1, <1>a, <1>b, <1>5 DEF QueuesAreOrdered
  <2>3. ASSUME NEW i \in DOMAIN carried, NEW k \in DOMAIN queue'
        PROVE  InOrder(carried[i], queue'[k], stamped')
    <3>1. Stamped(carried[i], status)
      BY <1>a DEF QueuesAreOrdered
    <3>2. CASE k \in DOMAIN queue
      BY <3>1, <3>2, <2>1, <1>a, <1>c DEF QueuesAreOrdered
    <3>3. CASE k = Len(queue) + 1
      BY <3>1, <3>3, <2>1, <1>5
    <3> QED
      BY <3>2, <3>3, <2>1, <1>a
  <2>4. ASSUME NEW i \in DOMAIN queue', NEW k \in i..Len(queue')
        PROVE  InOrder(queue'[i], queue'[k], stamped')
    <3>1. CASE k \in DOMAIN queue
      <4>1. i \in DOMAIN queue /\ k \in i..Len(queue)
        BY <3>1, <2>1, <2>4, <1>a
      <4>2. /\ Stamped(queue[i], status) /\ Stamped(queue[k], status)
            /\ InOrder(queue[i], queue[k], stamped)
        BY <4>1, <3>1, <1>a DEF QueuesAreOrdered
      <4> QED
        BY <4>1, <4>2, <3>1, <2>1, <1>c
    <3>2. CASE k = Len(queue) + 1 /\ i \in DOMAIN queue
      BY <3>2, <2>1, <1>a, <1>5 DEF QueuesAreOrdered
    <3>3. CASE k = Len(queue) + 1 /\ i = Len(queue) + 1
      BY <3>3, <2>1, <1>5
    <3> QED
      BY <3>1, <3>2, <3>3, <2>1, <2>4, <1>a
  <2>5. /\ \A i \in DOMAIN carried : Stamped(carried[i], status')
        /\ \A i \in DOMAIN carried : \A k \in i..Len(carried) :
             InOrder(carried[i], carried[k], stamped')
    BY <1>a, <1>b, <1>c, <1>d DEF QueuesAreOrdered
  <2> QED
    BY <2>2, <2>3, <2>4, <2>5, <1>5 DEF QueuesAreOrdered
<1>6. CASE Close \/ Connect \/ Poll
  <2>1. PICK j \in {"close", "force", "poll"} : queue' = Append(queue, j) /\ carried' = carried
    BY <1>6 DEF Close, Connect, Poll, Submit
  <2>2. j \notin Commands /\ j \in Jobs \cup {"close"}
    BY <2>1, MotorJobs
  <2> QED
    BY <2>1, <2>2, <1>5 DEF Stamped, InOrder
<1>7. ASSUME NEW c \in Commands, Start(c) PROVE QueuesAreOrdered'
  <2>1. carried' = carried /\ (queue' = queue \/ queue' = Append(queue, c))
    BY <1>7 DEF Start, Submit
  <2>2. /\ Stamped(c, status') /\ InOrder(c, c, stamped')
        /\ \A i : Stamped(i, status) => InOrder(i, c, stamped')
    BY <1>7, <1>a, StampsStay DEF Stamped, InOrder
  <2> QED
    BY <2>1, <2>2, <1>1, <1>5, MotorJobs
<1> QED
  BY <1>1, <1>3, <1>4, <1>6, <1>7
     DEF Next, Motor, Thread, Adapter, Runner, Arrive, HardwareError, ReadAnswer, ReadTimesOut,
         PortRaises, Hand, Disconnect, Resolve, ExecuteCancelled, Observe, ObserveExpires,
         Conclude, vars

-----------------------------------------------------------------------------
\* The program starts with an empty line and nothing asked for.
LEMMA InitMotor == Init => IInv
<1> SUFFICES ASSUME Init PROVE IInv
  OBVIOUS
<1>1. TypeOK
  <2>1. /\ <<>> \in Seq(Answers) /\ <<>> \in Seq(Jobs \ {"poll"})
        /\ <<>> \in Seq(Jobs \cup {"close"}) /\ <<>> \in Seq([job : Jobs, answer : Answers])
        /\ 0 \in 0..MaxFaults
    BY MotorAssumption
  <2> QED
    BY <2>1 DEF Init, LineInit, SessionInit, AdapterInit, TypeOK
<1>2. AcknowledgedIsCarried
  BY DEF Init, AcknowledgedIsCarried
<1>3. carried = <<>> /\ queue = <<>> /\ coming = <<>> /\ results = <<>>
  BY DEF Init, LineInit, SessionInit
<1> QED
  BY <1>1, <1>2, <1>3 DEF IInv, EchoesAreTrue, QueuesAreOrdered

LEMMA MotorIsKept == Spec => []IInv
<1>1. IInv /\ [Next]_vars => IInv'
  BY TypeStep, AcknowledgedStep, EchoStep, OrderStep DEF IInv
<1> QED
  BY InitMotor, <1>1, PTL DEF Spec

\* A command that got past its acknowledgement was carried out by the motor, whatever
\* answers were lost, late or damaged (modbus_framing.py:87-125, adapter.py:157-174).
THEOREM AcknowledgedWasCarried == Spec => []WriteInv
<1>1. IInv => WriteInv
  BY DEF IInv, WriteInv
<1> QED
  BY <1>1, MotorIsKept, PTL

\* The port carries out writes in the order in which the runner stamped them, so that no
\* move follows the control command that preempted it (target_runner.py:56-88,
\* serial_session.py:91-105).
THEOREM PreemptionHolds == Spec => PreemptedStaysPreempted
<1> DEFINE A == \A i \in DOMAIN carried' \ DOMAIN carried :
                  ~\E k \in DOMAIN carried :
                      /\ {carried[k], carried'[i]} \subseteq Commands
                      /\ stamped[carried[k]] > stamped[carried'[i]]
<1>1. IInv /\ [Next]_vars => [A]_vars
  <2> SUFFICES ASSUME IInv, [Next]_vars, NEW i \in DOMAIN carried' \ DOMAIN carried,
                      NEW k \in DOMAIN carried, carried[k] \in Commands, carried'[i] \in Commands
               PROVE  ~(stamped[carried[k]] > stamped[carried'[i]])
    OBVIOUS
  <2>a. /\ TypeOK /\ EchoesAreTrue /\ QueuesAreOrdered /\ carried \in Seq(Jobs \ {"poll"})
        /\ Len(carried) \in Nat /\ queue \in Seq(Jobs \cup {"close"})
        /\ stamped \in [Commands -> 0..generation] /\ generation \in Nat
    BY MotorTypes DEF IInv
  <2>1. TakeJob /\ carried' = Append(carried, Head(queue))
    BY CarriedStays
  <2>2. Head(queue) = queue[1] /\ queue # <<>>
    BY <2>1, <2>a, TakeIs
  <2>3. carried'[i] = queue[1] /\ 1 \in DOMAIN queue
    BY <2>1, <2>2, <2>a, EmptySeq
  <2>4. InOrder(carried[k], queue[1], stamped)
    BY <2>3, <2>a DEF QueuesAreOrdered
  <2> QED
    BY <2>3, <2>4, <2>a DEF InOrder
<1> QED
  BY <1>1, MotorIsKept, PTL DEF Spec, PreemptedStaysPreempted
=============================================================================
