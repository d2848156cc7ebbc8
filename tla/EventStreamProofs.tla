--------------------------- MODULE EventStreamProofs ---------------------------
(***************************************************************************)
(* Theorems about EventStream, for every number of connections and events  *)
(* and every size of the buffer and the queues.                            *)
(***************************************************************************)
EXTENDS EventStream, Integers, SequenceTheorems, TLAPS

USE DEF busVars, handlerVars, openVars

\* s is m + 1, m + 2, ...
Runs(s, m) == \A i \in DOMAIN s : s[i] = m + i

Rises(s) == \A i, j \in DOMAIN s : i < j => s[i] < s[j]

\* The buffer is the latest events.
BufferIsRecent ==
  /\ Len(buffer) <= sequence
  /\ Runs(buffer, sequence - Len(buffer))
  /\ buffer = <<>> => sequence = 0

\* What was replayed to k and what still is to be.
ReplayRuns(k) ==
  cursor[k].boot = boot =>
    /\ Len(replayed[k]) + Len(pending[k]) = covered[k] - cursor[k].at
    /\ Runs(replayed[k], cursor[k].at)
    /\ Runs(pending[k], cursor[k].at + Len(replayed[k]))

\* What was sent to k from its queue comes after what was replayed.
LiveRises(k) ==
  /\ pending[k] = <<>>
  /\ covered[k] <= base[k] /\ base[k] <= sequence
  /\ Rises(live[k]) /\ \A i \in DOMAIN live[k] : live[k][i] > base[k]

\* The events of a queue that was cut off go on rising up to the sentinel.
CutOffRises(k) ==
  /\ queue[k] # <<>> /\ queue[k][Len(queue[k])] = None
  /\ \A i \in 1..(Len(queue[k]) - 1) :
       /\ queue[k][i] \in Nat /\ queue[k][i] > base[k]
       /\ \A j \in 1..(Len(queue[k]) - 1) : i < j => queue[k][i] < queue[k][j]
       /\ \A j \in DOMAIN live[k] : live[k][j] < queue[k][i]

\* A subscriber's queue goes on where what it was sent ends, up to the latest event.
SubscriberRuns(k) ==
  /\ Len(live[k]) + Len(queue[k]) = sequence - base[k]
  /\ Runs(live[k], base[k]) /\ Runs(queue[k], base[k] + Len(live[k]))

GotRises(k) == cursor[k].boot = boot => Rises(replayed[k] \o live[k])

\* The stream of k, wherever its handler is.
Stream(k) ==
  /\ cursor[k].boot <= boot
  /\ phase[k] = "none" =>
       /\ queue[k] = <<>> /\ pending[k] = <<>> /\ replayed[k] = <<>> /\ live[k] = <<>>
  /\ phase[k] = "replaying" =>
       /\ queue[k] = <<>> /\ live[k] = <<>> /\ covered[k] <= sequence /\ ReplayRuns(k)
  /\ phase[k] = "live" => ReplayRuns(k) /\ LiveRises(k)
  /\ Subscribed(k) => phase[k] = "live" /\ SubscriberRuns(k)
  /\ CutOff(k) => CutOffRises(k)
  /\ phase[k] = "closed" /\ present[k] => told[k]
  /\ GotRises(k)

IInv == TypeOK /\ BufferIsRecent /\ \A k \in Conns : Stream(k)

-----------------------------------------------------------------------------
\* The element after the last one, and the others as they were.
LEMMA AppendIs ==
  ASSUME NEW S, NEW s \in Seq(S), NEW e \in S
  PROVE  /\ Append(s, e) \in Seq(S) /\ Len(Append(s, e)) = Len(s) + 1
         /\ DOMAIN s = 1..Len(s) /\ Len(s) \in Nat
         /\ DOMAIN Append(s, e) = 1..(Len(s) + 1)
         /\ \A i \in 1..Len(s) : Append(s, e)[i] = s[i]
         /\ Append(s, e)[Len(s) + 1] = e
BY AppendProperties, LenProperties

\* The first element, and the others one place further ahead.
LEMMA TailIs ==
  ASSUME NEW S, NEW s \in Seq(S), s # <<>>
  PROVE  /\ Head(s) \in S /\ Head(s) = s[1] /\ Tail(s) \in Seq(S)
         /\ DOMAIN s = 1..Len(s) /\ Len(s) \in Nat \ {0} /\ Len(Tail(s)) = Len(s) - 1
         /\ DOMAIN Tail(s) = 1..(Len(s) - 1)
         /\ \A i \in 1..(Len(s) - 1) : Tail(s)[i] = s[i + 1]
BY HeadTailProperties, LenProperties, EmptySeq

\* A run goes on with the next number.
LEMMA RunsAppend ==
  ASSUME NEW S, NEW s \in Seq(S), NEW m \in Nat, Runs(s, m), NEW e \in S, e = m + Len(s) + 1
  PROVE  Runs(Append(s, e), m)
<1>1. /\ DOMAIN s = 1..Len(s) /\ Len(s) \in Nat
      /\ DOMAIN Append(s, e) = 1..(Len(s) + 1)
      /\ \A i \in 1..Len(s) : Append(s, e)[i] = s[i]
      /\ Append(s, e)[Len(s) + 1] = e
  BY AppendIs
<1>2. \A i \in 1..(Len(s) + 1) : i \in 1..Len(s) \/ i = Len(s) + 1
  BY <1>1
<1> QED
  BY <1>1, <1>2 DEF Runs

\* What is left of a run without its first number is a run.
LEMMA RunsTail ==
  ASSUME NEW S, NEW s \in Seq(S), s # <<>>, NEW m \in Nat, Runs(s, m)
  PROVE  Head(s) = m + 1 /\ Runs(Tail(s), m + 1)
<1>1. /\ Head(s) = s[1] /\ DOMAIN s = 1..Len(s) /\ Len(s) \in Nat \ {0}
      /\ DOMAIN Tail(s) = 1..(Len(s) - 1)
      /\ \A i \in 1..(Len(s) - 1) : Tail(s)[i] = s[i + 1]
  BY TailIs
<1>2. \A i \in 1..(Len(s) - 1) : i + 1 \in 1..Len(s) /\ i \in Nat
  BY <1>1
<1>3. 1 \in DOMAIN s
  BY <1>1
<1>4. s[1] = m + 1
  BY <1>3 DEF Runs
<1>5. \A i \in 1..(Len(s) - 1) : Tail(s)[i] = (m + 1) + i
  BY <1>1, <1>2 DEF Runs
<1> QED
  BY <1>1, <1>4, <1>5 DEF Runs

\* Two runs, the second from where the first ends, are one.
LEMMA RunsJoin ==
  ASSUME NEW S, NEW a \in Seq(S), NEW b \in Seq(S), NEW m \in Nat, NEW n \in Nat,
         Len(a) + Len(b) = n - m, Runs(a, m), Runs(b, m + Len(a))
  PROVE  a \o b = Events(m, n)
<1>1. /\ DOMAIN a = 1..Len(a) /\ Len(a) \in Nat /\ DOMAIN b = 1..Len(b) /\ Len(b) \in Nat
      /\ a \o b \in Seq(S) /\ Len(a \o b) = Len(a) + Len(b)
      /\ \A i \in 1..(Len(a) + Len(b)) :
           (a \o b)[i] = IF i <= Len(a) THEN a[i] ELSE b[i - Len(a)]
  BY LenProperties, ConcatProperties
<1>2. DOMAIN (a \o b) = 1..(n - m)
  <2>1. DOMAIN (a \o b) = 1..Len(a \o b)
    BY <1>1, LenProperties
  <2> QED
    BY <1>1, <2>1
<1>3. \A i \in 1..(n - m) : (a \o b)[i] = m + i
  <2> SUFFICES ASSUME NEW i \in 1..(n - m) PROVE (a \o b)[i] = m + i
    OBVIOUS
  <2>1. CASE i <= Len(a)
    <3>1. i \in DOMAIN a
      BY <1>1, <2>1
    <3> QED
      BY <1>1, <2>1, <3>1 DEF Runs
  <2>2. CASE ~(i <= Len(a))
    <3>1. i - Len(a) \in DOMAIN b
      BY <1>1, <2>2
    <3>2. b[i - Len(a)] = (m + Len(a)) + (i - Len(a))
      BY <3>1 DEF Runs
    <3> QED
      BY <1>1, <2>2, <3>2
  <2> QED
    BY <2>1, <2>2
<1>4. (IF n > m THEN n - m ELSE 0) = n - m
  BY <1>1
<1>5. /\ DOMAIN Events(m, n) = 1..(n - m)
      /\ \A i \in 1..(n - m) : Events(m, n)[i] = m + i
  BY <1>4 DEF Events
<1>6. Events(m, n) \in Seq(Nat)
  <2>1. n - m \in Nat /\ \A i \in 1..(n - m) : m + i \in Nat
    BY <1>1
  <2>2. Events(m, n) \in [1..(n - m) -> Nat]
    BY <1>4, <2>1 DEF Events
  <2> QED
    BY <2>1, <2>2, SeqDef
<1>7. Events(m, n) \in Seq(S \cup Nat) /\ a \o b \in Seq(S \cup Nat)
  <2>1. Nat \subseteq S \cup Nat /\ S \subseteq S \cup Nat
    OBVIOUS
  <2> QED
    BY <2>1, <1>1, <1>6, SeqMonotonic
<1>8. Len(Events(m, n)) = n - m /\ Len(a \o b) = n - m
  <2>1. DOMAIN Events(m, n) = 1..Len(Events(m, n)) /\ Len(Events(m, n)) \in Nat
    BY <1>6, LenProperties
  <2> QED
    BY <1>1, <1>5, <2>1
<1>9. Len(a \o b) = Len(Events(m, n)) /\ \A i \in 1..Len(a \o b) : (a \o b)[i] = Events(m, n)[i]
  BY <1>3, <1>5, <1>8
<1> HIDE DEF Events
<1> QED
  BY <1>7, <1>9, SeqEqual

\* What rises and then goes on above rises as a whole.
LEMMA RisesJoin ==
  ASSUME NEW a \in Seq(Nat), NEW b \in Seq(Nat), Rises(a), Rises(b),
         \A i \in DOMAIN a, j \in DOMAIN b : a[i] < b[j]
  PROVE  Rises(a \o b)
<1>1. /\ DOMAIN a = 1..Len(a) /\ Len(a) \in Nat /\ DOMAIN b = 1..Len(b) /\ Len(b) \in Nat
      /\ DOMAIN (a \o b) = 1..(Len(a) + Len(b))
      /\ \A i \in 1..(Len(a) + Len(b)) :
           (a \o b)[i] = IF i <= Len(a) THEN a[i] ELSE b[i - Len(a)]
  <2>1. /\ a \o b \in Seq(Nat) /\ Len(a \o b) = Len(a) + Len(b)
        /\ \A i \in 1..(Len(a) + Len(b)) :
             (a \o b)[i] = IF i <= Len(a) THEN a[i] ELSE b[i - Len(a)]
    BY ConcatProperties
  <2>2. DOMAIN (a \o b) = 1..Len(a \o b)
    BY <2>1, LenProperties
  <2> QED
    BY <2>1, <2>2, LenProperties
<1> SUFFICES ASSUME NEW i \in DOMAIN (a \o b), NEW j \in DOMAIN (a \o b), i < j
             PROVE  (a \o b)[i] < (a \o b)[j]
  BY DEF Rises
<1>2. i \in Nat /\ j \in Nat
  BY <1>1
<1>3. CASE j <= Len(a)
  <2>1. i \in DOMAIN a /\ j \in DOMAIN a /\ (a \o b)[i] = a[i] /\ (a \o b)[j] = a[j]
    BY <1>1, <1>2, <1>3
  <2> QED
    BY <2>1 DEF Rises
<1>4. CASE ~(j <= Len(a))
  <2>1. j - Len(a) \in DOMAIN b /\ (a \o b)[j] = b[j - Len(a)]
    BY <1>1, <1>2, <1>4
  <2>2. CASE i <= Len(a)
    <3>1. i \in DOMAIN a /\ (a \o b)[i] = a[i]
      BY <1>1, <1>2, <2>2
    <3> QED
      BY <2>1, <3>1
  <2>3. CASE ~(i <= Len(a))
    <3>1. i - Len(a) \in DOMAIN b /\ (a \o b)[i] = b[i - Len(a)] /\ i - Len(a) < j - Len(a)
      BY <1>1, <1>2, <2>3
    <3> QED
      BY <2>1, <3>1 DEF Rises
  <2> QED
    BY <2>2, <2>3
<1> QED
  BY <1>3, <1>4

\* A replay is a tail of the buffer; when the buffer covers what comes after n, it is
\* everything that does.
LEMMA ReplayIs ==
  ASSUME BufferIsRecent, buffer \in Seq(Nat), sequence \in Nat, NEW n \in Nat
  PROVE  /\ Replay(n) \in Seq(Nat)
         /\ n <= sequence /\ Covers(n) =>
              Len(Replay(n)) = sequence - n /\ Runs(Replay(n), n)
<1> DEFINE low == sequence - Len(buffer)
           P(i) == \A j \in DOMAIN buffer : buffer[j] > n <=> j >= i
           f == CHOOSE i \in 1..(Len(buffer) + 1) : P(i)
<1>1. /\ DOMAIN buffer = 1..Len(buffer) /\ Len(buffer) \in Nat /\ low \in Nat
      /\ \A j \in 1..Len(buffer) : buffer[j] = low + j
      /\ low + Len(buffer) = sequence
  BY LenProperties DEF BufferIsRecent, Runs
<1> HIDE DEF low
<1>2. \E i \in 1..(Len(buffer) + 1) : P(i)
  <2>1. CASE n <= low
    <3>1. P(1) /\ 1 \in 1..(Len(buffer) + 1)
      BY <1>1, <2>1
    <3> QED
      BY <3>1
  <2>2. CASE low < n /\ n < sequence
    <3>1. P(n - low + 1) /\ n - low + 1 \in 1..(Len(buffer) + 1)
      BY <1>1, <2>2
    <3> QED
      BY <3>1
  <2>3. CASE n >= sequence
    <3>1. P(Len(buffer) + 1) /\ Len(buffer) + 1 \in 1..(Len(buffer) + 1)
      BY <1>1, <2>3
    <3> QED
      BY <3>1
  <2> QED
    BY <1>1, <2>1, <2>2, <2>3
<1>3. f \in 1..(Len(buffer) + 1) /\ P(f)
  BY <1>2
<1>4. Replay(n) = SubSeq(buffer, f, Len(buffer))
  BY DEF Replay
<1> HIDE DEF f
<1>5. /\ Replay(n) \in Seq(Nat) /\ Len(Replay(n)) = Len(buffer) - f + 1
      /\ \A i \in 1..(Len(buffer) - f + 1) : Replay(n)[i] = buffer[f + i - 1]
  <2>1. f \in Int /\ Len(buffer) \in Int /\ f <= Len(buffer) + 1
    BY <1>1, <1>3
  <2>2. \A i \in f..Len(buffer) : buffer[i] \in Nat
    BY <1>1, <1>3
  <2>3. /\ SubSeq(buffer, f, Len(buffer)) \in Seq(Nat)
        /\ Len(SubSeq(buffer, f, Len(buffer))) =
             IF f <= Len(buffer) THEN Len(buffer) - f + 1 ELSE 0
        /\ \A i \in 1..(Len(buffer) - f + 1) :
             SubSeq(buffer, f, Len(buffer))[i] = buffer[f + i - 1]
    BY <2>1, <2>2, SubSeqProperties
  <2>4. (IF f <= Len(buffer) THEN Len(buffer) - f + 1 ELSE 0) = Len(buffer) - f + 1
    BY <2>1
  <2> QED
    BY <2>3, <2>4, <1>4
<1>6. ASSUME n <= sequence, Covers(n)
      PROVE  Len(Replay(n)) = sequence - n /\ Runs(Replay(n), n)
  <2>1. low <= n
    <3>1. CASE buffer = <<>>
      BY <3>1, <1>1, <1>6 DEF BufferIsRecent
    <3>2. CASE buffer # <<>>
      <4>1. 1 \in 1..Len(buffer)
        BY <3>2, <1>1, EmptySeq
      <4>2. buffer[1] = low + 1
        BY <4>1, <1>1
      <4> QED
        BY <3>2, <4>2, <1>1, <1>6 DEF Covers
    <3> QED
      BY <3>1, <3>2
  <2>2. f >= n - low + 1
    <3>1. CASE f \in DOMAIN buffer
      <4>1. low + f > n
        BY <3>1, <1>1, <1>3
      <4> QED
        BY <4>1, <1>1, <1>3
    <3>2. CASE f \notin DOMAIN buffer
      BY <3>2, <1>1, <1>3, <1>6
    <3> QED
      BY <3>1, <3>2
  <2>3. f <= n - low + 1
    <3>1. CASE f = 1
      BY <3>1, <2>1, <1>1
    <3>2. CASE f # 1
      <4>1. f - 1 \in DOMAIN buffer /\ ~(f - 1 >= f)
        BY <3>2, <1>1, <1>3
      <4>2. ~(buffer[f - 1] > n) /\ buffer[f - 1] = low + (f - 1)
        BY <4>1, <1>1, <1>3
      <4> QED
        BY <4>2, <1>1, <1>3
    <3> QED
      BY <3>1, <3>2
  <2>4. f = n - low + 1
    BY <2>2, <2>3, <1>1, <1>3
  <2>5. Len(Replay(n)) = sequence - n
    BY <2>4, <1>1, <1>5
  <2>6. \A i \in 1..(sequence - n) : f + i - 1 \in 1..Len(buffer) /\ low + (f + i - 1) = n + i
    BY <2>1, <2>4, <1>1
  <2>7. DOMAIN Replay(n) = 1..(sequence - n)
    BY <2>5, <1>5, LenProperties
  <2> QED
    BY <2>5, <2>6, <2>7, <1>1, <1>5 DEF Runs
<1> QED
  BY <1>5, <1>6

\* The buffer is kept within its bound, the latest event its last.
LEMMA KeptIs ==
  ASSUME TypeOK, BufferIsRecent
  PROVE  LET kept == Kept(sequence + 1)
         IN  /\ kept \in Seq(Nat) /\ Len(kept) <= BufferSize /\ kept # <<>>
             /\ Len(kept) <= sequence + 1 /\ Runs(kept, (sequence + 1) - Len(kept))
<1> DEFINE longer == Append(buffer, sequence + 1)
           low == sequence - Len(buffer)
<1>1. /\ buffer \in Seq(Nat) /\ Len(buffer) <= BufferSize /\ sequence \in Nat
      /\ sequence + 1 \in Nat /\ BufferSize \in Nat \ {0}
  BY SizesAssumption DEF TypeOK
<1>2. longer \in Seq(Nat) /\ Len(longer) = Len(buffer) + 1 /\ Len(buffer) \in Nat
  BY <1>1, AppendIs
<1>3. low \in Nat /\ Runs(buffer, low) /\ sequence + 1 = low + Len(buffer) + 1
  BY <1>1, <1>2 DEF BufferIsRecent
<1>4. Runs(longer, low)
  BY <1>1, <1>3, RunsAppend
<1>5. longer # <<>> /\ Kept(sequence + 1) = IF Len(longer) > BufferSize THEN Tail(longer) ELSE longer
  BY <1>2, EmptySeq DEF Kept
<1> HIDE DEF longer
<1>6. CASE Len(longer) > BufferSize
  <2>1. Tail(longer) \in Seq(Nat) /\ Len(Tail(longer)) = Len(longer) - 1
    BY <1>2, <1>5, TailIs
  <2>2. Runs(Tail(longer), low + 1)
    BY <1>2, <1>3, <1>4, <1>5, RunsTail
  <2>3. Len(Tail(longer)) # 0 /\ Len(Tail(longer)) <= BufferSize
        /\ (sequence + 1) - Len(Tail(longer)) = low + 1 /\ Len(Tail(longer)) <= sequence + 1
    BY <2>1, <1>1, <1>2, <1>3, <1>6
  <2>4. Tail(longer) # <<>>
    BY <2>3, EmptySeq
  <2> QED
    BY <2>1, <2>2, <2>3, <2>4, <1>5, <1>6
<1>7. CASE ~(Len(longer) > BufferSize)
  <2>1. (sequence + 1) - Len(longer) = low /\ Len(longer) <= sequence + 1
        /\ Len(longer) <= BufferSize
    BY <1>1, <1>2, <1>3, <1>7
  <2> QED
    BY <2>1, <1>2, <1>4, <1>5, <1>7
<1> QED
  BY <1>6, <1>7

-----------------------------------------------------------------------------
\* What a publication puts into the queue of a subscriber, or into no queue.
LEMMA OfferedType ==
  ASSUME TypeOK, NEW k \in Conns, NEW event \in Nat
  PROVE  /\ Offered(k, event) \in Seq(Nat \cup {None}) /\ Len(Offered(k, event)) <= QueueSize
         /\ Full(k) => queue[k] # <<>>
<1> DEFINE T == Nat \cup {None}
<1>1. /\ queue[k] \in Seq(T) /\ Len(queue[k]) <= QueueSize /\ Len(queue[k]) \in Nat
      /\ QueueSize \in Nat \ {0} /\ event \in T /\ None \in T
  BY SizesAssumption, LenProperties DEF TypeOK
<1> HIDE DEF T
<1>2. CASE Full(k)
  <2>1. queue[k] # <<>>
    BY <1>1, <1>2, EmptySeq DEF Full
  <2>2. Tail(queue[k]) \in Seq(T) /\ Len(Tail(queue[k])) = QueueSize - 1
    BY <1>1, <1>2, <2>1, TailIs DEF Full
  <2>3. /\ Append(Tail(queue[k]), None) \in Seq(T)
        /\ Len(Append(Tail(queue[k]), None)) = Len(Tail(queue[k])) + 1
    BY <1>1, <2>2, AppendIs
  <2>4. Len(Append(Tail(queue[k]), None)) <= QueueSize
    BY <1>1, <2>2, <2>3
  <2> QED
    BY <1>2, <2>1, <2>3, <2>4 DEF Offered, T
<1>3. CASE ~Full(k)
  <2>1. Append(queue[k], event) \in Seq(T) /\ Len(Append(queue[k], event)) = Len(queue[k]) + 1
    BY <1>1, AppendIs
  <2>2. Len(Append(queue[k], event)) <= QueueSize
    BY <1>1, <1>3, <2>1 DEF Full
  <2> QED
    BY <1>3, <2>1, <2>2 DEF Offered, T
<1> QED
  BY <1>2, <1>3

\* Every step keeps the types and the bounds.
LEMMA TypeStep == IInv /\ [Next]_vars => TypeOK'
<1> SUFFICES ASSUME IInv, [Next]_vars PROVE TypeOK'
  OBVIOUS
<1> DEFINE T == Nat \cup {None}
<1>a. TypeOK /\ BufferIsRecent
  BY DEF IInv
<1>b. /\ buffer \in Seq(Nat) /\ sequence \in Nat /\ QueueSize \in Nat /\ BufferSize \in Nat
      /\ queue \in [Conns -> Seq(T)] /\ pending \in [Conns -> Seq(Nat)]
  BY <1>a, SizesAssumption DEF TypeOK
<1>c. <<>> \in Seq(T) /\ <<>> \in Seq(Nat) /\ Len(<<>>) = 0
  BY EmptySeq
<1>1. CASE Publish
  <2>1. /\ sequence' = sequence + 1 /\ buffer' = Kept(sequence + 1)
        /\ queue' = [k \in Conns |-> IF Subscribed(k) THEN Offered(k, sequence + 1) ELSE queue[k]]
    BY <1>1 DEF Publish
  <2>2. buffer' \in Seq(Nat) /\ Len(buffer') <= BufferSize /\ sequence' \in Nat
    BY <1>a, <1>b, <2>1, KeptIs
  <2>3. queue' \in [Conns -> Seq(T)] /\ \A k \in Conns : Len(queue'[k]) <= QueueSize
    <3>1. sequence + 1 \in Nat
      BY <1>b
    <3>2. \A k \in Conns : Offered(k, sequence + 1) \in Seq(T)
                           /\ Len(Offered(k, sequence + 1)) <= QueueSize
      BY <3>1, <1>a, OfferedType
    <3> HIDE DEF T
    <3> QED
      BY <2>1, <3>2, <1>a, <1>b DEF TypeOK
  <2>4. subscribers' \subseteq Conns
    BY <1>1, <1>a DEF Publish, TypeOK
  <2> QED
    BY <1>1, <1>a, <2>2, <2>3, <2>4 DEF Publish, TypeOK
<1>2. ASSUME NEW k \in Conns, NEW from \in Cursors, Open(k, from) PROVE TypeOK'
  <2>1. from \in [at : Nat, boot : Nat]
    BY <1>a DEF TypeOK, Cursors
  <2>2. from.at \in Nat
    BY <2>1
  <2>3. Replay(from.at) \in Seq(Nat)
    BY <2>2, <1>a, <1>b, ReplayIs
  <2>4. CASE OpenRefused(k, from)
    BY <2>1, <2>4, <1>a DEF OpenRefused, TypeOK, Phases
  <2>5. CASE OpenReplaying(k, from)
    BY <2>1, <2>3, <2>5, <1>a DEF OpenReplaying, TypeOK, Phases
  <2>6. CASE OpenLive(k, from)
    BY <2>1, <2>6, <1>a DEF OpenLive, Subscribe, TypeOK, Phases
  <2> QED
    BY <1>2, <2>4, <2>5, <2>6 DEF Open
<1>3. ASSUME NEW k \in Conns, SendReplayed(k) PROVE TypeOK'
  <2>1. Head(pending[k]) \in Nat /\ Tail(pending[k]) \in Seq(Nat)
    BY <1>3, <1>b, TailIs DEF SendReplayed
  <2>2. Append(replayed[k], Head(pending[k])) \in Seq(Nat)
    BY <2>1, <1>a DEF TypeOK
  <2>3. /\ replayed' = [replayed EXCEPT ![k] = Append(replayed[k], Head(pending[k]))]
        /\ pending' = [pending EXCEPT ![k] = Tail(pending[k])]
    BY <1>3 DEF SendReplayed
  <2>4. replayed' \in [Conns -> Seq(Nat)] /\ pending' \in [Conns -> Seq(Nat)]
    BY <2>1, <2>2, <2>3, <1>a DEF TypeOK
  <2> QED
    BY <1>3, <2>4, <1>a DEF SendReplayed, TypeOK
<1>4. ASSUME NEW k \in Conns, SubscribeAfterReplay(k) PROVE TypeOK'
  BY <1>4, <1>a DEF SubscribeAfterReplay, Subscribe, TypeOK, Phases
<1>5. ASSUME NEW k \in Conns, queue[k] # <<>>, queue' = [queue EXCEPT ![k] = Tail(@)]
      PROVE  queue' \in [Conns -> Seq(T)] /\ \A c \in Conns : Len(queue'[c]) <= QueueSize
  <2>1. /\ queue[k] \in Seq(T) /\ Len(queue[k]) <= QueueSize
    BY <1>a, <1>b DEF TypeOK
  <2>2. Tail(queue[k]) \in Seq(T) /\ Len(Tail(queue[k])) <= QueueSize
    BY <2>1, <1>5, <1>b, TailIs
  <2> HIDE DEF T
  <2> QED
    BY <2>2, <1>5, <1>a, <1>b DEF TypeOK
<1>6. ASSUME NEW k \in Conns, SendLive(k) PROVE TypeOK'
  <2>1. queue[k] \in Seq(T) /\ queue[k] # <<>>
    BY <1>6, <1>b DEF SendLive
  <2>2. Head(queue[k]) \in T
    BY <2>1, TailIs
  <2>3. Head(queue[k]) \in Nat
    BY <2>2, <1>6 DEF SendLive
  <2>4. Append(live[k], Head(queue[k])) \in Seq(Nat)
    BY <2>3, <1>a DEF TypeOK
  <2>5. live' = [live EXCEPT ![k] = Append(live[k], Head(queue[k]))]
    BY <1>6 DEF SendLive
  <2>6. queue' \in [Conns -> Seq(T)] /\ \A c \in Conns : Len(queue'[c]) <= QueueSize
    BY <1>5, <1>6 DEF SendLive
  <2>7. live' \in [Conns -> Seq(Nat)]
    BY <2>4, <2>5, <1>a DEF TypeOK
  <2> QED
    BY <1>6, <2>6, <2>7, <1>a DEF SendLive, TypeOK
<1>7. ASSUME NEW k \in Conns, SendResync(k) PROVE TypeOK'
  <2>1. queue' \in [Conns -> Seq(T)] /\ \A c \in Conns : Len(queue'[c]) <= QueueSize
    BY <1>5, <1>7 DEF SendResync
  <2> QED
    BY <1>7, <2>1, <1>a DEF SendResync, TypeOK, Phases
<1>8. ASSUME NEW k \in Conns, SendFails(k) PROVE TypeOK'
  BY <1>8, <1>a DEF SendFails, Leave, TypeOK, Phases
<1>9. ASSUME NEW k \in Conns, Disconnect(k) PROVE TypeOK'
  BY <1>9, <1>a DEF Disconnect, TypeOK
<1>10. CASE Reboot
  <2>1. boot' \in 1..MaxBoots /\ past' \in Nat
    BY <1>10, <1>a, StreamBoundsAssumption DEF Reboot, TypeOK
  <2>2. /\ queue' \in [Conns -> Seq(T)] /\ \A k \in Conns : Len(queue'[k]) <= QueueSize
        /\ buffer' \in Seq(Nat) /\ Len(buffer') <= BufferSize
    BY <1>10, <1>b, <1>c DEF Reboot
  <2>3. phase' \in [Conns -> Phases] /\ present' \in [Conns -> BOOLEAN]
    BY <1>10, <1>a DEF Reboot, TypeOK, Phases
  <2> QED
    BY <1>10, <2>1, <2>2, <2>3, <1>a DEF Reboot, TypeOK
<1>11. CASE UNCHANGED vars
  BY <1>11, <1>a DEF vars, TypeOK
<1> QED
  BY <1>1, <1>2, <1>3, <1>4, <1>6, <1>7, <1>8, <1>9, <1>10, <1>11 DEF Next, Handle

\* Every step keeps the buffer the latest events.
LEMMA BufferStep == IInv /\ [Next]_vars => BufferIsRecent'
<1> SUFFICES ASSUME IInv, [Next]_vars PROVE BufferIsRecent'
  OBVIOUS
<1>a. TypeOK /\ BufferIsRecent
  BY DEF IInv
<1>1. CASE Publish
  <2>1. sequence' = sequence + 1 /\ buffer' = Kept(sequence + 1)
    BY <1>1 DEF Publish
  <2> QED
    BY <2>1, <1>a, KeptIs DEF BufferIsRecent
<1>2. CASE Reboot
  <2>1. sequence' = 0 /\ buffer' = <<>> /\ Len(<<>>) = 0
    BY <1>2, EmptySeq DEF Reboot
  <2> QED
    BY <2>1 DEF BufferIsRecent, Runs
<1>3. CASE UNCHANGED <<sequence, buffer>>
  BY <1>3, <1>a DEF BufferIsRecent, Runs
<1> QED
  BY <1>1, <1>2, <1>3
     DEF Next, Open, OpenRefused, OpenReplaying, OpenLive, Handle, SendReplayed,
         SubscribeAfterReplay, SendLive, SendResync, SendFails, Leave, Disconnect, vars

-----------------------------------------------------------------------------
\* What k has and was sent, and the numbers it goes by.
LEMMA StreamType ==
  ASSUME TypeOK, NEW k \in Conns
  PROVE  /\ queue[k] \in Seq(Nat \cup {None}) /\ Len(queue[k]) \in Nat
         /\ DOMAIN queue[k] = 1..Len(queue[k])
         /\ pending[k] \in Seq(Nat) /\ Len(pending[k]) \in Nat
         /\ replayed[k] \in Seq(Nat) /\ Len(replayed[k]) \in Nat
         /\ live[k] \in Seq(Nat) /\ Len(live[k]) \in Nat
         /\ cursor[k].at \in Nat /\ cursor[k].boot \in Nat /\ covered[k] \in Nat
         /\ base[k] \in Nat /\ boot \in Nat /\ sequence \in Nat
<1>1. boot \in Nat
  BY StreamBoundsAssumption DEF TypeOK
<1>2. /\ queue[k] \in Seq(Nat \cup {None}) /\ pending[k] \in Seq(Nat)
      /\ replayed[k] \in Seq(Nat) /\ live[k] \in Seq(Nat)
      /\ covered[k] \in Nat /\ base[k] \in Nat /\ sequence \in Nat
      /\ cursor[k] \in [at : Nat, boot : Nat]
  BY DEF TypeOK
<1>3. cursor[k].at \in Nat /\ cursor[k].boot \in Nat
  BY <1>2
<1> QED
  BY <1>1, <1>2, <1>3, LenProperties

\* A run rises, and everything in it is past its start.
LEMMA RunsRise ==
  ASSUME NEW s \in Seq(Nat), NEW m \in Nat, Runs(s, m)
  PROVE  Rises(s) /\ \A i \in DOMAIN s : s[i] > m
<1>1. DOMAIN s = 1..Len(s) /\ Len(s) \in Nat
  BY LenProperties
<1> QED
  BY <1>1 DEF Runs, Rises

\* What was replayed up to a number and what was sent past it rise together.
LEMMA GotIs ==
  ASSUME NEW r \in Seq(Nat), NEW l \in Seq(Nat), NEW m \in Nat, NEW c \in Nat, NEW b \in Nat,
         Runs(r, m), Len(r) <= c - m, c <= b, Rises(l), \A i \in DOMAIN l : l[i] > b
  PROVE  Rises(r \o l)
<1>1. DOMAIN r = 1..Len(r) /\ Len(r) \in Nat
  BY LenProperties
<1>2. \A i \in DOMAIN r : r[i] <= b
  BY <1>1 DEF Runs
<1>3. DOMAIN l = 1..Len(l) /\ \A i \in DOMAIN l : l[i] \in Nat
  BY LenProperties, ElementOfSeq
<1>4. \A i \in DOMAIN r : r[i] \in Nat
  BY <1>1, ElementOfSeq
<1>5. \A i \in DOMAIN r, j \in DOMAIN l : r[i] < l[j]
  BY <1>2, <1>3, <1>4
<1> QED
  BY <1>5, RunsRise, RisesJoin

\* Nothing happened to k.
Unmoved(k) ==
  /\ UNCHANGED <<boot, sequence>>
  /\ queue'[k] = queue[k] /\ pending'[k] = pending[k] /\ replayed'[k] = replayed[k]
  /\ live'[k] = live[k] /\ phase'[k] = phase[k] /\ present'[k] = present[k]
  /\ told'[k] = told[k] /\ cursor'[k] = cursor[k] /\ covered'[k] = covered[k]
  /\ base'[k] = base[k]
  /\ k \in subscribers' <=> k \in subscribers

LEMMA StreamStays ==
  ASSUME NEW k \in Conns, Stream(k), Unmoved(k)
  PROVE  Stream(k)'
BY DEF Stream, Unmoved, ReplayRuns, LiveRises, CutOff, CutOffRises, SubscriberRuns, GotRises,
       Subscribed

\* What a handler or a client does is done to its own connection.
LEMMA OthersStay ==
  ASSUME TypeOK, NEW k \in Conns,
         (\E from \in Cursors : Open(k, from)) \/ Handle(k) \/ Disconnect(k)
  PROVE  \A m \in Conns \ {k} : Unmoved(m)
<1>1. ASSUME NEW from \in Cursors, Open(k, from) PROVE \A m \in Conns \ {k} : Unmoved(m)
  BY <1>1 DEF Unmoved, TypeOK, Open, OpenRefused, OpenReplaying, OpenLive, Subscribe
<1>2. CASE SendReplayed(k) \/ SubscribeAfterReplay(k)
  BY <1>2 DEF Unmoved, TypeOK, SendReplayed, SubscribeAfterReplay, Subscribe
<1>3. CASE SendLive(k) \/ SendResync(k)
  BY <1>3 DEF Unmoved, TypeOK, SendLive, SendResync, Leave
<1>4. CASE SendFails(k) \/ Disconnect(k)
  BY <1>4 DEF Unmoved, TypeOK, SendFails, Disconnect, Leave
<1> QED
  BY <1>1, <1>2, <1>3, <1>4 DEF Handle

\* A connection is opened: what is to be replayed is what comes after the cursor.
LEMMA OpenStream ==
  ASSUME IInv, NEW k \in Conns, NEW from \in Cursors, Open(k, from)
  PROVE  Stream(k)'
<1>a. TypeOK /\ BufferIsRecent /\ Stream(k)
  BY DEF IInv
<1>b. /\ buffer \in Seq(Nat) /\ sequence \in Nat /\ boot \in Nat
  BY <1>a, StreamType DEF TypeOK
<1>c. /\ from.at \in Nat /\ from.boot \in Nat /\ from.boot <= boot
      /\ from.boot = boot => from.at <= sequence
  <2>1. past \in Nat
    BY <1>a DEF TypeOK
  <2>2. CASE \E n \in 0..sequence : from = [at |-> n, boot |-> boot]
    BY <2>2, <1>b
  <2>3. CASE \E n \in 0..past, b \in 1..(boot - 1) : from = [at |-> n, boot |-> b]
    BY <2>1, <2>3, <1>b
  <2> QED
    BY <2>2, <2>3 DEF Cursors
<1>d. /\ Replay(from.at) \in Seq(Nat)
      /\ from.at <= sequence /\ Covers(from.at) =>
           Len(Replay(from.at)) = sequence - from.at /\ Runs(Replay(from.at), from.at)
  BY <1>a, <1>b, <1>c, ReplayIs
<1>e. phase[k] = "none"
  BY DEF Open, OpenRefused, OpenReplaying, OpenLive
<1>f. /\ queue[k] = <<>> /\ pending[k] = <<>> /\ replayed[k] = <<>> /\ live[k] = <<>>
      /\ k \notin subscribers /\ Len(<<>>) = 0 /\ DOMAIN <<>> = {}
  BY <1>a, <1>e, EmptySeq DEF Stream, Subscribed
<1>g. <<>> \o <<>> = <<>>
  OBVIOUS
<1>h. \A m : Runs(<<>>, m) /\ Rises(<<>>)
  BY DEF Runs, Rises
<1>1. UNCHANGED <<boot, sequence, queue, replayed, live>> /\ cursor'[k] = from
  BY <1>a DEF Open, OpenRefused, OpenReplaying, OpenLive, TypeOK
<1>2. GotRises(k)' /\ cursor'[k].boot <= boot'
  BY <1>1, <1>c, <1>f, <1>g, <1>h DEF GotRises
<1>3. CASE OpenRefused(k, from)
  <2>1. phase'[k] = "closed" /\ told'[k] /\ UNCHANGED subscribers
    BY <1>3, <1>a DEF OpenRefused, TypeOK
  <2> QED
    BY <2>1, <1>2, <1>f DEF Stream, CutOff, Subscribed
<1>4. CASE OpenReplaying(k, from)
  <2>1. /\ phase'[k] = "replaying" /\ pending'[k] = Replay(from.at) /\ covered'[k] = sequence
        /\ UNCHANGED subscribers /\ Covers(from.at)
    BY <1>4, <1>a DEF OpenReplaying, TypeOK
  <2>2. ReplayRuns(k)'
    <3> SUFFICES ASSUME from.boot = boot
                 PROVE  /\ Len(replayed'[k]) + Len(pending'[k]) = covered'[k] - cursor'[k].at
                        /\ Runs(replayed'[k], cursor'[k].at)
                        /\ Runs(pending'[k], cursor'[k].at + Len(replayed'[k]))
      BY <1>1 DEF ReplayRuns, Runs
    <3>1. Len(pending'[k]) = sequence - from.at /\ Runs(pending'[k], from.at)
      BY <2>1, <1>c, <1>d
    <3>2. 0 + (sequence - from.at) = sequence - from.at /\ from.at + 0 = from.at
      BY <1>b, <1>c
    <3> QED
      BY <3>1, <3>2, <2>1, <1>1, <1>f, <1>h
  <2>3. covered'[k] <= sequence'
    BY <2>1, <1>1, <1>b
  <2> QED
    BY <2>1, <2>2, <2>3, <1>1, <1>2, <1>f DEF Stream, CutOff, Subscribed
<1>5. CASE OpenLive(k, from)
  <2>1. /\ phase'[k] = "live" /\ covered'[k] = sequence /\ base'[k] = sequence
        /\ UNCHANGED pending /\ k \in subscribers' /\ Covers(from.at) /\ Replay(from.at) = <<>>
    BY <1>5, <1>a DEF OpenLive, Subscribe, TypeOK
  <2>2. ReplayRuns(k)'
    <3> SUFFICES ASSUME from.boot = boot
                 PROVE  /\ Len(replayed'[k]) + Len(pending'[k]) = covered'[k] - cursor'[k].at
                        /\ Runs(replayed'[k], cursor'[k].at)
                        /\ Runs(pending'[k], cursor'[k].at + Len(replayed'[k]))
      BY <1>1 DEF ReplayRuns, Runs
    <3>1. sequence - from.at = 0
      BY <2>1, <1>c, <1>d, <1>f
    <3> QED
      BY <3>1, <2>1, <1>1, <1>f, <1>h
  <2>3. LiveRises(k)'
    BY <2>1, <1>1, <1>b, <1>f, <1>h DEF LiveRises, Rises
  <2>4. SubscriberRuns(k)'
    BY <2>1, <1>1, <1>b, <1>f, <1>h DEF SubscriberRuns, Runs
  <2> QED
    BY <2>1, <2>2, <2>3, <2>4, <1>2 DEF Stream, CutOff, Subscribed
<1> QED
  BY <1>3, <1>4, <1>5 DEF Open

\* The handler of k sends, subscribes, or finds its client gone.
LEMMA HandleStream ==
  ASSUME IInv, NEW k \in Conns, Handle(k)
  PROVE  Stream(k)'
<1>a. TypeOK /\ Stream(k)
  BY DEF IInv
<1>b. /\ queue[k] \in Seq(Nat \cup {None}) /\ Len(queue[k]) \in Nat
      /\ DOMAIN queue[k] = 1..Len(queue[k])
      /\ pending[k] \in Seq(Nat) /\ Len(pending[k]) \in Nat
      /\ replayed[k] \in Seq(Nat) /\ Len(replayed[k]) \in Nat
      /\ live[k] \in Seq(Nat) /\ Len(live[k]) \in Nat
      /\ cursor[k].at \in Nat /\ cursor[k].boot \in Nat /\ covered[k] \in Nat
      /\ base[k] \in Nat /\ boot \in Nat /\ sequence \in Nat
  BY <1>a, StreamType
<1>c. /\ Len(queue[k]) \in Nat /\ Len(pending[k]) \in Nat /\ Len(replayed[k]) \in Nat
      /\ Len(live[k]) \in Nat /\ cursor[k].at \in Nat /\ covered[k] \in Nat /\ base[k] \in Nat
      /\ sequence \in Nat
  BY <1>b
<1>1. CASE SendReplayed(k)
  <2>1. /\ phase[k] = "replaying" /\ pending[k] # <<>>
        /\ replayed'[k] = Append(replayed[k], Head(pending[k]))
        /\ pending'[k] = Tail(pending[k])
        /\ UNCHANGED <<boot, sequence, queue, subscribers, phase, told, live, cursor, covered,
                       base, present>>
    BY <1>1, <1>a DEF SendReplayed, TypeOK
  <2>2. queue[k] = <<>> /\ live[k] = <<>> /\ covered[k] <= sequence /\ ReplayRuns(k)
    BY <2>1, <1>a DEF Stream
  <2>3. /\ Head(pending[k]) \in Nat /\ Tail(pending[k]) \in Seq(Nat)
        /\ Len(Tail(pending[k])) = Len(pending[k]) - 1 /\ Len(pending[k]) \in Nat \ {0}
    BY <2>1, <1>b, TailIs
  <2>4. replayed'[k] \in Seq(Nat) /\ Len(replayed'[k]) = Len(replayed[k]) + 1
    BY <2>1, <2>3, <1>b, AppendIs
  <2>5. ASSUME cursor[k].boot = boot
        PROVE  /\ Len(replayed'[k]) + Len(pending'[k]) = covered[k] - cursor[k].at
               /\ Runs(replayed'[k], cursor[k].at)
               /\ Runs(pending'[k], cursor[k].at + Len(replayed'[k]))
    <3>0. cursor[k].at + Len(replayed[k]) \in Nat
      BY <1>c
    <3>1. /\ Len(replayed[k]) + Len(pending[k]) = covered[k] - cursor[k].at
          /\ Runs(replayed[k], cursor[k].at)
          /\ Runs(pending[k], cursor[k].at + Len(replayed[k]))
      BY <2>2, <2>5 DEF ReplayRuns
    <3>2. /\ Head(pending[k]) = cursor[k].at + Len(replayed[k]) + 1
          /\ Runs(Tail(pending[k]), cursor[k].at + Len(replayed[k]) + 1)
      BY <3>0, <3>1, <2>1, <1>b, RunsTail
    <3>3. Runs(replayed'[k], cursor[k].at)
      BY <3>1, <3>2, <2>1, <2>3, <1>b, RunsAppend
    <3>4. /\ Len(replayed'[k]) + Len(pending'[k]) = covered[k] - cursor[k].at
          /\ cursor[k].at + Len(replayed'[k]) = cursor[k].at + Len(replayed[k]) + 1
      <4> DEFINE a == Len(replayed[k])
                 b == Len(pending[k])
      <4>1. a + b = covered[k] - cursor[k].at /\ a \in Nat /\ b \in Nat
        BY <3>1, <1>c
      <4>2. /\ Len(replayed'[k]) = a + 1 /\ Len(pending'[k]) = b - 1
            /\ covered[k] \in Nat /\ cursor[k].at \in Nat
        BY <2>1, <2>3, <2>4, <1>c
      <4> HIDE DEF a, b
      <4>3. /\ (a + 1) + (b - 1) = covered[k] - cursor[k].at
            /\ cursor[k].at + (a + 1) = cursor[k].at + a + 1
        BY <4>1, <4>2
      <4>4. /\ Len(replayed'[k]) + Len(pending'[k]) = covered[k] - cursor[k].at
            /\ cursor[k].at + Len(replayed'[k]) = cursor[k].at + a + 1
        BY <4>2, <4>3, Zenon
      <4> QED
        BY <4>4 DEF a
    <3> QED
      BY <3>2, <3>3, <3>4, <2>1
  <2>6. ReplayRuns(k)'
    BY <2>1, <2>5 DEF ReplayRuns, Runs
  <2>7. GotRises(k)'
    <3> SUFFICES ASSUME cursor[k].boot = boot PROVE Rises(replayed'[k] \o live'[k])
      BY <2>1 DEF GotRises, Rises
    <3>1. Rises(replayed'[k])
      BY <2>4, <2>5, <1>b, RunsRise
    <3>2. Rises(live'[k]) /\ live'[k] \in Seq(Nat) /\ DOMAIN live'[k] = {}
      BY <2>1, <2>2, EmptySeq DEF Rises
    <3> QED
      BY <3>1, <3>2, <2>4, RisesJoin
  <2> QED
    BY <2>1, <2>2, <2>6, <2>7, <1>a DEF Stream, CutOff, Subscribed
<1>2. CASE SubscribeAfterReplay(k)
  <2>1. /\ phase[k] = "replaying" /\ phase'[k] = "live" /\ pending[k] = <<>>
        /\ base'[k] = sequence /\ k \in subscribers'
        /\ UNCHANGED <<boot, sequence, queue, pending, told, replayed, live, cursor, covered,
                       present>>
    BY <1>2, <1>a DEF SubscribeAfterReplay, Subscribe, TypeOK
  <2>2. queue[k] = <<>> /\ live[k] = <<>> /\ covered[k] <= sequence /\ ReplayRuns(k)
    BY <2>1, <1>a DEF Stream
  <2>3. Len(<<>>) = 0 /\ \A m : Runs(<<>>, m) /\ Rises(<<>>)
    BY EmptySeq DEF Runs, Rises
  <2>4. ReplayRuns(k)'
    BY <2>1, <2>2 DEF ReplayRuns, Runs
  <2>5. LiveRises(k)'
    BY <2>1, <2>2, <1>b DEF LiveRises, Rises
  <2>6. SubscriberRuns(k)'
    BY <2>1, <2>2, <2>3, <1>b DEF SubscriberRuns, Runs
  <2>7. GotRises(k)'
    BY <2>1, <1>a DEF Stream, GotRises, Rises
  <2> QED
    BY <2>1, <2>4, <2>5, <2>6, <2>7, <1>a DEF Stream, CutOff, Subscribed
<1>3. CASE SendLive(k)
  <2> DEFINE h == Head(queue[k])
             q == Tail(queue[k])
             l == Append(live[k], h)
  <2>1. /\ phase[k] = "live" /\ queue[k] # <<>> /\ h # None
        /\ live'[k] = l /\ queue'[k] = q
        /\ UNCHANGED <<boot, sequence, subscribers, phase, pending, told, replayed, cursor,
                       covered, base, present>>
    BY <1>3, <1>a DEF SendLive, TypeOK
  <2>2. /\ h = queue[k][1] /\ h \in Nat \cup {None} /\ q \in Seq(Nat \cup {None})
        /\ Len(queue[k]) \in Nat \ {0} /\ Len(q) = Len(queue[k]) - 1
        /\ DOMAIN q = 1..(Len(queue[k]) - 1)
        /\ \A i \in 1..(Len(queue[k]) - 1) : q[i] = queue[k][i + 1]
    BY <2>1, <1>b, TailIs
  <2>3. h \in Nat
    BY <2>1, <2>2
  <2>4. /\ l \in Seq(Nat) /\ Len(l) = Len(live[k]) + 1 /\ DOMAIN live[k] = 1..Len(live[k])
        /\ DOMAIN l = 1..(Len(live[k]) + 1) /\ l[Len(live[k]) + 1] = h
        /\ \A i \in 1..Len(live[k]) : l[i] = live[k][i]
    BY <2>3, <1>b, AppendIs
  <2> HIDE DEF h, q, l
  <2>5. ReplayRuns(k) /\ LiveRises(k)
    BY <2>1, <1>a DEF Stream
  <2>6. ASSUME Subscribed(k)
        PROVE  SubscriberRuns(k)' /\ Rises(l) /\ \A i \in DOMAIN l : l[i] > base[k]
    <3>1. /\ Len(live[k]) + Len(queue[k]) = sequence - base[k]
          /\ Runs(live[k], base[k]) /\ Runs(queue[k], base[k] + Len(live[k]))
      BY <2>6, <1>a DEF Stream, SubscriberRuns
    <3>0. base[k] + Len(live[k]) \in Nat
      BY <1>c
    <3>2. h = base[k] + Len(live[k]) + 1 /\ Runs(q, base[k] + Len(live[k]) + 1)
      BY <3>0, <3>1, <2>1, <1>b, RunsTail DEF h, q
    <3>3. Runs(l, base[k])
      BY <3>1, <3>2, <2>3, <1>b, RunsAppend DEF l
    <3>4. Len(l) + Len(q) = sequence - base[k] /\ base[k] + Len(l) = base[k] + Len(live[k]) + 1
      <4> DEFINE a == Len(live[k])
                 b == Len(queue[k])
      <4>1. a + b = sequence - base[k] /\ a \in Nat /\ b \in Nat
        BY <3>1, <1>c
      <4>2. /\ Len(l) = a + 1 /\ Len(q) = b - 1
            /\ sequence \in Nat /\ base[k] \in Nat
        BY <2>2, <2>4, <1>c
      <4> HIDE DEF a, b
      <4>3. /\ (a + 1) + (b - 1) = sequence - base[k]
            /\ base[k] + (a + 1) = base[k] + a + 1
        BY <4>1, <4>2
      <4>4. /\ Len(l) + Len(q) = sequence - base[k]
            /\ base[k] + Len(l) = base[k] + a + 1
        BY <4>2, <4>3, Zenon
      <4> QED
        BY <4>4 DEF a
    <3>5. SubscriberRuns(k)'
      BY <3>2, <3>3, <3>4, <2>1 DEF SubscriberRuns
    <3> QED
      BY <3>3, <3>5, <2>4, <1>b, RunsRise
  <2>7. ASSUME ~Subscribed(k)
        PROVE  CutOffRises(k)' /\ Rises(l) /\ \A i \in DOMAIN l : l[i] > base[k]
    <3>1. /\ queue[k][Len(queue[k])] = None
          /\ \A i \in 1..(Len(queue[k]) - 1) :
               /\ queue[k][i] \in Nat /\ queue[k][i] > base[k]
               /\ \A j \in 1..(Len(queue[k]) - 1) : i < j => queue[k][i] < queue[k][j]
               /\ \A j \in DOMAIN live[k] : live[k][j] < queue[k][i]
      BY <2>1, <2>7, <1>a DEF Stream, CutOff, CutOffRises
    <3>2. Len(queue[k]) # 1 /\ 1 \in 1..(Len(queue[k]) - 1)
      BY <3>1, <2>1, <2>2
    <3>3. h > base[k] /\ \A j \in 1..Len(live[k]) : live[k][j] < h
      BY <3>1, <3>2, <2>2, <2>4
    <3>4. \A i \in DOMAIN l : i \in 1..Len(live[k]) \/ i = Len(live[k]) + 1
      BY <2>4, <1>c
    <3>5. \A i \in DOMAIN l : l[i] > base[k]
      BY <3>3, <3>4, <2>4, <2>5 DEF LiveRises
    <3>6. Rises(l)
      <4>1. \A i, j \in DOMAIN l : i < j => i \in 1..Len(live[k])
        BY <3>4, <2>4, <1>b
      <4> QED
        BY <3>3, <3>4, <4>1, <2>4, <2>5 DEF LiveRises, Rises
    <3>7. q # <<>> /\ q[Len(q)] = None
      <4>1. Len(q) \in 1..(Len(queue[k]) - 1) /\ Len(q) + 1 = Len(queue[k])
        BY <3>2, <2>2
      <4>2. q # <<>>
        BY <4>1, EmptySeq
      <4> QED
        BY <3>1, <4>1, <4>2, <2>2
    <3>8. ASSUME NEW i \in 1..(Len(q) - 1)
          PROVE  /\ q[i] \in Nat /\ q[i] > base[k]
                 /\ \A j \in 1..(Len(q) - 1) : i < j => q[i] < q[j]
                 /\ \A j \in DOMAIN l : l[j] < q[i]
      <4>1. \A j \in 1..(Len(q) - 1) :
              /\ q[j] = queue[k][j + 1] /\ j + 1 \in 1..(Len(queue[k]) - 1) /\ 1 < j + 1
        BY <2>2, <3>2
      <4>2. \A j \in 1..(Len(q) - 1) : i < j => i + 1 < j + 1
        BY <2>2
      <4>3. h < q[i] /\ \A j \in 1..Len(live[k]) : live[k][j] < q[i]
        BY <3>1, <3>2, <4>1, <2>2, <2>4
      <4> QED
        BY <3>1, <3>4, <4>1, <4>2, <4>3, <2>4
    <3> QED
      BY <3>5, <3>6, <3>7, <3>8, <2>1 DEF CutOffRises
  <2>8. Rises(l) /\ \A i \in DOMAIN l : l[i] > base[k]
    BY <2>6, <2>7
  <2>9. LiveRises(k)'
    BY <2>1, <2>5, <2>8 DEF LiveRises, Rises
  <2>10. ReplayRuns(k)'
    BY <2>1, <2>5 DEF ReplayRuns, Runs
  <2>11. GotRises(k)'
    <3> SUFFICES ASSUME cursor[k].boot = boot PROVE Rises(replayed[k] \o l)
      BY <2>1 DEF GotRises, Rises
    <3>1. Runs(replayed[k], cursor[k].at) /\ Len(replayed[k]) <= covered[k] - cursor[k].at
      <4>1. /\ Runs(replayed[k], cursor[k].at)
            /\ Len(replayed[k]) + Len(pending[k]) = covered[k] - cursor[k].at
        BY <2>5 DEF ReplayRuns
      <4> DEFINE a == Len(replayed[k])
                 b == Len(pending[k])
      <4>2. a + b = covered[k] - cursor[k].at /\ a \in Nat /\ b \in Nat
            /\ covered[k] \in Nat /\ cursor[k].at \in Nat
        BY <4>1, <1>c
      <4> HIDE DEF a, b
      <4>3. a <= covered[k] - cursor[k].at
        BY <4>2
      <4> QED
        BY <4>1, <4>3 DEF a
    <3>2. covered[k] <= base[k]
      BY <2>5 DEF LiveRises
    <3> QED
      BY <3>1, <3>2, <2>4, <2>8, <1>b, GotIs
  <2> QED
    BY <2>1, <2>6, <2>7, <2>9, <2>10, <2>11, <1>a DEF Stream, CutOff, Subscribed
<1>4. CASE SendResync(k) \/ SendFails(k)
  <2>1. /\ phase'[k] = "closed" /\ k \notin subscribers' /\ (told'[k] \/ ~present'[k])
        /\ UNCHANGED <<boot, sequence, replayed, live, cursor>>
    BY <1>4, <1>a DEF SendResync, SendFails, Leave, TypeOK
  <2> QED
    BY <2>1, <1>a DEF Stream, CutOff, Subscribed, GotRises, Rises
<1> QED
  BY <1>1, <1>2, <1>3, <1>4 DEF Handle

\* An event is published: a subscriber's queue gets it, or is cut off.
LEMMA PublishStream ==
  ASSUME IInv, Publish, NEW k \in Conns
  PROVE  Stream(k)'
<1>a. TypeOK /\ Stream(k)
  BY DEF IInv
<1>b. /\ queue[k] \in Seq(Nat \cup {None}) /\ Len(queue[k]) \in Nat
      /\ DOMAIN queue[k] = 1..Len(queue[k])
      /\ live[k] \in Seq(Nat) /\ Len(live[k]) \in Nat /\ DOMAIN live[k] = 1..Len(live[k])
      /\ covered[k] \in Nat /\ base[k] \in Nat /\ sequence \in Nat
  BY <1>a, StreamType, LenProperties
<1>c. /\ Len(queue[k]) \in Nat /\ Len(live[k]) \in Nat /\ covered[k] \in Nat
      /\ base[k] \in Nat /\ sequence \in Nat
  BY <1>b
<1>1. /\ sequence' = sequence + 1
      /\ queue'[k] = IF Subscribed(k) THEN Offered(k, sequence + 1) ELSE queue[k]
      /\ k \in subscribers' <=> k \in subscribers /\ ~Full(k)
      /\ UNCHANGED <<boot, phase, pending, told, replayed, live, cursor, covered, base, present>>
  BY DEF Publish
<1>2. GotRises(k)' /\ (ReplayRuns(k) => ReplayRuns(k)')
  BY <1>1, <1>a DEF Stream, GotRises, Rises, ReplayRuns, Runs
<1>3. LiveRises(k) => LiveRises(k)'
  BY <1>1, <1>c DEF LiveRises, Rises
<1>4. covered[k] <= sequence => covered'[k] <= sequence'
  BY <1>1, <1>c
<1>5. CASE ~Subscribed(k)
  BY <1>1, <1>2, <1>3, <1>4, <1>5, <1>a
     DEF Stream, Subscribed, CutOff, CutOffRises
<1>6. CASE Subscribed(k)
  <2>1. /\ phase[k] = "live" /\ ReplayRuns(k) /\ LiveRises(k)
        /\ Len(live[k]) + Len(queue[k]) = sequence - base[k]
        /\ Runs(live[k], base[k]) /\ Runs(queue[k], base[k] + Len(live[k]))
    BY <1>6, <1>a DEF Stream, SubscriberRuns
  <2>2. base[k] + Len(live[k]) \in Nat
    BY <1>c
  <2>3. base[k] <= sequence
    BY <2>1 DEF LiveRises
  <2>4. /\ sequence + 1 = (base[k] + Len(live[k])) + Len(queue[k]) + 1
        /\ Len(live[k]) + (Len(queue[k]) + 1) = (sequence + 1) - base[k]
    <3> DEFINE a == Len(live[k])
               b == Len(queue[k])
    <3>1. a + b = sequence - base[k] /\ a \in Nat /\ b \in Nat /\ base[k] \in Nat /\ sequence \in Nat
      BY <2>1, <1>c
    <3> HIDE DEF a, b
    <3>2. sequence + 1 = (base[k] + a) + b + 1 /\ a + (b + 1) = (sequence + 1) - base[k]
      BY <3>1, <2>3
    <3> QED
      BY <3>2, Zenon DEF a, b
  <2>5. CASE ~Full(k)
    <3>1. queue'[k] = Append(queue[k], sequence + 1) /\ Subscribed(k)'
      BY <1>1, <1>6, <2>5 DEF Offered, Subscribed
    <3>2. sequence + 1 \in Nat \cup {None}
      BY <1>c
    <3>3. /\ Len(queue'[k]) = Len(queue[k]) + 1
          /\ Runs(queue'[k], base[k] + Len(live[k]))
      <4> DEFINE s == queue[k]
                 e == sequence + 1
                 m == base[k] + Len(live[k])
      <4>1. s \in Seq(Nat \cup {None}) /\ e \in Nat \cup {None} /\ m \in Nat
            /\ Runs(s, m) /\ e = m + Len(s) + 1 /\ queue'[k] = Append(s, e)
        BY <3>1, <3>2, <2>1, <2>2, <2>4, <1>b
      <4> HIDE DEF s, e, m
      <4>2. Len(Append(s, e)) = Len(s) + 1
        BY <4>1, AppendIs
      <4>3. Runs(Append(s, e), m)
        BY <4>1, RunsAppend
      <4> QED
        BY <4>1, <4>2, <4>3 DEF s, m
    <3>4. SubscriberRuns(k)'
      BY <3>3, <2>1, <2>4, <1>1 DEF SubscriberRuns, Runs
    <3> QED
      BY <3>1, <3>4, <2>1, <1>1, <1>2, <1>3, <1>a DEF Stream, CutOff
  <2>6. CASE Full(k)
    <3> DEFINE q == Tail(queue[k])
    <3>1. queue'[k] = Append(q, None) /\ ~Subscribed(k)'
      BY <1>1, <1>6, <2>6 DEF Offered, Subscribed
    <3>2. queue[k] # <<>>
      BY <1>a, <1>c, <2>6, OfferedType
    <3>3. /\ q \in Seq(Nat \cup {None}) /\ DOMAIN q = 1..(Len(queue[k]) - 1)
          /\ Len(q) = Len(queue[k]) - 1 /\ Len(queue[k]) \in Nat \ {0}
          /\ Runs(q, base[k] + Len(live[k]) + 1)
      BY <3>2, <2>1, <2>2, <1>b, TailIs, RunsTail
    <3> HIDE DEF q
    <3>4. /\ Len(queue'[k]) = Len(q) + 1 /\ queue'[k] \in Seq(Nat \cup {None})
          /\ \A i \in 1..Len(q) : queue'[k][i] = q[i]
          /\ queue'[k][Len(q) + 1] = None
      <4>1. None \in Nat \cup {None}
        OBVIOUS
      <4> QED
        BY <3>1, <3>3, <4>1, AppendIs
    <3>5. queue'[k] # <<>> /\ queue'[k][Len(queue'[k])] = None
      <4>1. Len(q) + 1 # 0
        BY <3>3
      <4> QED
        BY <3>4, <4>1, EmptySeq
    <3>6. \A i \in 1..(Len(queue'[k]) - 1) : queue'[k][i] = base[k] + Len(live[k]) + 1 + i
      <4>1. \A i \in 1..(Len(queue'[k]) - 1) : i \in 1..Len(q) /\ i \in DOMAIN q
        BY <3>3, <3>4
      <4> QED
        BY <3>3, <3>4, <4>1 DEF Runs
    <3>7. \A j \in DOMAIN live[k] : live[k][j] = base[k] + j
      BY <2>1 DEF Runs
    <3>8. CutOffRises(k)'
      <4>1. ASSUME NEW i \in 1..(Len(queue'[k]) - 1)
            PROVE  /\ queue'[k][i] \in Nat /\ queue'[k][i] > base[k]
                   /\ \A j \in 1..(Len(queue'[k]) - 1) : i < j => queue'[k][i] < queue'[k][j]
                   /\ \A j \in DOMAIN live[k] : live[k][j] < queue'[k][i]
        <5>1. i \in Nat /\ queue'[k][i] = base[k] + Len(live[k]) + 1 + i
          BY <3>6
        <5>2. queue'[k][i] \in Nat /\ queue'[k][i] > base[k]
          BY <5>1, <1>c
        <5>3. ASSUME NEW j \in 1..(Len(queue'[k]) - 1), i < j PROVE queue'[k][i] < queue'[k][j]
          <6>1. j \in Nat /\ queue'[k][j] = base[k] + Len(live[k]) + 1 + j
            BY <3>6
          <6> QED
            BY <5>1, <5>3, <6>1, <1>c
        <5>4. ASSUME NEW j \in DOMAIN live[k] PROVE live[k][j] < queue'[k][i]
          <6>1. j \in Nat /\ j <= Len(live[k]) /\ live[k][j] = base[k] + j
            BY <3>7, <1>b
          <6> QED
            BY <5>1, <6>1, <1>c
        <5> QED
          BY <5>2, <5>3, <5>4
      <4> QED
        BY <3>5, <4>1, <1>1 DEF CutOffRises
    <3> QED
      BY <3>1, <3>8, <2>1, <1>1, <1>2, <1>3, <1>a DEF Stream, CutOff
  <2> QED
    BY <2>5, <2>6
<1> QED
  BY <1>5, <1>6

\* Every step keeps every stream what it is.
LEMMA StreamStep == IInv /\ [Next]_vars => (\A k \in Conns : Stream(k))'
<1> SUFFICES ASSUME IInv, [Next]_vars, NEW m \in Conns PROVE Stream(m)'
  OBVIOUS
<1>a. TypeOK /\ Stream(m)
  BY DEF IInv
<1>1. CASE Publish
  BY <1>1, PublishStream
<1>2. ASSUME NEW k \in Conns, NEW from \in Cursors, Open(k, from) PROVE Stream(m)'
  BY <1>2, <1>a, OpenStream, OthersStay, StreamStays
<1>3. ASSUME NEW k \in Conns, Handle(k) PROVE Stream(m)'
  BY <1>3, <1>a, HandleStream, OthersStay, StreamStays
<1>4. ASSUME NEW k \in Conns, Disconnect(k) PROVE Stream(m)'
  <2>1. CASE k = m
    BY <1>4, <2>1, <1>a
       DEF Disconnect, TypeOK, Stream, ReplayRuns, LiveRises, CutOff, CutOffRises, SubscriberRuns,
           GotRises, Subscribed, Runs, Rises
  <2>2. CASE k # m
    BY <1>4, <2>2, <1>a, OthersStay, StreamStays
  <2> QED
    BY <2>1, <2>2
<1>5. CASE Reboot
  <2>1. /\ boot' = boot + 1 /\ subscribers' = {} /\ queue'[m] = <<>> /\ ~present'[m]
        /\ phase'[m] = IF phase[m] = "none" THEN "none" ELSE "closed"
        /\ UNCHANGED <<pending, replayed, live, cursor>>
    BY <1>5 DEF Reboot
  <2>2. cursor[m].boot <= boot /\ cursor[m].boot \in Nat /\ boot \in Nat
    BY <1>a, StreamType DEF Stream
  <2>3. cursor'[m].boot <= boot' /\ cursor'[m].boot # boot'
    BY <2>1, <2>2
  <2> QED
    BY <2>1, <2>3, <1>a DEF Stream, CutOff, Subscribed, GotRises
<1>6. CASE UNCHANGED vars
  <2>1. Unmoved(m)
    BY <1>6 DEF vars, Unmoved
  <2> QED
    BY <2>1, <1>a, StreamStays
<1> QED
  BY <1>1, <1>2, <1>3, <1>4, <1>5, <1>6 DEF Next

-----------------------------------------------------------------------------
\* A Runtime starts with no events and no connections.
LEMMA InitIsKept == Init => IInv
<1> SUFFICES ASSUME Init PROVE IInv
  OBVIOUS
<1>1. /\ \A S : <<>> \in Seq(S)
      /\ Len(<<>>) = 0 /\ DOMAIN <<>> = {} /\ <<>> \o <<>> = <<>>
  BY EmptySeq
<1>2. \A m : Runs(<<>>, m) /\ Rises(<<>>)
  BY DEF Runs, Rises
<1>3. TypeOK
  BY <1>1, SizesAssumption, StreamBoundsAssumption DEF Init, TypeOK, Phases
<1>4. BufferIsRecent
  BY <1>1, <1>2 DEF Init, BufferIsRecent
<1>5. ASSUME NEW k \in Conns PROVE Stream(k)
  BY <1>1, <1>2 DEF Init, Stream, Subscribed, CutOff, GotRises
<1> QED
  BY <1>3, <1>4, <1>5 DEF IInv

LEMMA StreamsAreKept == Spec => []IInv
<1>1. IInv /\ [Next]_vars => IInv'
  BY TypeStep, BufferStep, StreamStep DEF IInv
<1> QED
  BY <1>1, InitIsKept, PTL DEF Spec

\* A subscriber whose queue overflowed has the sentinel to come, and a client that is
\* still there when its handler ends was told to resync, in whatever order clients come,
\* go and are slow (event_bus.py:65-80, transport/server.py:162-190).
THEOREM NoLossIsSilent == Spec => []LossInv
<1>1. IInv => OverflowIsAnnounced
  BY DEF IInv, Stream, CutOffRises, OverflowIsAnnounced
<1>2. IInv => ClosedMeansTold
  BY DEF IInv, Stream, ClosedMeansTold
<1>3. IInv => TypeOK
  BY DEF IInv
<1> QED
  BY <1>1, <1>2, <1>3, StreamsAreKept, PTL DEF LossInv

\* What a subscriber was sent and what waits for it is what was published since it
\* subscribed (event_bus.py:65-80, transport/server.py:179-186).
THEOREM SubscribersMissNothing == Spec => []SubscriberMissesNothing
<1>1. ASSUME IInv, NEW k \in subscribers
      PROVE  live[k] \o queue[k] = Events(base[k], sequence)
  <2>a. TypeOK /\ k \in Conns /\ Stream(k)
    BY <1>1 DEF IInv, TypeOK
  <2>1. SubscriberRuns(k)
    BY <1>1, <2>a DEF Stream, Subscribed
  <2>2. /\ live[k] \in Seq(Nat \cup {None}) /\ queue[k] \in Seq(Nat \cup {None})
        /\ base[k] \in Nat /\ sequence \in Nat
    <3>1. Nat \subseteq Nat \cup {None}
      OBVIOUS
    <3> QED
      BY <3>1, <2>a, StreamType, SeqMonotonic
  <2> QED
    BY <2>1, <2>2, RunsJoin DEF SubscriberRuns
<1>2. IInv => SubscriberMissesNothing
  BY <1>1 DEF SubscriberMissesNothing
<1> QED
  BY <1>2, StreamsAreKept, PTL

\* A replay is everything the client missed, whatever the buffer has dropped
\* (event_bus.py:82-92, transport/server.py:162-177).
THEOREM ReplaysAreExact == Spec => []ReplayIsExact
<1>1. ASSUME IInv, NEW k \in Conns, phase[k] \in {"replaying", "live"}, cursor[k].boot = boot
      PROVE  replayed[k] \o pending[k] = Events(cursor[k].at, covered[k])
  <2>a. TypeOK /\ Stream(k)
    BY <1>1 DEF IInv
  <2>1. ReplayRuns(k)
    BY <1>1, <2>a DEF Stream
  <2>2. /\ replayed[k] \in Seq(Nat) /\ pending[k] \in Seq(Nat)
        /\ cursor[k].at \in Nat /\ covered[k] \in Nat
    BY <2>a, StreamType
  <2> QED
    BY <1>1, <2>1, <2>2, RunsJoin DEF ReplayRuns
<1>2. IInv => ReplayIsExact
  BY <1>1 DEF ReplayIsExact
<1> QED
  BY <1>2, StreamsAreKept, PTL

\* The events that reach a client rise, those of the replay and those of the queue taken
\* together, also past an overflow (transport/server.py:176-186).
THEOREM NothingArrivesTwice == Spec => []NothingTwice
<1>1. IInv => NothingTwice
  BY DEF IInv, Stream, GotRises, Rises, NothingTwice
<1> QED
  BY <1>1, StreamsAreKept, PTL
=============================================================================
