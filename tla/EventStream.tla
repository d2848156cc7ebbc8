----------------------------- MODULE EventStream -----------------------------
(***************************************************************************)
(* How the events of a Runtime reach its clients: the bus with its replay  *)
(* buffer and its bounded subscriber queues (core/event_bus.py), and one    *)
(* WebSocket handler per connection (transport/server.py, events_ws).      *)
(*                                                                         *)
(* Publishing never suspends.  A handler suspends whenever it sends, so    *)
(* anything may be published between two sends; what was sent arrives in   *)
(* order as long as the client stays.  An event is its sequence number.    *)
(*                                                                         *)
(* A connection is used once; a client that comes back opens another.  The *)
(* cursor it quotes (after_sequence) is one it learnt from a snapshot or an *)
(* event, in this boot of the Runtime or in an earlier one: no client      *)
(* compares boot ids (transport/client.py, events).                        *)
(***************************************************************************)
EXTENDS Naturals, Sequences

CONSTANTS
  Conns,        \* connections
  BufferSize,   \* replay_buffer_size
  QueueSize,    \* subscriber_queue_size
  MaxSequence,  \* bound of the number of events of one boot
  MaxBoots,     \* bound of the number of boots
  None          \* the sentinel of a queue that overflowed

ASSUME SizesAssumption ==
  BufferSize \in Nat \ {0} /\ QueueSize \in Nat \ {0}
ASSUME SentinelAssumption == None \notin Nat
ASSUME StreamBoundsAssumption == MaxSequence \in Nat /\ MaxBoots \in Nat \ {0}

VARIABLES
  boot,         \* how many times the Runtime has started
  past,         \* history: the highest sequence number of the earlier boots
  sequence,     \* EventBus._sequence
  buffer,       \* EventBus._buffer, oldest first
  subscribers,  \* the connections in EventBus._subscribers
  queue,        \* the queue of each connection
  phase,        \* where the handler of each connection is
  pending,      \* what a handler still has to replay
  present,      \* is the client still there?
  told,         \* the client was sent resync_required
  cursor,       \* history: [at, boot] the client quoted
  covered,      \* history: the sequence number the replay went up to
  base,         \* history: the sequence number when it subscribed
  replayed,     \* history: the events replayed to the client
  live          \* history: the events sent from the queue

busVars == <<sequence, buffer, subscribers, queue>>
handlerVars == <<phase, pending, told, replayed, live>>
openVars == <<cursor, covered, base>>
vars == <<boot, past, busVars, handlerVars, openVars, present>>

Phases == {"none", "replaying", "live", "closed"}

\* The events m+1 to n.
Events(m, n) == [i \in 1..(IF n > m THEN n - m ELSE 0) |-> m + i]

Elements(s) == {s[i] : i \in DOMAIN s}

Subscribed(k) == k \in subscribers

\* The handler of k still listens to its queue, which was cut off.
CutOff(k) == phase[k] = "live" /\ ~Subscribed(k)

-----------------------------------------------------------------------------
Init ==
  /\ boot = 1 /\ past = 0
  /\ sequence = 0 /\ buffer = <<>> /\ subscribers = {}
  /\ queue = [k \in Conns |-> <<>>]
  /\ phase = [k \in Conns |-> "none"]
  /\ pending = [k \in Conns |-> <<>>]
  /\ present = [k \in Conns |-> FALSE]
  /\ told = [k \in Conns |-> FALSE]
  /\ cursor = [k \in Conns |-> [at |-> 0, boot |-> 1]]
  /\ covered = [k \in Conns |-> 0]
  /\ base = [k \in Conns |-> 0]
  /\ replayed = [k \in Conns |-> <<>>]
  /\ live = [k \in Conns |-> <<>>]

\* deque(maxlen): the oldest event falls out.
Kept(event) ==
  LET longer == Append(buffer, event)
  IN  IF Len(longer) > BufferSize THEN Tail(longer) ELSE longer

Full(k) == Len(queue[k]) = QueueSize

\* (mutant of Offered: a full queue is cut off, the sentinel forgotten)
OfferedUnmarked(k, event) == IF Full(k) THEN queue[k] ELSE Append(queue[k], event)

\* What publish does to the queue of a subscriber: a full one loses its oldest
\* entry to the sentinel, and its subscription.
Offered(k, event) ==
  IF Full(k) THEN Append(Tail(queue[k]), None) ELSE Append(queue[k], event)

\* (mutant of Publish: a full queue drops its oldest event and stays subscribed)
PublishDropping ==
  /\ sequence < MaxSequence
  /\ sequence' = sequence + 1
  /\ buffer' = Kept(sequence')
  /\ queue' = [k \in Conns |->
                 IF ~Subscribed(k) THEN queue[k]
                 ELSE Append(IF Full(k) THEN Tail(queue[k]) ELSE queue[k], sequence')]
  /\ UNCHANGED <<boot, past, subscribers, handlerVars, openVars, present>>

Publish ==
  /\ sequence < MaxSequence
  /\ sequence' = sequence + 1
  /\ buffer' = Kept(sequence')
  /\ queue' = [k \in Conns |-> IF Subscribed(k) THEN Offered(k, sequence') ELSE queue[k]]
  /\ subscribers' = {k \in subscribers : ~Full(k)}
  /\ UNCHANGED <<boot, past, handlerVars, openVars, present>>

-----------------------------------------------------------------------------
\* The handler of connection k.

\* (mutant of Covers: off by one)
CoversOneMore(n) ==
  n = sequence \/ IF buffer = <<>> THEN n = 0 ELSE n + 2 >= buffer[1]

\* replay_since: can the buffer cover what comes after n, and with what?
Covers(n) ==
  \/ n = sequence
  \/ IF buffer = <<>> THEN n = 0 ELSE n >= buffer[1] - 1

\* (What is after n is a tail of the buffer: the numbers rise.)
Replay(n) ==
  LET first == CHOOSE i \in 1..(Len(buffer) + 1) :
                 \A j \in DOMAIN buffer : buffer[j] > n <=> j >= i
  IN  SubSeq(buffer, first, Len(buffer))

\* The cursors that a client can have.
Cursors == {[at |-> n, boot |-> boot] : n \in 0..sequence}
      \cup {[at |-> n, boot |-> b] : n \in 0..past, b \in 1..(boot - 1)}

Subscribe(k) ==
  /\ phase' = [phase EXCEPT ![k] = "live"]
  /\ subscribers' = subscribers \cup {k}
  /\ base' = [base EXCEPT ![k] = sequence]

\* The first message names a cursor that the buffer does not reach back to.
OpenRefused(k, from) ==
  /\ phase[k] = "none"
  /\ ~Covers(from.at)
  /\ phase' = [phase EXCEPT ![k] = "closed"]
  /\ told' = [told EXCEPT ![k] = TRUE]
  /\ present' = [present EXCEPT ![k] = TRUE]
  /\ cursor' = [cursor EXCEPT ![k] = from]
  /\ UNCHANGED <<boot, past, busVars, pending, replayed, live, covered, base>>

\* There is something to replay: the handler starts sending it.
OpenReplaying(k, from) ==
  /\ phase[k] = "none"
  /\ Covers(from.at)
  /\ Replay(from.at) # <<>>
  /\ pending' = [pending EXCEPT ![k] = Replay(from.at)]
  /\ phase' = [phase EXCEPT ![k] = "replaying"]
  /\ present' = [present EXCEPT ![k] = TRUE]
  /\ cursor' = [cursor EXCEPT ![k] = from]
  /\ covered' = [covered EXCEPT ![k] = sequence]
  /\ UNCHANGED <<boot, past, busVars, told, replayed, live, base>>

\* There is nothing to replay: the handler subscribes without suspending.
OpenLive(k, from) ==
  /\ phase[k] = "none"
  /\ Covers(from.at)
  /\ Replay(from.at) = <<>>
  /\ Subscribe(k)
  /\ present' = [present EXCEPT ![k] = TRUE]
  /\ cursor' = [cursor EXCEPT ![k] = from]
  /\ covered' = [covered EXCEPT ![k] = sequence]
  /\ UNCHANGED <<boot, past, sequence, buffer, queue, pending, told, replayed, live>>

\* A send fails because the client left: the handler ends and unsubscribes.
Leave(k) ==
  /\ phase' = [phase EXCEPT ![k] = "closed"]
  /\ subscribers' = subscribers \ {k}
  /\ UNCHANGED <<boot, past, sequence, buffer, queue, pending, told, replayed, live,
                 openVars, present>>

SendReplayed(k) ==
  /\ phase[k] = "replaying"
  /\ present[k]
  /\ pending[k] # <<>>
  /\ replayed' = [replayed EXCEPT ![k] = Append(@, Head(pending[k]))]
  /\ pending' = [pending EXCEPT ![k] = Tail(@)]
  /\ UNCHANGED <<boot, past, busVars, phase, told, live, openVars, present>>

\* (mutant of SubscribeAfterReplay: the replay is queued once more)
SubscribeAndReplay(k) ==
  /\ phase[k] = "replaying"
  /\ pending[k] = <<>>
  /\ Subscribe(k)
  /\ queue' = [queue EXCEPT ![k] = Replay(cursor[k].at)]
  /\ UNCHANGED <<boot, past, sequence, buffer, pending, told, replayed, live, cursor,
                 covered, present>>

\* The last replayed event was sent: only now does the handler subscribe.
SubscribeAfterReplay(k) ==
  /\ phase[k] = "replaying"
  /\ pending[k] = <<>>
  /\ Subscribe(k)
  /\ UNCHANGED <<boot, past, sequence, buffer, queue, pending, told, replayed, live,
                 cursor, covered, present>>

SendLive(k) ==
  /\ phase[k] = "live"
  /\ present[k]
  /\ queue[k] # <<>> /\ Head(queue[k]) # None
  /\ live' = [live EXCEPT ![k] = Append(@, Head(queue[k]))]
  /\ queue' = [queue EXCEPT ![k] = Tail(@)]
  /\ UNCHANGED <<boot, past, sequence, buffer, subscribers, phase, pending, told, replayed,
                 openVars, present>>

SendResync(k) ==
  /\ phase[k] = "live"
  /\ present[k]
  /\ queue[k] # <<>> /\ Head(queue[k]) = None
  /\ told' = [told EXCEPT ![k] = TRUE]
  /\ queue' = [queue EXCEPT ![k] = Tail(@)]
  /\ phase' = [phase EXCEPT ![k] = "closed"]
  /\ subscribers' = subscribers \ {k}
  /\ UNCHANGED <<boot, past, sequence, buffer, pending, replayed, live, openVars, present>>

\* (mutant of SendFails: the handler ends without its "finally")
SendFailsSubscribed(k) ==
  /\ ~present[k]
  /\ phase[k] \in {"replaying", "live"} /\ pending[k] \o queue[k] # <<>>
  /\ phase' = [phase EXCEPT ![k] = "closed"]
  /\ UNCHANGED <<boot, past, busVars, pending, told, replayed, live, openVars, present>>

\* A handler with something to send finds its client gone.
SendFails(k) ==
  /\ ~present[k]
  /\ \/ phase[k] = "replaying" /\ pending[k] # <<>>
     \/ phase[k] = "live" /\ queue[k] # <<>>
  /\ Leave(k)

Handle(k) ==
  SendReplayed(k) \/ SubscribeAfterReplay(k) \/ SendLive(k) \/ SendResync(k) \/ SendFails(k)

-----------------------------------------------------------------------------
\* The client goes away; its handler notices when it next sends.
Disconnect(k) ==
  /\ phase[k] \in {"replaying", "live"}
  /\ present[k]
  /\ present' = [present EXCEPT ![k] = FALSE]
  /\ UNCHANGED <<boot, past, busVars, handlerVars, openVars>>

\* The Runtime starts anew: its connections are gone, its numbers start at 1.
Reboot ==
  /\ boot < MaxBoots
  /\ boot' = boot + 1
  /\ past' = IF sequence > past THEN sequence ELSE past
  /\ sequence' = 0 /\ buffer' = <<>> /\ subscribers' = {}
  /\ queue' = [k \in Conns |-> <<>>]
  /\ phase' = [k \in Conns |-> IF phase[k] = "none" THEN "none" ELSE "closed"]
  /\ present' = [k \in Conns |-> FALSE]
  /\ UNCHANGED <<pending, told, replayed, live, openVars>>

Open(k, from) == OpenRefused(k, from) \/ OpenReplaying(k, from) \/ OpenLive(k, from)

Next ==
  \/ Publish
  \/ \E k \in Conns : \E from \in Cursors : Open(k, from)
  \/ \E k \in Conns : Handle(k) \/ Disconnect(k)
  \/ Reboot

Spec == Init /\ [][Next]_vars

\* A handler that has something to do does it: sockets drain or break.
Fairness == \A k \in Conns : WF_vars(Handle(k))

FairSpec == Spec /\ Fairness

-----------------------------------------------------------------------------
(***************************************************************************)
(* Properties.                                                             *)
(***************************************************************************)

\* The type of every variable; no queue or buffer outgrows its bound.
TypeOK ==
  /\ boot \in 1..MaxBoots /\ past \in Nat /\ sequence \in Nat
  /\ buffer \in Seq(Nat) /\ Len(buffer) <= BufferSize
  /\ subscribers \subseteq Conns
  /\ queue \in [Conns -> Seq(Nat \cup {None})]
  /\ \A k \in Conns : Len(queue[k]) <= QueueSize
  /\ phase \in [Conns -> Phases]
  /\ pending \in [Conns -> Seq(Nat)]
  /\ present \in [Conns -> BOOLEAN]
  /\ told \in [Conns -> BOOLEAN]
  /\ cursor \in [Conns -> [at : Nat, boot : Nat]]
  /\ covered \in [Conns -> Nat]
  /\ base \in [Conns -> Nat]
  /\ replayed \in [Conns -> Seq(Nat)]
  /\ live \in [Conns -> Seq(Nat)]

\* What a subscriber was sent and what waits for it are together everything that
\* was published since it subscribed: in order, once each, nothing missing
\* (EventBus.publish, the loop of events_ws).
SubscriberMissesNothing ==
  \A k \in subscribers : live[k] \o queue[k] = Events(base[k], sequence)

\* A subscriber whose queue overflowed is never left with a hole it does not
\* hear of: whether or not events follow the hole, the sentinel is the last thing
\* in its queue until resync_required is sent (publish, "force the reader to
\* stop and resync").
OverflowIsAnnounced ==
  \A k \in Conns :
    CutOff(k) => queue[k] # <<>> /\ queue[k][Len(queue[k])] = None

\* A client that is still there and whose handler has ended was told to resync,
\* unless the whole Runtime went down: the server never just stops sending.
ClosedMeansTold ==
  \A k \in Conns : phase[k] = "closed" /\ present[k] => told[k]

\* No loss is silent once a client is subscribed, and nothing outgrows its bound.
LossInv == TypeOK /\ OverflowIsAnnounced /\ ClosedMeansTold

\* A replay is what the client asked for: exactly the events after its cursor up
\* to the moment it asked, as long as the cursor is one of this boot
\* (replay_since: neither the bounds of the buffer nor its eviction show).
ReplayIsExact ==
  \A k \in Conns :
    phase[k] \in {"replaying", "live"} /\ cursor[k].boot = boot =>
      replayed[k] \o pending[k] = Events(cursor[k].at, covered[k])

\* Nothing reaches a client twice or out of order, the replayed events and the
\* live ones taken together.
NothingTwice ==
  \A k \in Conns :
    LET got == replayed[k] \o live[k]
    IN  cursor[k].boot = boot => \A i, j \in DOMAIN got : i < j => got[i] < got[j]

\* Every event that is published after a client subscribed reaches it, or its
\* stream ends: it was told to resync, it left, or the Runtime went down.
EventsArrive ==
  \A k \in Conns : \A n \in 1..MaxSequence :
    phase[k] = "live" /\ base[k] < n /\ n <= sequence
      ~> n \in Elements(live[k]) \/ phase[k] = "closed" \/ ~present[k]

\* A handler whose client left does not stay subscribed once there is something
\* to send.
SubscriptionsEnd ==
  \A k \in Conns :
    (~present[k] /\ Subscribed(k) /\ queue[k] # <<>>) ~> ~Subscribed(k)

=============================================================================
