------------------------------ MODULE EventHub ------------------------------
(* The in-process event hub (internal/events/hub.go): every stream has a      *)
(* bounded channel of its own, publishers walk the channels under the read    *)
(* lock and drop what does not fit, Subscribe and cancel take the write lock. *)
(* Their critical sections are single actions: whoever holds the lock for     *)
(* writing is alone.                                                          *)
EXTENDS Integers, Sequences, FiniteSets

CONSTANTS
  Streams, \* subscribers, each with a channel of its own
  Pubs,    \* publications of one event each, named by the event
  Cap      \* the capacity of a channel (64 in the code)

VARIABLES
  subs,     \* h.subs
  closed,   \* channels that have been closed
  sent,     \* what was put into each channel, in order
  taken,    \* how many of those its stream has taken out
  todo,     \* the channels each publisher, inside the read lock, has still to visit
  audience, \* h.subs when the publisher took the read lock
  lost      \* the channels that were full when the publisher came to them

hubVars == <<subs, closed, sent, taken, todo, audience, lost>>

HubTypeOK ==
  /\ subs \subseteq Streams /\ closed \subseteq Streams
  /\ sent \in [Streams -> Seq(Pubs)] /\ taken \in [Streams -> Nat]
  /\ todo \in [Pubs -> SUBSET Streams] /\ audience \in [Pubs -> SUBSET Streams]
  /\ lost \in [Pubs -> SUBSET Streams]
  /\ \A s \in Streams : taken[s] <= Len(sent[s]) /\ Len(sent[s]) - taken[s] <= Cap

HubInit ==
  /\ subs = {} /\ closed = {}
  /\ sent = [s \in Streams |-> <<>>] /\ taken = [s \in Streams |-> 0]
  /\ todo = [p \in Pubs |-> {}] /\ audience = [p \in Pubs |-> {}] /\ lost = [p \in Pubs |-> {}]

Full(s)  == Len(sent[s]) - taken[s] >= Cap
Unlocked == \A p \in Pubs : todo[p] = {}

Subscribe(s) ==
  /\ Unlocked /\ subs' = subs \cup {s}
  /\ UNCHANGED <<closed, sent, taken, todo, audience, lost>>

\* Variant: delete and close without the lock.
Unsubscribe_NoLock(s) ==
  /\ subs' = subs \ {s} /\ closed' = closed \cup {s}
  /\ UNCHANGED <<sent, taken, todo, audience, lost>>

\* cancel of a stream.
Unsubscribe(s) ==
  /\ Unlocked /\ s \in subs
  /\ subs' = subs \ {s} /\ closed' = closed \cup {s}
  /\ UNCHANGED <<sent, taken, todo, audience, lost>>

\* Publish takes the read lock and ranges over h.subs.
PublishBegin(p) ==
  /\ todo' = [todo EXCEPT ![p] = subs] /\ audience' = [audience EXCEPT ![p] = subs]
  /\ UNCHANGED <<subs, closed, sent, taken, lost>>

\* Variant: the send waits for room.
Send_Waits(p, s) ==
  /\ s \in todo[p] /\ ~Full(s)
  /\ sent' = [sent EXCEPT ![s] = Append(@, p)] /\ lost' = lost
  /\ todo' = [todo EXCEPT ![p] = @ \ {s}]
  /\ UNCHANGED <<subs, closed, taken, audience>>

\* Variant: the first full channel ends the walk.
Send_Returns(p, s) ==
  /\ s \in todo[p]
  /\ IF Full(s)
     THEN sent' = sent /\ lost' = [lost EXCEPT ![p] = @ \cup {s}] /\ todo' = [todo EXCEPT ![p] = {}]
     ELSE sent' = [sent EXCEPT ![s] = Append(@, p)] /\ lost' = lost /\ todo' = [todo EXCEPT ![p] = @ \ {s}]
  /\ UNCHANGED <<subs, closed, taken, audience>>

\* The select with a default: a full channel is passed over.
Send(p, s) ==
  /\ s \in todo[p]
  /\ IF Full(s)
     THEN sent' = sent /\ lost' = [lost EXCEPT ![p] = @ \cup {s}]
     ELSE sent' = [sent EXCEPT ![s] = Append(@, p)] /\ lost' = lost
  /\ todo' = [todo EXCEPT ![p] = @ \ {s}]
  /\ UNCHANGED <<subs, closed, taken, audience>>

\* A stream takes the oldest event out of its channel.
Take(s) ==
  /\ taken[s] < Len(sent[s]) /\ taken' = [taken EXCEPT ![s] = @ + 1]
  /\ UNCHANGED <<subs, closed, sent, todo, audience, lost>>

\* A restart of the process: the hub starts empty.
HubRestart ==
  /\ subs' = {}
  /\ todo' = [p \in Pubs |-> {}] /\ audience' = [p \in Pubs |-> {}]
  /\ UNCHANGED <<closed, sent, taken, lost>>

\* No publisher is about to send on a channel that has been closed, which would
\* end the process, and no channel is closed while h.subs still names it
\* (Publish holds the read lock for the whole walk, cancel the write lock).
NoSendOnClosed == \A p \in Pubs : todo[p] \cap closed = {} /\ subs \cap closed = {}

\* An event reaches every stream that was subscribed when its publication began
\* and had room for it: a slow stream loses its own events alone.
SlowLosesItsOwn ==
  \A p \in Pubs : \A s \in audience[p] \ (todo[p] \cup lost[p]) :
    \E i \in 1..Len(sent[s]) : sent[s][i] = p
=============================================================================
