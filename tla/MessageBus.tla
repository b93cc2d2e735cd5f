----------------------------- MODULE MessageBus -----------------------------
(***************************************************************************)
(* The message queues of src/runtime/message_bus.py, used by agents that   *)
(* run on threads of their own.  The bus is a dictionary of lists without  *)
(* a lock: a step here is what the interpreter does in one go, a call of   *)
(* setdefault, append, get or pop, or a step of an iteration.              *)
(*                                                                         *)
(* receive() hands out the list itself, not a copy; lists are therefore    *)
(* objects with an identity, and clear() only takes one out of the         *)
(* dictionary.  A dictionary that is rebuilt while a broadcast iterates    *)
(* over it is left out: that takes at least six insertions of keys.        *)
(***************************************************************************)
EXTENDS Integers, SequencesExt

CONSTANTS
    Agents,     \* each on its own thread
    MaxBusCalls \* bound: calls on the bus, of all agents together

ASSUME BusAssumption == MaxBusCalls \in Nat

VARIABLES
    lists,    \* the lists made so far
    queueOf,  \* MessageBus._queues: which of them is an agent's queue, 0 if none
    keys,     \* the keys of _queues in the order of insertion
    busy,     \* what each agent's thread is doing on the bus
    held,     \* the list an agent got from its last receive(), and when
    sent,     \* how many messages each agent has made
    clears,   \* how often each agent has cleared its queue
    due,      \* the messages sent to an agent since its last clear(), not across it
    busCalls  \* calls on the bus so far

busVars == <<lists, queueOf, keys, busy, held, sent, clears, due, busCalls>>

Messages == [from : Agents, n : Nat \ {0}]

\* `size`, `walked`, `seen` and `always` belong to a broadcast: the number of queues it began
\* with, the keys it was given one after the other, those of them that have not been inserted
\* anew since, and the agents that have had a queue all the time.
Idle == [at |-> "idle", to |-> {}, epoch |-> 0, list |-> 0, casting |-> FALSE,
         size |-> 0, walked |-> <<>>, seen |-> {}, always |-> {}]

Work ==
    [at : {"idle", "enqueue", "append", "next", "done", "raised"}, to : SUBSET Agents,
     epoch : Nat, list : Nat, casting : BOOLEAN, size : Nat, walked : Seq(Agents),
     seen : SUBSET Agents, always : SUBSET Agents]

BusTypeOK ==
    /\ lists \in Seq(Seq(Messages))
    /\ queueOf \in [Agents -> 0..Len(lists)]
    /\ keys \in Seq(Agents) /\ IsInjective(keys)
    /\ \A a \in Agents : queueOf[a] # 0 <=> a \in ToSet(keys)
    /\ busy \in [Agents -> Work]
    /\ held \in [Agents -> [list : 0..Len(lists), epoch : Nat]]
    /\ sent \in [Agents -> Nat] /\ clears \in [Agents -> Nat]
    /\ due \in [Agents -> SUBSET Messages]
    /\ busCalls \in 0..MaxBusCalls

BusInit ==
    /\ lists = <<>>
    /\ queueOf = [a \in Agents |-> 0]
    /\ keys = <<>>
    /\ busy = [a \in Agents |-> Idle]
    /\ held = [a \in Agents |-> [list |-> 0, epoch |-> 0]]
    /\ sent = [a \in Agents |-> 0]
    /\ clears = [a \in Agents |-> 0]
    /\ due = [a \in Agents |-> {}]
    /\ busCalls = 0

-----------------------------------------------------------------------------

\* A thread that has come back from one call may make another.
Call(t) ==
    /\ busy[t].at \in {"idle", "done", "raised"}
    /\ busCalls < MaxBusCalls
    /\ busCalls' = busCalls + 1

Send(t, to) ==
    /\ Call(t)
    /\ busy' = [busy EXCEPT ![t] = [Idle EXCEPT !.at = "enqueue", !.to = {to},
                                                !.epoch = clears[to]]]
    /\ UNCHANGED <<lists, queueOf, keys, held, sent, clears, due>>

\* Mutant: `get(to, [])`, the new list is not kept.
EnqueueWithoutKeeping(t) ==
    /\ busy[t].at = "enqueue"
    /\ \E to \in busy[t].to :
          IF queueOf[to] # 0
          THEN /\ busy' = [busy EXCEPT ![t].at = "append", ![t].list = queueOf[to]]
               /\ UNCHANGED lists
          ELSE /\ lists' = Append(lists, <<>>)
               /\ busy' = [busy EXCEPT ![t].at = "append", ![t].list = Len(lists')]
    /\ UNCHANGED <<queueOf, keys, held, sent, clears, due, busCalls>>

\* `setdefault(to, [])`: the recipient's list, a new one if it has none.
Enqueue(t) ==
    /\ busy[t].at = "enqueue"
    /\ \E to \in busy[t].to :
          IF queueOf[to] # 0
          THEN /\ busy' = [busy EXCEPT ![t].at = "append", ![t].list = queueOf[to]]
               /\ UNCHANGED <<lists, queueOf, keys>>
          ELSE /\ lists' = Append(lists, <<>>)
               /\ queueOf' = [queueOf EXCEPT ![to] = Len(lists')]
               /\ keys' = Append(keys, to)
               /\ busy' = [busy EXCEPT ![t].at = "append", ![t].list = Len(lists')]
    /\ UNCHANGED <<held, sent, clears, due, busCalls>>

\* `append(msg)`, to the list that was found, whether or not it still is a queue.
AppendMessage(t) ==
    /\ busy[t].at = "append"
    /\ LET msg == [from |-> t, n |-> sent[t] + 1]
       IN  /\ lists' = [lists EXCEPT ![busy[t].list] = Append(@, msg)]
           /\ due' = [a \in Agents |->
                 IF a \in busy[t].to /\ clears[a] = busy[t].epoch
                 THEN due[a] \cup {msg} ELSE due[a]]
    /\ sent' = [sent EXCEPT ![t] = @ + 1]
    /\ busy' = [busy EXCEPT ![t].at = IF busy[t].casting THEN "next" ELSE "done",
                            ![t].to = {}, ![t].list = 0]
    /\ UNCHANGED <<queueOf, keys, held, clears, busCalls>>

\* Mutant: the agent gets a copy.
ReceiveCopy(t) ==
    /\ Call(t)
    /\ held' = [held EXCEPT ![t] = [list |-> IF queueOf[t] = 0 THEN 0 ELSE Len(lists) + 1,
                                   epoch |-> clears[t]]]
    /\ lists' = IF queueOf[t] = 0 THEN lists ELSE Append(lists, lists[queueOf[t]])
    /\ busy' = [busy EXCEPT ![t] = [Idle EXCEPT !.at = "done"]]
    /\ UNCHANGED <<queueOf, keys, sent, clears, due>>

\* An agent reads its own queue: the list itself, or a new one that nobody else has.
Receive(t) ==
    /\ Call(t)
    /\ held' = [held EXCEPT ![t] = [list |-> queueOf[t], epoch |-> clears[t]]]
    /\ busy' = [busy EXCEPT ![t] = [Idle EXCEPT !.at = "done"]]
    /\ UNCHANGED <<lists, queueOf, keys, sent, clears, due>>

\* A key that is inserted again comes last, and a broadcast on its way comes to it again.
Clear(t) ==
    /\ Call(t)
    /\ queueOf' = [queueOf EXCEPT ![t] = 0]
    /\ IF queueOf[t] = 0 THEN keys' = keys
       ELSE \E i \in DOMAIN keys : keys[i] = t /\ keys' = RemoveAt(keys, i)
    /\ clears' = [clears EXCEPT ![t] = @ + 1]
    /\ due' = [due EXCEPT ![t] = {}]
    /\ busy' = [a \in Agents |->
          IF a = t THEN [Idle EXCEPT !.at = "done"]
          ELSE [busy[a] EXCEPT !.seen = @ \ {t}, !.always = @ \ {t}]]
    /\ UNCHANGED <<lists, held, sent>>

Broadcast(t) ==
    /\ Call(t)
    /\ busy' = [busy EXCEPT ![t] = [Idle EXCEPT !.at = "next", !.casting = TRUE,
                                                !.size = Len(keys), !.always = ToSet(keys)]]
    /\ UNCHANGED <<lists, queueOf, keys, held, sent, clears, due>>

\* The first key that a broadcast has not visited.
Upcoming(t, i) ==
    keys[i] \notin busy[t].seen /\ \A j \in 1..(i - 1) : keys[j] \in busy[t].seen

\* The agent on whom it is the turn gets a message, unless it is the sender itself.
Visit(t, a) ==
    busy' = [busy EXCEPT ![t].walked = Append(@, a),
                         ![t].seen = @ \cup {a},
                         ![t].at = IF a = t THEN "next" ELSE "enqueue",
                         ![t].to = IF a = t THEN {} ELSE {a},
                         ![t].epoch = clears[a]]

\* The iterator finds another number of keys than at the start, or one key more than that
\* number when it has been through as many: RuntimeError.
Changed(t) ==
    \/ Len(keys) # busy[t].size
    \/ Len(busy[t].walked) = busy[t].size /\ ~(ToSet(keys) \subseteq busy[t].seen)

\* Mutant: the sender's own key ends the loop.
BroadcastUpToSelf(t) ==
    /\ busy[t].at = "next"
    /\ IF Changed(t)
       THEN busy' = [busy EXCEPT ![t].at = "raised"]
       ELSE \/ /\ \A i \in DOMAIN keys : Upcoming(t, i) => keys[i] = t
               /\ busy' = [busy EXCEPT ![t].at = "done"]
            \/ \E i \in DOMAIN keys : Upcoming(t, i) /\ keys[i] # t /\ Visit(t, keys[i])
    /\ UNCHANGED <<lists, queueOf, keys, held, sent, clears, due, busCalls>>

\* `for agent_id in self._queues`, one step of the iterator.
BroadcastNext(t) ==
    /\ busy[t].at = "next"
    /\ IF Changed(t)
       THEN busy' = [busy EXCEPT ![t].at = "raised"]
       ELSE \/ /\ ToSet(keys) \subseteq busy[t].seen
               /\ busy' = [busy EXCEPT ![t].at = "done"]
            \/ \E i \in DOMAIN keys : Upcoming(t, i) /\ Visit(t, keys[i])
    /\ UNCHANGED <<lists, queueOf, keys, held, sent, clears, due, busCalls>>

BusNext ==
    \E t \in Agents :
        \/ \E to \in Agents : Send(t, to)
        \/ Enqueue(t) \/ AppendMessage(t) \/ Receive(t) \/ Clear(t)
        \/ Broadcast(t) \/ BroadcastNext(t)

BusSpec == BusInit /\ [][BusNext]_busVars

-----------------------------------------------------------------------------
(* Properties. *)

\* A queue holds what was sent to its agent since it last cleared it, each message once,
\* but for sends that the clear() overtook: what these put into the new queue, or lose in
\* the old list, is not owed (message_bus.py lines 27-30, 44-45).
QueueHoldsWhatIsDue ==
    \A a \in Agents :
        LET queue == IF queueOf[a] = 0 THEN <<>> ELSE lists[queueOf[a]]
        IN  due[a] \subseteq ToSet(queue) /\ IsInjective(queue)

\* A broadcast that came to its end has reached every other agent that had a queue all the
\* time, and nobody twice, whatever queues came, went and came back meanwhile; one that
\* would miss or repeat an agent does not come to its end (message_bus.py lines 35-42).
BroadcastReaches ==
    \A t \in Agents :
        busy[t].casting /\ busy[t].at = "done" =>
            /\ busy[t].always \ {t} \subseteq ToSet(busy[t].walked)
            /\ IsInjective(busy[t].walked)

\* The list that an agent got from receive() is live: until the agent clears its queue, it
\* shows all that is sent later too, if the agent had a queue when it asked
\* (message_bus.py lines 32-33).
HeldListIsLive ==
    \A a \in Agents :
        held[a].list # 0 /\ held[a].epoch = clears[a] =>
            due[a] \subseteq ToSet(lists[held[a].list])
=============================================================================
