------------------------ MODULE CollaborationProofs ------------------------
(***************************************************************************)
(* Proofs about what agents on several threads share, for any agents and   *)
(* any number of calls:                                                    *)
(*   - MessageBus.tla: a queue holds what is due, a finished broadcast has *)
(*     reached everyone, and the list that receive() hands out is live;    *)
(*   - ToolRouter.tla: a call has one step in its trace for good, unless   *)
(*     one that was storing at the same time has stored after it;          *)
(*   - Merger.tla: the joined entries of a merge stand for all values, and *)
(*     the statement says whatever someone is certain of, and says it once;*)
(*   - MCCollaboration.tla: the types of these and of the blackboard.      *)
(***************************************************************************)
EXTENDS MCCollaboration, FiniteSetTheorems, SequenceTheorems, WellFoundedInduction, TLAPS

-----------------------------------------------------------------------------
(* Sequences. *)

LEMMA Appended ==
    ASSUME NEW T, NEW s \in Seq(T), NEW x \in T
    PROVE  /\ Append(s, x) \in Seq(T) /\ DOMAIN s = 1..Len(s) /\ Len(s) \in Nat
           /\ Len(Append(s, x)) = Len(s) + 1 /\ DOMAIN Append(s, x) = 1..(Len(s) + 1)
           /\ \A i \in 1..Len(s) : Append(s, x)[i] = s[i]
           /\ Append(s, x)[Len(s) + 1] = x
<1>1. /\ Append(s, x) \in Seq(T) /\ Len(Append(s, x)) = Len(s) + 1
      /\ \A i \in 1..Len(s) : Append(s, x)[i] = s[i]
      /\ Append(s, x)[Len(s) + 1] = x
  BY AppendProperties
<1> QED
  BY <1>1

LEMMA AppendedSet ==
    ASSUME NEW T, NEW s \in Seq(T), NEW x \in T
    PROVE  /\ ToSet(Append(s, x)) = ToSet(s) \cup {x}
           /\ IsInjective(s) /\ x \notin ToSet(s) => IsInjective(Append(s, x))
<1> DEFINE r == Append(s, x)
<1>1. /\ DOMAIN s = 1..Len(s) /\ Len(s) \in Nat /\ DOMAIN r = 1..(Len(s) + 1)
      /\ \A i \in 1..Len(s) : r[i] = s[i]
      /\ r[Len(s) + 1] = x
  BY Appended
<1> HIDE DEF r
<1>2. ToSet(r) = ToSet(s) \cup {x}
  <2>1. ASSUME NEW y \in ToSet(s)
        PROVE  y \in ToSet(r)
    BY <1>1, <2>1 DEF ToSet
  <2>2. x \in ToSet(r)
    BY <1>1 DEF ToSet
  <2>3. ASSUME NEW y \in ToSet(r)
        PROVE  y \in ToSet(s) \cup {x}
    <3>1. PICK i \in 1..(Len(s) + 1) : y = r[i]
      BY <1>1 DEF ToSet
    <3>2. CASE i = Len(s) + 1
      BY <1>1, <3>1, <3>2
    <3>3. CASE i \in 1..Len(s)
      BY <1>1, <3>1, <3>3 DEF ToSet
    <3> QED
      BY <1>1, <3>2, <3>3
  <2> QED
    BY <2>1, <2>2, <2>3
<1>3. ASSUME IsInjective(s), x \notin ToSet(s), NEW i \in DOMAIN r, NEW j \in DOMAIN r,
             r[i] = r[j]
      PROVE  i = j
  <2>1. \A k \in 1..Len(s) : s[k] # x
    BY <1>1, <1>3 DEF ToSet
  <2>2. CASE i \in 1..Len(s) /\ j \in 1..Len(s)
    BY <1>1, <1>3, <2>2 DEF IsInjective
  <2>3. CASE i = Len(s) + 1 \/ j = Len(s) + 1
    BY <1>1, <1>3, <2>1, <2>3
  <2> QED
    BY <1>1, <2>2, <2>3
<1> QED
  BY <1>2, <1>3 DEF IsInjective, r

\* Taking one key out leaves the others.
LEMMA RemovedKey ==
    ASSUME NEW T, NEW s \in Seq(T), IsInjective(s), NEW i \in DOMAIN s
    PROVE  /\ RemoveAt(s, i) \in Seq(T) /\ IsInjective(RemoveAt(s, i))
           /\ ToSet(RemoveAt(s, i)) = ToSet(s) \ {s[i]}
<1> DEFINE r == RemoveAt(s, i)
           front == SubSeq(s, 1, i - 1)
           back == SubSeq(s, i + 1, Len(s))
           n == Len(s)
<1>1. n \in Nat /\ DOMAIN s = 1..n /\ i \in 1..n
  OBVIOUS
<1>2. /\ front \in Seq(T) /\ Len(front) = i - 1
      /\ \A j \in 1..(i - 1) : front[j] = s[j]
  BY <1>1, SubSeqProperties
<1>3. /\ back \in Seq(T) /\ Len(back) = n - i
      /\ \A j \in 1..(n - i) : back[j] = s[i + j]
  <2>1. \A j \in (i + 1)..n : s[j] \in T
    BY <1>1
  <2>2. /\ back \in Seq(T) /\ Len(back) = (IF i + 1 <= n THEN n - (i + 1) + 1 ELSE 0)
        /\ \A j \in 1..(n - (i + 1) + 1) : back[j] = s[(i + 1) + j - 1]
    BY <1>1, <2>1, SubSeqProperties
  <2>3. /\ n - (i + 1) + 1 = n - i /\ \A j \in 1..(n - i) : (i + 1) + j - 1 = i + j
        /\ (IF i + 1 <= n THEN n - (i + 1) + 1 ELSE 0) = n - i
    BY <1>1
  <2>4. Len(back) = n - i
    BY <2>2, <2>3
  <2>5. \A j \in 1..(n - i) : back[j] = s[i + j]
    BY <2>2, <2>3
  <2> QED
    BY <2>2, <2>4, <2>5
<1>4. r = front \o back
  BY DEF RemoveAt
<1> HIDE DEF front, back, r
<1>5. /\ r \in Seq(T) /\ Len(r) = Len(front) + Len(back)
      /\ \A j \in 1..(Len(front) + Len(back)) :
            r[j] = IF j <= Len(front) THEN front[j] ELSE back[j - Len(front)]
  BY <1>2, <1>3, <1>4, ConcatProperties
<1>6. /\ DOMAIN r = 1..(n - 1)
      /\ \A j \in 1..(n - 1) : r[j] = s[IF j < i THEN j ELSE j + 1]
  <2>1. Len(r) = n - 1 /\ DOMAIN r = 1..(n - 1)
    BY <1>1, <1>2, <1>3, <1>5
  <2>2. ASSUME NEW j \in 1..(n - 1), j < i
        PROVE  r[j] = s[j]
    BY <1>1, <1>2, <1>3, <1>5, <2>2
  <2>3. ASSUME NEW j \in 1..(n - 1), ~(j < i)
        PROVE  r[j] = s[j + 1]
    <3>1. j - (i - 1) \in 1..(n - i) /\ i + (j - (i - 1)) = j + 1 /\ ~(j <= i - 1)
      BY <1>1, <2>3
    <3>2. j \in 1..(Len(front) + Len(back)) /\ ~(j <= Len(front)) /\ Len(front) = i - 1
      BY <1>1, <1>2, <1>3, <2>3
    <3>3. r[j] = back[j - Len(front)]
      BY <1>5, <3>2
    <3> QED
      BY <1>3, <3>1, <3>2, <3>3
  <2> QED
    BY <2>1, <2>2, <2>3
<1>7. IsInjective(r)
  <2> SUFFICES ASSUME NEW j \in 1..(n - 1), NEW k \in 1..(n - 1), r[j] = r[k]
               PROVE  j = k
    BY <1>6 DEF IsInjective
  <2> DEFINE f(x) == IF x < i THEN x ELSE x + 1
  <2>1. f(j) \in 1..n /\ f(k) \in 1..n /\ s[f(j)] = s[f(k)]
    BY <1>1, <1>6
  <2>2. f(j) = f(k)
    BY <1>1, <2>1 DEF IsInjective
  <2> QED
    BY <1>1, <2>2
<1>8. ToSet(r) = ToSet(s) \ {s[i]}
  <2>1. ASSUME NEW j \in 1..(n - 1)
        PROVE  r[j] \in ToSet(s) \ {s[i]}
    <3>1. (IF j < i THEN j ELSE j + 1) \in 1..n /\ (IF j < i THEN j ELSE j + 1) # i
      BY <1>1
    <3> QED
      BY <1>1, <1>6, <3>1 DEF IsInjective, ToSet
  <2>2. ASSUME NEW j \in 1..n, j # i
        PROVE  s[j] \in ToSet(r)
    <3>1. CASE j < i
      <4>1. j \in 1..(n - 1) /\ r[j] = s[j]
        BY <1>1, <1>6, <3>1
      <4> QED
        BY <1>6, <4>1 DEF ToSet
    <3>2. CASE j > i
      <4>1. j - 1 \in 1..(n - 1) /\ ~(j - 1 < i) /\ (j - 1) + 1 = j
        BY <1>1, <3>2
      <4>2. r[j - 1] = s[j]
        BY <1>6, <4>1
      <4> QED
        BY <1>6, <4>1, <4>2 DEF ToSet
    <3> QED
      BY <1>1, <2>2, <3>1, <3>2
  <2>3. ToSet(r) \subseteq ToSet(s) \ {s[i]}
    BY <1>6, <2>1 DEF ToSet
  <2>4. ToSet(s) \ {s[i]} \subseteq ToSet(r)
    <3> SUFFICES ASSUME NEW x \in ToSet(s), x # s[i]
                 PROVE  x \in ToSet(r)
      OBVIOUS
    <3>1. PICK j \in 1..n : x = s[j]
      BY <1>1 DEF ToSet
    <3> QED
      BY <2>2, <3>1
  <2> QED
    BY <2>3, <2>4
<1> QED
  BY <1>5, <1>7, <1>8 DEF r

\* A sequence that is no longer than one without repetitions, and has all of its elements,
\* has no repetitions either.
LEMMA AllOnce ==
    ASSUME NEW T, NEW s \in Seq(T), NEW r \in Seq(T),
           IsInjective(s), ToSet(s) \subseteq ToSet(r), Len(r) <= Len(s)
    PROVE  IsInjective(r)
<1> SUFFICES ASSUME NEW j \in 1..Len(r), NEW k \in 1..Len(r), r[j] = r[k], j # k
             PROVE  FALSE
  BY DEF IsInjective
<1> DEFINE S == 1..Len(s)
           R == 1..Len(r)
           at(i) == CHOOSE p \in R \ {k} : r[p] = s[i]
           f == [i \in S |-> at(i)]
<1>1. /\ Len(s) \in Nat /\ Len(r) \in Nat /\ DOMAIN s = S /\ DOMAIN r = R
  OBVIOUS
<1>2. ASSUME NEW i \in S
      PROVE  at(i) \in R \ {k} /\ r[at(i)] = s[i]
  <2>1. s[i] \in ToSet(s)
    BY <1>1 DEF ToSet
  <2>2. PICK p \in R : r[p] = s[i]
    BY <1>1, <2>1 DEF ToSet
  <2>3. \E q \in R \ {k} : r[q] = s[i]
    BY <2>2
  <2> QED
    BY <2>3
<1>3. /\ IsFiniteSet(S) /\ Cardinality(S) = Len(s)
      /\ IsFiniteSet(R) /\ Cardinality(R) = Len(r)
  <2>1. 1 \in Int /\ Len(s) \in Int /\ Len(r) \in Int
    BY <1>1
  <2> HIDE DEF f
  <2>2. IsFiniteSet(S) /\ Cardinality(S) = IF 1 > Len(s) THEN 0 ELSE Len(s) - 1 + 1
    BY <2>1, FS_Interval
  <2>3. IsFiniteSet(R) /\ Cardinality(R) = IF 1 > Len(r) THEN 0 ELSE Len(r) - 1 + 1
    BY <2>1, FS_Interval
  <2> QED
    BY <1>1, <2>2, <2>3
<1>4. IsFiniteSet(R \ {k}) /\ Cardinality(R \ {k}) = Len(r) - 1
  <2>1. k \in R
    OBVIOUS
  <2> HIDE DEF f, S, R
  <2>2. /\ IsFiniteSet(R \ {k})
        /\ Cardinality(R \ {k}) = IF k \in R THEN Cardinality(R) - 1 ELSE Cardinality(R)
    BY <1>3, FS_RemoveElement
  <2> QED
    BY <1>3, <2>1, <2>2
<1>5. f \in [S -> R \ {k}] /\ \A i \in S : r[f[i]] = s[i]
  BY <1>2
<1> HIDE DEF f, S, R
<1>6. Cardinality(R \ {k}) < Cardinality(S)
  BY <1>1, <1>3, <1>4
<1>7. PICK x \in S, y \in S : x # y /\ f[x] = f[y]
  BY <1>3, <1>4, <1>5, <1>6, FS_PigeonHole
<1>8. s[x] = s[y]
  BY <1>5, <1>7
<1> QED
  BY <1>1, <1>7, <1>8 DEF IsInjective

-----------------------------------------------------------------------------
(* The bus: the inductive invariant. *)

\* What is being sent goes to one agent, and was begun after its last clear() or before.
Addressed ==
    \A t \in Agents :
        busy[t].at \in {"enqueue", "append"} =>
            \E to \in Agents : busy[t].to = {to} /\ busy[t].epoch <= clears[to]

\* A list that was found for an agent that has not cleared its queue since is its queue.
Found ==
    \A t \in Agents :
        busy[t].at = "append" =>
            /\ busy[t].list \in 1..Len(lists)
            /\ \A to \in busy[t].to :
                  busy[t].epoch = clears[to] => queueOf[to] = busy[t].list

\* No list has a message twice, and none has one that is still to be made.
Made ==
    \A k \in DOMAIN lists :
        /\ IsInjective(lists[k])
        /\ \A m \in ToSet(lists[k]) : m.n <= sent[m.from]

\* What is due to an agent is in its queue.
Owed ==
    \A a \in Agents :
        IF queueOf[a] = 0 THEN due[a] = {} ELSE due[a] \subseteq ToSet(lists[queueOf[a]])

\* An agent that has had a queue all the time has one, and no more keys are walked than there
\* were queues; at the end of a broadcast every such agent has been visited, and once.
Visited ==
    \A t \in Agents :
        busy[t].casting =>
            /\ busy[t].at \in {"next", "enqueue", "append"} =>
                  busy[t].always \subseteq ToSet(keys)
            /\ busy[t].seen \subseteq ToSet(busy[t].walked)
            /\ Len(busy[t].walked) <= busy[t].size
            /\ busy[t].at = "done" =>
                  /\ busy[t].always \subseteq ToSet(busy[t].walked)
                  /\ IsInjective(busy[t].walked)

\* The list that an agent holds is its queue until it clears that.
Holding ==
    \A a \in Agents :
        /\ held[a].epoch <= clears[a]
        /\ held[a].list # 0 /\ held[a].epoch = clears[a] => queueOf[a] = held[a].list

BusInv == BusTypeOK /\ Addressed /\ Found /\ Made /\ Owed /\ Visited /\ Holding

\* What a thread does when it has not begun to send.
LEMMA IdleWork ==
    /\ Idle \in Work /\ Idle.casting = FALSE /\ Idle.at = "idle"
    /\ [Idle EXCEPT !.at = "done"] \in Work
    /\ [Idle EXCEPT !.at = "done"].at = "done"
    /\ [Idle EXCEPT !.at = "done"].casting = FALSE
<1>1. <<>> \in Seq(Agents)
  OBVIOUS
<1> QED
  BY <1>1 DEF Idle, Work

LEMMA BusInitInv == BusInit => BusInv
<1> SUFFICES ASSUME BusInit
             PROVE  BusInv
  OBVIOUS
<1> USE DEF BusInit
<1>1. BusTypeOK
  <2>1. Len(lists) = 0 /\ keys \in Seq(Agents) /\ DOMAIN keys = {} /\ ToSet(keys) = {}
    BY DEF ToSet
  <2>2. IsInjective(keys)
    BY <2>1 DEF IsInjective
  <2>3. busy \in [Agents -> Work] /\ busCalls \in 0..MaxBusCalls
    BY IdleWork, BusAssumption
  <2> QED
    BY <2>1, <2>2, <2>3 DEF BusTypeOK
<1>2. Addressed /\ Found /\ Visited
  BY IdleWork DEF Addressed, Found, Visited
<1>3. Made /\ Owed /\ Holding
  BY DEF Made, Owed, Holding
<1> QED
  BY <1>1, <1>2, <1>3 DEF BusInv

\* A step that leaves the lists, the queues and what is due alone.
LEMMA SameLists ==
    ASSUME BusInv, UNCHANGED <<lists, queueOf, sent, due>>
    PROVE  Made' /\ Owed'
BY DEF BusInv, Made, Owed

LEMMA CallCounts ==
    ASSUME BusTypeOK, NEW t \in Agents, Call(t)
    PROVE  busCalls' \in 0..MaxBusCalls
<1>1. busCalls \in 0..MaxBusCalls
  BY DEF BusTypeOK
<1> QED
  BY <1>1, BusAssumption DEF Call

LEMMA SendKeeps ==
    ASSUME BusInv, NEW t \in Agents, NEW to \in Agents, Send(t, to)
    PROVE  BusInv'
<1> DEFINE work == [Idle EXCEPT !.at = "enqueue", !.to = {to}, !.epoch = clears[to]]
<1> USE DEF BusInv
<1>1. /\ UNCHANGED <<lists, queueOf, keys, held, sent, clears, due>>
      /\ busy' = [busy EXCEPT ![t] = work] /\ busCalls' \in 0..MaxBusCalls
  BY CallCounts DEF Send
<1>2. /\ work \in Work /\ work.at = "enqueue" /\ work.to = {to} /\ work.epoch = clears[to]
      /\ work.casting = FALSE
  <2>1. clears[to] \in Nat /\ <<>> \in Seq(Agents)
    BY DEF BusTypeOK
  <2> QED
    BY <2>1 DEF Idle, Work
<1> HIDE DEF work
<1>3. BusTypeOK'
  BY <1>1, <1>2 DEF BusTypeOK
<1>4. \A u \in Agents : busy'[u] = IF u = t THEN work ELSE busy[u]
  BY <1>1 DEF BusTypeOK
<1>5. Addressed'
  <2>1. clears[to] \in Nat
    BY DEF BusTypeOK
  <2> QED
    BY <1>1, <1>2, <1>4, <2>1 DEF Addressed
<1>6. Found'
  BY <1>1, <1>2, <1>4 DEF Found
<1>7. Visited'
  BY <1>1, <1>2, <1>4 DEF Visited
<1>8. Holding'
  BY <1>1 DEF Holding
<1> QED
  BY <1>1, <1>3, <1>5, <1>6, <1>7, <1>8, SameLists

LEMMA ReceiveKeeps ==
    ASSUME BusInv, NEW t \in Agents, Receive(t)
    PROVE  BusInv'
<1> DEFINE work == [Idle EXCEPT !.at = "done"]
<1> USE DEF BusInv
<1>1. /\ UNCHANGED <<lists, queueOf, keys, sent, clears, due>>
      /\ busy' = [busy EXCEPT ![t] = work] /\ busCalls' \in 0..MaxBusCalls
      /\ held' = [held EXCEPT ![t] = [list |-> queueOf[t], epoch |-> clears[t]]]
  BY CallCounts DEF Receive
<1>2. work \in Work /\ work.at = "done" /\ work.casting = FALSE
  BY IdleWork
<1> HIDE DEF work
<1>3. BusTypeOK'
  BY <1>1, <1>2 DEF BusTypeOK
<1>4. \A u \in Agents : busy'[u] = IF u = t THEN work ELSE busy[u]
  BY <1>1 DEF BusTypeOK
<1>5. Addressed' /\ Found' /\ Visited'
  BY <1>1, <1>2, <1>4 DEF Addressed, Found, Visited
<1>6. Holding'
  <2>1. clears[t] \in Nat
    BY DEF BusTypeOK
  <2> QED
    BY <1>1, <2>1 DEF Holding, BusTypeOK
<1> QED
  BY <1>1, <1>3, <1>5, <1>6, SameLists

LEMMA BroadcastKeeps ==
    ASSUME BusInv, NEW t \in Agents, Broadcast(t)
    PROVE  BusInv'
<1> DEFINE work == [Idle EXCEPT !.at = "next", !.casting = TRUE,
                                !.size = Len(keys), !.always = ToSet(keys)]
<1> USE DEF BusInv
<1>1. /\ UNCHANGED <<lists, queueOf, keys, held, sent, clears, due>>
      /\ busy' = [busy EXCEPT ![t] = work] /\ busCalls' \in 0..MaxBusCalls
  BY CallCounts DEF Broadcast
<1>2. /\ work \in Work /\ work.at = "next" /\ work.always = ToSet(keys)
      /\ work.seen = {} /\ Len(work.walked) <= work.size
  <2>1. Len(keys) \in Nat /\ ToSet(keys) \subseteq Agents
    BY DEF BusTypeOK, ToSet
  <2>2. <<>> \in Seq(Agents) /\ Len(<<>>) = 0
    OBVIOUS
  <2>3. /\ work \in Work /\ work.at = "next" /\ work.always = ToSet(keys)
        /\ work.seen = {} /\ work.walked = <<>> /\ work.size = Len(keys)
    BY <2>1, <2>2 DEF Idle, Work
  <2> QED
    BY <2>1, <2>2, <2>3
<1> HIDE DEF work
<1>3. BusTypeOK'
  BY <1>1, <1>2 DEF BusTypeOK
<1>4. \A u \in Agents : busy'[u] = IF u = t THEN work ELSE busy[u]
  BY <1>1 DEF BusTypeOK
<1>5. Addressed' /\ Found'
  BY <1>1, <1>2, <1>4 DEF Addressed, Found
<1>6. Visited'
  BY <1>1, <1>2, <1>4 DEF Visited
<1>7. Holding'
  BY <1>1 DEF Holding
<1> QED
  BY <1>1, <1>3, <1>5, <1>6, <1>7, SameLists

LEMMA BroadcastNextKeeps ==
    ASSUME BusInv, NEW t \in Agents, BroadcastNext(t)
    PROVE  BusInv'
<1> USE DEF BusInv
<1>1. /\ UNCHANGED <<lists, queueOf, keys, held, sent, clears, due, busCalls>>
      /\ busy[t].at = "next"
  BY DEF BroadcastNext
<1>2. /\ busy[t] \in Work /\ keys \in Seq(Agents) /\ IsInjective(keys)
      /\ busy[t].walked \in Seq(Agents) /\ busy[t].size \in Nat
      /\ Len(busy[t].walked) \in Nat /\ Len(keys) \in Nat
      /\ \A i \in DOMAIN keys : keys[i] \in Agents
  <2>1. busy[t] \in Work /\ keys \in Seq(Agents) /\ IsInjective(keys)
    BY DEF BusTypeOK
  <2>2. busy[t].walked \in Seq(Agents) /\ busy[t].size \in Nat
    BY <2>1 DEF Work
  <2> QED
    BY <2>1, <2>2
<1> DEFINE W(w) ==
        /\ busy' = [busy EXCEPT ![t] = w]
        /\ w.casting = busy[t].casting /\ w.always = busy[t].always /\ w.size = busy[t].size
        /\ busy[t].casting =>
              /\ w.seen \subseteq ToSet(w.walked) /\ Len(w.walked) <= w.size
              /\ w.at = "done" =>
                    w.always \subseteq ToSet(w.walked) /\ IsInjective(w.walked)
        /\ \/ w.at \in {"raised", "done", "next"}
           \/ w.at = "enqueue" /\ \E a \in Agents : w.to = {a} /\ w.epoch = clears[a]
<1>21. \E w \in Work : W(w)
  <2>1. CASE busy' = [busy EXCEPT ![t].at = "raised"]
    <3> DEFINE w == [busy[t] EXCEPT !.at = "raised"]
    <3>1. /\ w \in Work /\ w.casting = busy[t].casting /\ w.always = busy[t].always
          /\ w.at = "raised" /\ w.seen = busy[t].seen /\ w.walked = busy[t].walked
          /\ w.size = busy[t].size
      BY <1>2 DEF Work
    <3> HIDE DEF w
    <3>2. busy' = [busy EXCEPT ![t] = w]
      BY <2>1 DEF w
    <3>3. W(w)
      BY <3>1, <3>2 DEF Visited
    <3> QED
      BY <3>1, <3>3
  <2>2. CASE /\ ~Changed(t) /\ ToSet(keys) \subseteq busy[t].seen
             /\ busy' = [busy EXCEPT ![t].at = "done"]
    <3> DEFINE w == [busy[t] EXCEPT !.at = "done"]
    <3>1. /\ w \in Work /\ w.casting = busy[t].casting /\ w.always = busy[t].always
          /\ w.at = "done" /\ w.seen = busy[t].seen /\ w.walked = busy[t].walked
          /\ w.size = busy[t].size
      BY <1>2 DEF Work
    <3> HIDE DEF w
    <3>2. busy' = [busy EXCEPT ![t] = w]
      BY <2>2 DEF w
    <3>3. ASSUME busy[t].casting
          PROVE  /\ busy[t].seen \subseteq ToSet(busy[t].walked)
                 /\ Len(busy[t].walked) <= busy[t].size
                 /\ busy[t].always \subseteq ToSet(busy[t].walked)
                 /\ IsInjective(busy[t].walked)
      <4>1. /\ busy[t].always \subseteq ToSet(keys)
            /\ busy[t].seen \subseteq ToSet(busy[t].walked)
            /\ Len(busy[t].walked) <= busy[t].size
        BY <1>1, <3>3 DEF Visited
      <4>2. Len(keys) = busy[t].size /\ ToSet(keys) \subseteq ToSet(busy[t].walked)
        BY <2>2, <4>1 DEF Changed
      <4>3. Len(busy[t].walked) <= Len(keys)
        BY <4>1, <4>2
      <4>4. IsInjective(busy[t].walked)
        BY <1>2, <4>2, <4>3, AllOnce
      <4> QED
        BY <4>1, <4>2, <4>4
    <3>4. W(w)
      BY <3>1, <3>2, <3>3
    <3> QED
      BY <3>1, <3>4
  <2>3. ASSUME ~Changed(t), NEW i \in DOMAIN keys, Upcoming(t, i), Visit(t, keys[i])
        PROVE  \E w \in Work : W(w)
    <3> DEFINE a == keys[i]
               w == [busy[t] EXCEPT !.walked = Append(@, a),
                                    !.seen = @ \cup {a},
                                    !.at = IF a = t THEN "next" ELSE "enqueue",
                                    !.to = IF a = t THEN {} ELSE {a},
                                    !.epoch = clears[a]]
    <3>1. a \in Agents /\ busy' = [busy EXCEPT ![t] = w] /\ clears[a] \in Nat
      BY <1>2, <2>3 DEF Visit, BusTypeOK
    <3>2. /\ Append(busy[t].walked, a) \in Seq(Agents)
          /\ Len(Append(busy[t].walked, a)) = Len(busy[t].walked) + 1
          /\ ToSet(Append(busy[t].walked, a)) = ToSet(busy[t].walked) \cup {a}
      BY <1>2, <3>1, Appended, AppendedSet
    <3>3. Len(busy[t].walked) # busy[t].size
      <4>1. a \in ToSet(keys) /\ a \notin busy[t].seen
        BY <2>3 DEF Upcoming, ToSet
      <4> QED
        BY <2>3, <4>1 DEF Changed
    <3> HIDE DEF a
    <3>4. /\ w \in Work /\ w.casting = busy[t].casting /\ w.always = busy[t].always
          /\ w.size = busy[t].size /\ w.seen = busy[t].seen \cup {a}
          /\ w.walked = Append(busy[t].walked, a) /\ w.epoch = clears[a]
          /\ w.at = (IF a = t THEN "next" ELSE "enqueue")
          /\ w.to = (IF a = t THEN {} ELSE {a})
      BY <1>2, <3>1, <3>2 DEF Work
    <3> HIDE DEF w
    <3>5. ASSUME busy[t].casting
          PROVE  w.seen \subseteq ToSet(w.walked) /\ Len(w.walked) <= w.size
      <4>1. /\ busy[t].seen \subseteq ToSet(busy[t].walked)
            /\ Len(busy[t].walked) <= busy[t].size
        BY <3>5 DEF Visited
      <4>2. w.seen \subseteq ToSet(w.walked)
        BY <3>2, <3>4, <4>1
      <4>3. Len(busy[t].walked) + 1 <= busy[t].size
        BY <1>2, <3>3, <4>1
      <4> QED
        BY <3>2, <3>4, <4>2, <4>3
    <3>6. W(w)
      BY <3>1, <3>4, <3>5
    <3> QED
      BY <3>4, <3>6
  <2> HIDE DEF W
  <2>4. \/ busy' = [busy EXCEPT ![t].at = "raised"]
        \/ /\ ~Changed(t) /\ ToSet(keys) \subseteq busy[t].seen
           /\ busy' = [busy EXCEPT ![t].at = "done"]
        \/ ~Changed(t) /\ \E i \in DOMAIN keys : Upcoming(t, i) /\ Visit(t, keys[i])
    BY DEF BroadcastNext
  <2> QED
    BY <2>1, <2>2, <2>3, <2>4
<1>22. PICK work \in Work : W(work)
  BY <1>21
<1>3. BusTypeOK'
  BY <1>1, <1>22 DEF BusTypeOK
<1>4. \A u \in Agents : busy'[u] = IF u = t THEN work ELSE busy[u]
  BY <1>22 DEF BusTypeOK
<1>5. Addressed'
  <2>1. \A a \in Agents : clears[a] \in Nat
    BY DEF BusTypeOK
  <2> QED
    BY <1>1, <1>22, <1>4, <2>1 DEF Addressed
<1>6. Found'
  BY <1>1, <1>22, <1>4 DEF Found
<1>7. Visited'
  BY <1>1, <1>22, <1>4 DEF Visited
<1>8. Holding'
  BY <1>1 DEF Holding
<1> QED
  BY <1>1, <1>3, <1>5, <1>6, <1>7, <1>8, SameLists

LEMMA EnqueueKeeps ==
    ASSUME BusInv, NEW t \in Agents, Enqueue(t)
    PROVE  BusInv'
<1> USE DEF BusInv
<1>1. /\ UNCHANGED <<held, sent, clears, due, busCalls>>
      /\ busy[t].at = "enqueue"
  BY DEF Enqueue
<1>2. PICK to \in Agents : busy[t].to = {to} /\ busy[t].epoch <= clears[to]
  BY <1>1 DEF Addressed
<1>3. /\ busy \in [Agents -> Work] /\ lists \in Seq(Seq(Messages)) /\ Len(lists) \in Nat
      /\ DOMAIN lists = 1..Len(lists)
      /\ queueOf \in [Agents -> 0..Len(lists)] /\ keys \in Seq(Agents) /\ IsInjective(keys)
      /\ \A a \in Agents : queueOf[a] # 0 <=> a \in ToSet(keys)
      /\ held \in [Agents -> [list : 0..Len(lists), epoch : Nat]]
      /\ sent \in [Agents -> Nat] /\ clears \in [Agents -> Nat]
      /\ due \in [Agents -> SUBSET Messages] /\ busCalls \in 0..MaxBusCalls
  <2>1. lists \in Seq(Seq(Messages))
    BY DEF BusTypeOK
  <2>2. Len(lists) \in Nat /\ DOMAIN lists = 1..Len(lists)
    BY <2>1
  <2> QED
    BY <2>1, <2>2 DEF BusTypeOK
<1>4. CASE queueOf[to] # 0
  <2> DEFINE next == [busy[t] EXCEPT !.at = "append", !.list = queueOf[to]]
  <2>1. UNCHANGED <<lists, queueOf, keys>> /\ busy' = [busy EXCEPT ![t] = next]
    BY <1>2, <1>4 DEF Enqueue
  <2>2. queueOf[to] \in 1..Len(lists) /\ queueOf[to] \in Nat /\ busy[t] \in Work
    BY <1>3, <1>4
  <2>3. /\ next \in Work /\ next.at = "append" /\ next.list = queueOf[to]
        /\ next.to = {to} /\ next.epoch = busy[t].epoch
        /\ next.casting = busy[t].casting /\ next.always = busy[t].always
        /\ next.seen = busy[t].seen /\ next.walked = busy[t].walked
        /\ next.size = busy[t].size
    BY <1>2, <2>2 DEF Work
  <2> HIDE DEF next
  <2>4. \A u \in Agents : busy'[u] = IF u = t THEN next ELSE busy[u]
    BY <1>3, <2>1
  <2>5. BusTypeOK'
    BY <1>1, <2>1, <2>3 DEF BusTypeOK
  <2>6. Addressed' /\ Found'
    BY <1>1, <1>2, <2>1, <2>2, <2>3, <2>4 DEF Addressed, Found
  <2>7. Visited'
    BY <1>1, <2>1, <2>3, <2>4 DEF Visited
  <2>8. Holding'
    BY <1>1, <2>1 DEF Holding
  <2> QED
    BY <1>1, <2>1, <2>5, <2>6, <2>7, <2>8, SameLists
<1>5. CASE queueOf[to] = 0
  <2> DEFINE list == Len(lists) + 1
             next == [busy[t] EXCEPT !.at = "append", !.list = list]
  <2>1. /\ lists' = Append(lists, <<>>) /\ queueOf' = [queueOf EXCEPT ![to] = Len(lists')]
        /\ keys' = Append(keys, to)
        /\ busy' = [busy EXCEPT ![t].at = "append", ![t].list = Len(lists')]
    BY <1>2, <1>5 DEF Enqueue
  <2>15. list = Len(lists) + 1 /\ list \in Nat
    BY <1>3
  <2>2. /\ lists' \in Seq(Seq(Messages)) /\ Len(lists') = list
        /\ DOMAIN lists' = 1..list /\ lists'[list] = <<>>
        /\ \A k \in 1..Len(lists) : lists'[k] = lists[k]
    <3>1. <<>> \in Seq(Messages)
      OBVIOUS
    <3> QED
      BY <1>3, <2>1, <3>1, Appended
  <2> HIDE DEF list
  <2>3. busy' = [busy EXCEPT ![t] = next] /\ busy[t] \in Work
    <3>1. busy \in [Agents -> Work]
      BY <1>3
    <3> QED
      BY <2>1, <2>2, <3>1
  <2>4. /\ next \in Work /\ next.at = "append" /\ next.list = list
        /\ next.to = {to} /\ next.epoch = busy[t].epoch
        /\ next.casting = busy[t].casting /\ next.always = busy[t].always
        /\ next.seen = busy[t].seen /\ next.walked = busy[t].walked
        /\ next.size = busy[t].size
    BY <1>2, <2>3, <2>15 DEF Work
  <2> HIDE DEF next
  <2>5. \A u \in Agents : busy'[u] = IF u = t THEN next ELSE busy[u]
    BY <1>3, <2>3
  <2>6. /\ queueOf' \in [Agents -> 0..list] /\ queueOf'[to] = list
        /\ \A u \in Agents \ {to} : queueOf'[u] = queueOf[u]
    <3>1. queueOf \in [Agents -> 0..Len(lists)] /\ Len(lists) \in Nat
      BY <1>3
    <3>2. queueOf' = [queueOf EXCEPT ![to] = list]
      BY <2>1, <2>2
    <3> QED
      BY <2>15, <3>1, <3>2
  <2>7. /\ keys' \in Seq(Agents) /\ ToSet(keys') = ToSet(keys) \cup {to}
        /\ IsInjective(keys')
    BY <1>3, <1>5, <2>1, Appended, AppendedSet
  <2>8. BusTypeOK'
    <3>1. \A a \in Agents : queueOf'[a] # 0 <=> a \in ToSet(keys')
      <4>1. (\A a \in Agents : queueOf[a] # 0 <=> a \in ToSet(keys)) /\ list # 0
        BY <1>3, <2>15
      <4> QED
        BY <2>6, <2>7, <4>1
    <3>2. busy' \in [Agents -> Work]
      BY <1>3, <2>3, <2>4
    <3>3. held' \in [Agents -> [list : 0..Len(lists'), epoch : Nat]]
      <4>1. /\ held \in [Agents -> [list : 0..Len(lists), epoch : Nat]] /\ held' = held
            /\ Len(lists) \in Nat /\ Len(lists') = Len(lists) + 1
        BY <1>1, <1>3, <2>2, <2>15
      <4> QED
        BY <4>1
    <3> QED
      BY <1>1, <1>3, <2>2, <2>6, <2>7, <3>1, <3>2, <3>3 DEF BusTypeOK
  <2>9. Addressed'
    BY <1>1, <1>2, <2>4, <2>5 DEF Addressed
  <2>10. Found'
    <3>1. list \in 1..Len(lists')
      BY <2>2, <2>15
    <3>2. ASSUME NEW u \in Agents, u # t, busy[u].at = "append"
          PROVE  /\ busy[u].list \in 1..Len(lists')
                 /\ \A v \in busy[u].to :
                       busy[u].epoch = clears[v] => queueOf'[v] = busy[u].list
      <4>1. /\ busy[u].list \in 1..Len(lists) /\ busy[u].to \subseteq Agents
            /\ \A v \in busy[u].to : busy[u].epoch = clears[v] => queueOf[v] = busy[u].list
        <5>1. busy[u] \in Work
          BY <1>3
        <5>2. busy[u].to \subseteq Agents
          BY <5>1 DEF Work
        <5> QED
          BY <3>2, <5>2 DEF Found
      <4>2. busy[u].list \in 1..Len(lists') /\ busy[u].list # 0
        <5>1. Len(lists) \in Nat /\ Len(lists') = Len(lists) + 1
          BY <1>3, <2>2, <2>15
        <5> QED
          BY <4>1, <5>1
      <4>3. ASSUME NEW v \in busy[u].to, busy[u].epoch = clears[v]
            PROVE  queueOf'[v] = busy[u].list
        <5>1. queueOf[v] = busy[u].list /\ v \in Agents
          BY <4>1, <4>3
        <5> QED
          BY <1>5, <2>6, <4>2, <5>1
      <4> QED
        BY <4>2, <4>3
    <3> QED
      BY <1>1, <2>4, <2>5, <2>6, <3>1, <3>2 DEF Found
  <2>11. Made'
    <3>1. IsInjective(<<>>) /\ ToSet(<<>>) = {}
      BY DEF IsInjective, ToSet
    <3>2. \A k \in 1..list : k \in 1..Len(lists) \/ k = list
      BY <1>3, <2>15
    <3> QED
      BY <1>1, <1>3, <2>2, <3>1, <3>2 DEF Made
  <2>12. Owed'
    <3>1. due[to] = {}
      BY <1>5 DEF Owed
    <3>2. ASSUME NEW a \in Agents, a # to
          PROVE  IF queueOf'[a] = 0 THEN due'[a] = {}
                 ELSE due'[a] \subseteq ToSet(lists'[queueOf'[a]])
      <4>1. queueOf'[a] = queueOf[a] /\ (queueOf[a] # 0 => queueOf[a] \in 1..Len(lists))
        <5>1. queueOf[a] \in 0..Len(lists) /\ Len(lists) \in Nat
          BY <1>3
        <5> QED
          BY <2>6, <3>2, <5>1
      <4> QED
        BY <1>1, <2>2, <4>1 DEF Owed
    <3>3. due'[to] = {} /\ queueOf'[to] # 0
      BY <1>1, <2>6, <2>15, <3>1
    <3> QED
      BY <3>2, <3>3 DEF Owed
  <2>13. Visited'
    BY <1>1, <2>4, <2>5, <2>7 DEF Visited
  <2>14. Holding'
    <3>1. ASSUME NEW a \in Agents, held[a].list # 0, held[a].epoch = clears[a]
          PROVE  queueOf'[a] = held[a].list
      <4>1. queueOf[a] = held[a].list
        BY <3>1 DEF Holding
      <4> QED
        BY <1>5, <2>6, <3>1, <4>1
    <3> QED
      BY <1>1, <3>1 DEF Holding
  <2> QED
    BY <2>8, <2>9, <2>10, <2>11, <2>12, <2>13, <2>14
<1> QED
  BY <1>4, <1>5

LEMMA AppendMessageKeeps ==
    ASSUME BusInv, NEW t \in Agents, AppendMessage(t)
    PROVE  BusInv'
<1> DEFINE msg == [from |-> t, n |-> sent[t] + 1]
           list == busy[t].list
           next == [busy[t] EXCEPT !.at = IF busy[t].casting THEN "next" ELSE "done",
                                   !.to = {}, !.list = 0]
<1> USE DEF BusInv
<1>1. /\ UNCHANGED <<queueOf, keys, held, clears, busCalls>> /\ busy[t].at = "append"
      /\ lists' = [lists EXCEPT ![list] = Append(@, msg)]
      /\ due' = [a \in Agents |-> IF a \in busy[t].to /\ clears[a] = busy[t].epoch
                                  THEN due[a] \cup {msg} ELSE due[a]]
      /\ sent' = [sent EXCEPT ![t] = @ + 1] /\ busy' = [busy EXCEPT ![t] = next]
  BY DEF AppendMessage
<1>2. /\ busy \in [Agents -> Work] /\ lists \in Seq(Seq(Messages)) /\ Len(lists) \in Nat
      /\ DOMAIN lists = 1..Len(lists)
      /\ queueOf \in [Agents -> 0..Len(lists)] /\ keys \in Seq(Agents) /\ IsInjective(keys)
      /\ \A a \in Agents : queueOf[a] # 0 <=> a \in ToSet(keys)
      /\ held \in [Agents -> [list : 0..Len(lists), epoch : Nat]]
      /\ sent \in [Agents -> Nat] /\ clears \in [Agents -> Nat]
      /\ due \in [Agents -> SUBSET Messages] /\ busCalls \in 0..MaxBusCalls
  BY DEF BusTypeOK
<1>3. /\ list \in 1..Len(lists) /\ lists[list] \in Seq(Messages)
      /\ \A to \in busy[t].to : busy[t].epoch = clears[to] => queueOf[to] = list
  BY <1>1, <1>2 DEF Found
<1>4. msg \in Messages /\ msg.from = t /\ msg.n = sent[t] + 1 /\ sent[t] \in Nat
  BY <1>2 DEF Messages
<1>5. /\ next \in Work /\ next.at \in {"next", "done"} /\ next.casting = busy[t].casting
      /\ next.always = busy[t].always /\ (next.at = "done" => ~busy[t].casting)
      /\ next.seen = busy[t].seen /\ next.walked = busy[t].walked
      /\ next.size = busy[t].size
  <2>1. busy[t] \in Work
    BY <1>2
  <2> QED
    BY <2>1 DEF Work
<1>6. msg \notin ToSet(lists[list])
  BY <1>2, <1>3, <1>4 DEF Made
<1> HIDE DEF msg, list, next
<1>7. /\ lists' \in Seq(Seq(Messages)) /\ Len(lists') = Len(lists)
      /\ DOMAIN lists' = 1..Len(lists)
      /\ \A k \in 1..Len(lists) : k # list => lists'[k] = lists[k]
      /\ ToSet(lists'[list]) = ToSet(lists[list]) \cup {msg} /\ IsInjective(lists'[list])
  <2>1. /\ Append(lists[list], msg) \in Seq(Messages)
        /\ ToSet(Append(lists[list], msg)) = ToSet(lists[list]) \cup {msg}
        /\ IsInjective(Append(lists[list], msg))
    <3>1. IsInjective(lists[list]) /\ lists[list] \in Seq(Messages) /\ msg \in Messages
      BY <1>2, <1>3, <1>4 DEF Made
    <3> QED
      BY <1>6, <3>1, Appended, AppendedSet
  <2>2. lists' = [lists EXCEPT ![list] = Append(lists[list], msg)]
    BY <1>1
  <2>3. lists' \in Seq(Seq(Messages)) /\ Len(lists') = Len(lists)
    BY <1>2, <1>3, <2>1, <2>2, ExceptSeq
  <2> QED
    BY <1>2, <1>3, <2>1, <2>2, <2>3
<1>8. \A u \in Agents : busy'[u] = IF u = t THEN next ELSE busy[u]
  BY <1>1, <1>2
<1>9. \A a \in Agents : /\ sent'[a] = IF a = t THEN sent[a] + 1 ELSE sent[a]
                        /\ sent[a] \in Nat
  BY <1>1, <1>2
<1>10. BusTypeOK'
  <2>1. busy' \in [Agents -> Work] /\ sent' \in [Agents -> Nat]
    BY <1>1, <1>2, <1>5
  <2>2. due' \in [Agents -> SUBSET Messages]
    BY <1>1, <1>2, <1>4
  <2> QED
    BY <1>1, <1>2, <1>7, <2>1, <2>2 DEF BusTypeOK
<1>11. Addressed'
  BY <1>1, <1>5, <1>8 DEF Addressed
<1>12. Found'
  BY <1>1, <1>5, <1>7, <1>8 DEF Found
<1>13. Made'
  <2> SUFFICES ASSUME NEW k \in 1..Len(lists)
               PROVE  /\ IsInjective(lists'[k])
                      /\ \A m \in ToSet(lists'[k]) : m.n <= sent'[m.from]
    BY <1>7 DEF Made
  <2>1. /\ IsInjective(lists[k]) /\ lists[k] \in Seq(Messages)
        /\ \A m \in ToSet(lists[k]) : m.n <= sent[m.from]
    BY <1>2 DEF Made
  <2>2. \A m \in ToSet(lists[k]) : m.from \in Agents /\ m.n \in Nat
    <3>1. \A m \in ToSet(lists[k]) : m \in Messages
      BY <2>1 DEF ToSet
    <3> QED
      BY <3>1 DEF Messages
  <2>3. \A m \in ToSet(lists[k]) : m.n <= sent'[m.from]
    BY <1>9, <2>1, <2>2
  <2>4. msg.n <= sent'[msg.from]
    BY <1>4, <1>9
  <2> QED
    BY <1>7, <2>1, <2>3, <2>4
<1>14. Owed'
  <2> SUFFICES ASSUME NEW a \in Agents
               PROVE  IF queueOf[a] = 0 THEN due'[a] = {}
                      ELSE due'[a] \subseteq ToSet(lists'[queueOf[a]])
    BY <1>1 DEF Owed
  <2>1. queueOf[a] # 0 =>
           /\ queueOf[a] \in 1..Len(lists)
           /\ ToSet(lists[queueOf[a]]) \subseteq ToSet(lists'[queueOf[a]])
    <3>1. queueOf[a] \in 0..Len(lists) /\ Len(lists) \in Nat
      BY <1>2
    <3> QED
      BY <1>7, <3>1
  <2>2. CASE a \in busy[t].to /\ clears[a] = busy[t].epoch
    <3>1. queueOf[a] = list /\ list # 0 /\ due'[a] = due[a] \cup {msg}
      BY <1>1, <1>3, <2>2
    <3> QED
      BY <1>7, <2>1, <3>1 DEF Owed
  <2>3. CASE ~(a \in busy[t].to /\ clears[a] = busy[t].epoch)
    <3>1. due'[a] = due[a]
      BY <1>1, <2>3
    <3> QED
      BY <2>1, <3>1 DEF Owed
  <2> QED
    BY <2>2, <2>3
<1>15. Visited'
  BY <1>1, <1>5, <1>8 DEF Visited
<1>16. Holding'
  BY <1>1 DEF Holding
<1> QED
  BY <1>10, <1>11, <1>12, <1>13, <1>14, <1>15, <1>16

LEMMA ClearKeeps ==
    ASSUME BusInv, NEW t \in Agents, Clear(t)
    PROVE  BusInv'
<1> DEFINE done == [Idle EXCEPT !.at = "done"]
           other(u) == [busy[u] EXCEPT !.seen = @ \ {t}, !.always = @ \ {t}]
<1> USE DEF BusInv
<1>1. /\ UNCHANGED <<lists, held, sent>> /\ busCalls' \in 0..MaxBusCalls
      /\ queueOf' = [queueOf EXCEPT ![t] = 0]
      /\ clears' = [clears EXCEPT ![t] = @ + 1] /\ due' = [due EXCEPT ![t] = {}]
      /\ busy' = [a \in Agents |-> IF a = t THEN done ELSE other(a)]
  <2>1. busCalls' \in 0..MaxBusCalls
    BY CallCounts DEF Clear
  <2> QED
    BY <2>1 DEF Clear
<1>2. /\ busy \in [Agents -> Work] /\ lists \in Seq(Seq(Messages)) /\ Len(lists) \in Nat
      /\ queueOf \in [Agents -> 0..Len(lists)] /\ keys \in Seq(Agents) /\ IsInjective(keys)
      /\ \A a \in Agents : queueOf[a] # 0 <=> a \in ToSet(keys)
      /\ held \in [Agents -> [list : 0..Len(lists), epoch : Nat]]
      /\ sent \in [Agents -> Nat] /\ clears \in [Agents -> Nat]
      /\ due \in [Agents -> SUBSET Messages] /\ busCalls \in 0..MaxBusCalls
  BY DEF BusTypeOK
<1>3. done \in Work /\ done.at = "done" /\ done.casting = FALSE
  BY IdleWork
<1>4. \A u \in Agents :
        /\ other(u) \in Work /\ other(u).at = busy[u].at /\ other(u).to = busy[u].to
        /\ other(u).epoch = busy[u].epoch /\ other(u).list = busy[u].list
        /\ other(u).casting = busy[u].casting /\ other(u).size = busy[u].size
        /\ other(u).walked = busy[u].walked
        /\ other(u).seen = busy[u].seen \ {t} /\ other(u).always = busy[u].always \ {t}
  <2> SUFFICES ASSUME NEW u \in Agents
               PROVE  /\ other(u) \in Work /\ other(u).at = busy[u].at
                      /\ other(u).to = busy[u].to /\ other(u).epoch = busy[u].epoch
                      /\ other(u).list = busy[u].list /\ other(u).casting = busy[u].casting
                      /\ other(u).size = busy[u].size /\ other(u).walked = busy[u].walked
                      /\ other(u).seen = busy[u].seen \ {t}
                      /\ other(u).always = busy[u].always \ {t}
    OBVIOUS
  <2>1. busy[u] \in Work
    BY <1>2
  <2> QED
    BY <2>1 DEF Work
<1> HIDE DEF done, other
<1>5. keys' \in Seq(Agents) /\ IsInjective(keys') /\ ToSet(keys') = ToSet(keys) \ {t}
  <2>1. CASE queueOf[t] = 0
    <3>1. keys' = keys /\ t \notin ToSet(keys)
      BY <1>2, <2>1 DEF Clear
    <3> QED
      BY <1>2, <3>1
  <2>2. CASE queueOf[t] # 0
    <3>1. PICK i \in DOMAIN keys : keys[i] = t /\ keys' = RemoveAt(keys, i)
      BY <2>2 DEF Clear
    <3>2. keys \in Seq(Agents) /\ IsInjective(keys)
      BY <1>2
    <3> QED
      BY <3>1, <3>2, RemovedKey
  <2> QED
    BY <2>1, <2>2
<1>6. \A u \in Agents : busy'[u] = IF u = t THEN done ELSE other(u)
  BY <1>1
<1>7. \A u \in Agents : /\ clears'[u] = IF u = t THEN clears[u] + 1 ELSE clears[u]
                        /\ clears[u] \in Nat
  <2>1. clears \in [Agents -> Nat]
    BY <1>2
  <2> QED
    BY <1>1, <2>1
<1>8. \A u \in Agents : queueOf'[u] = IF u = t THEN 0 ELSE queueOf[u]
  <2>1. queueOf \in [Agents -> 0..Len(lists)]
    BY <1>2
  <2> QED
    BY <1>1, <2>1
<1>9. BusTypeOK'
  <2>1. busy' \in [Agents -> Work]
    BY <1>1, <1>3, <1>4
  <2>2. \A a \in Agents : queueOf'[a] # 0 <=> a \in ToSet(keys')
    BY <1>2, <1>5, <1>8
  <2>3. clears' \in [Agents -> Nat] /\ due' \in [Agents -> SUBSET Messages]
    BY <1>1, <1>2
  <2>4. queueOf' \in [Agents -> 0..Len(lists)]
    BY <1>1, <1>2
  <2> QED
    BY <1>1, <1>2, <1>5, <2>1, <2>2, <2>3, <2>4 DEF BusTypeOK
<1>10. Addressed'
  <2> SUFFICES ASSUME NEW u \in Agents, u # t, busy[u].at \in {"enqueue", "append"}
               PROVE  \E to \in Agents : busy[u].to = {to} /\ busy[u].epoch <= clears'[to]
    BY <1>3, <1>4, <1>6 DEF Addressed
  <2>1. PICK to \in Agents : busy[u].to = {to} /\ busy[u].epoch <= clears[to]
    BY DEF Addressed
  <2>2. busy[u].epoch \in Nat
    <3>1. busy[u] \in Work
      BY <1>2
    <3> QED
      BY <3>1 DEF Work
  <2> QED
    BY <1>7, <2>1, <2>2
<1>11. Found'
  <2> SUFFICES ASSUME NEW u \in Agents, u # t, busy[u].at = "append"
               PROVE  /\ busy[u].list \in 1..Len(lists)
                      /\ \A to \in busy[u].to :
                            busy[u].epoch = clears'[to] => queueOf'[to] = busy[u].list
    BY <1>1, <1>3, <1>4, <1>6 DEF Found
  <2>1. PICK to \in Agents : busy[u].to = {to} /\ busy[u].epoch <= clears[to]
    BY DEF Addressed
  <2>2. busy[u].list \in 1..Len(lists) /\ (busy[u].epoch = clears[to] => queueOf[to] = busy[u].list)
    BY <2>1 DEF Found
  <2>3. CASE to = t
    <3>1. busy[u].epoch # clears'[to]
      BY <1>7, <2>1, <2>3
    <3> QED
      BY <2>1, <2>2, <3>1
  <2>4. CASE to # t
    BY <1>7, <1>8, <2>1, <2>2, <2>4
  <2> QED
    BY <2>3, <2>4
<1>12. Made'
  BY <1>1 DEF Made
<1>13. Owed'
  <2>1. \A a \in Agents : due'[a] = IF a = t THEN {} ELSE due[a]
    BY <1>1, <1>2
  <2> QED
    BY <1>1, <1>8, <2>1 DEF Owed
<1>14. Visited'
  <2> SUFFICES ASSUME NEW u \in Agents, u # t, busy[u].casting
               PROVE  /\ busy[u].at \in {"next", "enqueue", "append"} =>
                            other(u).always \subseteq ToSet(keys')
                      /\ other(u).seen \subseteq ToSet(busy[u].walked)
                      /\ Len(busy[u].walked) <= busy[u].size
                      /\ busy[u].at = "done" =>
                            /\ other(u).always \subseteq ToSet(busy[u].walked)
                            /\ IsInjective(busy[u].walked)
    BY <1>3, <1>4, <1>6 DEF Visited
  <2> QED
    BY <1>4, <1>5 DEF Visited
<1>15. Holding'
  <2> SUFFICES ASSUME NEW a \in Agents
               PROVE  /\ held[a].epoch <= clears'[a]
                      /\ held[a].list # 0 /\ held[a].epoch = clears'[a] =>
                            queueOf'[a] = held[a].list
    BY <1>1 DEF Holding
  <2>1. held[a].epoch \in Nat /\ held[a].epoch <= clears[a]
    BY <1>2 DEF Holding
  <2>2. CASE a = t
    BY <1>7, <2>1, <2>2
  <2>3. CASE a # t
    BY <1>7, <1>8, <2>1, <2>3 DEF Holding
  <2> QED
    BY <2>2, <2>3
<1> QED
  BY <1>9, <1>10, <1>11, <1>12, <1>13, <1>14, <1>15

LEMMA BusStep == BusInv /\ [BusNext]_busVars => BusInv'
<1> SUFFICES ASSUME BusInv, [BusNext]_busVars
             PROVE  BusInv'
  OBVIOUS
<1>1. CASE UNCHANGED busVars
  BY <1>1 DEF busVars, BusInv, BusTypeOK, Addressed, Found, Made, Owed, Visited, Holding
<1>2. ASSUME NEW t \in Agents, \E to \in Agents : Send(t, to)
      PROVE  BusInv'
  BY <1>2, SendKeeps
<1>3. ASSUME NEW t \in Agents, Enqueue(t)
      PROVE  BusInv'
  BY <1>3, EnqueueKeeps
<1>4. ASSUME NEW t \in Agents, AppendMessage(t)
      PROVE  BusInv'
  BY <1>4, AppendMessageKeeps
<1>5. ASSUME NEW t \in Agents, Receive(t)
      PROVE  BusInv'
  BY <1>5, ReceiveKeeps
<1>6. ASSUME NEW t \in Agents, Clear(t)
      PROVE  BusInv'
  BY <1>6, ClearKeeps
<1>7. ASSUME NEW t \in Agents, Broadcast(t)
      PROVE  BusInv'
  BY <1>7, BroadcastKeeps
<1>8. ASSUME NEW t \in Agents, BroadcastNext(t)
      PROVE  BusInv'
  BY <1>8, BroadcastNextKeeps
<1> QED
  BY <1>1, <1>2, <1>3, <1>4, <1>5, <1>6, <1>7, <1>8 DEF BusNext

\* In every state of the bus each list, each message and each broadcast under way is where
\* the invariant's parts say, whatever the order in which agents call it (message_bus.py).
THEOREM BusInvariant == BusSpec => []BusInv
<1> QED
  BY BusInitInv, BusStep, PTL DEF BusSpec

-----------------------------------------------------------------------------
(* The bus: what follows. *)

\* The variables of the bus have the values that the module's comments name.
THEOREM BusTypeCorrect == BusSpec => []BusTypeOK
<1>1. BusInv => BusTypeOK
  BY DEF BusInv
<1> QED
  BY <1>1, BusInvariant, PTL

\* Whatever else is sent, read, cleared and broadcast meanwhile, an agent's queue holds all
\* that was sent to it since it last cleared the queue, and no message twice
\* (message_bus.py lines 27-30, 44-45).
THEOREM QueueHoldsWhatIsDueAlways == BusSpec => []QueueHoldsWhatIsDue
<1>1. BusInv => QueueHoldsWhatIsDue
  <2> SUFFICES ASSUME BusInv, NEW a \in Agents
               PROVE  LET queue == IF queueOf[a] = 0 THEN <<>> ELSE lists[queueOf[a]]
                      IN  due[a] \subseteq ToSet(queue) /\ IsInjective(queue)
    BY DEF QueueHoldsWhatIsDue
  <2>1. CASE queueOf[a] = 0
    <3>1. due[a] = {} /\ IsInjective(<<>>)
      BY <2>1 DEF BusInv, Owed, IsInjective
    <3> QED
      BY <2>1, <3>1
  <2>2. CASE queueOf[a] # 0
    <3>1. queueOf[a] \in 0..Len(lists) /\ Len(lists) \in Nat /\ DOMAIN lists = 1..Len(lists)
      BY DEF BusInv, BusTypeOK
    <3>2. queueOf[a] \in DOMAIN lists
      BY <2>2, <3>1
    <3> QED
      BY <2>2, <3>2 DEF BusInv, Owed, Made
  <2> QED
    BY <2>1, <2>2
<1> QED
  BY <1>1, BusInvariant, PTL

\* However many queues come and go while it iterates over them, a broadcast that comes to
\* its end has sent to every other agent that had a queue all the time, and to nobody twice
\* (message_bus.py lines 35-42).
THEOREM BroadcastReachesAlways == BusSpec => []BroadcastReaches
<1>1. BusInv => BroadcastReaches
  BY DEF BusInv, Visited, BroadcastReaches
<1> QED
  BY <1>1, BusInvariant, PTL

\* The list that receive() handed out stays the agent's queue, and so shows all that comes
\* later, until the agent clears it (message_bus.py lines 32-33).
THEOREM HeldListIsLiveAlways == BusSpec => []HeldListIsLive
<1>1. BusInv => HeldListIsLive
  <2> SUFFICES ASSUME BusInv, NEW a \in Agents, held[a].list # 0, held[a].epoch = clears[a]
               PROVE  due[a] \subseteq ToSet(lists[held[a].list])
    BY DEF HeldListIsLive
  <2>1. queueOf[a] = held[a].list
    BY DEF BusInv, Holding
  <2> QED
    BY <2>1 DEF BusInv, Owed
<1> QED
  BY <1>1, BusInvariant, PTL

-----------------------------------------------------------------------------
(* The tools: the inductive invariant. *)

CallRecords ==
    [at : {"idle", "validate", "run", "audit", "store", "returned", "raised"},
     id : Nat, tool : SUBSET Tools, given : SUBSET Parameters,
     trace : Traces \cup {NoTrace, LostTrace}, ok : BOOLEAN,
     read : Seq(Steps), met : SUBSET Nat]

ResultRecords == [id : Nat, trace : Traces \cup {NoTrace}, ok : BOOLEAN, met : SUBSET Nat]

Active(t) == call[t].at \in {"validate", "run", "audit", "store"}

\* Calls on their way have numbers of their own.
Numbered ==
    \A t \in Callers :
        Active(t) =>
            /\ call[t].id \in 1..toolCalls
            /\ \A u \in Callers \ {t} : Active(u) => call[u].id # call[t].id

\* A sequence of steps has one per call, and none of a call that is on its way.
Sound(s) ==
    /\ \A k, l \in DOMAIN s : s[k].by = s[l].by => k = l
    /\ \A k \in DOMAIN s :
          /\ s[k].by <= toolCalls
          /\ \A t \in Callers : Active(t) => s[k].by # call[t].id

Stored == \A r \in Traces : Sound(steps[r])

\* What add_step() has read is sound, too; two that are storing have met.
Storing ==
    \A t \in Callers :
        call[t].at = "store" =>
            /\ call[t].trace \in Traces /\ Sound(call[t].read)
            /\ \A u \in Callers \ {t} :
                  call[u].at = "store" /\ call[u].trace = call[t].trace =>
                      call[u].id \in call[t].met

Tells(s, result) == \E k \in DOMAIN s : s[k] = [by |-> result.id, ok |-> result.ok]

\* A call that it met while it was storing has stored after the i-th that returned.
Passed(i) ==
    \E j \in DOMAIN results : /\ j > i /\ results[j].trace = results[i].trace
                             /\ results[j].id \in results[i].met

\* The step of a call that was not passed is stored, and all who are about to write the
\* steps of its trace have read it, or have met the call and are going to pass it.
Kept ==
    \A i \in DOMAIN results :
        results[i].trace \in Traces /\ ~Passed(i) =>
            /\ Tells(steps[results[i].trace], results[i])
            /\ \A t \in Callers :
                  call[t].at = "store" /\ call[t].trace = results[i].trace =>
                      Tells(call[t].read, results[i]) \/ call[t].id \in results[i].met

ToolInv == ToolTypeOK /\ Numbered /\ Stored /\ Storing /\ Kept

LEMMA ToolTypes ==
    ToolTypeOK <=>
        /\ registered \in [Tools -> SUBSET Definitions]
        /\ \A n \in Tools : Cardinality(registered[n]) <= 1
        /\ call \in [Callers -> CallRecords] /\ steps \in [Traces -> Seq(Steps)]
        /\ results \in Seq(ResultRecords) /\ toolCalls \in 0..MaxToolCalls
BY DEF ToolTypeOK, CallRecords, ResultRecords

LEMMA ToolInitInv == ToolInit => ToolInv
<1> SUFFICES ASSUME ToolInit
             PROVE  ToolInv
  OBVIOUS
<1> USE DEF ToolInit
<1>1. ToolTypeOK
  <2>1. NoCall \in CallRecords
    BY DEF NoCall, CallRecords
  <2>2. \A n \in Tools : Cardinality(registered[n]) <= 1
    BY FS_EmptySet
  <2> QED
    BY <2>1, <2>2, ToolsAssumption, ToolTypes
<1>2. Numbered /\ Storing
  BY DEF Numbered, Storing, Active, NoCall
<1>3. Stored /\ Kept
  BY DEF Stored, Sound, Kept
<1> QED
  BY <1>1, <1>2, <1>3 DEF ToolInv

LEMMA AnotherCounts ==
    ASSUME ToolTypeOK, NEW t \in Callers, Another(t)
    PROVE  /\ toolCalls \in Nat /\ toolCalls' = toolCalls + 1
           /\ toolCalls' \in 0..MaxToolCalls /\ ~Active(t)
<1>1. toolCalls \in 0..MaxToolCalls
  BY DEF ToolTypeOK
<1> QED
  BY <1>1, ToolsAssumption DEF Another, Active

\* What is sound stays so when callers come back, or take numbers that are new.
LEMMA StaysSound ==
    ASSUME NEW s \in Seq(Steps), Sound(s), toolCalls \in Nat, toolCalls' \in Nat,
           toolCalls <= toolCalls',
           \A t \in Callers : Active(t)' =>
               \/ Active(t) /\ call'[t].id = call[t].id
               \/ call'[t].id = toolCalls + 1
    PROVE  Sound(s)'
<1>1. \A k \in DOMAIN s : s[k].by \in Nat
  <2>1. \A k \in DOMAIN s : s[k] \in Steps
    OBVIOUS
  <2> QED
    BY <2>1 DEF Steps
<1>2. ASSUME NEW k \in DOMAIN s
      PROVE  /\ s[k].by <= toolCalls'
             /\ \A t \in Callers : Active(t)' => s[k].by # call'[t].id
  BY <1>1 DEF Sound
<1> QED
  BY <1>2 DEF Sound

\* A step of one caller that stores nothing and does not begin to.
LEMMA NotStoring ==
    ASSUME ToolInv, NEW t \in Callers, NEW next \in CallRecords,
           call' = [call EXCEPT ![t] = next], next.at # "store",
           UNCHANGED <<registered, steps>>,
           toolCalls' \in 0..MaxToolCalls, toolCalls <= toolCalls',
           Active(t)' => \/ Active(t) /\ next.id = call[t].id
                         \/ next.id = toolCalls + 1 /\ toolCalls' = toolCalls + 1
    PROVE  /\ results' \in Seq(ResultRecords) => ToolTypeOK'
           /\ Numbered' /\ Stored' /\ Storing'
           /\ /\ \A i \in DOMAIN results : i \in DOMAIN results' /\ results'[i] = results[i]
              /\ \A i \in DOMAIN results' : results'[i].trace \in Traces => i \in DOMAIN results
              => Kept'
<1>1. /\ registered \in [Tools -> SUBSET Definitions]
      /\ \A n \in Tools : Cardinality(registered[n]) <= 1
      /\ call \in [Callers -> CallRecords] /\ steps \in [Traces -> Seq(Steps)]
      /\ toolCalls \in 0..MaxToolCalls
  BY ToolTypes DEF ToolInv
<1>2. toolCalls \in Nat /\ toolCalls' \in Nat
  BY <1>1
<1>3. \A u \in Callers : call'[u] = IF u = t THEN next ELSE call[u]
  BY <1>1
<1>4. results' \in Seq(ResultRecords) => ToolTypeOK'
  <2>1. call' \in [Callers -> CallRecords]
    BY <1>1
  <2> QED
    BY <1>1, <2>1, ToolTypes DEF ToolTypeOK, CallRecords, ResultRecords
<1>5. \A u \in Callers : Active(u)' =>
          \/ Active(u) /\ call'[u].id = call[u].id
          \/ u = t /\ call'[u].id = toolCalls + 1 /\ toolCalls' = toolCalls + 1
  BY <1>3 DEF Active
<1>6. Numbered'
  <2> SUFFICES ASSUME NEW u \in Callers, Active(u)'
               PROVE  /\ call'[u].id \in 1..toolCalls'
                      /\ \A v \in Callers \ {u} : Active(v)' => call'[v].id # call'[u].id
    BY DEF Numbered
  <2>1. \A v \in Callers : Active(v) => call[v].id \in 1..toolCalls
    BY DEF ToolInv, Numbered
  <2>2. call'[u].id \in 1..toolCalls'
    BY <1>2, <1>5, <2>1
  <2>3. ASSUME NEW v \in Callers \ {u}, Active(v)'
        PROVE  call'[v].id # call'[u].id
    <3>1. CASE Active(u) /\ call'[u].id = call[u].id /\ Active(v) /\ call'[v].id = call[v].id
      BY <3>1 DEF ToolInv, Numbered
    <3>2. CASE Active(u) /\ call'[u].id = call[u].id /\ call'[v].id = toolCalls + 1
      BY <1>2, <2>1, <3>2
    <3>3. CASE u = t /\ call'[u].id = toolCalls + 1
      <4>1. call'[v].id \in 1..toolCalls
        BY <1>5, <2>1, <2>3, <3>3
      <4> QED
        BY <1>2, <3>3, <4>1
    <3> QED
      BY <1>5, <2>3, <3>1, <3>2, <3>3
  <2> QED
    BY <2>2, <2>3
<1>7. ASSUME NEW s \in Seq(Steps), Sound(s)
      PROVE  Sound(s)'
  BY <1>2, <1>5, <1>7, StaysSound
<1>8. Stored'
  <2>1. \A r \in Traces : Sound(steps[r]) /\ steps[r] \in Seq(Steps)
    BY <1>1 DEF ToolInv, Stored
  <2>2. \A r \in Traces : Sound(steps[r])'
    BY <1>7, <2>1
  <2> QED
    BY <2>2 DEF Stored
<1>9. Storing'
  <2> SUFFICES ASSUME NEW u \in Callers, call'[u].at = "store"
               PROVE  /\ call'[u].trace \in Traces /\ Sound(call[u].read)'
                      /\ \A v \in Callers \ {u} :
                            call'[v].at = "store" /\ call'[v].trace = call'[u].trace =>
                                call'[v].id \in call'[u].met
    BY DEF Storing
  <2>1. u # t /\ call'[u] = call[u] /\ call[u] \in CallRecords
    BY <1>1, <1>3
  <2>2. /\ call[u].trace \in Traces /\ Sound(call[u].read)
        /\ \A v \in Callers \ {u} :
              call[v].at = "store" /\ call[v].trace = call[u].trace =>
                  call[v].id \in call[u].met
    BY <2>1 DEF ToolInv, Storing
  <2>3. Sound(call[u].read)'
    <3>1. PICK s \in Seq(Steps) : s = call[u].read
      BY <2>1 DEF CallRecords
    <3>2. s = call'[u].read /\ Sound(s)
      BY <2>1, <2>2, <3>1
    <3>3. Sound(s)'
      BY <1>7, <3>2
    <3> QED
      BY <3>2, <3>3 DEF Sound
  <2> QED
    BY <1>3, <2>1, <2>2, <2>3
<1>10. ASSUME \A i \in DOMAIN results : i \in DOMAIN results' /\ results'[i] = results[i],
              \A i \in DOMAIN results' : results'[i].trace \in Traces => i \in DOMAIN results
       PROVE  Kept'
  <2> SUFFICES ASSUME NEW i \in DOMAIN results', results'[i].trace \in Traces,
                      ~Passed(i)'
               PROVE  /\ Tells(steps'[results'[i].trace], results'[i])
                      /\ \A u \in Callers :
                            call'[u].at = "store" /\ call'[u].trace = results'[i].trace =>
                                \/ Tells(call'[u].read, results'[i])
                                \/ call'[u].id \in results'[i].met
    BY DEF Kept, Tells
  <2>1. i \in DOMAIN results /\ results'[i] = results[i]
    BY <1>10
  <2>2. ~Passed(i)
    BY <1>10, <2>1 DEF Passed
  <2>3. /\ Tells(steps[results[i].trace], results[i])
        /\ \A u \in Callers :
              call[u].at = "store" /\ call[u].trace = results[i].trace =>
                  Tells(call[u].read, results[i]) \/ call[u].id \in results[i].met
    BY <2>1, <2>2 DEF ToolInv, Kept
  <2>4. \A u \in Callers : call'[u].at = "store" => call'[u] = call[u]
    BY <1>3
  <2> QED
    BY <2>1, <2>3, <2>4
<1> QED
  BY <1>4, <1>6, <1>8, <1>9, <1>10

\* The same when no result is added.
LEMMA NotReturning ==
    ASSUME ToolInv, NEW t \in Callers, NEW next \in CallRecords,
           call' = [call EXCEPT ![t] = next], next.at # "store",
           UNCHANGED <<registered, steps, results>>,
           toolCalls' \in 0..MaxToolCalls, toolCalls <= toolCalls',
           Active(t)' => \/ Active(t) /\ next.id = call[t].id
                         \/ next.id = toolCalls + 1 /\ toolCalls' = toolCalls + 1
    PROVE  ToolInv'
<1>1. results' \in Seq(ResultRecords)
  BY ToolTypes DEF ToolInv
<1>2. ToolTypeOK' /\ Numbered' /\ Stored' /\ Storing' /\ Kept'
  BY <1>1, NotStoring
<1> QED
  BY <1>2 DEF ToolInv

LEMMA RegisterKeeps ==
    ASSUME ToolInv, NEW t \in Callers, NEW name \in Tools, NEW d \in Definitions,
           Register(t, name, d)
    PROVE  ToolInv'
<1>1. /\ toolCalls \in Nat /\ toolCalls' = toolCalls + 1 /\ toolCalls' \in 0..MaxToolCalls
      /\ UNCHANGED <<call, steps, results>>
      /\ registered' = [registered EXCEPT ![name] = {d}]
  BY AnotherCounts DEF Register, ToolInv
<1>2. /\ registered \in [Tools -> SUBSET Definitions]
      /\ \A n \in Tools : Cardinality(registered[n]) <= 1
      /\ call \in [Callers -> CallRecords] /\ steps \in [Traces -> Seq(Steps)]
      /\ results \in Seq(ResultRecords)
  BY ToolTypes DEF ToolInv
<1>3. ToolTypeOK'
  <2>1. registered' \in [Tools -> SUBSET Definitions]
    BY <1>1, <1>2
  <2>2. \A n \in Tools : Cardinality(registered'[n]) <= 1
    <3>1. Cardinality({d}) = 1
      BY FS_Singleton
    <3> QED
      BY <1>1, <1>2, <3>1
  <2> QED
    BY <1>1, <1>2, <2>1, <2>2 DEF ToolTypeOK, CallRecords, ResultRecords
<1>4. \A u \in Callers : Active(u)' => Active(u) /\ call'[u].id = call[u].id
  BY <1>1 DEF Active
<1>5. ASSUME NEW s \in Seq(Steps), Sound(s)
      PROVE  Sound(s)'
  BY <1>1, <1>4, <1>5, StaysSound
<1>6. Numbered'
  BY <1>1, <1>4 DEF ToolInv, Numbered
<1>7. Stored'
  <2>1. \A r \in Traces : Sound(steps[r]) /\ steps[r] \in Seq(Steps)
    BY <1>2 DEF ToolInv, Stored
  <2>2. \A r \in Traces : Sound(steps[r])'
    BY <1>1, <1>5, <2>1
  <2> QED
    BY <2>2 DEF Stored
<1>8. Storing'
  <2>1. ASSUME NEW u \in Callers, call[u].at = "store"
        PROVE  Sound(call[u].read)'
    <3>1. call[u].read \in Seq(Steps)
      <4>1. call[u] \in CallRecords
        BY <1>2
      <4> QED
        BY <4>1 DEF CallRecords
    <3>2. Sound(call[u].read)
      BY <2>1 DEF ToolInv, Storing
    <3> QED
      BY <1>1, <1>5, <3>1, <3>2
  <2> QED
    BY <1>1, <2>1 DEF ToolInv, Storing
<1>9. Kept'
  BY <1>1 DEF ToolInv, Kept, Tells, Passed
<1> QED
  BY <1>3, <1>6, <1>7, <1>8, <1>9 DEF ToolInv

LEMMA ExecuteKeeps ==
    ASSUME ToolInv, NEW t \in Callers, NEW name \in Tools, NEW given \in SUBSET Parameters,
           NEW r \in Traces \cup {NoTrace, LostTrace}, Execute(t, name, given, r)
    PROVE  ToolInv'
<1>1. PICK at \in {"validate", "audit"} :
          call' = [call EXCEPT ![t] =
                      [NoCall EXCEPT !.at = at, !.id = toolCalls', !.tool = {name},
                                     !.given = given, !.trace = r]]
  BY DEF Execute
<1> DEFINE next == [NoCall EXCEPT !.at = at, !.id = toolCalls', !.tool = {name},
                                  !.given = given, !.trace = r]
<1>2. /\ toolCalls \in Nat /\ toolCalls' = toolCalls + 1 /\ toolCalls' \in 0..MaxToolCalls
      /\ UNCHANGED <<registered, steps, results>>
  BY AnotherCounts DEF Execute, ToolInv
<1>3. next \in CallRecords /\ next.at # "store" /\ next.id = toolCalls + 1
  <2>1. NoCall \in CallRecords
    <3>1. <<>> \in Seq(Steps)
      OBVIOUS
    <3> QED
      BY <3>1 DEF NoCall, CallRecords
  <2>2. toolCalls' \in Nat /\ {name} \in SUBSET Tools
    BY <1>2
  <2>3. next \in CallRecords /\ next.at = at /\ next.id = toolCalls'
    BY <2>1, <2>2 DEF CallRecords
  <2> QED
    BY <1>2, <2>3
<1>4. call' = [call EXCEPT ![t] = next]
  BY <1>1
<1> HIDE DEF next
<1>5. toolCalls <= toolCalls'
  BY <1>2
<1> QED
  BY <1>2, <1>3, <1>4, <1>5, NotReturning

LEMMA SameCount ==
    ASSUME ToolTypeOK, UNCHANGED toolCalls
    PROVE  toolCalls' \in 0..MaxToolCalls /\ toolCalls <= toolCalls'
BY DEF ToolTypeOK

LEMMA ValidateKeeps ==
    ASSUME ToolInv, NEW t \in Callers, Validate(t)
    PROVE  ToolInv'
<1>1. /\ call[t].at = "validate" /\ UNCHANGED <<registered, steps, results, toolCalls>>
  BY DEF Validate
<1>2. PICK at \in {"run", "audit"} : call' = [call EXCEPT ![t].at = at]
  BY DEF Validate
<1> DEFINE next == [call[t] EXCEPT !.at = at]
<1>3. call[t] \in CallRecords
  BY ToolTypes DEF ToolInv
<1>4. next \in CallRecords /\ next.at # "store" /\ next.id = call[t].id
  BY <1>3 DEF CallRecords
<1>5. call' = [call EXCEPT ![t] = next] /\ Active(t)
  BY <1>1, <1>2 DEF Active
<1>6. toolCalls' \in 0..MaxToolCalls /\ toolCalls <= toolCalls'
  BY <1>1, SameCount DEF ToolInv
<1> HIDE DEF next
<1> QED
  BY <1>1, <1>4, <1>5, <1>6, NotReturning

LEMMA RunKeeps ==
    ASSUME ToolInv, NEW t \in Callers, Run(t)
    PROVE  ToolInv'
<1>1. /\ call[t].at = "run" /\ UNCHANGED <<registered, steps, results, toolCalls>>
  BY DEF Run
<1>2. PICK ok \in BOOLEAN : call' = [call EXCEPT ![t].at = "audit", ![t].ok = ok]
  BY DEF Run
<1> DEFINE next == [call[t] EXCEPT !.at = "audit", !.ok = ok]
<1>3. call[t] \in CallRecords /\ call \in [Callers -> CallRecords]
  BY ToolTypes DEF ToolInv
<1>4. next \in CallRecords /\ next.at # "store" /\ next.id = call[t].id
  BY <1>3 DEF CallRecords
<1>5. call' = [call EXCEPT ![t] = next] /\ Active(t)
  BY <1>1, <1>2, <1>3 DEF Active
<1>6. toolCalls' \in 0..MaxToolCalls /\ toolCalls <= toolCalls'
  BY <1>1, SameCount DEF ToolInv
<1> HIDE DEF next
<1> QED
  BY <1>1, <1>4, <1>5, <1>6, NotReturning

LEMMA AuditRaisesKeeps ==
    ASSUME ToolInv, NEW t \in Callers, AuditRaises(t)
    PROVE  ToolInv'
<1>1. /\ call' = [call EXCEPT ![t].at = "raised", ![t].read = <<>>]
      /\ UNCHANGED <<registered, steps, results, toolCalls>>
  BY DEF AuditRaises
<1> DEFINE next == [call[t] EXCEPT !.at = "raised", !.read = <<>>]
<1>2. call[t] \in CallRecords /\ call \in [Callers -> CallRecords]
  BY ToolTypes DEF ToolInv
<1>3. next \in CallRecords /\ next.at = "raised"
  <2>1. <<>> \in Seq(Steps)
    OBVIOUS
  <2> QED
    BY <1>2, <2>1 DEF CallRecords
<1>4. call' = [call EXCEPT ![t] = next]
  BY <1>1, <1>2
<1> HIDE DEF next
<1>5. ~Active(t)'
  BY <1>2, <1>3, <1>4 DEF Active
<1>6. toolCalls' \in 0..MaxToolCalls /\ toolCalls <= toolCalls'
  BY <1>1, SameCount DEF ToolInv
<1> QED
  BY <1>1, <1>3, <1>4, <1>5, <1>6, NotReturning

LEMMA ReturnUntracedKeeps ==
    ASSUME ToolInv, NEW t \in Callers, ReturnUntraced(t)
    PROVE  ToolInv'
<1> DEFINE next == [call[t] EXCEPT !.at = "returned"]
           result == Result(t)
<1>1. /\ call[t].trace = NoTrace /\ call' = [call EXCEPT ![t] = next]
      /\ results' = Append(results, result)
      /\ UNCHANGED <<registered, steps, toolCalls>>
  BY DEF ReturnUntraced
<1>2. call[t] \in CallRecords /\ call \in [Callers -> CallRecords]
      /\ results \in Seq(ResultRecords)
  BY ToolTypes DEF ToolInv
<1>3. next \in CallRecords /\ next.at = "returned"
  BY <1>2 DEF CallRecords
<1>4. result \in ResultRecords /\ result.trace \notin Traces
  BY <1>1, <1>2, ToolsAssumption DEF Result, ResultRecords, CallRecords
<1> HIDE DEF next, result
<1>5. ~Active(t)'
  BY <1>1, <1>2, <1>3 DEF Active
<1>6. toolCalls' \in 0..MaxToolCalls /\ toolCalls <= toolCalls'
  BY <1>1, SameCount DEF ToolInv
<1>7. /\ results' \in Seq(ResultRecords) /\ Len(results) \in Nat
      /\ DOMAIN results = 1..Len(results) /\ DOMAIN results' = 1..(Len(results) + 1)
      /\ \A i \in 1..Len(results) : results'[i] = results[i]
      /\ results'[Len(results) + 1] = result
  BY <1>1, <1>2, <1>4, Appended
<1>8. /\ \A i \in DOMAIN results : i \in DOMAIN results' /\ results'[i] = results[i]
      /\ \A i \in DOMAIN results' : results'[i].trace \in Traces => i \in DOMAIN results
  <2>1. ASSUME NEW i \in 1..(Len(results) + 1), results'[i].trace \in Traces
        PROVE  i \in DOMAIN results
    <3>1. i # Len(results) + 1
      BY <1>4, <1>7, <2>1
    <3> QED
      BY <1>7, <3>1
  <2>2. \A i \in 1..Len(results) : i \in 1..(Len(results) + 1)
    BY <1>7
  <2> QED
    BY <1>7, <2>1, <2>2
<1>9. ToolTypeOK' /\ Numbered' /\ Stored' /\ Storing' /\ Kept'
  BY <1>1, <1>3, <1>5, <1>6, <1>7, <1>8, NotStoring
<1> QED
  BY <1>9 DEF ToolInv

LEMMA AuditReadKeeps ==
    ASSUME ToolInv, NEW t \in Callers, AuditRead(t)
    PROVE  ToolInv'
<1> DEFINE r == call[t].trace
           others == {u \in Callers : call[u].at = "store" /\ call[u].trace = r}
           mine == [call[t] EXCEPT !.at = "store", !.read = steps[r],
                                    !.met = {call[v].id : v \in others}]
           other(u) == IF u \in others THEN [call[u] EXCEPT !.met = @ \cup {call[t].id}]
                       ELSE call[u]
<1>1. /\ call[t].at = "audit" /\ r \in Traces
      /\ call' = [u \in Callers |-> IF u = t THEN mine ELSE other(u)]
      /\ UNCHANGED <<registered, steps, results, toolCalls>>
  BY DEF AuditRead
<1>2. /\ registered \in [Tools -> SUBSET Definitions]
      /\ \A n \in Tools : Cardinality(registered[n]) <= 1
      /\ call \in [Callers -> CallRecords] /\ steps \in [Traces -> Seq(Steps)]
      /\ results \in Seq(ResultRecords) /\ toolCalls \in 0..MaxToolCalls /\ toolCalls \in Nat
  <2>1. toolCalls \in 0..MaxToolCalls
    BY ToolTypes DEF ToolInv
  <2> QED
    BY <2>1, ToolTypes DEF ToolInv
<1>3. /\ mine \in CallRecords /\ mine.at = "store" /\ mine.read = steps[r]
      /\ mine.met = {call[v].id : v \in others} /\ mine.trace = r /\ mine.id = call[t].id
  <2>1. call[t] \in CallRecords /\ steps[r] \in Seq(Steps)
    BY <1>1, <1>2
  <2>2. \A v \in others : call[v].id \in Nat
    BY <1>2 DEF CallRecords
  <2> DEFINE met == {call[v].id : v \in others}
  <2>3. met \in SUBSET Nat
    BY <2>2
  <2>4. mine = [call[t] EXCEPT !.at = "store", !.read = steps[r], !.met = met]
    OBVIOUS
  <2> HIDE DEF met, mine
  <2>5. /\ mine \in CallRecords /\ mine.at = "store" /\ mine.read = steps[r]
        /\ mine.met = met /\ mine.trace = call[t].trace /\ mine.id = call[t].id
    BY <2>1, <2>3, <2>4 DEF CallRecords
  <2> QED
    BY <2>5 DEF met
<1>4. ASSUME NEW u \in Callers
      PROVE  /\ other(u) \in CallRecords /\ other(u).at = call[u].at /\ other(u).id = call[u].id
             /\ other(u).trace = call[u].trace /\ other(u).read = call[u].read
             /\ call[u].met \subseteq other(u).met
             /\ u \in others => call[t].id \in other(u).met
  <2>1. call[u] \in CallRecords /\ call[t].id \in Nat
    BY <1>2 DEF CallRecords
  <2>2. CASE u \in others
    <3>1. other(u) = [call[u] EXCEPT !.met = @ \cup {call[t].id}]
      BY <2>2
    <3> HIDE DEF other, others
    <3> QED
      BY <2>1, <2>2, <3>1 DEF CallRecords
  <2>3. CASE u \notin others
    <3>1. other(u) = call[u]
      BY <2>3
    <3> HIDE DEF other, others
    <3> QED
      BY <2>1, <2>3, <3>1
  <2> QED
    BY <2>2, <2>3
<1>5. \A u \in Callers : u \in others <=> call[u].at = "store" /\ call[u].trace = r
  OBVIOUS
<1> HIDE DEF mine, other, others, r
<1>6. \A u \in Callers : call'[u] = IF u = t THEN mine ELSE other(u)
  BY <1>1
<1>7. ToolTypeOK'
  <2>1. call' \in [Callers -> CallRecords]
    BY <1>1, <1>3, <1>4
  <2> QED
    BY <1>1, <1>2, <2>1 DEF ToolTypeOK, CallRecords, ResultRecords
<1>8. \A u \in Callers : (Active(u)' <=> Active(u)) /\ call'[u].id = call[u].id
  BY <1>1, <1>3, <1>4, <1>6 DEF Active
<1>9. Numbered'
  BY <1>1, <1>8 DEF ToolInv, Numbered
<1>10. ASSUME NEW s \in Seq(Steps), Sound(s)
       PROVE  Sound(s)'
  BY <1>1, <1>2, <1>8, <1>10, StaysSound
<1>11. \A q \in Traces : steps[q] \in Seq(Steps) /\ Sound(steps[q]) /\ Sound(steps[q])'
  <2>1. \A q \in Traces : Sound(steps[q]) /\ steps[q] \in Seq(Steps)
    BY <1>2 DEF ToolInv, Stored
  <2> QED
    BY <1>1, <1>10, <2>1
<1>12. Stored'
  BY <1>11 DEF Stored
<1>13. Storing'
  <2> SUFFICES ASSUME NEW u \in Callers, call'[u].at = "store"
               PROVE  /\ call'[u].trace \in Traces /\ Sound(call[u].read)'
                      /\ \A v \in Callers \ {u} :
                            call'[v].at = "store" /\ call'[v].trace = call'[u].trace =>
                                call'[v].id \in call'[u].met
    BY DEF Storing
  <2>1. CASE u = t
    <3>1. call'[u] = mine
      BY <1>6, <2>1
    <3>2. Sound(call[u].read)'
      <4>1. PICK s \in Seq(Steps) : s = steps[r] /\ Sound(s)
        BY <1>1, <1>11
      <4>2. Sound(s)' /\ s = call'[u].read
        BY <1>3, <1>10, <3>1, <4>1
      <4> QED
        BY <4>2 DEF Sound
    <3>3. ASSUME NEW v \in Callers \ {u}, call'[v].at = "store", call'[v].trace = r
          PROVE  call'[v].id \in mine.met
      <4>1. v \in others /\ call'[v].id = call[v].id
        BY <1>4, <1>5, <1>6, <2>1, <3>3
      <4> QED
        BY <1>3, <4>1
    <3> QED
      BY <1>1, <1>3, <3>1, <3>2, <3>3
  <2>2. CASE u # t
    <3>1. call'[u] = other(u) /\ call[u].at = "store" /\ call'[u].trace = call[u].trace
          /\ call'[u].read = call[u].read /\ call[u] \in CallRecords
      BY <1>2, <1>4, <1>6, <2>2
    <3>2. /\ call[u].trace \in Traces /\ Sound(call[u].read)
          /\ \A v \in Callers \ {u} :
                call[v].at = "store" /\ call[v].trace = call[u].trace =>
                    call[v].id \in call[u].met
      BY <3>1 DEF ToolInv, Storing
    <3>3. Sound(call[u].read)'
      <4>1. PICK s \in Seq(Steps) : s = call[u].read
        BY <3>1 DEF CallRecords
      <4>2. Sound(s)' /\ s = call'[u].read
        BY <1>10, <3>1, <3>2, <4>1
      <4> QED
        BY <4>2 DEF Sound
    <3>4. ASSUME NEW v \in Callers \ {u}, call'[v].at = "store",
                 call'[v].trace = call[u].trace
          PROVE  call'[v].id \in call'[u].met
      <4>1. CASE v = t
        <5>1. call[u].trace = r /\ call'[v].id = call[t].id
          BY <1>3, <1>6, <3>4, <4>1
        <5> QED
          BY <1>4, <1>5, <3>1, <5>1
      <4>2. CASE v # t
        <5>1. /\ call[v].at = "store" /\ call[v].trace = call[u].trace
              /\ call'[v].id = call[v].id
          BY <1>4, <1>6, <3>4, <4>2
        <5> QED
          BY <1>4, <3>1, <3>2, <3>4, <5>1
      <4> QED
        BY <4>1, <4>2
    <3> QED
      BY <3>1, <3>2, <3>3, <3>4
  <2> QED
    BY <2>1, <2>2
<1>14. Kept'
  <2> SUFFICES ASSUME NEW i \in DOMAIN results, results[i].trace \in Traces, ~Passed(i)
               PROVE  /\ Tells(steps[results[i].trace], results[i])
                      /\ \A u \in Callers :
                            call'[u].at = "store" /\ call'[u].trace = results[i].trace =>
                                \/ Tells(call'[u].read, results[i])
                                \/ call'[u].id \in results[i].met
    BY <1>1 DEF Kept, Tells, Passed
  <2>1. /\ Tells(steps[results[i].trace], results[i])
        /\ \A u \in Callers :
              call[u].at = "store" /\ call[u].trace = results[i].trace =>
                  Tells(call[u].read, results[i]) \/ call[u].id \in results[i].met
    BY DEF ToolInv, Kept
  <2>2. ASSUME NEW u \in Callers, call'[u].at = "store", call'[u].trace = results[i].trace
        PROVE  Tells(call'[u].read, results[i]) \/ call'[u].id \in results[i].met
    <3>1. CASE u = t
      <4>1. call'[u].read = steps[r] /\ r = results[i].trace
        BY <1>3, <1>6, <2>2, <3>1
      <4> QED
        BY <2>1, <4>1
    <3>2. CASE u # t
      <4>1. call'[u].read = call[u].read /\ call[u].at = "store"
            /\ call[u].trace = results[i].trace /\ call'[u].id = call[u].id
        BY <1>4, <1>6, <2>2, <3>2
      <4> QED
        BY <2>1, <4>1
    <3> QED
      BY <3>1, <3>2
  <2> QED
    BY <2>1, <2>2
<1> QED
  BY <1>7, <1>9, <1>12, <1>13, <1>14 DEF ToolInv

LEMMA AuditStoreKeeps ==
    ASSUME ToolInv, NEW t \in Callers, AuditStore(t)
    PROVE  ToolInv'
<1> DEFINE r == call[t].trace
           read == call[t].read
           step == [by |-> call[t].id, ok |-> call[t].ok]
           written == Append(read, step)
           result == Result(t)
           next == [call[t] EXCEPT !.at = "returned", !.read = <<>>]
<1>1. /\ call[t].at = "store" /\ steps' = [steps EXCEPT ![r] = written]
      /\ results' = Append(results, result) /\ UNCHANGED <<registered, toolCalls>>
      /\ call' = [call EXCEPT ![t].at = "returned", ![t].read = <<>>]
  BY DEF AuditStore
<1>2. /\ registered \in [Tools -> SUBSET Definitions]
      /\ \A n \in Tools : Cardinality(registered[n]) <= 1
      /\ call \in [Callers -> CallRecords] /\ steps \in [Traces -> Seq(Steps)]
      /\ results \in Seq(ResultRecords) /\ toolCalls \in 0..MaxToolCalls /\ toolCalls \in Nat
  <2>1. toolCalls \in 0..MaxToolCalls
    BY ToolTypes DEF ToolInv
  <2> QED
    BY <2>1, ToolTypes DEF ToolInv
<1>3. call[t] \in CallRecords
  BY <1>2
<1>4. next \in CallRecords /\ next.at = "returned"
  <2>1. <<>> \in Seq(Steps)
    OBVIOUS
  <2> QED
    BY <1>3, <2>1 DEF CallRecords
<1>5. /\ r \in Traces /\ Sound(read)
      /\ \A u \in Callers \ {t} :
            call[u].at = "store" /\ call[u].trace = r => call[u].id \in call[t].met
  BY <1>1 DEF ToolInv, Storing
<1>6. /\ call[t].id \in 1..toolCalls
      /\ \A u \in Callers \ {t} : Active(u) => call[u].id # call[t].id
  BY <1>1 DEF ToolInv, Numbered, Active
<1>7. /\ read \in Seq(Steps) /\ step \in Steps /\ step.by = call[t].id
      /\ result \in ResultRecords /\ result.trace = r /\ result.met = call[t].met
      /\ step = [by |-> result.id, ok |-> result.ok] /\ result.id = call[t].id
  BY <1>3, <1>5 DEF CallRecords, Steps, Result, ResultRecords
<1>8. call' = [call EXCEPT ![t] = next]
  BY <1>1, <1>2
<1> HIDE DEF next, step, result
<1>9. \A u \in Callers : call'[u] = IF u = t THEN next ELSE call[u]
  BY <1>2, <1>8
<1>10. /\ written \in Seq(Steps) /\ Len(read) \in Nat
       /\ DOMAIN read = 1..Len(read) /\ DOMAIN written = 1..(Len(read) + 1)
       /\ \A k \in 1..Len(read) : written[k] = read[k]
       /\ written[Len(read) + 1] = step
  BY <1>7, Appended
<1>11. /\ results' \in Seq(ResultRecords) /\ Len(results) \in Nat
       /\ DOMAIN results = 1..Len(results) /\ DOMAIN results' = 1..(Len(results) + 1)
       /\ \A i \in 1..Len(results) : results'[i] = results[i]
       /\ results'[Len(results) + 1] = result
  BY <1>1, <1>2, <1>7, Appended
<1> HIDE DEF written, read, r
<1>12. /\ steps' \in [Traces -> Seq(Steps)] /\ steps'[r] = written
       /\ \A q \in Traces \ {r} : steps'[q] = steps[q]
  BY <1>1, <1>2, <1>5, <1>10
<1>13. ToolTypeOK'
  <2>1. call' \in [Callers -> CallRecords]
    BY <1>2, <1>4, <1>8
  <2> QED
    BY <1>1, <1>2, <1>11, <1>12, <2>1 DEF ToolTypeOK, CallRecords, ResultRecords
<1>14. \A u \in Callers :
          Active(u)' => u # t /\ Active(u) /\ call'[u].id = call[u].id
  BY <1>4, <1>9 DEF Active
<1>15. Numbered'
  BY <1>1, <1>14 DEF ToolInv, Numbered
<1>16. ASSUME NEW s \in Seq(Steps), Sound(s)
       PROVE  Sound(s)'
  <2>1. toolCalls \in Nat /\ toolCalls' \in Nat /\ toolCalls <= toolCalls'
    BY <1>1, <1>2
  <2> QED
    BY <1>14, <1>16, <2>1, StaysSound
<1>17. ASSUME NEW s \in Seq(Steps), s = written
       PROVE  Sound(s)'
  <2>1. /\ \A k, l \in 1..Len(read) : read[k].by = read[l].by => k = l
        /\ \A k \in 1..Len(read) : /\ read[k].by <= toolCalls
                                   /\ \A u \in Callers : Active(u) => read[k].by # call[u].id
    BY <1>5, <1>10 DEF Sound
  <2>2. \A k \in 1..Len(read) : read[k].by # step.by
    BY <1>1, <1>7, <2>1 DEF Active
  <2>3. ASSUME NEW k \in 1..(Len(read) + 1), NEW l \in 1..(Len(read) + 1),
               written[k].by = written[l].by
        PROVE  k = l
    <3>1. CASE k \in 1..Len(read) /\ l \in 1..Len(read)
      BY <1>10, <2>1, <2>3, <3>1
    <3>2. CASE k = Len(read) + 1 /\ l \in 1..Len(read)
      BY <1>10, <2>2, <2>3, <3>2
    <3>3. CASE l = Len(read) + 1 /\ k \in 1..Len(read)
      BY <1>10, <2>2, <2>3, <3>3
    <3> QED
      BY <1>10, <3>1, <3>2, <3>3
  <2>4. ASSUME NEW k \in 1..(Len(read) + 1)
        PROVE  /\ written[k].by <= toolCalls'
               /\ \A u \in Callers : Active(u)' => written[k].by # call'[u].id
    <3>1. CASE k \in 1..Len(read)
      <4>1. written[k] = read[k] /\ toolCalls' = toolCalls
        BY <1>1, <1>10, <3>1
      <4> QED
        BY <1>14, <2>1, <3>1, <4>1
    <3>2. CASE k = Len(read) + 1
      <4>1. written[k].by = call[t].id
        BY <1>7, <1>10, <3>2
      <4> QED
        BY <1>1, <1>2, <1>6, <1>14, <4>1
    <3> QED
      BY <1>10, <3>1, <3>2
  <2> QED
    BY <1>10, <1>17, <2>3, <2>4 DEF Sound
<1>18. Stored'
  <2> SUFFICES ASSUME NEW q \in Traces
               PROVE  Sound(steps[q])'
    BY DEF Stored
  <2>1. PICK s \in Seq(Steps) : s = steps'[q]
    BY <1>12
  <2>2. Sound(s)'
    <3>1. CASE q = r
      BY <1>12, <1>17, <2>1, <3>1
    <3>2. CASE q # r
      <4>1. s = steps[q]
        BY <1>12, <2>1, <3>2
      <4>2. Sound(s)
        BY <4>1 DEF ToolInv, Stored
      <4> QED
        BY <1>16, <4>2
    <3> QED
      BY <3>1, <3>2
  <2> QED
    BY <2>1, <2>2 DEF Sound
<1>19. Storing'
  <2> SUFFICES ASSUME NEW u \in Callers, call'[u].at = "store"
               PROVE  /\ call'[u].trace \in Traces /\ Sound(call[u].read)'
                      /\ \A v \in Callers \ {u} :
                            call'[v].at = "store" /\ call'[v].trace = call'[u].trace =>
                                call'[v].id \in call'[u].met
    BY DEF Storing
  <2>1. u # t /\ call'[u] = call[u] /\ call[u] \in CallRecords
    BY <1>2, <1>4, <1>9
  <2>2. /\ call[u].trace \in Traces /\ Sound(call[u].read)
        /\ \A v \in Callers \ {u} :
              call[v].at = "store" /\ call[v].trace = call[u].trace =>
                  call[v].id \in call[u].met
    BY <2>1 DEF ToolInv, Storing
  <2>3. Sound(call[u].read)'
    <3>1. PICK s \in Seq(Steps) : s = call[u].read
      BY <2>1 DEF CallRecords
    <3>2. Sound(s)' /\ s = call'[u].read
      BY <1>16, <2>1, <2>2, <3>1
    <3> QED
      BY <3>2 DEF Sound
  <2>4. \A v \in Callers : call'[v].at = "store" => call'[v] = call[v]
    BY <1>4, <1>9
  <2> QED
    BY <2>1, <2>2, <2>3, <2>4
<1>20. Kept'
  <2> SUFFICES ASSUME NEW i \in 1..(Len(results) + 1), results'[i].trace \in Traces,
                      ~Passed(i)'
               PROVE  /\ Tells(steps'[results'[i].trace], results'[i])
                      /\ \A u \in Callers :
                            call'[u].at = "store" /\ call'[u].trace = results'[i].trace =>
                                \/ Tells(call'[u].read, results'[i])
                                \/ call'[u].id \in results'[i].met
    BY <1>11 DEF Kept, Tells
  <2>1. \A u \in Callers : call'[u].at = "store" => u # t /\ call'[u] = call[u]
    BY <1>4, <1>9
  <2>2. CASE i = Len(results) + 1
    <3>1. results'[i] = result /\ result.trace = r /\ result.met = call[t].met
      BY <1>7, <1>11, <2>2
    <3>2. Tells(written, result)
      <4>1. Len(read) + 1 \in DOMAIN written
        BY <1>10
      <4> QED
        BY <1>7, <1>10, <4>1 DEF Tells
    <3>3. \A u \in Callers :
            call'[u].at = "store" /\ call'[u].trace = r => call'[u].id \in call[t].met
      BY <1>5, <2>1
    <3> QED
      BY <1>12, <3>1, <3>2, <3>3
  <2>3. CASE i \in 1..Len(results)
    <3>1. results'[i] = results[i] /\ i \in DOMAIN results
      BY <1>11, <2>3
    <3>2. /\ Len(results) + 1 \in DOMAIN results' /\ Len(results) + 1 > i
          /\ \A j \in DOMAIN results : j \in DOMAIN results' /\ results'[j] = results[j]
      BY <1>11, <2>3
    <3>3. ~Passed(i)
      BY <3>1, <3>2 DEF Passed
    <3>4. ~(r = results[i].trace /\ call[t].id \in results[i].met)
      BY <1>7, <1>11, <3>1, <3>2 DEF Passed
    <3>5. /\ Tells(steps[results[i].trace], results[i])
          /\ \A u \in Callers :
                call[u].at = "store" /\ call[u].trace = results[i].trace =>
                    Tells(call[u].read, results[i]) \/ call[u].id \in results[i].met
      BY <3>1, <3>3 DEF ToolInv, Kept
    <3>6. CASE results[i].trace = r
      <4>1. Tells(read, results[i])
        BY <1>1, <3>4, <3>5, <3>6 DEF r, read
      <4>2. Tells(written, results[i])
        <5>1. PICK k \in 1..Len(read) : read[k] = [by |-> results[i].id, ok |-> results[i].ok]
          BY <1>10, <4>1 DEF Tells
        <5>2. k \in DOMAIN written /\ written[k] = read[k]
          BY <1>10
        <5> QED
          BY <5>1, <5>2 DEF Tells
      <4> QED
        BY <1>12, <2>1, <3>1, <3>5, <3>6, <4>2
    <3>7. CASE results[i].trace # r
      BY <1>12, <2>1, <3>1, <3>5, <3>7
    <3> QED
      BY <3>6, <3>7
  <2> QED
    BY <1>11, <2>2, <2>3
<1> QED
  BY <1>13, <1>15, <1>18, <1>19, <1>20 DEF ToolInv

LEMMA ToolStep == ToolInv /\ [ToolNext]_toolVars => ToolInv'
<1> SUFFICES ASSUME ToolInv, [ToolNext]_toolVars
             PROVE  ToolInv'
  OBVIOUS
<1>1. CASE UNCHANGED toolVars
  BY <1>1 DEF toolVars, ToolInv, ToolTypeOK, Numbered, Stored, Storing, Kept, Sound, Tells,
              Active, Passed
<1>2. ASSUME NEW t \in Callers, NEW n \in Tools, NEW d \in Definitions, Register(t, n, d)
      PROVE  ToolInv'
  BY <1>2, RegisterKeeps
<1>3. ASSUME NEW t \in Callers, NEW n \in Tools, NEW given \in SUBSET Parameters,
             NEW r \in Traces \cup {NoTrace, LostTrace}, Execute(t, n, given, r)
      PROVE  ToolInv'
  BY <1>3, ExecuteKeeps
<1>4. ASSUME NEW t \in Callers, Validate(t)
      PROVE  ToolInv'
  BY <1>4, ValidateKeeps
<1>5. ASSUME NEW t \in Callers, Run(t)
      PROVE  ToolInv'
  BY <1>5, RunKeeps
<1>6. ASSUME NEW t \in Callers, ReturnUntraced(t)
      PROVE  ToolInv'
  BY <1>6, ReturnUntracedKeeps
<1>7. ASSUME NEW t \in Callers, AuditRead(t)
      PROVE  ToolInv'
  BY <1>7, AuditReadKeeps
<1>8. ASSUME NEW t \in Callers, AuditStore(t)
      PROVE  ToolInv'
  BY <1>8, AuditStoreKeeps
<1>9. ASSUME NEW t \in Callers, AuditRaises(t)
      PROVE  ToolInv'
  BY <1>9, AuditRaisesKeeps
<1> QED
  BY <1>1, <1>2, <1>3, <1>4, <1>5, <1>6, <1>7, <1>8, <1>9 DEF ToolNext

\* In every state of the tool router the steps stored, and those a thread is about to write
\* back, hold what the invariant's parts say (tool_router.py, trace_logger.py).
THEOREM ToolInvariant == ToolSpec => []ToolInv
<1> QED
  BY ToolInitInv, ToolStep, PTL DEF ToolSpec

-----------------------------------------------------------------------------
(* The tools: what follows. *)

\* The variables of the tool router have the values that the module's comments name.
THEOREM ToolTypeCorrect == ToolSpec => []ToolTypeOK
<1>1. ToolInv => ToolTypeOK
  BY DEF ToolInv
<1> QED
  BY <1>1, ToolInvariant, PTL

\* However many agents call tools under one trace, and whichever of their audits fail, the
\* step of a call is never doubled or changed, and lost only to a call that was storing at
\* the same time and has stored after it (tool_router.py lines 130-151, trace_logger.py
\* lines 38-62).
THEOREM AuditTellsOutcomeAlways == ToolSpec => []AuditTellsOutcome
<1>1. ToolInv => AuditTellsOutcome
  <2> SUFFICES ASSUME ToolInv
               PROVE  AuditTellsOutcome
    OBVIOUS
  <2>1. \A r \in Traces : \A k, l \in DOMAIN steps[r] :
            steps[r][k].by = steps[r][l].by => k = l
    BY DEF ToolInv, Stored, Sound
  <2>2. ASSUME NEW i \in DOMAIN results, results[i].trace \in Traces
        PROVE  Tells(steps[results[i].trace], results[i]) \/ Passed(i)
    BY <2>2 DEF ToolInv, Kept
  <2> QED
    BY <2>1, <2>2 DEF AuditTellsOutcome, Tells, Passed
<1> QED
  BY <1>1, ToolInvariant, PTL

-----------------------------------------------------------------------------
(* The blackboard, and the three together. *)

LEMMA BoardStep == BoardTypeOK /\ [BoardNext]_board => BoardTypeOK'
<1> SUFFICES ASSUME BoardTypeOK, [BoardNext]_board
             PROVE  BoardTypeOK'
  OBVIOUS
<1>1. /\ board \in Seq(Entries)
      /\ \A i, j \in DOMAIN board : board[i].key = board[j].key => i = j
  BY DEF BoardTypeOK, IsInjective
<1>2. CASE UNCHANGED board
  BY <1>2 DEF BoardTypeOK
<1>3. CASE ClearBoard
  BY <1>3 DEF ClearBoard, BoardTypeOK, IsInjective
<1>4. ASSUME NEW entry \in Entries, Write(entry)
      PROVE  BoardTypeOK'
  <2>1. CASE \E i \in DOMAIN board : board[i].key = entry.key
    <3>1. board' = [i \in DOMAIN board |-> IF board[i].key = entry.key THEN entry
                                                                      ELSE board[i]]
      BY <1>4, <2>1 DEF Write
    <3>2. DOMAIN board' = DOMAIN board /\ \A i \in DOMAIN board : board'[i].key = board[i].key
      BY <3>1
    <3>3. board' \in Seq(Entries)
      <4>1. DOMAIN board = 1..Len(board) /\ Len(board) \in Nat
            /\ \A i \in DOMAIN board : board[i] \in Entries
        BY <1>1
      <4>2. board' \in [1..Len(board) -> Entries]
        BY <3>1, <4>1
      <4> QED
        BY <4>1, <4>2, SeqDef
    <3> QED
      BY <1>1, <3>2, <3>3 DEF BoardTypeOK, IsInjective
  <2>2. CASE ~\E i \in DOMAIN board : board[i].key = entry.key
    <3>1. board' = Append(board, entry)
      BY <1>4, <2>2 DEF Write
    <3>2. /\ board' \in Seq(Entries) /\ Len(board) \in Nat /\ DOMAIN board = 1..Len(board)
          /\ DOMAIN board' = 1..(Len(board) + 1) /\ board'[Len(board) + 1] = entry
          /\ \A i \in 1..Len(board) : board'[i] = board[i]
      BY <1>1, <3>1, Appended
    <3>3. ASSUME NEW i \in 1..(Len(board) + 1), NEW j \in 1..(Len(board) + 1),
                 board'[i].key = board'[j].key
          PROVE  i = j
      <4>1. CASE i \in 1..Len(board) /\ j \in 1..Len(board)
        BY <1>1, <3>2, <3>3, <4>1
      <4>2. CASE i = Len(board) + 1 \/ j = Len(board) + 1
        BY <2>2, <3>2, <3>3, <4>2
      <4> QED
        BY <3>2, <4>1, <4>2
    <3> QED
      BY <3>2, <3>3 DEF BoardTypeOK, IsInjective
  <2> QED
    BY <2>1, <2>2
<1> QED
  BY <1>2, <1>3, <1>4 DEF BoardNext

\* The blackboard holds its entries under different keys, after any writes and clears
\* (blackboard.py).
THEOREM BoardTypeCorrect == BoardSpec => []BoardTypeOK
<1>1. BoardInit => BoardTypeOK
  BY DEF BoardInit, BoardTypeOK, IsInjective
<1> QED
  BY <1>1, BoardStep, PTL DEF BoardSpec

-----------------------------------------------------------------------------
(* The merge: putting things in order. *)

\* What is not greater than x, in the order R.
UpTo(S, R, x) == {y \in S : <<y, x>> \in R}

TotalOrder(S, R) ==
    /\ \A x \in S : <<x, x>> \in R
    /\ \A x, y \in S : <<x, y>> \in R \/ <<y, x>> \in R
    /\ \A x, y \in S : <<x, y>> \in R /\ <<y, x>> \in R => x = y
    /\ \A x, y, z \in S : <<x, y>> \in R /\ <<y, z>> \in R => <<x, z>> \in R

\* Each of the places 1, 2, ... is taken by one element.
Placed(S, R) ==
    /\ Cardinality(S) \in Nat
    /\ \A x \in S : Cardinality(UpTo(S, R, x)) \in 1..Cardinality(S)
    /\ \A x, y \in S : Cardinality(UpTo(S, R, x)) = Cardinality(UpTo(S, R, y)) => x = y
    /\ \A k \in 1..Cardinality(S) : \E x \in S : Cardinality(UpTo(S, R, x)) = k

LEMMA PlacesAreTaken ==
    ASSUME NEW S, IsFiniteSet(S), NEW R, TotalOrder(S, R)
    PROVE  Placed(S, R)
<1> DEFINE n == Cardinality(S)
           place == [x \in S |-> Cardinality(UpTo(S, R, x))]
<1>1. n \in Nat
  BY FS_CardinalityType
<1>2. ASSUME NEW x \in S
      PROVE  /\ IsFiniteSet(UpTo(S, R, x)) /\ x \in UpTo(S, R, x)
             /\ Cardinality(UpTo(S, R, x)) \in 1..n
  <2>1. UpTo(S, R, x) \in SUBSET S /\ x \in UpTo(S, R, x)
    BY DEF UpTo, TotalOrder
  <2>2. IsFiniteSet(UpTo(S, R, x)) /\ Cardinality(UpTo(S, R, x)) <= n
    BY <2>1, FS_Subset
  <2>3. Cardinality(UpTo(S, R, x)) \in Nat /\ Cardinality(UpTo(S, R, x)) # 0
    BY <2>1, <2>2, FS_CardinalityType, FS_EmptySet
  <2> QED
    BY <1>1, <2>1, <2>2, <2>3
<1>3. ASSUME NEW x \in S, NEW y \in S, <<x, y>> \in R,
             Cardinality(UpTo(S, R, x)) = Cardinality(UpTo(S, R, y))
      PROVE  x = y
  <2>1. UpTo(S, R, x) \in SUBSET UpTo(S, R, y)
    BY <1>3 DEF UpTo, TotalOrder
  <2>2. UpTo(S, R, x) = UpTo(S, R, y)
    BY <1>2, <1>3, <2>1, FS_Subset
  <2>3. <<y, x>> \in R
    BY <1>2, <2>2 DEF UpTo
  <2> QED
    BY <1>3, <2>3 DEF TotalOrder
<1>4. \A x, y \in S : Cardinality(UpTo(S, R, x)) = Cardinality(UpTo(S, R, y)) => x = y
  BY <1>3 DEF TotalOrder
<1>5. place \in [S -> 1..n] /\ \A x, y \in S : place[x] = place[y] => x = y
  BY <1>2, <1>4
<1>6. \A k \in 1..n : \E x \in S : place[x] = k
  <2> HIDE DEF place
  <2>1. place \in Injection(S, 1..n)
    BY <1>5 DEF Injection, IsInjective
  <2>2. IsFiniteSet(1..n) /\ Cardinality(1..n) = n
    BY <1>1, FS_Interval
  <2>3. place \in Surjection(S, 1..n)
    BY <2>1, <2>2, FS_Injection
  <2> QED
    BY <2>3 DEF Surjection
<1> QED
  BY <1>1, <1>2, <1>4, <1>6 DEF Placed

\* Each position of the set comes once.
LEMMA OrderedLists ==
    ASSUME NEW m \in Nat, NEW S \in SUBSET (1..m)
    PROVE  /\ IsFiniteSet(S) /\ Cardinality(S) \in Nat
           /\ Ordered(S) \in [1..Cardinality(S) -> S]
           /\ \A k, l \in 1..Cardinality(S) : Ordered(S)[k] = Ordered(S)[l] => k = l
           /\ \A i \in S : \E k \in 1..Cardinality(S) : Ordered(S)[k] = i
<1> DEFINE R == {p \in S \X S : p[1] <= p[2]}
           n == Cardinality(S)
           o == Ordered(S)
<1>1. IsFiniteSet(S)
  <2>1. IsFiniteSet(1..m)
    BY FS_Interval
  <2> QED
    BY <2>1, FS_Subset
<1>2. S \subseteq Int
  OBVIOUS
<1>3. \A x, y \in S : <<x, y>> \in R <=> x <= y
  OBVIOUS
<1> HIDE DEF R
<1>4. TotalOrder(S, R)
  <2>1. \A x \in S : x \in Int
    BY <1>2
  <2>2. /\ \A x \in S : <<x, x>> \in R
        /\ \A x, y \in S : <<x, y>> \in R \/ <<y, x>> \in R
        /\ \A x, y \in S : <<x, y>> \in R /\ <<y, x>> \in R => x = y
    BY <1>3, <2>1
  <2>3. \A x, y, z \in S : <<x, y>> \in R /\ <<y, z>> \in R => <<x, z>> \in R
    <3>1. \A x, y, z \in S : x <= y /\ y <= z => x <= z
      BY <2>1
    <3> QED
      BY <1>3, <3>1, Zenon
  <2> QED
    BY <2>2, <2>3 DEF TotalOrder
<1>5. \A x \in S : UpTo(S, R, x) = {j \in S : j <= x}
  BY <1>3 DEF UpTo
<1>6. /\ n \in Nat
      /\ \A x, y \in S : Cardinality(UpTo(S, R, x)) = Cardinality(UpTo(S, R, y)) => x = y
      /\ \A x \in S : Cardinality(UpTo(S, R, x)) \in 1..n
      /\ \A k \in 1..n : \E x \in S : Cardinality(UpTo(S, R, x)) = k
  <2>1. Placed(S, R)
    BY <1>1, <1>4, PlacesAreTaken
  <2> QED
    BY <2>1, Zenon DEF Placed
<1>7. \A k \in 1..n : \E i \in S : Cardinality({j \in S : j <= i}) = k
  BY <1>5, <1>6
<1>8. o = [k \in 1..n |-> CHOOSE i \in S : Cardinality({j \in S : j <= i}) = k]
  BY DEF Ordered
<1> HIDE DEF n, o
<1>9. ASSUME NEW k \in 1..n
      PROVE  o[k] \in S /\ Cardinality({j \in S : j <= o[k]}) = k
  <2>1. o[k] = CHOOSE i \in S : Cardinality({j \in S : j <= i}) = k
    BY <1>8
  <2> QED
    BY <1>7, <2>1
<1>10. o \in [1..n -> S]
  BY <1>8, <1>9
<1>11. \A k, l \in 1..n : o[k] = o[l] => k = l
  BY <1>9
<1>12. ASSUME NEW i \in S
       PROVE  \E k \in 1..n : o[k] = i
  <2> DEFINE k == Cardinality(UpTo(S, R, i))
  <2>1. k \in 1..n
    BY <1>6
  <2>2. Cardinality(UpTo(S, R, o[k])) = k /\ o[k] \in S
    BY <1>5, <1>9, <2>1
  <2>3. o[k] = i
    BY <1>6, <2>2
  <2> QED
    BY <2>1, <2>3
<1> QED
  BY <1>1, <1>6, <1>10, <1>11, <1>12 DEF n, o

\* Counting up.
LEMMA CountsUp ==
    ASSUME NEW m \in Nat, NEW G, 0 \in G, \A n \in 1..m : n - 1 \in G => n \in G
    PROVE  \A n \in 0..m : n \in G
<1> DEFINE Bad == {n \in Nat : n <= m /\ n \notin G}
<1> SUFFICES ASSUME Bad # {} PROVE FALSE
  OBVIOUS
<1>1. PICK n \in Bad : \A k \in Bad : <<k, n>> \notin OpToRel(<, Nat)
  <2>1. Bad \subseteq Nat
    OBVIOUS
  <2> HIDE DEF Bad
  <2> QED
    BY <2>1, NatLessThanWellFounded, WFMin
<1>2. n \in Nat /\ n <= m /\ n \notin G /\ \A k \in Nat : k < n => k \notin Bad
  BY <1>1 DEF OpToRel
<1>3. n \in 1..m /\ n - 1 \in Nat /\ n - 1 < n /\ n - 1 <= m
  BY <1>2
<1>4. n - 1 \in G
  BY <1>2, <1>3
<1> QED
  BY <1>2, <1>3, <1>4

Unrolled(m, b, h, f) == [n \in 0..m |-> IF n = 0 THEN b ELSE h[<<f[n - 1], n>>]]

Stepping(m, T, b, h) == m \in Nat /\ b \in T /\ h \in [T \X (1..m) -> T]

Unrollable(m, T, b, h) == \E f \in [0..m -> T] : f = Unrolled(m, b, h, f)

\* A function of 0..m may be defined from its value before.
LEMMA Unrolls ==
    ASSUME NEW m, NEW T, NEW b, NEW h, Stepping(m, T, b, h)
    PROVE  Unrollable(m, T, b, h)
<1>0. m \in Nat /\ b \in T /\ h \in [T \X (1..m) -> T]
  BY DEF Stepping
<1> DEFINE Good(n) == \E f \in [0..n -> T] :
                         f[0] = b /\ \A k \in 1..n : f[k] = h[<<f[k - 1], k>>]
           G == {n \in 0..m : Good(n)}
<1>1. Good(0)
  <2> DEFINE f == [n \in 0..0 |-> b]
  <2>1. f \in [0..0 -> T] /\ f[0] = b /\ \A k \in 1..0 : f[k] = h[<<f[k - 1], k>>]
    BY <1>0
  <2> QED
    BY <2>1
<1>2. ASSUME NEW n \in 1..m, Good(n - 1)
      PROVE  Good(n)
  <2>1. PICK f \in [0..(n - 1) -> T] :
            f[0] = b /\ \A k \in 1..(n - 1) : f[k] = h[<<f[k - 1], k>>]
    BY <1>2
  <2> DEFINE v == h[<<f[n - 1], n>>]
             g == [k \in 0..n |-> IF k = n THEN v ELSE f[k]]
  <2>2. n - 1 \in 0..(n - 1) /\ f[n - 1] \in T
    BY <1>0, <2>1
  <2>3. v \in T
    BY <1>0, <2>2
  <2> HIDE DEF v
  <2>4. \A k \in 0..n : k # n => k \in 0..(n - 1)
    OBVIOUS
  <2>5. g \in [0..n -> T]
    BY <2>1, <2>3, <2>4
  <2>6. g[0] = b /\ g[n] = v /\ \A k \in 0..(n - 1) : g[k] = f[k]
    BY <2>1
  <2> HIDE DEF g
  <2>7. ASSUME NEW k \in 1..n
        PROVE  g[k] = h[<<g[k - 1], k>>]
    <3>1. k - 1 \in 0..(n - 1) /\ g[k - 1] = f[k - 1]
      BY <2>6
    <3>2. CASE k = n
      BY <2>6, <3>1, <3>2 DEF v
    <3>3. CASE k # n
      <4>1. k \in 1..(n - 1) /\ k \in 0..(n - 1)
        BY <3>3
      <4> QED
        BY <2>1, <2>6, <3>1, <4>1
    <3> QED
      BY <3>2, <3>3
  <2> QED
    BY <2>5, <2>6, <2>7
<1> HIDE DEF Good
<1>3. m \in G
  <2>1. 0 \in G /\ \A n \in 1..m : n - 1 \in G => n \in G
    BY <1>0, <1>1, <1>2
  <2> HIDE DEF G
  <2> QED
    BY <1>0, <2>1, CountsUp
<1>4. PICK f \in [0..m -> T] : f[0] = b /\ \A k \in 1..m : f[k] = h[<<f[k - 1], k>>]
  BY <1>3 DEF Good
<1>5. \A n \in 0..m : n # 0 => n \in 1..m
  BY <1>0
<1>6. f = Unrolled(m, b, h, f)
  BY <1>4, <1>5 DEF Unrolled
<1> QED
  BY <1>6 DEF Unrollable

-----------------------------------------------------------------------------
(* The merge: what each stage leaves of the entries. *)

\* Each entry has one place after the sort.
Permuted(n, e) ==
    \E place \in [1..n -> 1..n] :
        /\ \A k, l \in 1..n : place[k] = place[l] => k = l
        /\ \A i \in 1..n : \E k \in 1..n : place[k] = i
        /\ ConfidenceSort(e) = [k \in 1..n |-> e[place[k]]]

LEMMA SortPlacesAll ==
    ASSUME NEW n \in Nat, NEW e, DOMAIN e = 1..n, \A i \in 1..n : e[i].confidence \in Int
    PROVE  Permuted(n, e)
<1> DEFINE D == DOMAIN e
           Before(j, i) == \/ e[j].confidence > e[i].confidence
                           \/ e[j].confidence = e[i].confidence /\ j <= i
           R == {p \in D \X D : Before(p[1], p[2])}
           At(i) == Cardinality({j \in D : Before(j, i)})
           place == [k \in D |-> CHOOSE i \in D : At(i) = k]
<1>1. /\ IsFiniteSet(D) /\ Cardinality(D) = n /\ D = 1..n
      /\ \A x \in D : x \in Int /\ e[x].confidence \in Int
  BY FS_Interval
<1>2. \A x, y \in D : <<x, y>> \in R <=> Before(x, y)
  OBVIOUS
<1> HIDE DEF D, R
<1>3. TotalOrder(D, R)
  <2>1. /\ \A x \in D : Before(x, x)
        /\ \A x, y \in D : Before(x, y) \/ Before(y, x)
        /\ \A x, y \in D : Before(x, y) /\ Before(y, x) => x = y
    BY <1>1
  <2>2. \A x, y, z \in D : Before(x, y) /\ Before(y, z) => Before(x, z)
    BY <1>1
  <2> HIDE DEF Before
  <2> QED
    BY <1>2, <2>1, <2>2, Zenon DEF TotalOrder
<1>4. \A x \in D : UpTo(D, R, x) = {j \in D : Before(j, x)}
  BY <1>2, Zenon DEF UpTo
<1> HIDE DEF Before
<1>5. /\ \A x, y \in D : Cardinality(UpTo(D, R, x)) = Cardinality(UpTo(D, R, y)) => x = y
      /\ \A x \in D : Cardinality(UpTo(D, R, x)) \in 1..n
      /\ \A k \in 1..n : \E x \in D : Cardinality(UpTo(D, R, x)) = k
  <2>1. Cardinality(D) = n
    BY <1>1
  <2>2. /\ \A x, y \in D : Cardinality(UpTo(D, R, x)) = Cardinality(UpTo(D, R, y)) => x = y
        /\ \A x \in D : Cardinality(UpTo(D, R, x)) \in 1..Cardinality(D)
        /\ \A k \in 1..Cardinality(D) : \E x \in D : Cardinality(UpTo(D, R, x)) = k
    <3>1. IsFiniteSet(D)
      BY <1>1
    <3>2. Placed(D, R)
      BY <1>3, <3>1, PlacesAreTaken
    <3> QED
      BY <3>2, Zenon DEF Placed
  <2> QED
    BY <2>1, <2>2, Zenon
<1>6. \A x \in D : At(x) = Cardinality(UpTo(D, R, x))
  BY <1>4
<1>7. ConfidenceSort(e) = [k \in D |-> e[CHOOSE i \in D : At(i) = k]]
  BY DEF ConfidenceSort, Before, D
<1> HIDE DEF At
<1>8. /\ \A x, y \in D : At(x) = At(y) => x = y
      /\ \A x \in D : At(x) \in D
      /\ \A k \in D : \E x \in D : At(x) = k
  <2>1. ASSUME NEW x \in D, NEW y \in D, At(x) = At(y)
        PROVE  x = y
    BY <1>5, <1>6, <2>1
  <2>2. \A x \in D : At(x) \in 1..n
    BY <1>5, <1>6
  <2>3. ASSUME NEW k \in 1..n
        PROVE  \E x \in D : At(x) = k
    BY <1>5, <1>6
  <2> QED
    BY <1>1, <2>1, <2>2, <2>3
<1>9. \A k \in D : place[k] \in D /\ At(place[k]) = k
  <2> SUFFICES ASSUME NEW k \in D PROVE place[k] \in D /\ At(place[k]) = k
    OBVIOUS
  <2>1. place[k] = CHOOSE i \in D : At(i) = k
    OBVIOUS
  <2> QED
    BY <1>8, <2>1
<1>10. ConfidenceSort(e) = [k \in D |-> e[place[k]]]
  BY <1>7
<1>11. place \in [D -> D]
  BY <1>9
<1> HIDE DEF place
<1>12. \A k, l \in D : place[k] = place[l] => k = l
  BY <1>9
<1>13. ASSUME NEW i \in D
       PROVE  \E k \in D : place[k] = i
  <2>1. At(i) \in D /\ place[At(i)] \in D /\ At(place[At(i)]) = At(i)
    BY <1>8, <1>9
  <2> QED
    BY <1>8, <2>1
<1> QED
  <2>1. D = 1..n
    BY <1>1
  <2>2. /\ place \in [1..n -> 1..n]
        /\ \A k, l \in 1..n : place[k] = place[l] => k = l
        /\ \A i \in 1..n : \E k \in 1..n : place[k] = i
    BY <1>11, <1>12, <1>13, <2>1
  <2>3. ConfidenceSort(e) = [k \in 1..n |-> e[place[k]]]
    BY <1>10, <2>1
  <2> QED
    BY <2>2, <2>3 DEF Permuted

\* What two sequences without a common element say one after the other.
LEMMA SaidTogether ==
    ASSUME NEW T, NEW s \in Seq(T), NEW r \in Seq(T), IsInjective(s), IsInjective(r),
           ToSet(s) \cap ToSet(r) = {}
    PROVE  /\ s \o r \in Seq(T) /\ IsInjective(s \o r)
           /\ ToSet(s \o r) = ToSet(s) \cup ToSet(r)
<1> DEFINE q == s \o r
           m == Len(s)
           n == Len(r)
<1>1. /\ m \in Nat /\ n \in Nat /\ DOMAIN s = 1..m /\ DOMAIN r = 1..n
      /\ q \in Seq(T) /\ DOMAIN q = 1..(m + n)
  BY ConcatProperties
<1>2. \A i \in 1..m : q[i] = s[i]
  BY <1>1, ConcatProperties
<1>3. \A i \in 1..n : q[m + i] = r[i]
  OBVIOUS
<1> HIDE DEF q, m, n
<1>4. \A i \in 1..m : i \in DOMAIN q /\ q[i] \in ToSet(s)
  <2>1. \A i \in 1..m : s[i] \in ToSet(s)
    BY <1>1, Zenon DEF ToSet
  <2>2. \A i \in 1..m : i \in DOMAIN q
    BY <1>1
  <2> QED
    BY <1>2, <2>1, <2>2, Zenon
<1>5. \A i \in 1..n : m + i \in DOMAIN q /\ q[m + i] \in ToSet(r)
  <2>1. \A i \in 1..n : r[i] \in ToSet(r)
    BY <1>1 DEF ToSet
  <2>2. \A i \in 1..n : m + i \in 1..(m + n)
    BY <1>1
  <2> QED
    BY <1>1, <1>3, <2>1, <2>2
<1>6. ASSUME NEW i \in DOMAIN q, i \notin 1..m
      PROVE  i - m \in 1..n /\ i = m + (i - m)
  BY <1>1, <1>6
<1>7. IsInjective(q)
  <2> SUFFICES ASSUME NEW i \in DOMAIN q, NEW j \in DOMAIN q, q[i] = q[j] PROVE i = j
    BY DEF IsInjective
  <2>1. CASE i \in 1..m /\ j \in 1..m
    BY <1>1, <1>2, <2>1 DEF IsInjective
  <2>2. ASSUME NEW a \in 1..n, NEW b \in 1..n, i = m + a, j = m + b
        PROVE  i = j
    <3>1. r[a] = r[b] /\ a \in DOMAIN r /\ b \in DOMAIN r
      BY <1>1, <1>3, <2>2
    <3> QED
      BY <2>2, <3>1 DEF IsInjective
  <2>3. CASE i \in 1..m /\ j \notin 1..m
    BY <1>4, <1>5, <1>6, <2>3
  <2>4. CASE i \notin 1..m /\ j \in 1..m
    BY <1>4, <1>5, <1>6, <2>4
  <2> QED
    BY <1>6, <2>1, <2>2, <2>3, <2>4
<1>8. ToSet(q) = ToSet(s) \cup ToSet(r)
  <2>1. ToSet(s) \subseteq ToSet(q)
    <3>1. \A i \in DOMAIN s : i \in DOMAIN q /\ q[i] = s[i]
      BY <1>1, <1>2, <1>4
    <3> QED
      BY <3>1 DEF ToSet
  <2>2. ToSet(r) \subseteq ToSet(q)
    <3>1. \A i \in DOMAIN r : m + i \in DOMAIN q /\ q[m + i] = r[i]
      BY <1>1, <1>3, <1>5
    <3> QED
      BY <3>1 DEF ToSet
  <2>3. ASSUME NEW i \in DOMAIN q
        PROVE  q[i] \in ToSet(s) \cup ToSet(r)
    BY <1>4, <1>5, <1>6
  <2>4. ToSet(q) = {q[i] : i \in DOMAIN q}
    BY DEF ToSet
  <2> QED
    BY <2>1, <2>2, <2>3, <2>4
<1> QED
  BY <1>1, <1>7, <1>8 DEF q

\* Sets of positions without a common one.
Apart(n, s) ==
    /\ s \in Seq(SUBSET (1..n))
    /\ \A k \in DOMAIN s : s[k] # {}
    /\ \A k, l \in DOMAIN s : k # l => s[k] \cap s[l] = {}

Regroup(e, s, n) ==
    IF n \in UNION ToSet(s) THEN s
    ELSE Append(s, {n} \cup Mates(e, n, UNION ToSet(s)))

LEMMA RegroupKeepsApart ==
    ASSUME NEW e, Len(e) \in Nat, NEW n \in 1..Len(e), NEW s \in Seq(SUBSET (1..Len(e)))
    PROVE  /\ Regroup(e, s, n) \in Seq(SUBSET (1..Len(e)))
           /\ (UNION ToSet(s)) \cup {n} \subseteq UNION ToSet(Regroup(e, s, n))
           /\ Apart(Len(e), s) => Apart(Len(e), Regroup(e, s, n))
<1> DEFINE L == Len(e)
           used == UNION ToSet(s)
           new == {n} \cup Mates(e, n, used)
           r == Append(s, new)
<1>1. CASE n \in used
  BY <1>1 DEF Regroup
<1>2. CASE n \notin used
  <2>1. new \in SUBSET (1..L) /\ new # {} /\ n \in new
    BY DEF Mates
  <2>2. new \cap used = {}
    BY <1>2 DEF Mates
  <2>3. Regroup(e, s, n) = r
    BY <1>2 DEF Regroup
  <2>4. \A k \in DOMAIN s : s[k] \subseteq used
    BY DEF ToSet
  <2> HIDE DEF new, L, used
  <2>5. /\ r \in Seq(SUBSET (1..L)) /\ DOMAIN s = 1..Len(s) /\ Len(s) \in Nat
        /\ DOMAIN r = 1..(Len(s) + 1)
        /\ \A k \in 1..Len(s) : r[k] = s[k]
        /\ r[Len(s) + 1] = new
    <3>1. s \in Seq(SUBSET (1..L))
      BY DEF L
    <3> QED
      BY <2>1, <3>1, Appended
  <2>6. ToSet(r) = ToSet(s) \cup {new}
    <3> DEFINE P == SUBSET (1..L)
    <3>1. s \in Seq(P) /\ new \in P
      BY <2>1 DEF L
    <3> HIDE DEF P
    <3> QED
      BY <3>1, AppendedSet
  <2> HIDE DEF r
  <2>7. used \cup {n} \subseteq UNION ToSet(r)
    BY <2>1, <2>6 DEF used
  <2>8. ASSUME Apart(L, s)
        PROVE  Apart(L, r)
    <3>1. \A k \in 1..(Len(s) + 1) : k \in 1..Len(s) \/ k = Len(s) + 1
      BY <2>5
    <3>2. \A k \in 1..(Len(s) + 1) : r[k] # {}
      BY <2>1, <2>5, <2>8, <3>1 DEF Apart
    <3>3. ASSUME NEW k \in 1..(Len(s) + 1), NEW l \in 1..(Len(s) + 1), k # l
          PROVE  r[k] \cap r[l] = {}
      <4>1. CASE k \in 1..Len(s) /\ l \in 1..Len(s)
        BY <2>5, <2>8, <3>3, <4>1 DEF Apart
      <4>2. CASE k \in 1..Len(s) /\ l = Len(s) + 1
        BY <2>2, <2>4, <2>5, <4>2
      <4>3. CASE l \in 1..Len(s) /\ k = Len(s) + 1
        BY <2>2, <2>4, <2>5, <4>3
      <4> QED
        BY <3>1, <3>3, <4>1, <4>2, <4>3
    <3> QED
      BY <2>5, <3>2, <3>3 DEF Apart
  <2> QED
    BY <2>3, <2>5, <2>7, <2>8 DEF L, used
<1> QED
  BY <1>1, <1>2

Passing(e, f) ==
    [n \in 0..Len(e) |-> IF n = 0 THEN <<>> ELSE Regroup(e, f[n - 1], n)]

Pass(e) == CHOOSE f : f = Passing(e, f)

\* Each position is in one group.
LEMMA GroupsPartition ==
    ASSUME NEW e, Len(e) \in Nat
    PROVE  /\ Apart(Len(e), Groups(e))
           /\ \A i \in 1..Len(e) : \E k \in DOMAIN Groups(e) : i \in Groups(e)[k]
<1> DEFINE L == Len(e)
           T == Seq(SUBSET (1..L))
           h == [x \in T \X (1..L) |-> Regroup(e, x[1], x[2])]
           p == Pass(e)
<1>1. Groups(e) = p[L]
  BY DEF Groups, Pass, Passing, Regroup
<1>2. \E f : f = Passing(e, f)
  <2>1. \A s \in T : \A n \in 1..L : Regroup(e, s, n) \in T
    BY RegroupKeepsApart
  <2> DEFINE none == <<>>
  <2>2. L \in Nat /\ none \in T
    OBVIOUS
  <2> HIDE DEF T, L, none
  <2>3. h \in [T \X (1..L) -> T]
    BY <2>1
  <2>4. \A s \in T : \A n \in 1..L : h[<<s, n>>] = Regroup(e, s, n)
    OBVIOUS
  <2> HIDE DEF h
  <2>5. PICK f \in [0..L -> T] : f = Unrolled(L, none, h, f)
    <3>1. Stepping(L, T, none, h)
      BY <2>2, <2>3 DEF Stepping
    <3>2. Unrollable(L, T, none, h)
      BY <3>1, Unrolls
    <3> QED
      BY <3>2 DEF Unrollable
  <2>6. \A n \in 0..L : n # 0 => n \in 1..L /\ f[n - 1] \in T
    BY <2>2, <2>5
  <2>7. Unrolled(L, none, h, f) = [n \in 0..L |-> IF n = 0 THEN <<>> ELSE Regroup(e, f[n - 1], n)]
    BY <2>4, <2>6 DEF Unrolled, none
  <2>8. f = Passing(e, f)
    BY <2>5, <2>7 DEF Passing, L
  <2> QED
    BY <2>8
<1>3. p = Passing(e, p)
  BY <1>2, Zenon DEF Pass
<1> HIDE DEF p
<1>4. p[0] = <<>> /\ \A n \in 1..L : p[n] = Regroup(e, p[n - 1], n)
  <2>1. \A n \in 0..L : p[n] = IF n = 0 THEN <<>> ELSE Regroup(e, p[n - 1], n)
    BY <1>3, Zenon DEF Passing
  <2> QED
    BY <2>1
<1> DEFINE G == {n \in 0..L : Apart(L, p[n]) /\ 1..n \subseteq UNION ToSet(p[n])}
<1>5. 0 \in G
  <2>1. Apart(L, <<>>)
    BY DEF Apart
  <2> QED
    BY <1>4, <2>1
<1>6. ASSUME NEW n \in 1..L, n - 1 \in G
      PROVE  n \in G
  <2> DEFINE s == p[n - 1]
  <2>1. Apart(L, s) /\ 1..(n - 1) \subseteq UNION ToSet(s)
    BY <1>6
  <2>2. p[n] = Regroup(e, s, n)
    BY <1>4
  <2> HIDE DEF s
  <2>3. s \in Seq(SUBSET (1..L))
    BY <2>1 DEF Apart
  <2>4. /\ (UNION ToSet(s)) \cup {n} \subseteq UNION ToSet(p[n])
        /\ Apart(L, p[n])
    BY <2>1, <2>2, <2>3, RegroupKeepsApart
  <2>5. \A i \in 1..n : i \in 1..(n - 1) \/ i = n
    OBVIOUS
  <2> QED
    BY <2>1, <2>4, <2>5
<1>7. L \in G
  <2> HIDE DEF G
  <2>1. \A n \in 1..L : n - 1 \in G => n \in G
    BY <1>6
  <2>2. L \in Nat /\ L \in 0..L
    OBVIOUS
  <2> HIDE DEF L
  <2> QED
    BY <1>5, <2>1, <2>2, CountsUp
<1>8. Apart(L, Groups(e)) /\ \A i \in 1..L : i \in UNION ToSet(Groups(e))
  BY <1>1, <1>7
<1> QED
  BY <1>8 DEF ToSet

LEMMA LeastPosition ==
    ASSUME NEW n \in Nat, NEW C \in SUBSET (0..n), C # {}
    PROVE  \E j \in C : \A i \in C : j <= i
<1>1. C \subseteq Nat
  OBVIOUS
<1>2. PICK j \in C : \A i \in C : <<i, j>> \notin OpToRel(<, Nat)
  BY <1>1, NatLessThanWellFounded, WFMin
<1>3. \A i \in C : i \in Nat /\ j \in Nat
  BY <1>1
<1>4. \A i \in C : ~(i < j)
  BY <1>2, <1>3 DEF OpToRel
<1> QED
  BY <1>3, <1>4

LEMMA GreatestConfidence ==
    ASSUME NEW C \in SUBSET (0..10), C # {}
    PROVE  Max(C) \in C /\ \A c \in C : c <= Max(C)
<1> DEFINE ten == 10
           D == {d \in 0..ten : ten - d \in C}
<1>1. ten \in Nat /\ \A c \in C : c \in 0..ten /\ ten - c \in 0..ten /\ ten - (ten - c) = c
  OBVIOUS
<1> HIDE DEF ten
<1>2. D \in SUBSET (0..ten) /\ D # {}
  BY <1>1
<1>3. PICK d \in D : \A e \in D : d <= e
  <2> HIDE DEF D
  <2> QED
    BY <1>1, <1>2, LeastPosition
<1>4. \A c \in C : d <= ten - c
  BY <1>1, <1>3
<1>5. ten - d \in C /\ d \in Int
  BY <1>3
<1>6. \A c \in C : ten - d >= c
  BY <1>1, <1>4, <1>5
<1>7. Max(C) \in C /\ \A c \in C : Max(C) >= c
  BY <1>5, <1>6 DEF Max
<1> QED
  BY <1>1, <1>7

LEMMA EntryFields ==
    ASSUME NEW e \in Seq(Entries)
    PROVE  /\ Len(e) \in Nat /\ DOMAIN e = 1..Len(e)
           /\ \A i \in 1..Len(e) :
                 /\ e[i] \in Entries /\ e[i].value[1] \in Texts
                 /\ e[i].value = <<e[i].value[1]>>
                 /\ e[i].confidence \in 0..10
                 /\ e[i].sources \subseteq Sources
<1>1. Len(e) \in Nat /\ DOMAIN e = 1..Len(e) /\ \A i \in 1..Len(e) : e[i] \in Entries
  OBVIOUS
<1>2. ASSUME NEW x \in Entries
      PROVE  /\ x.value[1] \in Texts /\ x.value = <<x.value[1]>>
             /\ x.confidence \in 0..10 /\ x.sources \subseteq Sources
  BY MergerAssumption DEF Entries
<1> QED
  BY <1>1, <1>2

\* Every value has a best copy.
LEMMA SomeCopyIsBest ==
    ASSUME NEW e \in Seq(Entries), NEW i \in 1..Len(e)
    PROVE  \E j \in DOMAIN e : e[j].value = e[i].value /\ BestCopy(e, j)
<1> DEFINE C == {j \in 1..Len(e) : e[j].value = e[i].value}
           confs == {e[j].confidence : j \in C}
           top == Max(confs)
           tops == {j \in C : e[j].confidence = top}
<1>1. /\ Len(e) \in Nat /\ DOMAIN e = 1..Len(e)
      /\ \A j \in 1..Len(e) : e[j].confidence \in 0..10
  BY EntryFields
<1>2. i \in C /\ C \subseteq 1..Len(e)
  OBVIOUS
<1>3. confs \in SUBSET (0..10) /\ confs # {}
  BY <1>1, <1>2
<1>4. \A j \in C : e[j].confidence \in confs
  OBVIOUS
<1> HIDE DEF confs
<1>5. top \in confs /\ \A j \in C : e[j].confidence <= top
  BY <1>3, <1>4, GreatestConfidence
<1>6. tops \in SUBSET (0..Len(e)) /\ tops # {}
  <2>1. tops # {}
    BY <1>5 DEF confs
  <2>2. \A j \in tops : j \in 0..Len(e)
    BY <1>1, <1>2
  <2> QED
    BY <2>1, <2>2
<1> HIDE DEF top
<1>7. PICK j \in tops : \A k \in tops : j <= k
  <2> HIDE DEF tops
  <2> QED
    BY <1>1, <1>6, LeastPosition
<1>8. ASSUME NEW k \in DOMAIN e, e[k].value = e[j].value
      PROVE  \/ e[k].confidence < e[j].confidence
             \/ e[k].confidence = e[j].confidence /\ j <= k
  <2>1. k \in C /\ e[k].confidence <= top /\ e[j].confidence = top
    BY <1>1, <1>5, <1>8
  <2>2. e[k].confidence \in Int /\ e[j].confidence \in Int
    BY <1>1, <2>1
  <2>3. e[k].confidence = top => j <= k
    BY <1>7, <2>1
  <2> QED
    BY <2>1, <2>2, <2>3
<1>9. BestCopy(e, j)
  BY <1>8 DEF BestCopy
<1> QED
  BY <1>1, <1>9

\* The position of each entry's copy that is kept.
BestKept(e, u, b) ==
    /\ u \in Seq(Entries) /\ b \in [1..Len(u) -> DOMAIN e]
    /\ \A k \in 1..Len(u) : u[k] = e[b[k]] /\ BestCopy(e, b[k])
    /\ \A k, l \in 1..Len(u) : u[k].value = u[l].value => k = l
    /\ \A i \in DOMAIN e : \E k \in 1..Len(u) : u[k].value = e[i].value

\* What _dedup() returns has one entry for each value: the best copy.
LEMMA DedupKeeps ==
    ASSUME NEW e \in Seq(Entries)
    PROVE  \E b : BestKept(e, Dedup(e), b)
<1> DEFINE firsts == {i \in DOMAIN e : \A j \in 1..(i - 1) : e[j].value # e[i].value}
           best(i) == CHOOSE j \in DOMAIN e : e[j].value = e[i].value /\ BestCopy(e, j)
           o == Ordered(firsts)
           c == Cardinality(firsts)
           b == [k \in 1..c |-> best(o[k])]
           u == Dedup(e)
<1>1. /\ Len(e) \in Nat /\ DOMAIN e = 1..Len(e)
      /\ \A j \in 1..Len(e) : e[j] \in Entries
  BY EntryFields
<1>2. u = [k \in 1..c |-> e[best(o[k])]]
  BY DEF Dedup
<1>3. \A i \in DOMAIN e : best(i) \in DOMAIN e /\ e[best(i)].value = e[i].value /\ BestCopy(e, best(i))
  BY <1>1, SomeCopyIsBest
<1>4. firsts \in SUBSET (1..Len(e))
  BY <1>1
<1>5. \A i \in firsts : i \in DOMAIN e /\ \A j \in 1..(i - 1) : e[j].value # e[i].value
  OBVIOUS
<1>6. ASSUME NEW i \in DOMAIN e
      PROVE  \E j \in firsts : e[j].value = e[i].value
  <2> DEFINE C == {j \in 1..Len(e) : e[j].value = e[i].value}
  <2>1. C \in SUBSET (0..Len(e)) /\ C # {}
    BY <1>1
  <2>2. PICK j \in C : \A k \in C : j <= k
    <3> HIDE DEF C
    <3> QED
      BY <1>1, <2>1, LeastPosition
  <2>3. \A k \in 1..(j - 1) : k \in 1..Len(e) /\ ~(j <= k)
    BY <1>1
  <2>4. j \in firsts
    BY <1>1, <2>2, <2>3
  <2> QED
    BY <2>4
<1> HIDE DEF firsts, best, u
<1>7. /\ c \in Nat /\ o \in [1..c -> firsts]
      /\ \A k, l \in 1..c : o[k] = o[l] => k = l
      /\ \A i \in firsts : \E k \in 1..c : o[k] = i
  BY <1>1, <1>4, OrderedLists
<1> HIDE DEF o, c
<1>8. \A k \in 1..c : o[k] \in DOMAIN e /\ b[k] = best(o[k]) /\ b[k] \in DOMAIN e /\ u[k] = e[b[k]]
  BY <1>2, <1>3, <1>5, <1>7
<1>9. u \in Seq(Entries) /\ Len(u) = c
  <2>1. u \in [1..c -> Entries]
    BY <1>1, <1>2, <1>8
  <2> QED
    BY <1>7, <2>1, SeqDef
<1>10. b \in [1..c -> DOMAIN e]
  BY <1>8
<1> HIDE DEF b
<1>11. \A k \in 1..c : BestCopy(e, b[k]) /\ u[k].value = e[o[k]].value
  BY <1>3, <1>8
<1>12. ASSUME NEW k \in 1..c, NEW l \in 1..c, u[k].value = u[l].value
       PROVE  k = l
  <2>1. e[o[k]].value = e[o[l]].value /\ o[k] \in firsts /\ o[l] \in firsts
    BY <1>7, <1>11, <1>12
  <2>2. o[k] \in Nat \ {0} /\ o[l] \in Nat \ {0}
    <3>1. \A i \in firsts : i \in Nat \ {0}
      BY <1>1, <1>4
    <3> QED
      BY <2>1, <3>1
  <2>3. o[k] \notin 1..(o[l] - 1) /\ o[l] \notin 1..(o[k] - 1)
    BY <1>5, <2>1
  <2>4. o[k] = o[l]
    BY <2>2, <2>3
  <2> QED
    BY <1>7, <2>4
<1>13. ASSUME NEW i \in DOMAIN e
       PROVE  \E k \in 1..c : u[k].value = e[i].value
  BY <1>6, <1>7, <1>11
<1>14. BestKept(e, u, b)
  BY <1>8, <1>9, <1>10, <1>11, <1>12, <1>13 DEF BestKept
<1> QED
  BY <1>14 DEF u

\* A group says the texts of its entries, each once.
LEMMA JoinedSays ==
    ASSUME NEW u \in Seq(Entries), \A k, l \in 1..Len(u) : u[k].value = u[l].value => k = l,
           NEW g \in SUBSET (1..Len(u)), g # {}
    PROVE  /\ Joined(u, g).value \in Seq(Texts) /\ IsInjective(Joined(u, g).value)
           /\ ToSet(Joined(u, g).value) = {u[k].value[1] : k \in g}
           /\ Joined(u, g).confidence = Max({u[k].confidence : k \in g})
           /\ Joined(u, g).confidence \in 0..10
           /\ \A k \in g : u[k].confidence <= Joined(u, g).confidence
           /\ Joined(u, g).sources = UNION {u[k].sources : k \in g}
<1> DEFINE o == Ordered(g)
           c == Cardinality(g)
           v == [k \in 1..c |-> u[o[k]].value[1]]
           confs == {u[k].confidence : k \in g}
<1>1. /\ Len(u) \in Nat
      /\ \A k \in 1..Len(u) : /\ u[k].value[1] \in Texts /\ u[k].value = <<u[k].value[1]>>
                              /\ u[k].confidence \in 0..10
  BY EntryFields
<1>2. /\ c \in Nat /\ o \in [1..c -> g]
      /\ \A k, l \in 1..c : o[k] = o[l] => k = l
      /\ \A i \in g : \E k \in 1..c : o[k] = i
  <2>1. g \in SUBSET (1..Len(u)) /\ Len(u) \in Nat
    BY <1>1
  <2> HIDE DEF o, c
  <2> QED
    BY <2>1, OrderedLists, Zenon DEF o, c
<1>3. /\ Joined(u, g).value = v
      /\ Joined(u, g).confidence = Max(confs)
      /\ Joined(u, g).sources = UNION {u[k].sources : k \in g}
  BY Zenon DEF Joined
<1>4. confs \in SUBSET (0..10) /\ confs # {} /\ \A k \in g : u[k].confidence \in confs
  <2>1. \A k \in g : u[k].confidence \in 0..10
    BY <1>1
  <2>2. \A k \in g : u[k].confidence \in confs
    OBVIOUS
  <2>3. confs \subseteq 0..10
    BY <2>1
  <2> QED
    BY <2>2, <2>3
<1> HIDE DEF o, c, confs
<1>5. Max(confs) \in confs /\ \A k \in g : u[k].confidence <= Max(confs)
  BY <1>4, GreatestConfidence
<1>6. \A k \in 1..c : o[k] \in g /\ o[k] \in 1..Len(u) /\ v[k] = u[o[k]].value[1]
  BY <1>2
<1>7. DOMAIN v = 1..c
  OBVIOUS
<1>8. v \in Seq(Texts)
  <2>1. v \in [1..c -> Texts]
    BY <1>1, <1>6
  <2> QED
    BY <1>2, <2>1, SeqDef
<1> HIDE DEF v
<1>9. ASSUME NEW k \in 1..c, NEW l \in 1..c, v[k] = v[l]
      PROVE  k = l
  <2>1. u[o[k]].value = u[o[l]].value
    <3>1. u[o[k]].value[1] = u[o[l]].value[1]
      BY <1>6, <1>9
    <3>2. /\ u[o[k]].value = <<u[o[k]].value[1]>>
          /\ u[o[l]].value = <<u[o[l]].value[1]>>
      BY <1>1, <1>6
    <3> QED
      BY <3>1, <3>2, Zenon
  <2>2. o[k] = o[l]
    BY <1>6, <2>1
  <2> QED
    BY <1>2, <2>2
<1>10. IsInjective(v)
  BY <1>7, <1>9 DEF IsInjective
<1>11. ToSet(v) = {u[k].value[1] : k \in g}
  <2>1. ASSUME NEW k \in g
        PROVE  u[k].value[1] \in ToSet(v)
    <3>1. PICK l \in 1..c : o[l] = k
      BY <1>2
    <3> QED
      BY <1>6, <1>7, <3>1 DEF ToSet
  <2>2. ASSUME NEW l \in 1..c
        PROVE  v[l] \in {u[k].value[1] : k \in g}
    BY <1>6
  <2> QED
    BY <1>7, <2>1, <2>2 DEF ToSet
<1>12. Max(confs) \in 0..10
  BY <1>4, <1>5
<1>13. /\ Joined(u, g).confidence \in 0..10
       /\ \A k \in g : u[k].confidence <= Joined(u, g).confidence
  BY <1>3, <1>5, <1>12
<1>14. /\ Joined(u, g).value \in Seq(Texts) /\ IsInjective(Joined(u, g).value)
       /\ ToSet(Joined(u, g).value) = {u[k].value[1] : k \in g}
  BY <1>3, <1>8, <1>10, <1>11
<1> QED
  BY <1>3, <1>13, <1>14 DEF confs

\* The groups in the order in which they are said.
Outline(u, groups) ==
    /\ Apart(Len(u), groups)
    /\ \A i \in 1..Len(u) : \E k \in DOMAIN groups : i \in groups[k]
    /\ ConfidenceSort(SourceAlign(u)) = [k \in 1..Len(groups) |-> Joined(u, groups[k])]

LEMMA AlignedAndSorted ==
    ASSUME NEW u \in Seq(Entries), \A k, l \in 1..Len(u) : u[k].value = u[l].value => k = l
    PROVE  \E groups : Outline(u, groups)
<1> DEFINE p == Groups(u)
           m == Len(p)
           a == SourceAlign(u)
           L == Len(u)
<1>1. L \in Nat
  BY EntryFields
<1>2. Apart(L, p) /\ \A i \in 1..L : \E k \in DOMAIN p : i \in p[k]
  BY <1>1, GroupsPartition
<1>3. a = [k \in 1..m |-> Joined(u, p[k])]
  BY DEF SourceAlign
<1> HIDE DEF p, a
<1>4. /\ p \in Seq(SUBSET (1..L)) /\ m \in Nat /\ DOMAIN p = 1..m
      /\ \A k \in 1..m : p[k] \in SUBSET (1..L) /\ p[k] # {}
      /\ \A k, l \in 1..m : k # l => p[k] \cap p[l] = {}
  <2>1. p \in Seq(SUBSET (1..L))
    BY <1>2 DEF Apart
  <2>2. m \in Nat /\ DOMAIN p = 1..m /\ \A k \in 1..m : p[k] \in SUBSET (1..L)
    BY <2>1
  <2> QED
    BY <1>2, <2>1, <2>2 DEF Apart
<1> HIDE DEF m
<1>5. \A k \in 1..m : a[k] = Joined(u, p[k]) /\ a[k].confidence \in 0..10
  BY <1>3, <1>4, JoinedSays
<1>6. DOMAIN a = 1..m /\ \A k \in 1..m : a[k].confidence \in Int
  BY <1>3, <1>5
<1>7. PICK place \in [1..m -> 1..m] :
          /\ \A k, l \in 1..m : place[k] = place[l] => k = l
          /\ \A i \in 1..m : \E k \in 1..m : place[k] = i
          /\ ConfidenceSort(a) = [k \in 1..m |-> a[place[k]]]
  <2>1. Permuted(m, a)
    BY <1>4, <1>6, SortPlacesAll
  <2> QED
    BY <2>1 DEF Permuted
<1> DEFINE q == [k \in 1..m |-> p[place[k]]]
<1>8. \A k \in 1..m : place[k] \in 1..m /\ q[k] = p[place[k]]
  BY <1>7
<1>9. q \in Seq(SUBSET (1..L)) /\ Len(q) = m /\ DOMAIN q = 1..m
  <2>1. q \in [1..m -> SUBSET (1..L)]
    BY <1>4, <1>8
  <2> QED
    <3> DEFINE Z == SUBSET (1..L)
    <3>1. m \in Nat /\ q \in [1..m -> Z]
      BY <1>4, <2>1
    <3> HIDE DEF Z, q, L
    <3>2. q \in Seq(Z) /\ Len(q) = m /\ DOMAIN q = 1..m
      BY <3>1
    <3> QED
      BY <3>2 DEF Z
<1>10. ConfidenceSort(a) = [k \in 1..m |-> Joined(u, q[k])]
  <2>1. \A k \in 1..m : a[place[k]] = Joined(u, q[k])
    BY <1>5, <1>8
  <2> QED
    BY <1>7, <2>1
<1> HIDE DEF q
<1>11. Apart(L, q)
  <2>1. \A k \in 1..m : q[k] # {}
    <3>1. \A k \in 1..m : p[k] # {}
      BY <1>4
    <3> QED
      BY <1>8, <3>1, Zenon
  <2>2. ASSUME NEW k \in 1..m, NEW l \in 1..m, k # l
        PROVE  q[k] \cap q[l] = {}
    <3>1. place[k] # place[l] /\ place[k] \in 1..m /\ place[l] \in 1..m
      BY <1>7, <2>2
    <3>2. p[place[k]] \cap p[place[l]] = {}
      BY <1>4, <3>1
    <3>3. q[k] = p[place[k]] /\ q[l] = p[place[l]]
      BY <1>8
    <3> QED
      BY <3>2, <3>3, Zenon
  <2> QED
    BY <1>9, <2>1, <2>2 DEF Apart
<1>12. ASSUME NEW i \in 1..L
       PROVE  \E k \in DOMAIN q : i \in q[k]
  <2>1. PICK l \in 1..m : i \in p[l]
    BY <1>2, <1>4
  <2>2. PICK k \in 1..m : place[k] = l
    BY <1>7
  <2> QED
    BY <1>8, <1>9, <2>1, <2>2
<1>13. Outline(u, q)
  BY <1>9, <1>10, <1>11, <1>12 DEF Outline, a
<1> QED
  BY <1>13

\* The best copies of a text, and of all that an entry says.
Copies(x) == {i \in DOMAIN board : board[i].value = <<x>> /\ BestCopy(board, i)}

CopiesOf(e) == UNION {Copies(x) : x \in ToSet(e.value)}

LEMMA CopyIsKept ==
    ASSUME board \in Seq(Entries), NEW u, NEW b, BestKept(board, u, b), NEW k \in 1..Len(u)
    PROVE  Copies(u[k].value[1]) = {b[k]}
<1>1. /\ u \in Seq(Entries) /\ b[k] \in DOMAIN board
      /\ u[k] = board[b[k]] /\ BestCopy(board, b[k])
  BY DEF BestKept
<1>2. u[k].value = <<u[k].value[1]>>
  BY <1>1, EntryFields
<1>3. \A i \in DOMAIN board : board[i].confidence \in Int /\ i \in Int
  BY EntryFields
<1>4. b[k] \in Copies(u[k].value[1])
  BY <1>1, <1>2 DEF Copies
<1>5. ASSUME NEW i \in Copies(u[k].value[1])
      PROVE  i = b[k]
  <2>1. i \in DOMAIN board /\ board[i].value = board[b[k]].value /\ BestCopy(board, i)
    BY <1>1, <1>2 DEF Copies
  <2>2. \/ board[b[k]].confidence < board[i].confidence
        \/ board[b[k]].confidence = board[i].confidence /\ i <= b[k]
    BY <1>1, <2>1 DEF BestCopy
  <2>3. \/ board[i].confidence < board[b[k]].confidence
        \/ board[i].confidence = board[b[k]].confidence /\ b[k] <= i
    BY <1>1, <2>1 DEF BestCopy
  <2>4. /\ board[i].confidence \in Int /\ board[b[k]].confidence \in Int
        /\ i \in Int /\ b[k] \in Int
    BY <1>1, <1>3, <2>1
  <2> QED
    BY <2>2, <2>3, <2>4
<1> QED
  BY <1>4, <1>5

\* A group stands for the best copies of its texts.
LEMMA JoinedStandsFor ==
    ASSUME board \in Seq(Entries), NEW u, NEW b, BestKept(board, u, b),
           NEW g \in SUBSET (1..Len(u)), g # {}
    PROVE  /\ Joined(u, g).sources = UNION {board[i].sources : i \in CopiesOf(Joined(u, g))}
           /\ Joined(u, g).confidence = Max({board[i].confidence : i \in CopiesOf(Joined(u, g))})
<1> DEFINE e == Joined(u, g)
           G == {b[k] : k \in g}
<1>1. /\ u \in Seq(Entries) /\ \A k, l \in 1..Len(u) : u[k].value = u[l].value => k = l
      /\ \A k \in 1..Len(u) : u[k] = board[b[k]]
  BY DEF BestKept
<1>2. /\ ToSet(e.value) = {u[k].value[1] : k \in g}
      /\ e.confidence = Max({u[k].confidence : k \in g})
      /\ e.sources = UNION {u[k].sources : k \in g}
  <2>1. u \in Seq(Entries) /\ \A k, l \in 1..Len(u) : u[k].value = u[l].value => k = l
    BY <1>1
  <2> QED
    BY <2>1, JoinedSays, Zenon
<1> HIDE DEF e
<1>3. \A k \in g : Copies(u[k].value[1]) = {b[k]}
  BY CopyIsKept
<1>4. CopiesOf(e) = G
  <2>1. ASSUME NEW i \in CopiesOf(e)
        PROVE  i \in G
    <3>1. PICK x \in ToSet(e.value) : i \in Copies(x)
      BY DEF CopiesOf
    <3>2. PICK k \in g : x = u[k].value[1]
      BY <1>2
    <3> QED
      BY <1>3, <3>1, <3>2
  <2>2. ASSUME NEW k \in g
        PROVE  b[k] \in CopiesOf(e)
    <3>1. u[k].value[1] \in ToSet(e.value) /\ b[k] \in Copies(u[k].value[1])
      BY <1>2, <1>3
    <3> QED
      BY <3>1 DEF CopiesOf
  <2> QED
    BY <2>1, <2>2
<1>5. /\ \A k \in g : b[k] \in G /\ board[b[k]] = u[k]
      /\ \A i \in G : \E k \in g : i = b[k] /\ board[i] = u[k]
  <2>1. \A k \in g : b[k] \in G /\ k \in 1..Len(u)
    OBVIOUS
  <2>2. \A i \in G : \E k \in g : i = b[k]
    OBVIOUS
  <2> HIDE DEF G
  <2>3. \A k \in g : b[k] \in G /\ board[b[k]] = u[k]
    BY <1>1, <2>1
  <2>4. ASSUME NEW i \in G
        PROVE  \E k \in g : i = b[k] /\ board[i] = u[k]
    <3>1. PICK k \in g : i = b[k]
      BY <2>2
    <3> QED
      BY <2>3, <3>1
  <2> QED
    BY <2>3, <2>4
<1> HIDE DEF G
<1>6. /\ {board[i].confidence : i \in G} = {u[k].confidence : k \in g}
      /\ {board[i].sources : i \in G} = {u[k].sources : k \in g}
  <2>1. {board[i].confidence : i \in G} = {u[k].confidence : k \in g}
    BY <1>5
  <2>2. {board[i].sources : i \in G} = {u[k].sources : k \in g}
    BY <1>5
  <2> QED
    BY <2>1, <2>2
<1>7. e.sources = UNION {board[i].sources : i \in CopiesOf(e)}
  BY <1>2, <1>4, <1>6
<1>8. e.confidence = Max({board[i].confidence : i \in CopiesOf(e)})
  BY <1>2, <1>4, <1>6
<1> QED
  BY <1>7, <1>8 DEF e

LEMMA ContainsIsIn ==
    ASSUME NEW T, NEW s \in Seq(T), NEW x
    PROVE  Contains(s, x) <=> x \in ToSet(s)
<1>1. DOMAIN s = 1..Len(s)
  OBVIOUS
<1> QED
  BY <1>1 DEF Contains, ToSet

\* A text of the board is in just one group.
InOneGroup(u, groups, x) ==
    \E k \in 1..Len(groups) :
        \A l \in 1..Len(groups) : Contains(Joined(u, groups[l]).value, x) <=> l = k

LEMMA TextInOneGroup ==
    ASSUME board \in Seq(Entries), NEW u, NEW b, BestKept(board, u, b),
           NEW groups, Outline(u, groups), NEW i \in DOMAIN board
    PROVE  InOneGroup(u, groups, board[i].value[1])
<1> DEFINE m == Len(groups)
           x == board[i].value[1]
<1>1. /\ u \in Seq(Entries) /\ \A k, l \in 1..Len(u) : u[k].value = u[l].value => k = l
      /\ \E j \in 1..Len(u) : u[j].value = board[i].value
  BY DEF BestKept
<1>2. \A j \in 1..Len(u) : u[j].value = <<u[j].value[1]>>
  BY <1>1, EntryFields
<1>3. PICK j \in 1..Len(u) : u[j].value = board[i].value
  BY <1>1
<1>4. \A l \in 1..Len(u) : u[l].value[1] = x <=> l = j
  <2> SUFFICES ASSUME NEW l \in 1..Len(u), u[l].value[1] = x PROVE l = j
    BY <1>3
  <2>1. u[l].value = <<x>> /\ u[j].value = <<x>>
    BY <1>2, <1>3
  <2> QED
    BY <1>1, <2>1
<1>5. groups \in Seq(SUBSET (1..Len(u))) /\ DOMAIN groups = 1..m
  <2>1. groups \in Seq(SUBSET (1..Len(u)))
    BY DEF Outline, Apart
  <2> QED
    BY <2>1
<1>6. \A k \in 1..m : groups[k] \in SUBSET (1..Len(u)) /\ groups[k] # {}
  <2>1. \A k \in DOMAIN groups : groups[k] # {}
    BY DEF Outline, Apart
  <2>2. \A k \in DOMAIN groups : groups[k] \in SUBSET (1..Len(u))
    BY <1>5
  <2> QED
    BY <1>5, <2>1, <2>2
<1>7. \A k, l \in 1..m : k # l => groups[k] \cap groups[l] = {}
  BY <1>5, Zenon DEF Outline, Apart
<1>8. PICK k \in 1..m : j \in groups[k]
  BY <1>5 DEF Outline
<1> HIDE DEF x, m
<1>9. ASSUME NEW l \in 1..m
      PROVE  Contains(Joined(u, groups[l]).value, x) <=> l = k
  <2> DEFINE v == Joined(u, groups[l]).value
             g == groups[l]
  <2>1. g \in SUBSET (1..Len(u)) /\ g # {}
    BY <1>6
  <2>2. v \in Seq(Texts) /\ ToSet(v) = {u[n].value[1] : n \in g}
    BY <1>1, <2>1, JoinedSays
  <2>3. g = groups[l]
    OBVIOUS
  <2> HIDE DEF v, g
  <2>4. Contains(v, x) <=> x \in ToSet(v)
    BY <2>2, ContainsIsIn
  <2>5. x \in ToSet(v) <=> j \in g
    BY <1>4, <2>1, <2>2
  <2>6. j \in g <=> l = k
    BY <1>7, <1>8, <2>3
  <2> QED
    BY <2>4, <2>5, <2>6 DEF v
<1> QED
  BY <1>9 DEF x, m, InOneGroup

\* What the merge hands on: the joined groups.
LEMMA MergeOutlined ==
    ASSUME board \in Seq(Entries)
    PROVE  \E u, b, groups : /\ u = Dedup(board) /\ BestKept(board, u, b) /\ Outline(u, groups)
                             /\ Merge(board).entries = [k \in 1..Len(groups) |-> Joined(u, groups[k])]
                             /\ Merge(board).statement = Unify(Merge(board).entries)
<1> DEFINE u == Dedup(board)
<1>1. PICK b : BestKept(board, u, b)
  BY DedupKeeps
<1>2. PICK groups : Outline(u, groups)
  <2> HIDE DEF u
  <2> QED
    BY <1>1, AlignedAndSorted DEF BestKept
<1>3. /\ Merge(board).entries = ConfidenceSort(SourceAlign(u))
      /\ Merge(board).statement = Unify(ConfidenceSort(SourceAlign(u)))
  BY DEF Merge
<1>4. ConfidenceSort(SourceAlign(u)) = [k \in 1..Len(groups) |-> Joined(u, groups[k])]
  BY <1>2 DEF Outline
<1> QED
  BY <1>1, <1>2, <1>3, <1>4

LEMMA MergeKeepsEverything == board \in Seq(Entries) => MergeKeepsAll
<1> SUFFICES ASSUME board \in Seq(Entries)
             PROVE  MergeKeepsAll
  OBVIOUS
<1>1. PICK u, b, groups : /\ u = Dedup(board) /\ BestKept(board, u, b) /\ Outline(u, groups)
                          /\ Merge(board).entries = [k \in 1..Len(groups) |-> Joined(u, groups[k])]
                          /\ Merge(board).statement = Unify(Merge(board).entries)
  BY MergeOutlined
<1> DEFINE s == Merge(board).entries
           m == Len(groups)
<1>2. DOMAIN s = 1..m /\ \A k \in 1..m : s[k] = Joined(u, groups[k])
  BY <1>1
<1>3. \A k \in 1..m : groups[k] \in SUBSET (1..Len(u)) /\ groups[k] # {}
  <2>1. groups \in Seq(SUBSET (1..Len(u))) /\ \A k \in DOMAIN groups : groups[k] # {}
    BY <1>1 DEF Outline, Apart
  <2> QED
    BY <2>1
<1> HIDE DEF s, m
<1>4. ASSUME NEW i \in DOMAIN board
      PROVE  Cardinality({k \in DOMAIN s : Contains(s[k].value, board[i].value[1])}) = 1
  <2>1. PICK k \in 1..m : \A l \in 1..m :
            Contains(Joined(u, groups[l]).value, board[i].value[1]) <=> l = k
    <3>1. InOneGroup(u, groups, board[i].value[1])
      BY <1>1, TextInOneGroup
    <3> QED
      BY <3>1 DEF InOneGroup, m
  <2>2. {l \in DOMAIN s : Contains(s[l].value, board[i].value[1])} = {k}
    BY <1>2, <2>1
  <2> QED
    BY <2>2, FS_Singleton
<1>5. ASSUME NEW k \in DOMAIN s
      PROVE  /\ s[k].sources = UNION {board[i].sources : i \in CopiesOf(s[k])}
             /\ s[k].confidence = Max({board[i].confidence : i \in CopiesOf(s[k])})
  <2>1. s[k] = Joined(u, groups[k]) /\ groups[k] \in SUBSET (1..Len(u)) /\ groups[k] # {}
    BY <1>2, <1>3
  <2> QED
    BY <1>1, <2>1, JoinedStandsFor
<1> QED
  BY <1>4, <1>5 DEF MergeKeepsAll, s, CopiesOf, Copies

-----------------------------------------------------------------------------
(* The merge: what is said. *)

Say(e, s, n) == IF e[n].confidence >= 5 THEN s \o e[n].value ELSE s

Saying(e, f) == [n \in 0..Len(e) |-> IF n = 0 THEN <<>> ELSE Say(e, f[n - 1], n)]

Said(e) == CHOOSE f : f = Saying(e, f)

\* Entries that each say something and nothing that another says.
Different(e) ==
    /\ Len(e) \in Nat /\ DOMAIN e = 1..Len(e)
    /\ \A k \in 1..Len(e) : e[k].value \in Seq(Texts) /\ IsInjective(e[k].value)
    /\ \A k \in 1..Len(e) : ToSet(e[k].value) # {}
    /\ \A k, l \in 1..Len(e) : k # l => ToSet(e[k].value) \cap ToSet(e[l].value) = {}

CertainTexts(e, n) ==
    UNION {ToSet(e[k].value) : k \in {i \in 1..n : e[i].confidence >= 5}}

\* What the certain ones of the first n entries say, each text once.
SaidSoFar(e, n, s) == s \in Seq(Texts) /\ IsInjective(s) /\ ToSet(s) = CertainTexts(e, n)

LEMMA SayingExists ==
    ASSUME NEW e, Different(e)
    PROVE  /\ Said(e)[0] = <<>>
           /\ \A n \in 1..Len(e) : Said(e)[n] = Say(e, Said(e)[n - 1], n)
<1> DEFINE L == Len(e)
           T == Seq(Texts)
           none == <<>>
           h == [x \in T \X (1..L) |-> Say(e, x[1], x[2])]
           p == Said(e)
<1>1. \E f : f = Saying(e, f)
  <2>1. \A s \in T : \A n \in 1..L : Say(e, s, n) \in T
    BY DEF Say, Different
  <2>2. L \in Nat /\ none \in T
    BY DEF Different
  <2> HIDE DEF T, L, none
  <2>3. h \in [T \X (1..L) -> T]
    BY <2>1
  <2>4. \A s \in T : \A n \in 1..L : h[<<s, n>>] = Say(e, s, n)
    OBVIOUS
  <2> HIDE DEF h
  <2>5. PICK f \in [0..L -> T] : f = Unrolled(L, none, h, f)
    <3>1. Stepping(L, T, none, h)
      BY <2>2, <2>3 DEF Stepping
    <3>2. Unrollable(L, T, none, h)
      BY <3>1, Unrolls
    <3> QED
      BY <3>2 DEF Unrollable
  <2>6. \A n \in 0..L : n # 0 => n \in 1..L /\ f[n - 1] \in T
    BY <2>2, <2>5
  <2>7. Unrolled(L, none, h, f) = [n \in 0..L |-> IF n = 0 THEN <<>> ELSE Say(e, f[n - 1], n)]
    BY <2>4, <2>6 DEF Unrolled, none
  <2>8. f = Saying(e, f)
    BY <2>5, <2>7 DEF Saying, L
  <2> QED
    BY <2>8
<1>2. p = Saying(e, p)
  BY <1>1, Zenon DEF Said
<1> HIDE DEF p
<1>3. \A n \in 0..L : p[n] = IF n = 0 THEN <<>> ELSE Say(e, p[n - 1], n)
  BY <1>2, Zenon DEF Saying
<1>4. L \in Nat
  BY DEF Different
<1> QED
  BY <1>3, <1>4 DEF p

\* One more entry says what it says, if it is certain.
LEMMA SayingOneMore ==
    ASSUME NEW e, Different(e), NEW n \in 1..Len(e), NEW s, SaidSoFar(e, n - 1, s)
    PROVE  SaidSoFar(e, n, Say(e, s, n))
<1> DEFINE v == e[n].value
           before == CertainTexts(e, n - 1)
<1>1. /\ Len(e) \in Nat /\ v \in Seq(Texts) /\ IsInjective(v)
      /\ \A k \in 1..(n - 1) : ToSet(e[k].value) \cap ToSet(v) = {}
  <2>1. Len(e) \in Nat /\ v \in Seq(Texts) /\ IsInjective(v)
    BY DEF Different
  <2>2. ASSUME NEW k \in 1..(n - 1)
        PROVE  ToSet(e[k].value) \cap ToSet(v) = {}
    <3>1. k \in 1..Len(e) /\ k # n
      BY <2>1
    <3> QED
      BY <3>1, Zenon DEF Different
  <2> QED
    BY <2>1, <2>2
<1>2. s \in Seq(Texts) /\ IsInjective(s) /\ ToSet(s) = before
  BY DEF SaidSoFar
<1>3. before \cap ToSet(v) = {}
  BY <1>1 DEF CertainTexts
<1>4. \A k \in 1..n : k = n \/ k \in 1..(n - 1)
  OBVIOUS
<1>5. \A k \in 1..(n - 1) : k \in 1..n
  OBVIOUS
<1>6. n \in 1..n
  OBVIOUS
<1>7. CASE e[n].confidence >= 5
  <2>1. {i \in 1..n : e[i].confidence >= 5} = {i \in 1..(n - 1) : e[i].confidence >= 5} \cup {n}
    BY <1>4, <1>5, <1>6, <1>7
  <2>2. CertainTexts(e, n) = before \cup ToSet(v)
    BY <2>1 DEF CertainTexts
  <2> HIDE DEF v, before
  <2>3. /\ s \o v \in Seq(Texts) /\ IsInjective(s \o v)
        /\ ToSet(s \o v) = ToSet(s) \cup ToSet(v)
    BY <1>1, <1>2, <1>3, SaidTogether
  <2>4. Say(e, s, n) = s \o v
    BY <1>7 DEF Say, v
  <2> QED
    BY <1>2, <2>2, <2>3, <2>4 DEF SaidSoFar
<1>8. CASE ~(e[n].confidence >= 5)
  <2>1. {i \in 1..n : e[i].confidence >= 5} = {i \in 1..(n - 1) : e[i].confidence >= 5}
    BY <1>4, <1>5, <1>8
  <2>2. CertainTexts(e, n) = before
    BY <2>1 DEF CertainTexts
  <2>3. Say(e, s, n) = s
    BY <1>8 DEF Say
  <2> QED
    BY <1>2, <2>2, <2>3 DEF SaidSoFar
<1> QED
  BY <1>7, <1>8

LEMMA AllSaid ==
    ASSUME NEW e, Different(e)
    PROVE  SaidSoFar(e, Len(e), Said(e)[Len(e)])
<1> DEFINE L == Len(e)
           p == Said(e)
           G == {n \in 0..L : SaidSoFar(e, n, p[n])}
<1>1. L \in Nat
  BY DEF Different
<1>2. p[0] = <<>> /\ \A n \in 1..L : p[n] = Say(e, p[n - 1], n)
  BY SayingExists
<1> HIDE DEF p
<1>3. 0 \in G
  <2>1. CertainTexts(e, 0) = {}
    BY DEF CertainTexts
  <2>2. <<>> \in Seq(Texts) /\ IsInjective(<<>>) /\ ToSet(<<>>) = {}
    BY DEF IsInjective, ToSet
  <2>3. SaidSoFar(e, 0, <<>>)
    BY <2>1, <2>2, Zenon DEF SaidSoFar
  <2>4. SaidSoFar(e, 0, p[0])
    BY <1>2, <2>3, Zenon
  <2> QED
    BY <1>1, <2>4
<1>4. ASSUME NEW n \in 1..L, n - 1 \in G
      PROVE  n \in G
  <2>1. SaidSoFar(e, n - 1, p[n - 1])
    BY <1>4
  <2>2. SaidSoFar(e, n, p[n])
    BY <1>2, <2>1, SayingOneMore
  <2> QED
    BY <1>1, <2>2
<1>5. L \in G
  <2> HIDE DEF G
  <2>1. \A n \in 1..L : n - 1 \in G => n \in G
    BY <1>4
  <2>2. L \in 0..L
    BY <1>1
  <2> HIDE DEF L
  <2> QED
    BY <1>1, <1>3, <2>1, <2>2, CountsUp
<1> QED
  BY <1>5 DEF p

\* _unify() says all that is certain or, if nothing is, what the first entry says.
LEMMA UnifySays ==
    ASSUME NEW e, Different(e)
    PROVE  /\ Unify(e) \in Seq(Texts) /\ IsInjective(Unify(e))
           /\ CertainTexts(e, Len(e)) \subseteq ToSet(Unify(e))
           /\ Len(e) # 0 => Unify(e) # <<>>
<1> DEFINE L == Len(e)
           some == \E n \in DOMAIN e : e[n].confidence >= 5
           all == Said(e)[L]
           out == Unify(e)
<1>1. L \in Nat /\ DOMAIN e = 1..L
  BY DEF Different
<1>2. out = IF e = <<>> THEN <<>> ELSE IF some THEN all ELSE e[1].value
  BY Zenon DEF Unify, Said, Saying, Say
<1>3. all \in Seq(Texts) /\ IsInjective(all) /\ ToSet(all) = CertainTexts(e, L)
  BY AllSaid, Zenon DEF SaidSoFar
<1>4. ToSet(<<>>) = {} /\ <<>> \in Seq(Texts) /\ IsInjective(<<>>)
  BY DEF ToSet, IsInjective
<1> HIDE DEF all, out
<1>5. CASE some
  <2>1. PICK n \in 1..L : e[n].confidence >= 5
    BY <1>1, <1>5
  <2>2. e # <<>>
    BY <1>1, <2>1
  <2>3. out = all
    BY <1>2, <1>5, <2>2
  <2>4. ToSet(e[n].value) \subseteq CertainTexts(e, L) /\ ToSet(e[n].value) # {}
    BY <2>1 DEF CertainTexts, Different
  <2>5. all # <<>>
    BY <1>3, <1>4, <2>4
  <2> QED
    BY <1>3, <2>3, <2>5 DEF out
<1>6. CASE ~some
  <2>1. CertainTexts(e, L) = {}
    BY <1>1, <1>6 DEF CertainTexts
  <2>2. CASE e = <<>>
    <3>1. out = <<>> /\ L = 0
      BY <1>2, <2>2
    <3> QED
      BY <1>4, <2>1, <3>1 DEF out
  <2>3. CASE e # <<>>
    <3>1. out = e[1].value
      BY <1>2, <1>6, <2>3
    <3>2. CASE L = 0
      <4>1. e = <<>>
        BY <1>1, <3>2
      <4> QED
        BY <2>3, <4>1
    <3>3. CASE L # 0
      <4>1. 1 \in 1..L
        BY <1>1, <3>3
      <4>2. out \in Seq(Texts) /\ IsInjective(out) /\ ToSet(out) # {}
        BY <3>1, <4>1 DEF Different
      <4>3. out # <<>>
        BY <1>4, <4>2
      <4> QED
        BY <2>1, <4>2, <4>3 DEF out
    <3> QED
      BY <3>2, <3>3
  <2> QED
    BY <2>2, <2>3
<1> QED
  BY <1>5, <1>6

\* The joined groups say different things, each something.
LEMMA GroupsDiffer ==
    ASSUME NEW u \in Seq(Entries), \A k, l \in 1..Len(u) : u[k].value = u[l].value => k = l,
           NEW groups, Outline(u, groups), NEW e, e = [k \in 1..Len(groups) |-> Joined(u, groups[k])]
    PROVE  Different(e) /\ Len(e) = Len(groups)
<1> DEFINE m == Len(groups)
           text(k) == u[k].value[1]
<1>1. m \in Nat /\ DOMAIN groups = 1..m /\ \A k \in 1..m : groups[k] \in SUBSET (1..Len(u))
  <2>1. groups \in Seq(SUBSET (1..Len(u)))
    BY DEF Outline, Apart
  <2> QED
    BY <2>1
<1>2. /\ \A k \in 1..m : groups[k] # {}
      /\ \A k, l \in 1..m : k # l => groups[k] \cap groups[l] = {}
  BY <1>1, Zenon DEF Outline, Apart
<1>3. Len(e) = m /\ DOMAIN e = 1..m /\ \A k \in 1..m : e[k] = Joined(u, groups[k])
  BY <1>1
<1>4. \A k \in 1..Len(u) : u[k].value = <<text(k)>>
  BY EntryFields
<1>5. \A k, l \in 1..Len(u) : text(k) = text(l) => k = l
  <2> SUFFICES ASSUME NEW k \in 1..Len(u), NEW l \in 1..Len(u), text(k) = text(l)
               PROVE  k = l
    OBVIOUS
  <2>1. u[k].value = u[l].value
    BY <1>4, Zenon
  <2> QED
    BY <2>1
<1>6. ASSUME NEW k \in 1..m
      PROVE  /\ e[k].value \in Seq(Texts) /\ IsInjective(e[k].value)
             /\ ToSet(e[k].value) = {text(n) : n \in groups[k]}
  BY <1>1, <1>2, <1>3, JoinedSays
<1> HIDE DEF text, m
<1>7. ASSUME NEW k \in 1..m
      PROVE  ToSet(e[k].value) # {}
  <2>1. PICK n : n \in groups[k]
    BY <1>2
  <2>2. text(n) \in {text(i) : i \in groups[k]}
    BY <2>1
  <2>3. ToSet(e[k].value) = {text(i) : i \in groups[k]}
    BY <1>6, Zenon
  <2> QED
    BY <2>2, <2>3
<1>8. ASSUME NEW k \in 1..m, NEW l \in 1..m, k # l
      PROVE  ToSet(e[k].value) \cap ToSet(e[l].value) = {}
  <2> SUFFICES ASSUME NEW x \in ToSet(e[k].value), x \in ToSet(e[l].value)
               PROVE  FALSE
    OBVIOUS
  <2>1. PICK i \in groups[k] : x = text(i)
    BY <1>6
  <2>2. PICK j \in groups[l] : x = text(j)
    BY <1>6
  <2>3. i \in 1..Len(u) /\ j \in 1..Len(u)
    BY <1>1
  <2>4. i = j
    BY <1>5, <2>1, <2>2, <2>3
  <2> QED
    BY <1>2, <1>8, <2>4
<1> QED
  BY <1>1, <1>3, <1>6, <1>7, <1>8 DEF Different, m

\* What an agent is certain of is in a certain group.
LEMMA CertainGroup ==
    ASSUME board \in Seq(Entries), NEW u, NEW b, BestKept(board, u, b),
           NEW groups, Outline(u, groups), NEW i \in DOMAIN board, board[i].confidence >= 5
    PROVE  \E k \in 1..Len(groups) :
               /\ Joined(u, groups[k]).confidence >= 5
               /\ board[i].value[1] \in ToSet(Joined(u, groups[k]).value)
<1>1. /\ u \in Seq(Entries) /\ \A k, l \in 1..Len(u) : u[k].value = u[l].value => k = l
      /\ \A k \in 1..Len(u) : b[k] \in DOMAIN board /\ u[k] = board[b[k]] /\ BestCopy(board, b[k])
  BY DEF BestKept
<1>2. PICK j \in 1..Len(u) : u[j].value = board[i].value
  BY DEF BestKept
<1>3. board[i].confidence \in 0..10 /\ board[b[j]].confidence \in 0..10
  BY <1>1, EntryFields
<1>4. u[j].confidence >= 5
  <2>1. u[j] = board[b[j]] /\ BestCopy(board, b[j])
    BY <1>1
  <2>2. board[i].value = board[b[j]].value
    BY <1>2, <2>1
  <2>3. \/ board[i].confidence < board[b[j]].confidence
        \/ board[i].confidence = board[b[j]].confidence
    BY <2>1, <2>2, Zenon DEF BestCopy
  <2>4. board[b[j]].confidence >= 5
    <3> DEFINE c == board[b[j]].confidence
               d == board[i].confidence
    <3>1. c \in 0..10 /\ d \in 0..10 /\ d >= 5 /\ (d < c \/ d = c)
      BY <1>3, <2>3
    <3> HIDE DEF c, d
    <3>2. c >= 5
      BY <3>1
    <3> QED
      BY <3>2 DEF c
  <2> QED
    BY <2>1, <2>4
<1>5. /\ DOMAIN groups = 1..Len(groups)
      /\ \A k \in 1..Len(groups) : groups[k] \in SUBSET (1..Len(u))
  <2>1. groups \in Seq(SUBSET (1..Len(u)))
    BY DEF Outline, Apart
  <2> QED
    BY <2>1
<1>6. PICK k \in 1..Len(groups) : j \in groups[k]
  BY <1>5 DEF Outline
<1> DEFINE g == groups[k]
           e == Joined(u, g)
<1>7. g \in SUBSET (1..Len(u)) /\ g # {} /\ j \in g
  BY <1>5, <1>6
<1> HIDE DEF g
<1>8. /\ ToSet(e.value) = {u[n].value[1] : n \in g} /\ e.confidence \in 0..10
      /\ \A n \in g : u[n].confidence <= e.confidence
  <2>1. u \in Seq(Entries) /\ \A n, l \in 1..Len(u) : u[n].value = u[l].value => n = l
    BY <1>1
  <2> QED
    BY <1>7, <2>1, JoinedSays, Zenon DEF e
<1>9. u[j].confidence \in 0..10
  BY <1>1, EntryFields
<1> HIDE DEF e
<1>10. e.confidence >= 5 /\ board[i].value[1] \in ToSet(e.value)
  <2>1. u[j].confidence <= e.confidence
    BY <1>7, <1>8, Zenon
  <2>2. e.confidence >= 5
    <3> DEFINE c == e.confidence
               d == u[j].confidence
    <3>1. c \in 0..10 /\ d \in 0..10 /\ d >= 5 /\ d <= c
      BY <1>4, <1>8, <1>9, <2>1
    <3> HIDE DEF c, d
    <3>2. c >= 5
      BY <3>1
    <3> QED
      BY <3>2 DEF c
  <2>3. u[j].value[1] \in ToSet(e.value)
    BY <1>7, <1>8
  <2> QED
    BY <1>2, <2>2, <2>3, Zenon
<1> QED
  BY <1>10 DEF e, g

LEMMA MergeSaysEverything == board \in Seq(Entries) => MergeSaysTheCertain
<1> SUFFICES ASSUME board \in Seq(Entries)
             PROVE  MergeSaysTheCertain
  OBVIOUS
<1>1. PICK u, b, groups : /\ u = Dedup(board) /\ BestKept(board, u, b) /\ Outline(u, groups)
                          /\ Merge(board).entries = [k \in 1..Len(groups) |-> Joined(u, groups[k])]
                          /\ Merge(board).statement = Unify(Merge(board).entries)
  BY MergeOutlined
<1> DEFINE e == Merge(board).entries
           said == Merge(board).statement
           m == Len(groups)
<1>2. Different(e) /\ Len(e) = m
  <2>1. u \in Seq(Entries) /\ \A k, l \in 1..Len(u) : u[k].value = u[l].value => k = l
    BY <1>1 DEF BestKept
  <2>2. Outline(u, groups) /\ e = [k \in 1..m |-> Joined(u, groups[k])]
    BY <1>1
  <2> HIDE DEF e
  <2> QED
    BY <2>1, <2>2, GroupsDiffer, Zenon
<1>3. \A k \in 1..m : e[k] = Joined(u, groups[k])
  BY <1>1
<1>4. said = Unify(e)
  BY <1>1
<1> HIDE DEF e, said
<1>5. /\ said \in Seq(Texts) /\ IsInjective(said)
      /\ CertainTexts(e, m) \subseteq ToSet(said)
      /\ m # 0 => said # <<>>
  BY <1>2, <1>4, UnifySays
<1>6. ASSUME board # <<>>
      PROVE  said # <<>>
  <2>1. Len(board) \in Nat /\ DOMAIN board = 1..Len(board)
    BY EntryFields
  <2>2. 1 \in DOMAIN board
    BY <1>6, <2>1
  <2>3. PICK j \in 1..Len(u) : u[j].value = board[1].value
    BY <1>1, <2>2 DEF BestKept
  <2>4. \E k \in DOMAIN groups : j \in groups[k]
    BY <1>1 DEF Outline
  <2>5. m \in Nat /\ DOMAIN groups = 1..m
    <3>1. groups \in Seq(SUBSET (1..Len(u)))
      BY <1>1 DEF Outline, Apart
    <3> QED
      BY <3>1
  <2>6. m # 0
    BY <2>4, <2>5
  <2> QED
    BY <1>5, <2>6
<1>7. ASSUME NEW i \in DOMAIN board, board[i].confidence >= 5
      PROVE  Contains(said, board[i].value[1])
  <2>1. PICK k \in 1..m : /\ Joined(u, groups[k]).confidence >= 5
                          /\ board[i].value[1] \in ToSet(Joined(u, groups[k]).value)
    BY <1>1, <1>7, CertainGroup
  <2>2. e[k].confidence >= 5 /\ board[i].value[1] \in ToSet(e[k].value)
    BY <1>3, <2>1
  <2>3. board[i].value[1] \in CertainTexts(e, m)
    BY <2>2 DEF CertainTexts
  <2> QED
    BY <1>5, <2>3, ContainsIsIn
<1> QED
  BY <1>5, <1>6, <1>7 DEF MergeSaysTheCertain, said

\* What is proved about one of the three holds in the run that checks them side by side.
LEMMA SideBySide == Spec => BusSpec /\ ToolSpec /\ BoardSpec
<1>1. Init => BusInit /\ ToolInit /\ BoardInit
  BY DEF Init
<1>2. [Next]_<<busVars, toolVars, board, service>>
          => [BusNext]_busVars /\ [ToolNext]_toolVars /\ [BoardNext]_board
  BY DEF Next
<1> QED
  BY <1>1, <1>2, PTL DEF Spec, BusSpec, ToolSpec, BoardSpec

\* Whatever the agents wrote, a merge loses no value and puts none into two entries, and an
\* entry has the sources and the confidence of the copies that it stands for: those that
\* _dedup() kept (merger.py lines 66-103).
THEOREM MergeKeepsAllAlways == Spec => []MergeKeepsAll
<1>1. BoardTypeOK => MergeKeepsAll
  BY MergeKeepsEverything DEF BoardTypeOK
<1> QED
  BY <1>1, SideBySide, BoardTypeCorrect, PTL

\* Whatever the agents wrote, the statement of a merge says once each thing that one of them
\* is certain of, and says something if there is anything to say (merger.py lines 64-73 and
\* 139-148).
THEOREM MergeSaysTheCertainAlways == Spec => []MergeSaysTheCertain
<1>1. BoardTypeOK => MergeSaysTheCertain
  BY MergeSaysEverything DEF BoardTypeOK
<1> QED
  BY <1>1, SideBySide, BoardTypeCorrect, PTL

\* No agent's call takes the bus, the tools' audit or the blackboard out of the values that
\* they are meant to have: a list without a queue's key, a second entry under one key.
THEOREM TypeCorrect == Spec => []TypeOK
<1> DEFINE Known == service \in {"bus", "tools", "board"}
<1>1. Init => Known
  BY DEF Init
<1>2. Known /\ [Next]_<<busVars, toolVars, board, service>> => Known'
  BY DEF Next
<1>3. BusTypeOK /\ ToolTypeOK /\ BoardTypeOK /\ Known => TypeOK
  BY DEF TypeOK
<1> QED
  BY <1>1, <1>2, <1>3, SideBySide, BusTypeCorrect, ToolTypeCorrect, BoardTypeCorrect, PTL
     DEF Spec
=============================================================================
