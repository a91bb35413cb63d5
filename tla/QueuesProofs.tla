---------------------------- MODULE QueuesProofs ----------------------------
(***************************************************************************)
(* The chain of promises of enqueueByChat, for any chats and any calls: it *)
(* keeps the calls of a chat in a line, although each call knows only the  *)
(* promise it found, and the handlers beside it do not disturb it.         *)
(***************************************************************************)
EXTENDS Queues, SequenceTheorems, TLAPS

ChainTypes ==
    /\ tail \in [Chats -> Events \cup {None}]
    /\ previous \in [Events -> Events \cup {None}]
    /\ eventPc \in [Events -> {"idle", "waiting", "working"}]
    /\ order \in [Chats -> Seq(Events)]

\* The line of a chat holds its own calls, each at one place, and all of them.
LineHoldsCalls ==
    \A c \in Chats : \A i \in 1..Len(order[c]) :
        EventChat[order[c][i]] = c /\ eventPc[order[c][i]] # "idle"

LineHoldsOnce ==
    \A c \in Chats : \A i, k \in 1..Len(order[c]) : order[c][i] = order[c][k] => i = k

CallsInLine ==
    \A e \in Events : eventPc[e] # "idle" =>
        \E i \in 1..Len(order[EventChat[e]]) : order[EventChat[e]][i] = e

\* The first of the line awaits nothing; every other one awaits the promise of
\* the call before it.
AwaitsTheOneBefore ==
    \A c \in Chats : \A i \in 1..Len(order[c]) :
        /\ i = 1 => previous[order[c][i]] = None
        /\ i # 1 => previous[order[c][i]] = order[c][i - 1] /\ eventPc[order[c][i]] = "waiting"

\* The map has the promise of the last of the line.
TailIsLast ==
    \A c \in Chats :
        /\ order[c] = <<>> => tail[c] = None
        /\ order[c] # <<>> => tail[c] = order[c][Len(order[c])]

ChainInv ==
    /\ ChainTypes
    /\ LineHoldsCalls
    /\ LineHoldsOnce
    /\ CallsInLine
    /\ AwaitsTheOneBefore
    /\ TailIsLast

-----------------------------------------------------------------------------
\* Nobody has called.
LEMMA ChainInitInv == Chain!Init => ChainInv
<1> SUFFICES ASSUME Chain!Init PROVE ChainInv
  OBVIOUS
<1>1. ChainTypes
  BY DEF Chain!Init, ChainTypes
<1>2. \A c \in Chats : order[c] = <<>> /\ tail[c] = None
  BY DEF Chain!Init
<1>3. \A e \in Events : eventPc[e] = "idle"
  BY DEF Chain!Init
<1> QED
  BY <1>1, <1>2, <1>3 DEF ChainInv, LineHoldsCalls, LineHoldsOnce, CallsInLine,
                          AwaitsTheOneBefore, TailIsLast

\* A call takes the tail for what it awaits and puts its own promise there.
LEMMA ChainEnqueueInv ==
  ASSUME ChainInv, NEW j \in Events, Chain!Enqueue(j)
  PROVE  ChainInv'
<1> DEFINE c == EventChat[j]
           q == order[c]
<1> USE EventsAssumption DEF ChainInv
<1>0. c \in Chats /\ eventPc[j] = "idle" /\ q \in Seq(Events) /\ Len(q) \in Nat
  <2>1. c \in Chats
    OBVIOUS
  <2> QED
    BY <2>1 DEF Chain!Enqueue, ChainTypes
<1>1. /\ previous'[j] = tail[c] /\ eventPc'[j] = "waiting" /\ tail'[c] = j
      /\ order'[c] = Append(q, j)
      /\ \A e \in Events : e # j => previous'[e] = previous[e] /\ eventPc'[e] = eventPc[e]
      /\ \A d \in Chats : d # c => tail'[d] = tail[d] /\ order'[d] = order[d]
  BY <1>0 DEF Chain!Enqueue, Chain!Joins, ChainTypes
<1>2. ChainTypes'
  <2>1. Append(q, j) \in Seq(Events)
    BY <1>0
  <2>2. order' \in [Chats -> Seq(Events)]
    <3> HIDE DEF q
    <3> QED
      BY <1>0, <2>1 DEF Chain!Enqueue, Chain!Joins, ChainTypes, q
  <2>3. /\ tail' \in [Chats -> Events \cup {None}]
        /\ previous' \in [Events -> Events \cup {None}]
        /\ eventPc' \in [Events -> {"idle", "waiting", "working"}]
    BY <1>0 DEF Chain!Enqueue, ChainTypes
  <2> QED
    BY <2>2, <2>3 DEF ChainTypes
<1>3. /\ Len(order'[c]) = Len(q) + 1 /\ order'[c][Len(q) + 1] = j /\ order'[c] # <<>>
      /\ \A i \in 1..Len(q) : order'[c][i] = q[i] /\ q[i] \in Events /\ q[i] # j
  <2>1. \A i \in 1..Len(q) : q[i] \in Events /\ q[i] # j
    BY <1>0 DEF LineHoldsCalls
  <2> QED
    BY <1>0, <1>1, <2>1
<1>4. \A d \in Chats : d # c => \A i \in 1..Len(order[d]) : order[d][i] \in Events /\ order[d][i] # j
  BY <1>0 DEF LineHoldsCalls, ChainTypes
<1>5. LineHoldsCalls'
  <2> SUFFICES ASSUME NEW d \in Chats, NEW i \in 1..Len(order'[d])
               PROVE  EventChat[order'[d][i]] = d /\ eventPc'[order'[d][i]] # "idle"
    BY DEF LineHoldsCalls
  <2>1. CASE d # c
    BY <1>1, <1>4, <2>1 DEF LineHoldsCalls
  <2>2. CASE d = c /\ i = Len(q) + 1
    BY <1>1, <1>3, <2>2
  <2>3. CASE d = c /\ i # Len(q) + 1
    <3>1. i \in 1..Len(q)
      BY <1>0, <1>3, <2>3
    <3> QED
      BY <1>0, <1>1, <1>3, <2>3, <3>1 DEF LineHoldsCalls
  <2> QED
    BY <2>1, <2>2, <2>3
<1>6. LineHoldsOnce'
  <2> SUFFICES ASSUME NEW d \in Chats, NEW i \in 1..Len(order'[d]),
                      NEW k \in 1..Len(order'[d]), order'[d][i] = order'[d][k]
               PROVE  i = k
    BY DEF LineHoldsOnce
  <2>1. CASE d # c
    BY <1>1, <2>1 DEF LineHoldsOnce
  <2>2. CASE d = c /\ (i = Len(q) + 1 \/ k = Len(q) + 1)
    BY <1>0, <1>3, <2>2
  <2>3. CASE d = c /\ i # Len(q) + 1 /\ k # Len(q) + 1
    <3>1. i \in 1..Len(q) /\ k \in 1..Len(q)
      BY <1>0, <1>3, <2>3
    <3> QED
      BY <1>0, <1>3, <2>3, <3>1 DEF LineHoldsOnce
  <2> QED
    BY <2>1, <2>2, <2>3
<1>7. CallsInLine'
  <2> SUFFICES ASSUME NEW e \in Events, eventPc'[e] # "idle"
               PROVE  \E i \in 1..Len(order'[EventChat[e]]) : order'[EventChat[e]][i] = e
    BY DEF CallsInLine
  <2>1. CASE e = j
    <3>1. Len(q) + 1 \in 1..Len(order'[c])
      BY <1>0, <1>3
    <3> QED
      BY <1>3, <2>1, <3>1
  <2>2. CASE e # j
    <3>1. PICK i \in 1..Len(order[EventChat[e]]) : order[EventChat[e]][i] = e
      BY <1>1, <2>2 DEF CallsInLine
    <3>2. CASE EventChat[e] = c
      BY <1>0, <1>3, <3>1, <3>2
    <3>3. CASE EventChat[e] # c
      BY <1>1, <3>1, <3>3
    <3> QED
      BY <3>2, <3>3
  <2> QED
    BY <2>1, <2>2
<1>8. AwaitsTheOneBefore'
  <2> SUFFICES ASSUME NEW d \in Chats, NEW i \in 1..Len(order'[d])
               PROVE  /\ i = 1 => previous'[order'[d][i]] = None
                      /\ i # 1 => /\ previous'[order'[d][i]] = order'[d][i - 1]
                                  /\ eventPc'[order'[d][i]] = "waiting"
    BY DEF AwaitsTheOneBefore
  <2>1. CASE d # c
    BY <1>1, <1>4, <2>1 DEF AwaitsTheOneBefore
  <2>2. CASE d = c /\ i = Len(q) + 1
    <3>1. order'[d][i] = j /\ previous'[j] = tail[c] /\ eventPc'[j] = "waiting"
      BY <1>1, <1>3, <2>2
    <3>2. CASE i = 1
      <4>1. q = <<>>
        BY <1>0, <2>2, <3>2
      <4> QED
        BY <1>0, <3>1, <3>2, <4>1 DEF TailIsLast
    <3>3. CASE i # 1
      <4>1. q # <<>> /\ i - 1 = Len(q) /\ Len(q) \in 1..Len(q)
        BY <1>0, <2>2, <3>3
      <4>2. tail[c] = q[Len(q)]
        BY <1>0, <4>1 DEF TailIsLast
      <4> QED
        BY <1>3, <2>2, <3>1, <3>3, <4>1, <4>2
    <3> QED
      BY <3>2, <3>3
  <2>3. CASE d = c /\ i # Len(q) + 1
    <3>1. i \in 1..Len(q) /\ (i # 1 => i - 1 \in 1..Len(q))
      BY <1>0, <1>3, <2>3
    <3>2. /\ order'[d][i] = q[i] /\ q[i] \in Events /\ q[i] # j
          /\ i # 1 => order'[d][i - 1] = q[i - 1]
      BY <1>3, <2>3, <3>1
    <3>3. /\ i = 1 => previous[q[i]] = None
          /\ i # 1 => previous[q[i]] = q[i - 1] /\ eventPc[q[i]] = "waiting"
      BY <1>0, <3>1 DEF AwaitsTheOneBefore
    <3> QED
      BY <1>1, <3>2, <3>3
  <2> QED
    BY <2>1, <2>2, <2>3
<1>9. TailIsLast'
  BY <1>1, <1>3 DEF TailIsLast
<1> QED
  BY <1>2, <1>5, <1>6, <1>7, <1>8, <1>9

\* Work starts for a call that awaits nothing: it is the first of its line.
LEMMA FreeIsFirst ==
  ASSUME ChainInv, NEW j \in Events, eventPc[j] # "idle",
         previous[j] = None \/ eventPc[j] = "working"
  PROVE  /\ EventChat[j] \in Chats /\ order[EventChat[j]] \in Seq(Events)
         /\ order[EventChat[j]] # <<>> /\ order[EventChat[j]][1] = j
         /\ 1 \in 1..Len(order[EventChat[j]])
<1> DEFINE q == order[EventChat[j]]
<1>1. EventChat[j] \in Chats /\ q \in Seq(Events)
  BY EventsAssumption DEF ChainInv, ChainTypes
<1>2. PICK i \in 1..Len(q) : q[i] = j
  BY DEF ChainInv, CallsInLine
<1>3. i = 1
  <2> SUFFICES ASSUME i # 1 PROVE FALSE
    OBVIOUS
  <2>1. previous[j] = q[i - 1] /\ eventPc[j] = "waiting" /\ i - 1 \in 1..Len(q)
    BY <1>1, <1>2 DEF ChainInv, AwaitsTheOneBefore
  <2>2. q[i - 1] \in Events
    BY <1>1, <2>1
  <2> QED
    BY <2>1, <2>2, EventsAssumption
<1> QED
  BY <1>1, <1>2, <1>3

LEMMA ChainStartInv ==
  ASSUME ChainInv, NEW j \in Events, Chain!StartWork(j)
  PROVE  ChainInv'
<1> DEFINE c == EventChat[j]
<1> USE EventsAssumption DEF ChainInv
<1>0. tail' = tail /\ previous' = previous /\ order' = order
  BY DEF Chain!StartWork
<1>1. eventPc[j] = "waiting" /\ eventPc'[j] = "working"
      /\ \A e \in Events : e # j => eventPc'[e] = eventPc[e]
  BY DEF Chain!StartWork, ChainTypes
<1>2. c \in Chats /\ order[c] \in Seq(Events) /\ order[c][1] = j /\ 1 \in 1..Len(order[c])
  BY FreeIsFirst DEF Chain!StartWork
<1>3. ChainTypes'
  BY <1>0 DEF Chain!StartWork, ChainTypes
<1>4. \A d \in Chats : \A i \in 1..Len(order[d]) : order[d][i] \in Events
  BY DEF ChainTypes
<1>5. \A d \in Chats : \A i \in 1..Len(order[d]) : i # 1 => order[d][i] # j
  <2> SUFFICES ASSUME NEW d \in Chats, NEW i \in 1..Len(order[d]), order[d][i] = j PROVE i = 1
    OBVIOUS
  <2>1. d = c
    BY DEF LineHoldsCalls
  <2> QED
    BY <1>2, <2>1 DEF LineHoldsOnce
<1>6. LineHoldsCalls'
  BY <1>0, <1>1, <1>4 DEF LineHoldsCalls
<1>7. LineHoldsOnce' /\ TailIsLast'
  BY <1>0 DEF LineHoldsOnce, TailIsLast
<1>8. CallsInLine'
  BY <1>0, <1>1 DEF CallsInLine
<1>9. AwaitsTheOneBefore'
  BY <1>0, <1>1, <1>4, <1>5 DEF AwaitsTheOneBefore
<1> QED
  BY <1>3, <1>6, <1>7, <1>8, <1>9

\* A line without its first.
LEMMA TailOfLine ==
  ASSUME NEW S, NEW q \in Seq(S), q # <<>>
  PROVE  /\ Tail(q) \in Seq(S) /\ Len(q) \in Nat /\ Len(Tail(q)) = Len(q) - 1
         /\ Len(Tail(q)) \in Nat
         /\ \A i \in 1..Len(Tail(q)) : Tail(q)[i] = q[i + 1] /\ i + 1 \in 1..Len(q) /\ i + 1 # 1
         /\ Len(q) = 1 => Tail(q) = <<>>
         /\ Len(q) # 1 => /\ Tail(q) # <<>> /\ Tail(q)[Len(Tail(q))] = q[Len(q)]
                          /\ Len(q) \in 1..Len(q)
<1> DEFINE t == Tail(q)
<1>1. t \in Seq(S) /\ Len(t) = Len(q) - 1 /\ \A i \in 1..Len(t) : t[i] = q[i + 1]
  BY HeadTailProperties
<1> HIDE DEF t
<1>2. Len(q) \in Nat \ {0} /\ Len(t) \in Nat /\ (Len(t) = 0 <=> t = <<>>)
  <2>1. Len(q) \in Nat \ {0}
    BY EmptySeq
  <2>2. t # <<>> => Len(t) \in Nat \ {0}
    BY <1>1, EmptySeq
  <2>3. t = <<>> => Len(t) = 0
    BY EmptySeq
  <2> QED
    BY <2>1, <2>2, <2>3
<1>3. \A i \in 1..Len(t) : t[i] = q[i + 1] /\ i + 1 \in 1..Len(q) /\ i + 1 # 1
  BY <1>1, <1>2
<1>4. ASSUME Len(q) # 1 PROVE t # <<>> /\ t[Len(t)] = q[Len(q)] /\ Len(q) \in 1..Len(q)
  <2>1. Len(t) \in 1..Len(t) /\ Len(t) + 1 = Len(q) /\ Len(t) # 0 /\ Len(q) \in 1..Len(q)
    BY <1>1, <1>2, <1>4
  <2> QED
    BY <1>2, <1>3, <2>1
<1> QED
  BY <1>1, <1>2, <1>3, <1>4 DEF t

\* The first of the line resolves its promise; the second awaits nothing now.
LEMMA ChainLeaveInv ==
  ASSUME ChainInv, NEW j \in Events, Chain!Leave(j)
  PROVE  ChainInv'
<1> DEFINE c == EventChat[j]
           q == order[c]
<1> USE EventsAssumption DEF ChainInv
<1>0. eventPc[j] = "working"
  BY DEF Chain!Leave
<1>1. c \in Chats /\ q \in Seq(Events) /\ q # <<>> /\ q[1] = j /\ 1 \in 1..Len(q)
  BY <1>0, FreeIsFirst
<1>2. /\ Tail(q) \in Seq(Events) /\ Len(q) \in Nat /\ Len(Tail(q)) = Len(q) - 1
      /\ Len(Tail(q)) \in Nat
      /\ \A i \in 1..Len(Tail(q)) : Tail(q)[i] = q[i + 1] /\ i + 1 \in 1..Len(q) /\ i + 1 # 1
  BY <1>1, TailOfLine
<1>3. /\ eventPc'[j] = "idle" /\ order'[c] = Tail(q)
      /\ tail'[c] = IF tail[c] = j THEN None ELSE tail[c]
      /\ \A e \in Events : e # j => eventPc'[e] = eventPc[e]
      /\ \A e \in Events : previous'[e] = IF previous[e] = j THEN None ELSE previous[e]
      /\ \A d \in Chats : d # c => tail'[d] = tail[d] /\ order'[d] = order[d]
  BY <1>1 DEF Chain!Leave, Chain!Leaves, ChainTypes
<1>4. ChainTypes'
  <2>1. order' = [order EXCEPT ![c] = Tail(q)]
    BY DEF Chain!Leave, Chain!Leaves
  <2>2. order' \in [Chats -> Seq(Events)]
    <3> HIDE DEF q
    <3> QED
      BY <1>1, <1>2, <2>1 DEF ChainTypes
  <2>3. /\ tail' \in [Chats -> Events \cup {None}]
        /\ previous' \in [Events -> Events \cup {None}]
        /\ eventPc' \in [Events -> {"idle", "waiting", "working"}]
    BY DEF Chain!Leave, ChainTypes
  <2> QED
    BY <2>2, <2>3 DEF ChainTypes
<1>5. \A i \in 1..Len(q) : q[i] \in Events /\ (q[i] = j => i = 1)
  BY <1>1 DEF LineHoldsOnce
<1>6. \A d \in Chats : d # c =>
        \A i \in 1..Len(order[d]) : order[d][i] \in Events /\ order[d][i] # j
  BY DEF LineHoldsCalls, ChainTypes
<1>7. LineHoldsCalls'
  <2> SUFFICES ASSUME NEW d \in Chats, NEW i \in 1..Len(order'[d])
               PROVE  EventChat[order'[d][i]] = d /\ eventPc'[order'[d][i]] # "idle"
    BY DEF LineHoldsCalls
  <2>1. CASE d # c
    BY <1>3, <1>6, <2>1 DEF LineHoldsCalls
  <2>2. CASE d = c
    <3>1. order'[d][i] = q[i + 1] /\ i + 1 \in 1..Len(q) /\ i + 1 # 1
      BY <1>2, <1>3, <2>2
    <3>2. EventChat[q[i + 1]] = c /\ eventPc[q[i + 1]] # "idle"
      BY <1>1, <3>1 DEF LineHoldsCalls
    <3> QED
      BY <1>3, <1>5, <2>2, <3>1, <3>2
  <2> QED
    BY <2>1, <2>2
<1>8. LineHoldsOnce'
  <2> SUFFICES ASSUME NEW d \in Chats, NEW i \in 1..Len(order'[d]),
                      NEW k \in 1..Len(order'[d]), order'[d][i] = order'[d][k]
               PROVE  i = k
    BY DEF LineHoldsOnce
  <2>1. CASE d # c
    BY <1>3, <2>1 DEF LineHoldsOnce
  <2>2. CASE d = c
    <3>1. /\ i + 1 \in 1..Len(q) /\ k + 1 \in 1..Len(q) /\ q[i + 1] = q[k + 1]
          /\ i \in Nat /\ k \in Nat
      <4>1. order'[d] = Tail(q) /\ i \in 1..Len(Tail(q)) /\ k \in 1..Len(Tail(q))
        BY <1>3, <2>2
      <4> HIDE DEF q
      <4> QED
        BY <1>2, <4>1
    <3>2. i + 1 = k + 1
      BY <1>1, <3>1 DEF LineHoldsOnce
    <3> QED
      BY <3>1, <3>2
  <2> QED
    BY <2>1, <2>2
<1>9. CallsInLine'
  <2> SUFFICES ASSUME NEW e \in Events, eventPc'[e] # "idle"
               PROVE  \E i \in 1..Len(order'[EventChat[e]]) : order'[EventChat[e]][i] = e
    BY DEF CallsInLine
  <2>1. e # j /\ eventPc[e] # "idle" /\ EventChat[e] \in Chats
    BY <1>3
  <2>2. PICK k \in 1..Len(order[EventChat[e]]) : order[EventChat[e]][k] = e
    BY <2>1 DEF CallsInLine
  <2>3. CASE EventChat[e] = c
    <3>1. k # 1 /\ k - 1 \in 1..Len(Tail(q)) /\ (k - 1) + 1 = k
      BY <1>1, <1>2, <2>1, <2>2, <2>3
    <3>2. Tail(q)[k - 1] = e
      BY <1>2, <2>2, <2>3, <3>1
    <3> QED
      BY <1>3, <2>3, <3>1, <3>2
  <2>4. CASE EventChat[e] # c
    BY <1>3, <2>1, <2>2, <2>4
  <2> QED
    BY <2>3, <2>4
<1>10. AwaitsTheOneBefore'
  <2> SUFFICES ASSUME NEW d \in Chats, NEW i \in 1..Len(order'[d])
               PROVE  /\ i = 1 => previous'[order'[d][i]] = None
                      /\ i # 1 => /\ previous'[order'[d][i]] = order'[d][i - 1]
                                  /\ eventPc'[order'[d][i]] = "waiting"
    BY DEF AwaitsTheOneBefore
  <2>1. CASE d # c
    <3>1. order'[d] = order[d] /\ order[d] \in Seq(Events) /\ i \in 1..Len(order[d])
      BY <1>3, <2>1 DEF ChainTypes
    <3>2. order[d][i] \in Events /\ order[d][i] # j
          /\ (i # 1 => i - 1 \in 1..Len(order[d]) /\ order[d][i - 1] # j)
      BY <1>6, <2>1, <3>1
    <3>3. /\ i = 1 => previous[order[d][i]] = None
          /\ i # 1 => previous[order[d][i]] = order[d][i - 1] /\ eventPc[order[d][i]] = "waiting"
      BY <3>1 DEF AwaitsTheOneBefore
    <3> QED
      BY <1>3, <3>1, <3>2, <3>3
  <2>2. CASE d = c
    <3>0. order'[d] = Tail(q) /\ i \in 1..Len(Tail(q))
      BY <1>3, <2>2
    <3>1. order'[d][i] = q[i + 1] /\ i + 1 \in 1..Len(q) /\ i + 1 # 1 /\ (i + 1) - 1 = i
      BY <1>2, <3>0
    <3>2. previous[q[i + 1]] = q[i] /\ eventPc[q[i + 1]] = "waiting"
      BY <1>1, <3>1 DEF AwaitsTheOneBefore
    <3>3. q[i + 1] \in Events /\ q[i + 1] # j /\ i \in 1..Len(q)
      <4>1. i \in 1..Len(Tail(q))
        BY <1>3, <2>2
      <4>2. i \in 1..Len(q)
        <5> HIDE DEF q
        <5> QED
          BY <1>2, <4>1
      <4> QED
        BY <1>5, <3>1, <4>2
    <3>4. CASE i = 1
      BY <1>1, <1>3, <3>1, <3>2, <3>3, <3>4
    <3>5. CASE i # 1
      <4>1. i - 1 \in 1..Len(Tail(q)) /\ (i - 1) + 1 = i
        <5>1. i \in 1..Len(Tail(q))
          BY <1>3, <2>2
        <5> HIDE DEF q
        <5> QED
          BY <1>2, <3>5, <5>1
      <4>2. order'[d][i - 1] = q[i]
        BY <1>2, <1>3, <2>2, <4>1
      <4>3. q[i] # j
        BY <1>5, <3>3, <3>5
      <4> QED
        BY <1>3, <3>1, <3>2, <3>3, <3>5, <4>2, <4>3
    <3> QED
      BY <3>4, <3>5
  <2> QED
    BY <2>1, <2>2
<1>11. TailIsLast'
  <2> SUFFICES ASSUME NEW d \in Chats
               PROVE  /\ order'[d] = <<>> => tail'[d] = None
                      /\ order'[d] # <<>> => tail'[d] = order'[d][Len(order'[d])]
    BY DEF TailIsLast
  <2>1. CASE d # c
    BY <1>3, <2>1 DEF TailIsLast
  <2>2. tail[c] = q[Len(q)]
    BY <1>1 DEF TailIsLast
  <2>3. CASE d = c /\ Len(q) = 1
    <3>1. Tail(q) = <<>>
      BY <1>1, <2>3, TailOfLine
    <3>2. tail[c] = j
      BY <1>1, <2>2, <2>3
    <3> QED
      BY <1>3, <2>3, <3>1, <3>2
  <2>4. CASE d = c /\ Len(q) # 1
    <3>1. Tail(q) # <<>> /\ Tail(q)[Len(Tail(q))] = q[Len(q)] /\ Len(q) \in 1..Len(q)
      BY <1>1, <2>4, TailOfLine
    <3>2. q[Len(q)] # j
      BY <1>5, <2>4, <3>1
    <3>3. tail'[c] = q[Len(q)]
      BY <1>3, <2>2, <3>2
    <3> QED
      BY <1>3, <2>4, <3>1, <3>3
  <2> QED
    BY <2>1, <2>3, <2>4
<1> QED
  BY <1>4, <1>7, <1>8, <1>9, <1>10, <1>11

\* Every step of the two queues keeps it.
LEMMA ChainStepInv == ChainInv /\ [QueuesNext]_queuesVars => ChainInv'
<1> SUFFICES ASSUME ChainInv, [QueuesNext]_queuesVars PROVE ChainInv'
  OBVIOUS
<1>1. CASE UNCHANGED chainVars
  BY <1>1 DEF chainVars, ChainInv, ChainTypes, LineHoldsCalls, LineHoldsOnce, CallsInLine,
              AwaitsTheOneBefore, TailIsLast
<1>2. CASE Chain!Next
  BY <1>2, ChainEnqueueInv, ChainStartInv, ChainLeaveInv DEF Chain!Next
<1> QED
  BY <1>1, <1>2 DEF QueuesNext, queuesVars

LEMMA ChainInvariance == QueuesSpec => []ChainInv
<1>1. QueuesInit => ChainInv
  BY ChainInitInv DEF QueuesInit
<1> QED
  BY <1>1, ChainStepInv, PTL DEF QueuesSpec

-----------------------------------------------------------------------------
(* The chain implements FifoMutex: its line of a chat is the calls that     *)
(* have not left, and the call that works is inside.                       *)

\* The first of a line is inside when it works, and nobody else is.
LEMMA WorksFirst ==
  ASSUME ChainInv, NEW j \in Events, eventPc[j] = "working"
  PROVE  Chain!Working(EventChat[j]) = {j}
<1>1. ASSUME NEW e \in Events, EventChat[e] = EventChat[j], eventPc[e] = "working"
      PROVE  e = j
  BY <1>1, FreeIsFirst
<1> QED
  BY <1>1 DEF Chain!Working

LEMMA ChainMapInit == Chain!Init => Chain!Mutex!Init
BY DEF Chain!Init, Chain!Mutex!Init, Chain!Working

\* A call joins its line; it is not let in at once.
LEMMA MapChainEnqueue ==
  ASSUME ChainInv, NEW j \in Events, Chain!Enqueue(j)
  PROVE  Chain!Mutex!Join(j)
<1> DEFINE c == EventChat[j]
           inside == [d \in Chats |-> Chain!Working(d)]
<1>1. c \in Chats /\ order[c] \in Seq(Events)
  BY EventsAssumption DEF ChainInv, ChainTypes
<1>2. order' = [order EXCEPT ![c] = Append(@, j)] /\ eventPc[j] = "idle"
  BY DEF Chain!Enqueue, Chain!Joins
<1>3. inside' = inside
  <2>1. \A e \in Events : eventPc'[e] = "working" <=> eventPc[e] = "working"
    BY DEF Chain!Enqueue, ChainInv, ChainTypes
  <2>2. \A d \in Chats : Chain!Working(d)' = Chain!Working(d)
    BY <2>1 DEF Chain!Working
  <2> QED
    BY <2>2
<1>4. \A i \in DOMAIN order[c] : order[c][i] # j
  BY <1>1, <1>2 DEF ChainInv, LineHoldsCalls
<1> QED
  <2> HIDE DEF c
  <2> QED
    BY <1>2, <1>3, <1>4, Zenon DEF Chain!Mutex!Join, c

\* The first of a line with nobody inside goes in.
LEMMA MapChainStart ==
  ASSUME ChainInv, NEW j \in Events, Chain!StartWork(j)
  PROVE  Chain!Mutex!Begin(j)
<1> DEFINE c == EventChat[j]
           inside == [d \in Chats |-> Chain!Working(d)]
<1>1. order' = order /\ eventPc[j] = "waiting" /\ eventPc'[j] = "working"
      /\ \A e \in Events : e # j => eventPc'[e] = eventPc[e]
  BY DEF Chain!StartWork, ChainInv, ChainTypes
<1>2. c \in Chats /\ order[c] # <<>> /\ Head(order[c]) = j
  BY FreeIsFirst DEF Chain!StartWork
<1>3. Chain!Working(c) = {}
  <2>1. ASSUME NEW e \in Events, EventChat[e] = c, eventPc[e] = "working" PROVE FALSE
    <3>1. e = Head(order[c])
      BY <2>1, FreeIsFirst
    <3> QED
      BY <1>1, <1>2, <2>1, <3>1
  <2> QED
    BY <2>1 DEF Chain!Working
<1>4. Chain!Working(c)' = {j}
  <2>1. \A e \in Events : EventChat[e] = c /\ eventPc'[e] = "working" <=> e = j
    BY <1>1, <1>3 DEF Chain!Working
  <2> QED
    BY <2>1 DEF Chain!Working
<1>5. \A d \in Chats : d # c => Chain!Working(d)' = Chain!Working(d)
  BY <1>1 DEF Chain!Working
<1>6. inside' = [inside EXCEPT ![c] = {j}] /\ inside[c] = {}
  BY <1>2, <1>3, <1>4, <1>5
<1> QED
  <2> HIDE DEF c
  <2> QED
    BY <1>1, <1>2, <1>6, Zenon DEF Chain!Mutex!Begin, c

\* The first of a line leaves; the next goes in later.
LEMMA MapChainLeave ==
  ASSUME ChainInv, NEW j \in Events, Chain!Leave(j)
  PROVE  Chain!Mutex!Finish(j)
<1> DEFINE c == EventChat[j]
           inside == [d \in Chats |-> Chain!Working(d)]
<1>1. /\ order' = [order EXCEPT ![c] = Tail(order[c])] /\ eventPc[j] = "working"
      /\ eventPc'[j] = "idle" /\ \A e \in Events : e # j => eventPc'[e] = eventPc[e]
  BY DEF Chain!Leave, Chain!Leaves, ChainInv, ChainTypes
<1>2. c \in Chats /\ order[c] # <<>> /\ Head(order[c]) = j
  BY <1>1, FreeIsFirst
<1>3. Chain!Working(c) = {j}
  BY <1>1, WorksFirst
<1>4. Chain!Working(c)' = {}
  BY <1>1, <1>3 DEF Chain!Working
<1>5. \A d \in Chats : d # c => Chain!Working(d)' = Chain!Working(d)
  BY <1>1 DEF Chain!Working
<1>6. inside' = [inside EXCEPT ![c] = {}] /\ inside[c] = {j}
  BY <1>2, <1>3, <1>4, <1>5
<1> QED
  <2> HIDE DEF c
  <2> QED
    BY <1>1, <1>2, <1>6, Zenon DEF Chain!Mutex!Finish, c

\* Every step of the two queues is one of the mutex or leaves it alone.
LEMMA ChainMapStep ==
    ChainInv /\ [QueuesNext]_queuesVars => [Chain!Mutex!Next]_Chain!Mutex!mutexVars
<1> SUFFICES ASSUME ChainInv, [QueuesNext]_queuesVars
             PROVE  [Chain!Mutex!Next]_Chain!Mutex!mutexVars
  OBVIOUS
<1>1. CASE UNCHANGED chainVars
  BY <1>1 DEF chainVars, Chain!Mutex!mutexVars, Chain!Working
<1>2. ASSUME NEW j \in Events, Chain!Enqueue(j) \/ Chain!StartWork(j) \/ Chain!Leave(j)
      PROVE  Chain!Mutex!Next
  BY <1>2, MapChainEnqueue, MapChainStart, MapChainLeave DEF Chain!Mutex!Next
<1> QED
  BY <1>1, <1>2 DEF QueuesNext, queuesVars, Chain!Next

\* The watcher's calls for a chat work one at a time in the order they were
\* made, for any chats and calls, whatever handlers run (enqueueByChat).
THEOREM ChainRefinement == QueuesSpec => ChainImplementsFifoMutex
<1>1. QueuesInit => Chain!Mutex!Init
  BY ChainMapInit DEF QueuesInit
<1> QED
  BY <1>1, ChainMapStep, ChainInvariance, PTL
     DEF QueuesSpec, ChainImplementsFifoMutex, Chain!ImplementsFifoMutex, Chain!Mutex!Spec
=============================================================================
