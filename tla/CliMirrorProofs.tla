--------------------------- MODULE CliMirrorProofs --------------------------
(***************************************************************************)
(* The mirror of opencode-cli-mirror-service.ts, for any chats, sessions   *)
(* and messages: a chat is shown messages in order, and again only what    *)
(* could not be sent, although the cursor is per session, several chats    *)
(* share it, and it is forgotten.                                          *)
(***************************************************************************)
EXTENDS CliMirror, SequenceTheorems, TLAPS

Sweep == [at : {"off", "next", "send"}, todo : SUBSET Target,
          target : Target \cup {None}, fresh : Seq(Key)]

Shown == [id : Nat, sent : BOOLEAN]

MirrorTypes ==
    /\ log \in [Sessions -> Seq(Nat \ {0})]
    /\ bound \in [Chats -> Sessions \cup {None}]
    /\ lastSeen \in [Sessions -> Key \cup {None}]
    /\ sweep \in Sweep
    /\ screen \in [Chats -> [Sessions -> Seq(Shown)]]
    /\ sweep.at = "send" => sweep.target \in Target /\ sweep.fresh # <<>>

\* The key stands for a message of the session as it was at some time.
IsKeyOf(k, s) == k.id \in 1..Len(log[s]) /\ k.parts \in 1..log[s][k.id]

KeysAreOfMessages ==
    /\ \A s \in Sessions : lastSeen[s] # None => IsKeyOf(lastSeen[s], s)
    /\ sweep.at = "send" =>
          \A i \in 1..Len(sweep.fresh) : IsKeyOf(sweep.fresh[i], sweep.target.session)

Ungrown(s) == \A i \in 1..Len(log[s]) : log[s][i] = 1

\* The messages to be shown are those that follow the cursor.
FreshFollows ==
    sweep.at = "send" /\ Ungrown(sweep.target.session) =>
        /\ lastSeen[sweep.target.session] # None
        /\ \A i \in 1..Len(sweep.fresh) :
              sweep.fresh[i].id = lastSeen[sweep.target.session].id + i

\* No chat was shown what comes after the cursor, but for a message that
\* follows it and could not be sent.
Within(e, k) == e.id <= k.id + 1 /\ (e.sent => e.id <= k.id)
ShownIsSeen ==
    \A c \in Chats, s \in Sessions : Ungrown(s) =>
        \A n \in 1..Len(screen[c][s]) :
            /\ screen[c][s][n].id \in 1..Len(log[s])
            /\ lastSeen[s] # None => Within(screen[c][s][n], lastSeen[s])

Before(a, b) == a.id <= b.id /\ (a.sent => a.id < b.id)
Increasing ==
    \A c \in Chats, s \in Sessions : Ungrown(s) =>
        \A m, n \in 1..Len(screen[c][s]) : m < n => Before(screen[c][s][m], screen[c][s][n])

MInv ==
    /\ MirrorTypes
    /\ KeysAreOfMessages
    /\ FreshFollows
    /\ ShownIsSeen
    /\ Increasing

-----------------------------------------------------------------------------
\* Nothing was shown and nothing seen.
LEMMA MirrorInitInv == Init => MInv
<1> SUFFICES ASSUME Init PROVE MInv
  OBVIOUS
<1>1. MirrorTypes
  <2>1. <<>> \in Seq(Nat \ {0}) /\ <<1>> \in Seq(Nat \ {0}) /\ <<>> \in Seq(Shown) /\ <<>> \in Seq(Key)
    OBVIOUS
  <2>2. Off \in Sweep /\ Off.at = "off"
    BY <2>1 DEF Off, Sweep
  <2> QED
    BY <2>1, <2>2 DEF Init, MirrorTypes
<1>2. /\ \A s \in Sessions : lastSeen[s] = None
      /\ sweep.at = "off"
      /\ \A c \in Chats, s \in Sessions : screen[c][s] = <<>>
  BY DEF Init, Off
<1> QED
  BY <1>1, <1>2 DEF MInv, KeysAreOfMessages, FreshFollows, ShownIsSeen, Increasing

-----------------------------------------------------------------------------
(* OpenCode and the users.                                                 *)

\* What stays a key, and what was not grown, when a log gets longer.
LEMMA WriteInv ==
  ASSUME MInv, NEW s \in Sessions, Write(s)
  PROVE  MInv'
<1> USE DEF MInv
<1>1. /\ log' = [log EXCEPT ![s] = Append(@, 1)] /\ log[s] \in Seq(Nat \ {0})
      /\ lastSeen' = lastSeen /\ sweep' = sweep /\ screen' = screen /\ bound' = bound
  BY DEF Write, botVars, MirrorTypes
<1>2. MirrorTypes'
  <2>1. Append(log[s], 1) \in Seq(Nat \ {0})
    BY <1>1
  <2> QED
    BY <1>1, <2>1 DEF MirrorTypes
<1>3. \A t \in Sessions : /\ Len(log[t]) \in Nat /\ Len(log'[t]) \in Nat
                          /\ Len(log[t]) <= Len(log'[t])
                          /\ \A i \in 1..Len(log[t]) : log'[t][i] = log[t][i]
  <2> SUFFICES ASSUME NEW t \in Sessions
               PROVE  /\ Len(log[t]) \in Nat /\ Len(log'[t]) \in Nat
                      /\ Len(log[t]) <= Len(log'[t])
                      /\ \A i \in 1..Len(log[t]) : log'[t][i] = log[t][i]
    OBVIOUS
  <2>1. log[t] \in Seq(Nat \ {0})
    BY DEF MirrorTypes
  <2>2. CASE t = s
    <3>1. log'[t] = Append(log[t], 1)
      BY <1>1, <2>2 DEF MirrorTypes
    <3> QED
      BY <2>1, <3>1
  <2>3. CASE t # s
    <3>1. log'[t] = log[t]
      BY <1>1, <2>3 DEF MirrorTypes
    <3> QED
      BY <2>1, <3>1
  <2> QED
    BY <2>2, <2>3
<1>4. \A t \in Sessions, k \in Key : IsKeyOf(k, t) => IsKeyOf(k, t)'
  BY <1>3 DEF IsKeyOf, Key
<1>5. \A t \in Sessions : Ungrown(t)' => Ungrown(t)
  BY <1>3 DEF Ungrown
<1>6. sweep.at = "send" => sweep.target.session \in Sessions /\ sweep.fresh \in Seq(Key)
  BY DEF MirrorTypes, Target, Sweep
<1>7. KeysAreOfMessages'
  <2>1. \A t \in Sessions : lastSeen[t] # None => lastSeen[t] \in Key
    BY DEF MirrorTypes
  <2>2. sweep.at = "send" => \A i \in 1..Len(sweep.fresh) : sweep.fresh[i] \in Key
    BY <1>6
  <2> QED
    BY <1>1, <1>4, <1>6, <2>1, <2>2 DEF KeysAreOfMessages
<1>8. FreshFollows'
  BY <1>1, <1>5, <1>6 DEF FreshFollows
<1>9. ShownIsSeen'
  <2> SUFFICES ASSUME NEW c \in Chats, NEW t \in Sessions, Ungrown(t)',
                      NEW n \in 1..Len(screen[c][t])
               PROVE  /\ screen[c][t][n].id \in 1..Len(log'[t])
                      /\ lastSeen[t] # None => Within(screen[c][t][n], lastSeen[t])
    BY <1>1 DEF ShownIsSeen
  <2>1. /\ screen[c][t][n].id \in 1..Len(log[t])
        /\ lastSeen[t] # None => Within(screen[c][t][n], lastSeen[t])
    BY <1>5 DEF ShownIsSeen
  <2> QED
    BY <1>3, <2>1
<1>10. Increasing'
  BY <1>1, <1>5 DEF Increasing
<1> QED
  BY <1>2, <1>7, <1>8, <1>9, <1>10

LEMMA GrowInv ==
  ASSUME MInv, NEW s \in Sessions, Grow(s)
  PROVE  MInv'
<1> DEFINE l == Len(log[s])
<1> USE DEF MInv
<1>1. /\ log' = [log EXCEPT ![s][l] = @ + 1] /\ log[s] \in Seq(Nat \ {0}) /\ l \in 1..l
      /\ lastSeen' = lastSeen /\ sweep' = sweep /\ screen' = screen /\ bound' = bound
  BY DEF Grow, botVars, MirrorTypes
<1>2. /\ log[s][l] \in Nat \ {0}
      /\ log'[s] = [log[s] EXCEPT ![l] = log[s][l] + 1]
      /\ \A t \in Sessions : t # s => log'[t] = log[t]
  <2>1. log'[s] = [log[s] EXCEPT ![l] = log[s][l] + 1]
    BY <1>1 DEF MirrorTypes
  <2>2. log[s][l] \in Nat \ {0}
    BY <1>1
  <2> QED
    BY <1>1, <2>1, <2>2 DEF MirrorTypes
<1>3. /\ log'[s] \in Seq(Nat \ {0}) /\ Len(log'[s]) = l
      /\ log'[s][l] = log[s][l] + 1
      /\ \A i \in 1..l : i # l => log'[s][i] = log[s][i]
  <2>1. DOMAIN log[s] = 1..l /\ l \in Nat /\ \A i \in 1..l : log[s][i] \in Nat \ {0}
    BY <1>1
  <2>2. log'[s] \in [1..l -> Nat \ {0}]
    BY <1>1, <1>2, <2>1
  <2>3. log'[s] \in Seq(Nat \ {0}) /\ Len(log'[s]) = l
    BY <1>1, <1>2, <2>1, <2>2, ExceptSeq
  <2> QED
    BY <1>1, <1>2, <2>1, <2>3
<1>4. MirrorTypes'
  <2>1. log' \in [Sessions -> Seq(Nat \ {0})]
    <3>1. log' = [log EXCEPT ![s] = log'[s]]
      BY <1>1, <1>2 DEF MirrorTypes
    <3> QED
      BY <1>3, <3>1 DEF MirrorTypes
  <2> QED
    BY <1>1, <2>1 DEF MirrorTypes
<1>5. ~Ungrown(s)'
  <2>1. log'[s][l] # 1 /\ l \in 1..Len(log'[s])
    BY <1>1, <1>2, <1>3
  <2> QED
    BY <2>1 DEF Ungrown
<1>6. \A t \in Sessions : t # s => Len(log'[t]) = Len(log[t]) /\ (Ungrown(t)' => Ungrown(t))
  BY <1>2 DEF Ungrown
<1>7. \A t \in Sessions, k \in Key : IsKeyOf(k, t) => IsKeyOf(k, t)'
  <2> SUFFICES ASSUME NEW t \in Sessions, NEW k \in Key, IsKeyOf(k, t) PROVE IsKeyOf(k, t)'
    OBVIOUS
  <2>1. CASE t # s
    BY <1>2, <2>1 DEF IsKeyOf
  <2>2. CASE t = s /\ k.id # l
    BY <1>3, <2>2 DEF IsKeyOf
  <2>3. CASE t = s /\ k.id = l
    <3>1. k.parts \in 1..log[s][l] /\ log[s][l] \in Nat
      BY <1>2, <2>3 DEF IsKeyOf
    <3> QED
      BY <1>1, <1>3, <2>3, <3>1 DEF IsKeyOf
  <2> QED
    BY <2>1, <2>2, <2>3
<1>8. sweep.at = "send" => sweep.target.session \in Sessions /\ sweep.fresh \in Seq(Key)
  BY DEF MirrorTypes, Target, Sweep
<1>9. KeysAreOfMessages'
  <2>1. \A t \in Sessions : lastSeen[t] # None => lastSeen[t] \in Key
    BY DEF MirrorTypes
  <2>2. sweep.at = "send" => \A i \in 1..Len(sweep.fresh) : sweep.fresh[i] \in Key
    BY <1>8
  <2> QED
    BY <1>1, <1>7, <1>8, <2>1, <2>2 DEF KeysAreOfMessages
<1>10. FreshFollows'
  BY <1>1, <1>5, <1>6, <1>8 DEF FreshFollows
<1>11. ShownIsSeen'
  BY <1>1, <1>5, <1>6 DEF ShownIsSeen
<1>12. Increasing'
  BY <1>1, <1>5, <1>6 DEF Increasing
<1> QED
  BY <1>4, <1>9, <1>10, <1>11, <1>12

LEMMA RebindInv ==
  ASSUME MInv, NEW c \in Chats, Rebind(c)
  PROVE  MInv'
<1>1. /\ log' = log /\ lastSeen' = lastSeen /\ sweep' = sweep /\ screen' = screen
      /\ bound' \in [Chats -> Sessions \cup {None}]
  BY DEF Rebind, botVars, MInv, MirrorTypes
<1> QED
  BY <1>1 DEF MInv, MirrorTypes, KeysAreOfMessages, IsKeyOf, FreshFollows, ShownIsSeen,
              Increasing, Ungrown

-----------------------------------------------------------------------------
(* The sweep.                                                              *)

\* A step that shows nothing, leaves nothing to be shown, and at most forgets.
LEMMA RestsInv ==
  ASSUME MInv, MirrorTypes', log' = log, screen' = screen, sweep'.at # "send",
         \A s \in Sessions : lastSeen'[s] # None => lastSeen'[s] = lastSeen[s]
  PROVE  MInv'
<1> USE DEF MInv
<1>1. KeysAreOfMessages'
  BY DEF KeysAreOfMessages, IsKeyOf
<1>2. FreshFollows'
  BY DEF FreshFollows
<1>3. ShownIsSeen'
  BY DEF ShownIsSeen, Ungrown
<1>4. Increasing'
  BY DEF Increasing, Ungrown
<1> QED
  BY <1>1, <1>2, <1>3, <1>4

\* What Turn leaves behind.
LEMMA TurnTypes ==
  ASSUME MInv, NEW t \in Target, NEW fresh \in Seq(Key), Turn(t, fresh)
  PROVE  /\ sweep' \in Sweep
         /\ fresh = <<>> => sweep'.at = "next"
         /\ fresh # <<>> => sweep'.at = "send" /\ sweep'.target = t /\ sweep'.fresh = fresh
<1>1. sweep.todo \ {t} \in SUBSET Target
  BY DEF MInv, MirrorTypes, Sweep
<1>2. CASE fresh = <<>>
  <2>1. sweep' = [at |-> "next", todo |-> sweep.todo \ {t}, target |-> None, fresh |-> fresh]
    BY <1>2 DEF Turn
  <2> QED
    BY <1>1, <1>2, <2>1 DEF Sweep
<1>3. CASE fresh # <<>>
  <2>1. sweep' = [at |-> "send", todo |-> sweep.todo \ {t}, target |-> t, fresh |-> fresh]
    BY <1>3 DEF Turn
  <2> QED
    BY <1>1, <1>3, <2>1 DEF Sweep
<1> QED
  BY <1>2, <1>3

LEMMA StartSweepInv ==
  ASSUME MInv, StartSweep
  PROVE  MInv'
<1>1. /\ log' = log /\ screen' = screen /\ bound' = bound
      /\ lastSeen' = [s \in Sessions |->
                        IF \E t \in Targets : t.session = s THEN lastSeen[s] ELSE None]
      /\ sweep' = [at |-> "next", todo |-> Targets, target |-> None, fresh |-> <<>>]
  BY DEF StartSweep, Off
<1>2. sweep' \in Sweep
  <2>1. Targets \in SUBSET Target /\ <<>> \in Seq(Key)
    BY DEF Targets
  <2> QED
    BY <1>1, <2>1 DEF Sweep
<1>3. MirrorTypes'
  BY <1>1, <1>2 DEF MInv, MirrorTypes
<1>4. \A s \in Sessions : lastSeen'[s] # None => lastSeen'[s] = lastSeen[s]
  BY <1>1
<1>5. sweep'.at # "send"
  BY <1>1
<1> QED
  BY <1>1, <1>3, <1>4, <1>5, RestsInv

\* A turn that ends, an end of the sweep.
LEMMA IdleTurnInv ==
  ASSUME MInv, NEW t \in Target, Turn(t, <<>>), UNCHANGED <<log, bound, lastSeen, screen>>
  PROVE  MInv'
<1>1. sweep' \in Sweep /\ sweep'.at = "next"
  <2>1. <<>> \in Seq(Key)
    OBVIOUS
  <2> QED
    BY <2>1, TurnTypes
<1>2. MirrorTypes'
  BY <1>1 DEF MInv, MirrorTypes
<1> QED
  BY <1>1, <1>2, RestsInv

LEMMA EndSweepInv ==
  ASSUME MInv, EndSweep
  PROVE  MInv'
<1>1. sweep' \in Sweep /\ sweep'.at = "off"
  <2>1. <<>> \in Seq(Key)
    OBVIOUS
  <2> QED
    BY <2>1 DEF EndSweep, Off, Sweep
<1>2. MirrorTypes'
  BY <1>1 DEF EndSweep, MInv, MirrorTypes
<1> QED
  BY <1>1, <1>2, RestsInv DEF EndSweep

\* What comes after a message that the session has.
LEMMA AfterLastSeenFacts ==
  ASSUME MInv, NEW s \in Sessions, NEW k \in Key
  PROVE  /\ AfterLastSeen(s, k) \in Seq(Key)
         /\ \A i \in 1..Len(AfterLastSeen(s, k)) : IsKeyOf(AfterLastSeen(s, k)[i], s)
         /\ Ungrown(s) /\ IsKeyOf(k, s) =>
               \A i \in 1..Len(AfterLastSeen(s, k)) : AfterLastSeen(s, k)[i].id = k.id + i
<1> DEFINE l == Len(log[s])
           rest == SubSeq(Keys(s), k.id + 1, l)
<1>1. log[s] \in Seq(Nat \ {0}) /\ l \in Nat /\ k.id \in Nat
  BY DEF MInv, MirrorTypes, Key
<1>2. \A i \in 1..l : /\ Keys(s)[i] \in Key /\ Keys(s)[i].id = i /\ IsKeyOf(Keys(s)[i], s)
  <2> SUFFICES ASSUME NEW i \in 1..l
               PROVE  Keys(s)[i] \in Key /\ Keys(s)[i].id = i /\ IsKeyOf(Keys(s)[i], s)
    OBVIOUS
  <2>1. log[s][i] \in Nat \ {0} /\ i \in Nat
    BY <1>1
  <2>2. Keys(s)[i] = [id |-> i, parts |-> log[s][i]]
    BY DEF Keys, KeyOf
  <2> QED
    BY <2>1, <2>2 DEF Key, IsKeyOf
<1>3. Keys(s) \in Seq(Key) /\ Len(Keys(s)) = l
  <2>1. Keys(s) \in [1..l -> Key]
    BY <1>2 DEF Keys
  <2> QED
    BY <1>1, <2>1 DEF Keys
<1>4. /\ rest \in Seq(Key)
      /\ \A i \in 1..Len(rest) : rest[i] = Keys(s)[k.id + i] /\ k.id + i \in 1..l
  <2>1. \A i \in (k.id + 1)..l : Keys(s)[i] \in Key
    BY <1>1, <1>2
  <2>2. k.id + 1 \in Int /\ l \in Int
    BY <1>1
  <2>3. /\ rest \in Seq(Key)
        /\ Len(rest) = IF k.id + 1 <= l THEN l - (k.id + 1) + 1 ELSE 0
        /\ \A i \in 1..(l - (k.id + 1) + 1) : rest[i] = Keys(s)[k.id + 1 + i - 1]
    BY <2>1, <2>2, SubSeqProperties
  <2> HIDE DEF rest, l
  <2>4. ASSUME NEW i \in 1..Len(rest)
        PROVE  rest[i] = Keys(s)[k.id + i] /\ k.id + i \in 1..l
    <3>1. i \in 1..(l - (k.id + 1) + 1) /\ k.id + 1 + i - 1 = k.id + i
      BY <1>1, <2>3
    <3>2. rest[i] = Keys(s)[k.id + 1 + i - 1]
      BY <2>3, <3>1, Zenon
    <3>3. rest[i] = Keys(s)[k.id + i]
      BY <3>1, <3>2, Zenon
    <3>4. k.id + i \in 1..l
      BY <1>1, <3>1
    <3> QED
      BY <3>3, <3>4
  <2> QED
    BY <2>3, <2>4
<1>5. Ungrown(s) /\ IsKeyOf(k, s) => KeyOf(s, k.id) = k /\ k.id \in 1..l
  <2> SUFFICES ASSUME Ungrown(s), IsKeyOf(k, s) PROVE KeyOf(s, k.id) = k /\ k.id \in 1..l
    OBVIOUS
  <2>1. k.id \in 1..l /\ log[s][k.id] = 1 /\ k.parts = 1
    BY DEF Ungrown, IsKeyOf
  <2> QED
    BY <2>1 DEF Key, KeyOf
<1>6. CASE \E i \in 1..l : KeyOf(s, i) = k
  <2>1. AfterLastSeen(s, k) = rest
    BY <1>6 DEF AfterLastSeen
  <2> HIDE DEF rest
  <2>2. \A i \in 1..Len(rest) : IsKeyOf(rest[i], s) /\ rest[i].id = k.id + i
    BY <1>2, <1>4
  <2> QED
    BY <1>4, <2>1, <2>2
<1>7. CASE ~ \E i \in 1..l : KeyOf(s, i) = k
  <2>1. AfterLastSeen(s, k) = Keys(s)
    BY <1>7 DEF AfterLastSeen
  <2>2. ~(Ungrown(s) /\ IsKeyOf(k, s))
    BY <1>5, <1>7
  <2> QED
    BY <1>2, <1>3, <2>1, <2>2
<1> QED
  BY <1>6, <1>7

\* The first look at a session takes the last message for seen.
LEMMA FirstLookInv ==
  ASSUME MInv, NEW t \in Target, Turn(t, <<>>), UNCHANGED <<log, bound, screen>>,
         log[t.session] # <<>>,
         lastSeen' = [lastSeen EXCEPT ![t.session] = KeyOf(t.session, Len(log[t.session]))]
  PROVE  MInv'
<1> DEFINE s == t.session
           l == Len(log[s])
           k == KeyOf(s, l)
<1> USE DEF MInv
<1>1. s \in Sessions /\ log[s] \in Seq(Nat \ {0}) /\ l \in 1..l /\ l \in Nat
  BY DEF Target, MirrorTypes
<1>2. k \in Key /\ k.id = l /\ IsKeyOf(k, s)
  <2>1. log[s][l] \in Nat \ {0}
    BY <1>1
  <2> QED
    BY <1>1, <2>1 DEF Key, KeyOf, IsKeyOf
<1>3. sweep' \in Sweep /\ sweep'.at = "next"
  <2>1. <<>> \in Seq(Key)
    OBVIOUS
  <2> QED
    BY <2>1, TurnTypes
<1>4. lastSeen'[s] = k /\ \A r \in Sessions : r # s => lastSeen'[r] = lastSeen[r]
  BY <1>1 DEF MirrorTypes
<1>5. MirrorTypes'
  <2> HIDE DEF k
  <2>1. lastSeen' = [lastSeen EXCEPT ![s] = k]
    BY DEF k
  <2> QED
    BY <1>2, <1>3, <2>1 DEF MirrorTypes
<1>6. KeysAreOfMessages'
  <2> HIDE DEF s, k
  <2> QED
    BY <1>2, <1>3, <1>4 DEF KeysAreOfMessages, IsKeyOf
<1>7. FreshFollows'
  BY <1>3 DEF FreshFollows
<1>8. ShownIsSeen'
  <2> SUFFICES ASSUME NEW c \in Chats, NEW r \in Sessions, Ungrown(r)',
                      NEW n \in 1..Len(screen[c][r])
               PROVE  /\ screen[c][r][n].id \in 1..Len(log[r])
                      /\ lastSeen'[r] # None => Within(screen[c][r][n], lastSeen'[r])
    BY DEF ShownIsSeen
  <2>1. /\ screen[c][r][n].id \in 1..Len(log[r])
        /\ lastSeen[r] # None => Within(screen[c][r][n], lastSeen[r])
    BY DEF ShownIsSeen, Ungrown
  <2>2. CASE r = s
    BY <1>1, <1>2, <1>4, <2>1, <2>2 DEF Within
  <2>3. CASE r # s
    BY <1>4, <2>1, <2>3
  <2> QED
    BY <2>2, <2>3
<1>9. Increasing'
  BY DEF Increasing, Ungrown
<1> QED
  BY <1>5, <1>6, <1>7, <1>8, <1>9

\* A later look takes what follows the cursor.
LEMMA LaterLookInv ==
  ASSUME MInv, NEW t \in Target, lastSeen[t.session] # None,
         Turn(t, AfterLastSeen(t.session, lastSeen[t.session])),
         UNCHANGED <<log, bound, lastSeen, screen>>
  PROVE  MInv'
<1> DEFINE s == t.session
           fresh == AfterLastSeen(s, lastSeen[s])
<1> USE DEF MInv
<1>1. s \in Sessions /\ lastSeen[s] \in Key /\ IsKeyOf(lastSeen[s], s)
  BY DEF Target, MirrorTypes, KeysAreOfMessages
<1>2. /\ fresh \in Seq(Key)
      /\ \A i \in 1..Len(fresh) : IsKeyOf(fresh[i], s)
      /\ Ungrown(s) => \A i \in 1..Len(fresh) : fresh[i].id = lastSeen[s].id + i
  BY <1>1, AfterLastSeenFacts
<1>3. CASE fresh = <<>>
  BY <1>3, IdleTurnInv
<1>4. CASE fresh # <<>>
  <2> HIDE DEF fresh
  <2>1. Turn(t, fresh)
    BY DEF fresh
  <2>2. sweep' \in Sweep /\ sweep'.at = "send" /\ sweep'.target = t /\ sweep'.fresh = fresh
    BY <1>2, <1>4, <2>1, TurnTypes
  <2>3. MirrorTypes'
    BY <1>4, <2>2 DEF MirrorTypes
  <2>4. KeysAreOfMessages'
    BY <1>2, <2>2 DEF KeysAreOfMessages, IsKeyOf
  <2>5. FreshFollows'
    BY <1>2, <2>2 DEF FreshFollows, Ungrown
  <2>6. ShownIsSeen' /\ Increasing'
    BY DEF ShownIsSeen, Increasing, Ungrown
  <2> QED
    BY <2>3, <2>4, <2>5, <2>6
<1> QED
  BY <1>3, <1>4

LEMMA ReadInv ==
  ASSUME MInv, NEW t \in Target, Read(t)
  PROVE  MInv'
<1>1. UNCHANGED <<log, bound, screen>>
  BY DEF Read
<1>2. CASE log[t.session] # <<>> /\ lastSeen[t.session] = None
  BY <1>1, <1>2, FirstLookInv DEF Read
<1>3. CASE log[t.session] = <<>>
  BY <1>1, <1>3, IdleTurnInv DEF Read
<1>4. CASE log[t.session] # <<>> /\ lastSeen[t.session] # None
  BY <1>1, <1>4, LaterLookInv DEF Read
<1> QED
  BY <1>2, <1>3, <1>4

-----------------------------------------------------------------------------
(* What is shown.                                                          *)

LEMMA OneMore ==
  ASSUME NEW n \in Nat, NEW i \in Nat
  PROVE  n + (i + 1) = (n + 1) + i
  OBVIOUS

\* The message to be sent to t is one of the session s, and follows the cursor.
NextFits(t, s, key) ==
    /\ t \in Target /\ t.chat \in Chats /\ s \in Sessions
    /\ key \in Key /\ key # None /\ key.id \in Nat /\ IsKeyOf(key, s)
    /\ Tail(sweep.fresh) \in Seq(Key)
    /\ \A i \in 1..Len(Tail(sweep.fresh)) : IsKeyOf(Tail(sweep.fresh)[i], s)
    /\ Ungrown(s) =>
          /\ lastSeen[s] # None /\ lastSeen[s] \in Key /\ key.id = lastSeen[s].id + 1
          /\ \A i \in 1..Len(Tail(sweep.fresh)) : Tail(sweep.fresh)[i].id = key.id + i

LEMMA NextKey ==
  ASSUME MInv, sweep.at = "send",
         NEW t, t = sweep.target, NEW s, s = t.session, NEW key, key = Head(sweep.fresh)
  PROVE  NextFits(t, s, key)
<1>1. /\ t \in Target /\ t.chat \in Chats /\ s \in Sessions
      /\ sweep.fresh \in Seq(Key) /\ sweep.fresh # <<>>
  BY DEF MInv, MirrorTypes, Target, Sweep
<1>2. /\ key = sweep.fresh[1] /\ key \in Key /\ 1 \in 1..Len(sweep.fresh)
      /\ Tail(sweep.fresh) \in Seq(Key)
      /\ \A i \in 1..Len(Tail(sweep.fresh)) :
            Tail(sweep.fresh)[i] = sweep.fresh[i + 1] /\ i + 1 \in 1..Len(sweep.fresh)
  <2>1. Tail(sweep.fresh) \in Seq(Key) /\ Len(Tail(sweep.fresh)) = Len(sweep.fresh) - 1
        /\ \A i \in 1..Len(Tail(sweep.fresh)) : Tail(sweep.fresh)[i] = sweep.fresh[i + 1]
    BY <1>1, HeadTailProperties
  <2>2. Len(sweep.fresh) \in Nat \ {0}
    BY <1>1, EmptySeq
  <2>3. key \in Key /\ key = sweep.fresh[1]
    BY <1>1
  <2>4. \A i \in 1..Len(Tail(sweep.fresh)) : i + 1 \in 1..Len(sweep.fresh)
    BY <2>1, <2>2
  <2> QED
    BY <2>1, <2>2, <2>3, <2>4
<1>3. /\ IsKeyOf(key, s) /\ key.id \in Nat /\ key # None
      /\ \A i \in 1..Len(Tail(sweep.fresh)) : IsKeyOf(Tail(sweep.fresh)[i], s)
  BY <1>1, <1>2, MirrorAssumption DEF MInv, KeysAreOfMessages, Key
<1>4. ASSUME Ungrown(s)
      PROVE  /\ lastSeen[s] # None /\ lastSeen[s] \in Key
             /\ key.id = lastSeen[s].id + 1
             /\ \A i \in 1..Len(Tail(sweep.fresh)) : Tail(sweep.fresh)[i].id = key.id + i
  <2>1. /\ lastSeen[s] # None /\ lastSeen[s] \in Key
        /\ \A i \in 1..Len(sweep.fresh) : sweep.fresh[i].id = lastSeen[s].id + i
    BY <1>1, <1>4 DEF MInv, FreshFollows, MirrorTypes
  <2>2. key.id = lastSeen[s].id + 1 /\ lastSeen[s].id \in Nat
    BY <1>2, <2>1 DEF Key
  <2>3. ASSUME NEW i \in 1..Len(Tail(sweep.fresh))
        PROVE  Tail(sweep.fresh)[i].id = key.id + i
    <3>1. i + 1 \in 1..Len(sweep.fresh) /\ Tail(sweep.fresh)[i] = sweep.fresh[i + 1] /\ i \in Nat
      BY <1>2
    <3>2. Tail(sweep.fresh)[i].id = lastSeen[s].id + (i + 1)
      BY <2>1, <3>1
    <3>3. PICK n \in Nat : n = lastSeen[s].id
      BY <2>2
    <3>4. Tail(sweep.fresh)[i].id = n + (i + 1) /\ key.id = n + 1
      BY <2>2, <3>2, <3>3, Zenon
    <3>5. n + (i + 1) = (n + 1) + i
      BY <3>1, OneMore
    <3> QED
      BY <3>4, <3>5, Zenon
  <2> QED
    BY <2>1, <2>2, <2>3
<1> QED
  BY <1>1, <1>2, <1>3, <1>4 DEF NextFits

\* The chat of the target is shown something of its session.
Shows(e) == screen' = [screen EXCEPT ![sweep.target.chat][sweep.target.session] = Append(@, e)]

\* A message, or a part of it, comes to what a chat was shown of the session:
\* nothing that is there was to come after it, or was it and had been sent.
LEMMA MoreShown ==
  ASSUME MInv, sweep.at = "send", log' = log,
         NEW e \in Shown, e.id = Head(sweep.fresh).id, Shows(e)
  PROVE  /\ screen' \in [Chats -> [Sessions -> Seq(Shown)]]
         /\ Increasing'
         /\ \A d \in Chats, r \in Sessions : \A n \in 1..Len(screen'[d][r]) :
               \/ n \in 1..Len(screen[d][r]) /\ screen'[d][r][n] = screen[d][r][n]
               \/ r = sweep.target.session /\ screen'[d][r][n] = e
<1>1. PICK key, t, c, s : /\ key = Head(sweep.fresh) /\ t = sweep.target
                          /\ c = t.chat /\ s = t.session
  OBVIOUS
<1>2. /\ c \in Chats /\ s \in Sessions /\ key \in Key /\ key.id \in Nat /\ IsKeyOf(key, s)
      /\ Ungrown(s) => /\ lastSeen[s] # None /\ lastSeen[s] \in Key
                       /\ key.id = lastSeen[s].id + 1
  <2>1. NextFits(t, s, key)
    BY <1>1, NextKey
  <2> QED
    BY <1>1, <2>1 DEF NextFits
<1>3. e \in Shown /\ e.id = key.id
  BY <1>1
<1>4. PICK shown \in Seq(Shown) : shown = screen[c][s]
  BY <1>2 DEF MInv, MirrorTypes
<1>a. screen' = [screen EXCEPT ![c][s] = Append(shown, e)]
  BY <1>1, <1>4 DEF Shows
<1>5. /\ screen'[c][s] = Append(shown, e)
      /\ \A d \in Chats, r \in Sessions : d # c \/ r # s => screen'[d][r] = screen[d][r]
  <2>1. screen[c] \in [Sessions -> Seq(Shown)] /\ \A d \in Chats : screen[d] \in [Sessions -> Seq(Shown)]
    BY <1>2 DEF MInv, MirrorTypes
  <2>2. screen'[c] = [screen[c] EXCEPT ![s] = Append(shown, e)]
        /\ \A d \in Chats : d # c => screen'[d] = screen[d]
    BY <1>2, <1>a DEF MInv, MirrorTypes
  <2> QED
    BY <1>2, <1>4, <2>1, <2>2
<1>6. screen' \in [Chats -> [Sessions -> Seq(Shown)]]
  <2>1. Append(shown, e) \in Seq(Shown)
    BY <1>3
  <2> QED
    BY <1>2, <1>a, <2>1 DEF MInv, MirrorTypes
<1>7. /\ Len(screen'[c][s]) = Len(shown) + 1 /\ Len(shown) \in Nat
      /\ screen'[c][s][Len(shown) + 1] = e
      /\ \A n \in 1..Len(shown) : screen'[c][s][n] = shown[n]
  <2>1. /\ Len(Append(shown, e)) = Len(shown) + 1 /\ Append(shown, e)[Len(shown) + 1] = e
        /\ \A n \in 1..Len(shown) : Append(shown, e)[n] = shown[n]
    BY AppendProperties
  <2>2. Len(shown) \in Nat
    BY LenProperties
  <2> QED
    BY <1>5, <2>1, <2>2
<1>8. \A d \in Chats, r \in Sessions : \A n \in 1..Len(screen'[d][r]) :
         \/ n \in 1..Len(screen[d][r]) /\ screen'[d][r][n] = screen[d][r][n]
         \/ r = s /\ screen'[d][r][n] = e
  <2> SUFFICES ASSUME NEW d \in Chats, NEW r \in Sessions, NEW n \in 1..Len(screen'[d][r])
               PROVE  \/ n \in 1..Len(screen[d][r]) /\ screen'[d][r][n] = screen[d][r][n]
                      \/ r = s /\ screen'[d][r][n] = e
    OBVIOUS
  <2>1. CASE d # c \/ r # s
    BY <1>5, <2>1
  <2>2. CASE d = c /\ r = s
    <3>1. n \in 1..Len(screen'[c][s])
      BY <2>2
    <3>2. n \in 1..Len(shown) \/ n = Len(shown) + 1
      BY <1>7, <3>1
    <3> QED
      BY <1>4, <1>7, <2>2, <3>2
  <2> QED
    BY <2>1, <2>2
<1>9. ASSUME Ungrown(s), NEW n \in 1..Len(shown) PROVE Before(shown[n], e)
  <2>1. Within(shown[n], lastSeen[s]) /\ shown[n] \in Shown
    BY <1>2, <1>4, <1>9 DEF MInv, ShownIsSeen
  <2> QED
    BY <1>2, <1>3, <1>9, <2>1 DEF Within, Before, Shown, Key
<1>10. Increasing'
  <2> SUFFICES ASSUME NEW d \in Chats, NEW r \in Sessions, Ungrown(r),
                      NEW m \in 1..Len(screen'[d][r]), NEW n \in 1..Len(screen'[d][r]), m < n
               PROVE  Before(screen'[d][r][m], screen'[d][r][n])
    BY DEF MInv, Increasing, Ungrown
  <2>1. CASE r # s \/ d # c
    BY <1>5, <2>1 DEF MInv, Increasing
  <2>2. CASE r = s /\ d = c /\ n = Len(shown) + 1
    <3>1. m \in 1..Len(shown)
      BY <1>7, <2>2
    <3> QED
      BY <1>7, <1>9, <2>2, <3>1
  <2>3. CASE r = s /\ d = c /\ n # Len(shown) + 1
    <3>1. m \in 1..Len(shown) /\ n \in 1..Len(shown)
      BY <1>7, <2>3
    <3>2. Before(shown[m], shown[n])
      BY <1>2, <1>4, <2>3, <3>1 DEF MInv, Increasing
    <3> QED
      BY <1>7, <2>3, <3>1, <3>2
  <2> QED
    BY <2>1, <2>2, <2>3
<1> QED
  BY <1>1, <1>6, <1>8, <1>10

\* A message that was sent becomes the cursor.
LEMMA ShowInv ==
  ASSUME MInv, Show
  PROVE  MInv'
<1>1. PICK t, c, s, key, e : /\ t = sweep.target /\ c = t.chat /\ s = t.session
                             /\ key = Head(sweep.fresh) /\ e = Entry(key, TRUE)
  OBVIOUS
<1>2. /\ sweep.at = "send" /\ log' = log /\ bound' = bound
      /\ Shows(e)
      /\ lastSeen' = [lastSeen EXCEPT ![s] = key]
      /\ Turn(t, Tail(sweep.fresh))
  BY <1>1 DEF Show, Shows
<1>3. /\ t \in Target /\ c \in Chats /\ s \in Sessions
      /\ key \in Key /\ key # None /\ key.id \in Nat /\ IsKeyOf(key, s)
      /\ Tail(sweep.fresh) \in Seq(Key)
      /\ \A i \in 1..Len(Tail(sweep.fresh)) : IsKeyOf(Tail(sweep.fresh)[i], s)
      /\ Ungrown(s) =>
            /\ lastSeen[s] # None /\ lastSeen[s] \in Key /\ key.id = lastSeen[s].id + 1
            /\ \A i \in 1..Len(Tail(sweep.fresh)) : Tail(sweep.fresh)[i].id = key.id + i
  <2>1. NextFits(t, s, key)
    BY <1>1, <1>2, NextKey
  <2> QED
    BY <1>1, <2>1 DEF NextFits
<1>4. /\ screen' \in [Chats -> [Sessions -> Seq(Shown)]]
      /\ Increasing'
      /\ \A d \in Chats, r \in Sessions : \A n \in 1..Len(screen'[d][r]) :
            \/ n \in 1..Len(screen[d][r]) /\ screen'[d][r][n] = screen[d][r][n]
            \/ r = s /\ screen'[d][r][n] = e
  <2>1. e \in Shown /\ e.id = key.id
    BY <1>1, <1>3 DEF Entry, Shown
  <2> QED
    BY <1>1, <1>2, <2>1, MoreShown
<1>5. /\ sweep' \in Sweep
      /\ Tail(sweep.fresh) = <<>> => sweep'.at = "next"
      /\ Tail(sweep.fresh) # <<>> => /\ sweep'.at = "send" /\ sweep'.target = t
                                     /\ sweep'.fresh = Tail(sweep.fresh)
  BY <1>2, <1>3, TurnTypes
<1>6. lastSeen'[s] = key /\ \A r \in Sessions : r # s => lastSeen'[r] = lastSeen[r]
  BY <1>2, <1>3 DEF MInv, MirrorTypes
<1>7. MirrorTypes'
  <2>1. lastSeen' \in [Sessions -> Key \cup {None}]
    BY <1>2, <1>3 DEF MInv, MirrorTypes
  <2>2. sweep'.at = "send" => sweep'.target \in Target /\ sweep'.fresh # <<>>
    BY <1>3, <1>5
  <2> QED
    BY <1>2, <1>4, <1>5, <2>1, <2>2 DEF MInv, MirrorTypes
<1>8. sweep'.at = "send" => sweep'.target.session = s /\ sweep'.fresh = Tail(sweep.fresh)
  BY <1>1, <1>5
<1>9. KeysAreOfMessages'
  <2>1. \A r \in Sessions : lastSeen'[r] # None => IsKeyOf(lastSeen'[r], r)
    BY <1>3, <1>6 DEF MInv, KeysAreOfMessages
  <2>2. sweep'.at = "send" =>
          \A i \in 1..Len(sweep'.fresh) : IsKeyOf(sweep'.fresh[i], sweep'.target.session)
    BY <1>3, <1>8
  <2> QED
    BY <1>2, <2>1, <2>2 DEF MInv, KeysAreOfMessages, IsKeyOf
<1>10. FreshFollows'
  <2> SUFFICES ASSUME sweep'.at = "send", Ungrown(sweep.target.session)'
               PROVE  /\ lastSeen'[sweep'.target.session] # None
                      /\ \A i \in 1..Len(sweep'.fresh) :
                            sweep'.fresh[i].id = lastSeen'[sweep'.target.session].id + i
    BY DEF MInv, FreshFollows
  <2>1. Ungrown(s)
    BY <1>2, <1>8 DEF Ungrown
  <2> QED
    BY <1>3, <1>6, <1>8, <2>1
<1>11. ShownIsSeen'
  <2> SUFFICES ASSUME NEW d \in Chats, NEW r \in Sessions, Ungrown(r),
                      NEW n \in 1..Len(screen'[d][r])
               PROVE  /\ screen'[d][r][n].id \in 1..Len(log[r])
                      /\ lastSeen'[r] # None => Within(screen'[d][r][n], lastSeen'[r])
    BY <1>2 DEF MInv, ShownIsSeen, Ungrown
  <2>1. CASE r = s /\ screen'[d][r][n] = e
    <3>1. e.id = key.id
      BY <1>1 DEF Entry
    <3> QED
      BY <1>3, <1>6, <2>1, <3>1 DEF IsKeyOf, Within
  <2>2. CASE n \in 1..Len(screen[d][r]) /\ screen'[d][r][n] = screen[d][r][n]
    <3>1. /\ screen[d][r][n].id \in 1..Len(log[r])
          /\ lastSeen[r] # None => Within(screen[d][r][n], lastSeen[r])
      BY <2>2 DEF MInv, ShownIsSeen
    <3>2. CASE r # s
      BY <1>6, <2>2, <3>1, <3>2
    <3>3. CASE r = s
      <4>1. /\ Within(screen[d][s][n], lastSeen[s]) /\ lastSeen[s].id \in Nat
            /\ key.id = lastSeen[s].id + 1
        BY <1>3, <3>1, <3>3 DEF Key
      <4>2. Within(screen[d][s][n], key)
        BY <3>1, <3>3, <4>1 DEF Within
      <4> QED
        BY <1>6, <2>2, <3>1, <3>3, <4>2
    <3> QED
      BY <3>2, <3>3
  <2> QED
    BY <1>4, <2>1, <2>2
<1> QED
  BY <1>4, <1>7, <1>9, <1>10, <1>11 DEF MInv

\* What could not be sent is at most the message that follows the cursor.
LEMMA ShownInPartInv ==
  ASSUME MInv, sweep.at = "send", ShownInPart, log' = log, bound' = bound,
         sweep' \in Sweep, sweep'.at # "send",
         lastSeen' \in [Sessions -> Key \cup {None}],
         \A s \in Sessions : lastSeen'[s] # None => lastSeen'[s] = lastSeen[s]
  PROVE  MInv'
<1>1. PICK t, c, s, key, e : /\ t = sweep.target /\ c = t.chat /\ s = t.session
                             /\ key = Head(sweep.fresh) /\ e = Entry(key, FALSE)
  OBVIOUS
<1>2. CASE UNCHANGED screen
  <2>1. MirrorTypes'
    BY <1>2 DEF MInv, MirrorTypes
  <2> QED
    BY <1>2, <2>1, RestsInv
<1>3. CASE Shows(e)
  <2>1. /\ s \in Sessions /\ key.id \in Nat /\ IsKeyOf(key, s)
        /\ Ungrown(s) => lastSeen[s] # None /\ key.id = lastSeen[s].id + 1
    <3>1. NextFits(t, s, key)
      BY <1>1, NextKey
    <3> QED
      BY <3>1 DEF NextFits
  <2>2. /\ screen' \in [Chats -> [Sessions -> Seq(Shown)]]
        /\ Increasing'
        /\ \A d \in Chats, r \in Sessions : \A n \in 1..Len(screen'[d][r]) :
              \/ n \in 1..Len(screen[d][r]) /\ screen'[d][r][n] = screen[d][r][n]
              \/ r = s /\ screen'[d][r][n] = e
    <3>1. e \in Shown /\ e.id = key.id
      BY <1>1, <2>1 DEF Entry, Shown
    <3>2. e \in Shown /\ e.id = Head(sweep.fresh).id /\ s = sweep.target.session
      BY <1>1, <3>1
    <3> QED
      BY <1>3, <3>2, MoreShown
  <2>3. MirrorTypes'
    BY <2>2 DEF MInv, MirrorTypes
  <2>4. KeysAreOfMessages'
    BY DEF MInv, KeysAreOfMessages, IsKeyOf
  <2>5. FreshFollows'
    BY DEF MInv, FreshFollows
  <2>6. ShownIsSeen'
    <3> SUFFICES ASSUME NEW d \in Chats, NEW r \in Sessions, Ungrown(r),
                        NEW n \in 1..Len(screen'[d][r])
                 PROVE  /\ screen'[d][r][n].id \in 1..Len(log[r])
                        /\ lastSeen'[r] # None => Within(screen'[d][r][n], lastSeen'[r])
      BY DEF MInv, ShownIsSeen, Ungrown
    <3>1. CASE r = s /\ screen'[d][r][n] = e
      <4>1. e.id = key.id /\ ~e.sent
        BY <1>1 DEF Entry
      <4> QED
        BY <2>1, <3>1, <4>1 DEF IsKeyOf, Within
    <3>2. CASE n \in 1..Len(screen[d][r]) /\ screen'[d][r][n] = screen[d][r][n]
      BY <3>2 DEF MInv, ShownIsSeen
    <3> QED
      BY <2>2, <3>1, <3>2
  <2> QED
    BY <2>2, <2>3, <2>4, <2>5, <2>6 DEF MInv
<1> QED
  BY <1>1, <1>2, <1>3 DEF ShownInPart, Shows

LEMMA ShowFailsInv ==
  ASSUME MInv, ShowFails
  PROVE  MInv'
<1>1. sweep.target \in Target /\ <<>> \in Seq(Key)
  BY DEF ShowFails, MInv, MirrorTypes
<1>2. sweep' \in Sweep /\ sweep'.at = "next"
  BY <1>1, TurnTypes DEF ShowFails
<1>3. lastSeen' = lastSeen /\ lastSeen \in [Sessions -> Key \cup {None}]
  BY DEF ShowFails, MInv, MirrorTypes
<1> QED
  BY <1>2, <1>3, ShownInPartInv DEF ShowFails

\* A bot that dies forgets the cursors.
LEMMA CrashInv ==
  ASSUME MInv, Crash
  PROVE  MInv'
<1>1. sweep' \in Sweep /\ sweep'.at = "off"
  <2>1. <<>> \in Seq(Key)
    OBVIOUS
  <2> QED
    BY <2>1 DEF Crash, Off, Sweep
<1>2. lastSeen' \in [Sessions -> Key \cup {None}] /\ \A s \in Sessions : lastSeen'[s] = None
  BY DEF Crash
<1>3. CASE UNCHANGED screen
  <2>1. MirrorTypes'
    BY <1>1, <1>2, <1>3 DEF Crash, MInv, MirrorTypes
  <2> QED
    BY <1>1, <1>2, <1>3, <2>1, RestsInv DEF Crash
<1>4. CASE sweep.at = "send" /\ ShownInPart
  BY <1>1, <1>2, <1>4, ShownInPartInv DEF Crash
<1> QED
  BY <1>3, <1>4 DEF Crash

\* Every step keeps it.
LEMMA MirrorStepInv == MInv /\ [Next]_vars => MInv'
<1> SUFFICES ASSUME MInv, [Next]_vars PROVE MInv'
  OBVIOUS
<1>1. ASSUME NEW t \in Target, ReadFails(t) PROVE MInv'
  BY <1>1, IdleTurnInv DEF ReadFails
<1>2. CASE ShowFails
  BY <1>2, ShowFailsInv
<1>3. CASE SweepStep
  BY <1>1, <1>2, <1>3, StartSweepInv, EndSweepInv, ShowInv, ReadInv DEF SweepStep
<1>4. CASE UNCHANGED vars
  BY <1>4 DEF vars, MInv, MirrorTypes, KeysAreOfMessages, IsKeyOf, FreshFollows, ShownIsSeen,
              Increasing, Ungrown
<1> QED
  BY <1>3, <1>4, WriteInv, GrowInv, RebindInv, CrashInv DEF Next

\* A chat is shown the messages of a session in their order, and one again
\* only, and next, if its sending had failed; for any chats that share sessions
\* and change them while a sweep runs, wherever Telegram refuses a message or a
\* part of it, a session cannot be read or the bot dies (mirrorSession,
\* sliceAfterLastSeen, pruneInactiveSessions).
THEOREM InOrder == Spec => []ShownInOrder
<1>1. MInv => ShownInOrder
  <2> SUFFICES ASSUME MInv, NEW c \in Chats, NEW s \in Sessions,
                      \A i \in DOMAIN log[s] : log[s][i] = 1,
                      NEW m \in DOMAIN screen[c][s], NEW n \in DOMAIN screen[c][s], m < n
               PROVE  Before(screen[c][s][m], screen[c][s][n])
    BY DEF ShownInOrder, Before
  <2>1. DOMAIN log[s] = 1..Len(log[s]) /\ DOMAIN screen[c][s] = 1..Len(screen[c][s])
    BY DEF MInv, MirrorTypes
  <2>2. Ungrown(s)
    BY <2>1 DEF Ungrown
  <2> QED
    BY <2>1, <2>2 DEF MInv, Increasing
<1> QED
  BY <1>1, MirrorInitInv, MirrorStepInv, PTL DEF Spec
=============================================================================
