---------------------------- MODULE PeerGossipProofs ----------------------------
(***************************************************************************)
(* Proofs about the peer tables: for every constitution, every choice of   *)
(* bootnodes, and any nodes that join and move.                            *)
(***************************************************************************)
EXTENDS PeerGossip, TLAPS

Tables == [Nodes -> Addresses \cup {None}]

LEMMA AddressIsNone == None \notin Addresses /\ 0 \in Addresses
BY PeerGossipAssumption DEF Addresses

LEMMA TypeInit == ASSUME Init PROVE TypeOK
<1>1. 0 \in Addresses /\ None \notin Addresses
  BY AddressIsNone
<1>2. peers \in [Nodes -> Tables] /\ \A n \in Nodes : peers[n][n] # None
  BY <1>1 DEF Init, Alone, Tables
<1>3. QED
  BY <1>1, <1>2 DEF Init, TypeOK, Tables

\* The requests of a round are well-formed.
LEMMA RequestsType ==
    ASSUME TypeOK, NEW n \in Nodes
    PROVE  Requests(n) \subseteq Joins
<1>1. address[n] \in Addresses /\ Boot[n] \subseteq Nodes
  BY PeerGossipAssumption DEF TypeOK, Nodes
<1>2. QED
  BY <1>1 DEF Requests, Joins

LEMMA StartType == ASSUME TypeOK, NEW n \in Nodes, Start(n) PROVE TypeOK'
<1>1. Requests(n) \subseteq Joins
  BY RequestsType
<1>2. Boot[n] \subseteq Constitution /\ Boot[n] \subseteq Nodes
  BY PeerGossipAssumption DEF Nodes
<1>3. address[n] \in Addresses /\ address[n] # None
  BY AddressIsNone DEF TypeOK
<1>4. Alone(n) \in Tables /\ Alone(n)[n] # None
  BY <1>3 DEF Alone, Tables
<1>5. peers' \in [Nodes -> Tables] /\ \A x \in Nodes : peers'[x][x] # None
  BY <1>4 DEF Start, TypeOK, Tables
<1>6. keys' \in [Nodes -> SUBSET Nodes]
  <2>1. keys[n] \cup Boot[n] \cup (IF n \in Constitution THEN {n} ELSE {}) \in SUBSET Nodes
    BY <1>2 DEF TypeOK
  <2>2. QED
    BY <2>1 DEF Start, TypeOK
<1>7. waiting' \in [Nodes -> SUBSET Constitution] /\ \A x \in Nodes : waiting'[x] \subseteq Boot[x]
  BY <1>2 DEF Start, TypeOK
<1>8. joins' \subseteq Joins
  BY <1>1 DEF Start, TypeOK
<1>9. status' \in [Nodes -> {"off", "joining", "up"}] /\ UNCHANGED << address, got, pending, missed >>
  BY DEF Start, TypeOK
<1>10. QED
  BY <1>5, <1>6, <1>7, <1>8, <1>9 DEF TypeOK, Tables

LEMMA TimeoutType == ASSUME TypeOK, NEW n \in Nodes, NEW b \in Boot[n], Timeout(n, b) PROVE TypeOK'
BY DEF Timeout, TypeOK

LEMMA EndRoundType == ASSUME TypeOK, NEW n \in Nodes, EndRound(n) PROVE TypeOK'
<1>1. PICK table \in Merges(n) :
        /\ peers' = [peers EXCEPT ![n] = table]
        /\ IF \A v \in Sought(n) : table[v] # None
           THEN /\ status' = [status EXCEPT ![n] = "up"] /\ keys' = [keys EXCEPT ![n] = Nodes]
                /\ UNCHANGED << waiting, joins >>
           ELSE /\ waiting' = [waiting EXCEPT ![n] = Boot[n]] /\ joins' = joins \cup Requests(n)
                /\ UNCHANGED << status, keys >>
  BY DEF EndRound
<1>2. table \in Tables /\ (peers[n][n] # None => table[n] = peers[n][n])
  BY <1>1 DEF Merges, Tables
<1>3. peers' \in [Nodes -> Tables] /\ \A x \in Nodes : peers'[x][x] # None
  BY <1>1, <1>2 DEF TypeOK, Tables
<1>4. joins' \subseteq Joins
  BY <1>1, RequestsType DEF TypeOK
<1>5. waiting' \in [Nodes -> SUBSET Constitution] /\ \A x \in Nodes : waiting'[x] \subseteq Boot[x]
  <2>1. Boot[n] \in SUBSET Constitution
    BY PeerGossipAssumption
  <2>2. CASE UNCHANGED waiting
    BY <2>2 DEF TypeOK
  <2>3. CASE waiting' = [waiting EXCEPT ![n] = Boot[n]]
    BY <2>1, <2>3 DEF TypeOK
  <2>4. QED
    BY <1>1, <2>2, <2>3
<1>6. status' \in [Nodes -> {"off", "joining", "up"}] /\ keys' \in [Nodes -> SUBSET Nodes]
  <2>1. CASE UNCHANGED << status, keys >>
    BY <2>1 DEF TypeOK
  <2>2. CASE status' = [status EXCEPT ![n] = "up"] /\ keys' = [keys EXCEPT ![n] = Nodes]
    BY <2>2 DEF TypeOK
  <2>3. QED
    BY <1>1, <2>1, <2>2
<1>7. got' \in [Nodes -> SUBSET Entries] /\ UNCHANGED << address, pending, missed >>
  BY DEF EndRound, TypeOK
<1>8. QED
  BY <1>3, <1>4, <1>5, <1>6, <1>7 DEF TypeOK, Tables

LEMMA MoveType == ASSUME TypeOK, NEW n \in Nodes, Move(n) PROVE TypeOK'
<1>1. address' \in [Nodes -> Addresses]
  <2>1. address[n] + 1 \in Addresses
    BY PeerGossipAssumption DEF Move, TypeOK, Addresses
  <2>2. QED
    BY <2>1 DEF Move, TypeOK
<1>2. missed' \subseteq Nodes
  <2>1. \A m \in joins \cup pending : m.vk \in Nodes
    BY DEF TypeOK, Joins
  <2>2. QED
    BY <2>1 DEF Move, TypeOK
<1>3. status' \in [Nodes -> {"off", "joining", "up"}]
  BY DEF Move, TypeOK
<1>4. joins' \subseteq Joins /\ pending' \subseteq Joins
  BY DEF Move, TypeOK
<1>5. QED
  BY <1>1, <1>2, <1>3, <1>4 DEF Move, TypeOK

LEMMA UpdateSocketsType == ASSUME TypeOK, NEW n \in Nodes, UpdateSockets(n) PROVE TypeOK'
<1>1. Adviser \in Nodes
  BY PeerGossipAssumption DEF Nodes
<1>2. PICK table : table = [v \in Nodes |-> IF peers[Adviser][v] # None THEN peers[Adviser][v] ELSE peers[n][v]]
  OBVIOUS
<1>3. table \in Tables /\ table[n] # None
  BY <1>1, <1>2 DEF TypeOK, Tables
<1>4. peers' = [peers EXCEPT ![n] = table]
  BY <1>2 DEF UpdateSockets
<1>5. peers' \in [Nodes -> Tables] /\ \A x \in Nodes : peers'[x][x] # None
  BY <1>3, <1>4 DEF TypeOK, Tables
<1>6. missed' \subseteq Nodes
  BY DEF UpdateSockets, TypeOK, Overtaken
<1>7. QED
  BY <1>5, <1>6 DEF UpdateSockets, TypeOK, Tables

\* What a message says.
LEMMA MessageType ==
    ASSUME NEW m \in Joins
    PROVE  m.to \in Nodes /\ m.vk \in Nodes /\ m.ip \in Addresses /\ m.asker \in Nodes \cup {None}
BY DEF Joins

LEMMA WriteType ==
    ASSUME TypeOK, NEW m \in Joins, Write(m), joins' \subseteq Joins, pending' \subseteq Joins
    PROVE  TypeOK'
<1>1. m.to \in Nodes /\ m.vk \in Nodes /\ m.ip \in Addresses /\ m.ip # None
  BY MessageType, AddressIsNone
<1>2. PICK table : table = [peers[m.to] EXCEPT ![m.vk] = m.ip]
  OBVIOUS
<1>3. table \in Tables /\ table[m.to] # None
  BY <1>1, <1>2 DEF TypeOK, Tables
<1>4. peers' = [peers EXCEPT ![m.to] = table]
  BY <1>2 DEF Write
<1>5. peers' \in [Nodes -> Tables] /\ \A x \in Nodes : peers'[x][x] # None
  BY <1>1, <1>3, <1>4 DEF TypeOK, Tables
<1>6. missed' \subseteq Nodes
  BY <1>1 DEF Write, TypeOK
<1>7. /\ waiting' \in [Nodes -> SUBSET Constitution] /\ \A x \in Nodes : waiting'[x] \subseteq Boot[x]
      /\ got' \in [Nodes -> SUBSET Entries]
  <2>1. CASE UNCHANGED << waiting, got >>
    BY <2>1 DEF TypeOK
  <2>2. CASE /\ waiting' = [waiting EXCEPT ![m.asker] = @ \ {m.to}]
             /\ got' = [got EXCEPT ![m.asker] = @ \cup {e \in Entries : table[e[1]] = e[2]}]
    BY <2>2 DEF TypeOK
  <2>3. QED
    BY <1>2, <2>1, <2>2 DEF Write
<1>8. UNCHANGED << status, address, keys >>
  BY DEF Write
<1>9. QED
  BY <1>5, <1>6, <1>7, <1>8 DEF TypeOK, Tables

LEMMA HandleType == ASSUME TypeOK, NEW m \in joins \cup pending, Handle(m) PROVE TypeOK'
<1>1. m \in Joins /\ m.to \in Nodes /\ m.vk \in Nodes /\ m.ip \in Addresses
  BY MessageType DEF TypeOK
<1>2. CASE Refuse(m)
  BY <1>1, <1>2 DEF Refuse, TypeOK
<1>3. CASE Forward(m)
  <2>1. PICK nodes \in SUBSET Reached(m.to), told \in SUBSET Nodes :
          /\ joins' = (joins \ {m}) \cup Forwards(nodes, m)
          /\ missed' = missed \cup Crossing(m.to, m) \cup (IF nodes # told THEN {m.vk} ELSE {})
    BY <1>1, <1>3 DEF Forward
  <2>2. nodes \subseteq Nodes
    BY <1>1, <2>1 DEF Reached, TypeOK
  <2>3. Forwards(nodes, m) \subseteq Joins
    BY <1>1, <2>2 DEF Forwards, Joins
  <2>4. Crossing(m.to, m) \subseteq Nodes
    BY <1>1, MessageType DEF Crossing, TypeOK
  <2>5. joins' \subseteq Joins /\ missed' \subseteq Nodes
    BY <1>1, <2>1, <2>3, <2>4 DEF TypeOK
  <2>6. QED
    BY <1>1, <1>3, <2>5 DEF Forward, TypeOK
<1>4. CASE Forwarded(m)
  BY <1>1, <1>4, WriteType DEF Forwarded, TypeOK
<1>5. CASE Known(m)
  BY <1>1, <1>5, WriteType DEF Known, TypeOK
<1>6. QED
  BY <1>2, <1>3, <1>4, <1>5 DEF Handle

LEMMA TypeStep == ASSUME TypeOK, [Next]_vars PROVE TypeOK'
<1>1. CASE UNCHANGED vars
  BY <1>1 DEF vars, TypeOK
<1>2. CASE Next
  BY <1>2, StartType, EndRoundType, MoveType, UpdateSocketsType, TimeoutType, HandleType DEF Next
<1>3. QED
  BY <1>1, <1>2

\* Every variable keeps its type, and a node always knows its own address, or what
\* others take for it.
THEOREM TypeCorrect == Spec => []TypeOK
BY TypeInit, TypeStep, PTL DEF Spec

----------------------------------------------------------------------------
(* The strengthening that makes KnownUnlessMissed inductive, where the nodes of *)
(* the constitution do not move.                                                *)

Messages == joins \cup pending
Current(m) == m.ip = address[m.vk]

\* Only the asker's own bootnodes are asked, about itself.
RequestsOwn == \A m \in Messages : m.asker # None => m.asker = m.vk /\ m.to \in Boot[m.vk]

\* No address is from the future, and the constitution has its first ones.
Genuine ==
    /\ \A m \in Messages : m.ip <= address[m.vk]
    /\ \A w, v \in Nodes : peers[w][v] # None => peers[w][v] <= address[v]
    /\ \A w \in Nodes : \A e \in got[w] : e[2] <= address[e[1]]
    /\ \A c \in Constitution : address[c] = 0

\* Where nodes are in their start, and what they know then.
Stages ==
    /\ \A n \in Nodes : status[n] # "joining" => got[n] = {} /\ waiting[n] = {}
    /\ \A n \in Nodes : status[n] = "up" => \A c \in Sought(n) : peers[n][c] # None
    /\ \A n \in Joiners : status[n] # "off" => \A b \in Boot[n] : status[b] = "up"
    /\ \A c \in Constitution : status[c] # "up" => keys[c] \subseteq Constitution
    /\ \A m \in Messages : status[m.to] # "off"

\* Traces of a node of the constitution show that it has started.
Started ==
    \A c \in Constitution : status[c] = "off" =>
        /\ \A m \in Messages : m.vk # c
        /\ \A w \in Nodes \ {c} : peers[w][c] = None
        /\ \A w \in Nodes : \A e \in got[w] : e[1] # c

\* Nodes of the constitution learn of joiners when they come up, not before; and
\* joiners learn of the constitution by answers only.
FirstTheConstitution ==
    /\ \A c \in Constitution, n \in Joiners : status[c] # "up" =>
         peers[c][n] = None /\ \A m \in pending : ~ (m.to = c /\ m.vk = n)
    /\ \A c \in Constitution : (\E e \in got[c] : e[1] \in Joiners) =>
         \A d \in Constitution : \E e \in got[c] : e[1] = d
    /\ \A m \in Messages : m.vk \in Constitution => m.to \in Constitution

\* A message that passes on what its receiver, or another, has taken up.
Passed(m) == m \in pending \/ m.asker = None

\* Signs that v's bootnode has taken up its request.
Out(v) ==
    \/ \E w \in Nodes \ {v} : peers[w][v] = address[v]
    \/ \E m \in Messages : m.vk = v /\ Current(m) /\ Passed(m)
    \/ \E w \in Nodes : << v, address[v] >> \in got[w]
    \/ \E m \in Messages : m.to = v
    \/ status[v] # "off" /\ \E x \in Nodes \ {v} : peers[v][x] # None
    \/ got[v] # {}

\* w has dealt with the news of v, or it is on its way to w.
Dealt(w, v) == peers[w][v] = address[v] \/ \E m \in pending : m.to = w /\ m.vk = v /\ Current(m)
Due(w, v) ==
    peers[w][v] = address[v] \/ \E m \in Messages : m.to = w /\ m.vk = v /\ Current(m) /\ Passed(m)

\* b has heard of n, of whatever address.
HeardOf(b, n) == peers[b][n] # None \/ \E m \in pending : m.to = b /\ m.vk = n

\* Nothing is out of who is off; what is out, is or will be with the constitution.
OutToAll ==
    \A v \in Joiners :
        /\ status[v] = "off" => ~ Out(v) /\ \A m \in Messages : m.vk = v => ~ Current(m)
        /\ Out(v) => \A b \in Boot[v] : HeardOf(b, v)
        /\ Out(v) /\ v \notin missed => \A w \in Constitution : Due(w, v)

\* Unless its table has been overwritten, a node knows its own address.
KnowsItself == \A n \in Nodes : status[n] # "off" => peers[n][n] = address[n] \/ n \in missed

\* n has an old address of v, or is about to take one.
Stale(n, v) ==
    peers[n][v] \notin {None, address[v]} \/ \E e \in got[n] : e[1] = v /\ e[2] # address[v]

Answered(n) == got[n] # {} \/ \E c \in Constitution : peers[n][c] # None

\* What n's bootnode has dealt with, n has or gets, if it could have missed it.
\* (Of a node that has not moved, n goes on asking for the address.)
BootnodeTells(n, v, b) ==
    /\ (\E m \in pending : m.to = b /\ m.vk = v /\ Current(m)) /\ Out(n) => Due(n, v)
    /\ Dealt(b, v) /\ Stale(n, v) => Due(n, v)
    /\ Dealt(b, v) /\ Answered(n) =>
         Due(n, v) \/ (<< v, address[v] >> \in got[n] /\ peers[n][v] = None)

BootnodesTell ==
    \A n, v \in Joiners : n # v /\ v \notin missed /\ address[v] # 0 /\ status[n] # "off" =>
        \A b \in Boot[n] : BootnodeTells(n, v, b)

IInv ==
    /\ TypeOK /\ RequestsOwn /\ Genuine /\ Stages /\ Started /\ FirstTheConstitution
    /\ OutToAll /\ KnowsItself /\ BootnodesTell

----------------------------------------------------------------------------
(* What a step may do to each part of the state. *)

Writes(m) == Known(m) \/ Forwarded(m)

LEMMA StatusStep ==
    ASSUME TypeOK, Next, NEW n \in Nodes, status'[n] # status[n]
    PROVE  \/ Start(n) /\ status[n] = "off" /\ status'[n] = "joining"
           \/ EndRound(n) /\ status[n] = "joining" /\ status'[n] = "up"
           \/ Move(n) /\ status[n] = "up" /\ status'[n] = "off"
<1>1. CASE \E x \in Nodes : Start(x)
  <2>1. PICK x \in Nodes : Start(x)
    BY <1>1
  <2>2. status[x] = "off" /\ status' = [status EXCEPT ![x] = "joining"]
    BY <2>1 DEF Start
  <2>3. x = n /\ status'[n] = "joining"
    BY <2>2 DEF TypeOK
  <2>4. QED
    BY <2>1, <2>2, <2>3
<1>2. CASE \E x \in Nodes : EndRound(x)
  <2>1. PICK x \in Nodes : EndRound(x)
    BY <1>2
  <2>2. /\ status[x] = "joining"
        /\ status' = [status EXCEPT ![x] = "up"] \/ UNCHANGED status
    BY <2>1 DEF EndRound
  <2>3. QED
    BY <2>1, <2>2 DEF TypeOK
<1>3. CASE \E x \in Nodes : Move(x)
  <2>1. PICK x \in Nodes : Move(x)
    BY <1>3
  <2>2. status[x] = "up" /\ status' = [status EXCEPT ![x] = "off"]
    BY <2>1 DEF Move
  <2>3. x = n /\ status'[n] = "off"
    BY <2>2 DEF TypeOK
  <2>4. QED
    BY <2>1, <2>2, <2>3
<1>4. CASE \/ \E x \in Nodes : UpdateSockets(x) \/ \E b \in Boot[x] : Timeout(x, b)
           \/ \E m \in Messages : Handle(m)
  BY <1>4 DEF UpdateSockets, Timeout, Handle, Refuse, Forward, Known, Forwarded, Write
<1>5. QED
  BY <1>1, <1>2, <1>3, <1>4 DEF Next, Messages

LEMMA AddressStep ==
    ASSUME TypeOK, Next, NEW n \in Nodes
    PROVE  address'[n] = address[n] \/ (Move(n) /\ address'[n] = address[n] + 1)
<1>1. CASE \E x \in Nodes : Move(x)
  <2>1. PICK x \in Nodes : Move(x)
    BY <1>1
  <2>2. address' = [address EXCEPT ![x] = @ + 1]
    BY <2>1 DEF Move
  <2>3. address'[n] = address[n] \/ (x = n /\ address'[n] = address[n] + 1)
    BY <2>2 DEF TypeOK
  <2>4. QED
    BY <2>1, <2>3
<1>2. CASE UNCHANGED address
  BY <1>2
<1>3. QED
  BY <1>1, <1>2 DEF Next, Start, EndRound, UpdateSockets, Timeout, Handle, Refuse, Forward, Known, Forwarded, Write

\* Keys and the history only grow.
LEMMA GrowStep ==
    ASSUME TypeOK, Next
    PROVE  missed \subseteq missed' /\ \A n \in Nodes : keys[n] \subseteq keys'[n]
<1>1. CASE \E x \in Nodes : Start(x)
  BY <1>1 DEF Start, TypeOK
<1>2. CASE \E x \in Nodes : EndRound(x)
  <2>1. PICK x \in Nodes : EndRound(x)
    BY <1>2
  <2>2. UNCHANGED missed /\ (keys' = [keys EXCEPT ![x] = Nodes] \/ UNCHANGED keys)
    BY <2>1 DEF EndRound
  <2>3. QED
    BY <2>2 DEF TypeOK
<1>3. CASE \E x \in Nodes : Move(x) \/ UpdateSockets(x) \/ \E b \in Boot[x] : Timeout(x, b)
  BY <1>3 DEF Move, UpdateSockets, Timeout
<1>4. CASE \E m \in Messages : Handle(m)
  BY <1>4 DEF Handle, Refuse, Forward, Known, Forwarded, Write
<1>5. QED
  BY <1>1, <1>2, <1>3, <1>4 DEF Next, Messages

\* A new message is a request or a forward.
LEMMA MessagesStep ==
    ASSUME TypeOK, Next, NEW m \in Messages', m \notin Messages
    PROVE  \/ \E n \in Nodes : (Start(n) \/ EndRound(n)) /\ m \in Requests(n)
           \/ \E k \in joins : Forward(k) /\ m \in Forwards(Reached(k.to), k)
<1>1. CASE \E n \in Nodes : Start(n)
  BY <1>1 DEF Start, Messages
<1>2. CASE \E n \in Nodes : EndRound(n)
  <2>1. PICK n \in Nodes : EndRound(n)
    BY <1>2
  <2>2. UNCHANGED pending /\ (joins' = joins \cup Requests(n) \/ UNCHANGED joins)
    BY <2>1 DEF EndRound
  <2>3. QED
    BY <2>1, <2>2 DEF Messages
<1>3. CASE \E n \in Nodes : Move(n) \/ UpdateSockets(n) \/ \E b \in Boot[n] : Timeout(n, b)
  BY <1>3 DEF Move, UpdateSockets, Timeout, Messages
<1>4. CASE \E k \in Messages : Forward(k)
  <2>1. PICK k \in joins : Forward(k)
    BY <1>4 DEF Forward
  <2>2. PICK nodes \in SUBSET Reached(k.to) : joins' = (joins \ {k}) \cup Forwards(nodes, k)
    BY <2>1 DEF Forward
  <2>3. pending' = pending \cup {k}
    BY <2>1 DEF Forward
  <2>4. m \in Forwards(nodes, k)
    BY <2>2, <2>3 DEF Messages
  <2>5. m \in Forwards(Reached(k.to), k)
    BY <2>2, <2>4 DEF Forwards
  <2>6. QED
    BY <2>1, <2>5
<1>5. CASE \E k \in Messages : Refuse(k) \/ Known(k) \/ Forwarded(k)
  BY <1>5 DEF Refuse, Known, Forwarded, Messages
<1>6. QED
  BY <1>1, <1>2, <1>3, <1>4, <1>5 DEF Next, Messages, Handle

\* A new handler has taken up a message.
LEMMA PendingStep ==
    ASSUME TypeOK, Next, NEW m \in pending', m \notin pending
    PROVE  m \in joins /\ Forward(m)
<1>1. CASE \E n \in Nodes : EndRound(n)
  BY <1>1 DEF EndRound
<1>2. CASE \E n \in Nodes : Start(n) \/ Move(n) \/ UpdateSockets(n) \/ \E b \in Boot[n] : Timeout(n, b)
  BY <1>2 DEF Start, Move, UpdateSockets, Timeout
<1>3. CASE \E k \in Messages : Forward(k)
  BY <1>3 DEF Forward
<1>4. CASE \E k \in Messages : Refuse(k) \/ Known(k) \/ Forwarded(k)
  BY <1>4 DEF Refuse, Known, Forwarded
<1>5. QED
  BY <1>1, <1>2, <1>3, <1>4 DEF Next, Messages, Handle

\* An entry of a table comes from an answer, from the adviser, or from a message.
LEMMA PeersStep ==
    ASSUME TypeOK, Next, NEW w \in Nodes, NEW v \in Nodes, peers'[w][v] # peers[w][v]
    PROVE  \/ Start(w) /\ peers'[w] = Alone(w)
           \/ EndRound(w) /\ peers[w][v] = None /\ << v, peers'[w][v] >> \in got[w]
           \/ UpdateSockets(w) /\ peers'[w][v] = peers[Adviser][v] /\ peers[Adviser][v] # None
           \/ \E m \in Messages : Writes(m) /\ m.to = w /\ m.vk = v /\ peers'[w][v] = m.ip
<1>1. CASE \E n \in Nodes : Start(n)
  <2>1. PICK n \in Nodes : Start(n)
    BY <1>1
  <2>2. peers' = [peers EXCEPT ![n] = Alone(n)]
    BY <2>1 DEF Start
  <2>3. n = w /\ peers'[w] = Alone(w)
    BY <2>2 DEF TypeOK
  <2>4. QED
    BY <2>1, <2>3
<1>2. CASE \E n \in Nodes : EndRound(n)
  <2>1. PICK n \in Nodes : EndRound(n)
    BY <1>2
  <2>2. PICK table \in Merges(n) : peers' = [peers EXCEPT ![n] = table]
    BY <2>1 DEF EndRound
  <2>3. n = w /\ peers'[w] = table
    BY <2>2 DEF TypeOK
  <2>4. peers[w][v] = None /\ \E e \in got[w] : e[1] = v /\ e[2] = table[v]
    BY <2>2, <2>3 DEF Merges
  <2>5. << v, table[v] >> \in got[w]
    <3>1. PICK e \in got[w] : e[1] = v /\ e[2] = table[v]
      BY <2>4
    <3>2. e = << e[1], e[2] >>
      BY DEF TypeOK, Entries
    <3>3. QED
      BY <3>1, <3>2
  <2>6. QED
    BY <2>1, <2>3, <2>4, <2>5
<1>3. CASE \E n \in Nodes : UpdateSockets(n)
  <2>1. PICK n \in Nodes : UpdateSockets(n)
    BY <1>3
  <2>2. peers' = [peers EXCEPT ![n] =
                   [x \in Nodes |-> IF peers[Adviser][x] # None THEN peers[Adviser][x] ELSE @[x]]]
    BY <2>1 DEF UpdateSockets
  <2>3. n = w /\ peers'[w][v] = IF peers[Adviser][v] # None THEN peers[Adviser][v] ELSE peers[w][v]
    BY <2>2 DEF TypeOK
  <2>4. QED
    BY <2>1, <2>3
<1>4. CASE \E m \in Messages : Writes(m)
  <2>1. PICK m \in Messages : Writes(m)
    BY <1>4
  <2>2. m.to \in Nodes /\ m.vk \in Nodes
    BY MessageType DEF TypeOK, Messages
  <2>3. PICK table : table = [peers[m.to] EXCEPT ![m.vk] = m.ip]
    OBVIOUS
  <2>4. peers' = [peers EXCEPT ![m.to] = table]
    BY <2>1, <2>3 DEF Writes, Known, Forwarded, Write
  <2>5. m.to = w /\ peers'[w] = table
    BY <2>2, <2>4 DEF TypeOK
  <2>6. m.vk = v /\ table[v] = m.ip
    BY <2>2, <2>3, <2>5 DEF TypeOK
  <2>7. QED
    BY <2>1, <2>5, <2>6
<1>5. CASE \/ \E n \in Nodes : Move(n) \/ \E b \in Boot[n] : Timeout(n, b)
           \/ \E m \in Messages : Refuse(m) \/ Forward(m)
  BY <1>5 DEF Move, Timeout, Refuse, Forward
<1>6. QED
  BY <1>1, <1>2, <1>3, <1>4, <1>5 DEF Next, Messages, Handle, Writes

\* An entry of an answer is one of the table of the node that gave it, then.
LEMMA GotStep ==
    ASSUME TypeOK, Next, NEW w \in Nodes, NEW e \in got'[w], e \notin got[w]
    PROVE  \E m \in Messages :
             /\ Writes(m) /\ m.asker = w /\ m.to \in waiting[w] /\ m.ip = address[w]
             /\ got'[w] = got[w] \cup {d \in Entries : peers'[m.to][d[1]] = d[2]}
             /\ e \in Entries /\ peers'[m.to][e[1]] = e[2]
<1>1. CASE \E n \in Nodes : EndRound(n)
  BY <1>1 DEF EndRound, TypeOK
<1>2. CASE \E n \in Nodes : Start(n) \/ Move(n) \/ UpdateSockets(n) \/ \E b \in Boot[n] : Timeout(n, b)
  BY <1>2 DEF Start, Move, UpdateSockets, Timeout
<1>3. CASE \E m \in Messages : Refuse(m) \/ Forward(m)
  BY <1>3 DEF Refuse, Forward
<1>4. CASE \E m \in Messages : Writes(m)
  <2>1. PICK m \in Messages : Writes(m)
    BY <1>4
  <2>2. m.to \in Nodes
    BY MessageType DEF TypeOK, Messages
  <2>3. Write(m)
    BY <2>1 DEF Writes, Known, Forwarded
  <2>4. PICK table : table = [peers[m.to] EXCEPT ![m.vk] = m.ip]
    OBVIOUS
  <2>5. peers'[m.to] = table
    BY <2>2, <2>3, <2>4 DEF Write, TypeOK
  <2>6. /\ m.asker # None /\ m.to \in waiting[m.asker] /\ m.ip = address[m.asker]
        /\ got' = [got EXCEPT ![m.asker] = @ \cup {d \in Entries : table[d[1]] = d[2]}]
    BY <2>3, <2>4 DEF Write
  <2>7. m.asker = w /\ got'[w] = got[w] \cup {d \in Entries : table[d[1]] = d[2]}
    BY <2>6 DEF TypeOK
  <2>8. QED
    BY <2>1, <2>5, <2>6, <2>7
<1>5. QED
  BY <1>1, <1>2, <1>3, <1>4 DEF Next, Messages, Handle, Writes

\* Answers are kept until the round ends.
LEMMA GotKept ==
    ASSUME TypeOK, Next, NEW n \in Nodes, ~ EndRound(n)
    PROVE  got[n] \subseteq got'[n]
<1>1. CASE \E x \in Nodes : EndRound(x)
  <2>1. PICK x \in Nodes : EndRound(x)
    BY <1>1
  <2>2. x # n /\ got' = [got EXCEPT ![x] = {}]
    BY <2>1 DEF EndRound
  <2>3. QED
    BY <2>2 DEF TypeOK
<1>2. CASE \E m \in Messages : Writes(m)
  <2>1. PICK m \in Messages : Write(m)
    BY <1>2 DEF Writes, Known, Forwarded
  <2>2. UNCHANGED got \/ \E d \in SUBSET Entries : got' = [got EXCEPT ![m.asker] = @ \cup d]
    BY <2>1 DEF Write
  <2>3. QED
    BY <2>2 DEF TypeOK
<1>3. CASE UNCHANGED got
  BY <1>3
<1>4. QED
  BY <1>1, <1>2, <1>3 DEF Next, Messages, Handle, Writes, Start, Move, UpdateSockets, Timeout, Refuse, Forward

\* A message is given up by a node that does not wait, and taken by one that ends.
LEMMA MessageKept ==
    ASSUME TypeOK, Next, NEW m \in Messages, m.asker = None \/ m \in pending
    PROVE  \/ m \in Messages' /\ (m.asker = None \/ m \in pending')
           \/ Move(m.to) \/ Refuse(m) \/ Writes(m)
<1>1. m \in Joins
  BY DEF TypeOK, Messages
<1>2. None \notin Nodes
  BY PeerGossipAssumption
<1>3. CASE \E n \in Nodes : EndRound(n)
  <2>1. joins \subseteq joins' /\ UNCHANGED pending
    BY <1>3 DEF EndRound
  <2>2. QED
    BY <2>1 DEF Messages
<1>4. CASE \E n \in Nodes : Start(n) \/ UpdateSockets(n)
  BY <1>4 DEF Start, UpdateSockets, Messages
<1>5. CASE \E n \in Nodes : \E b \in Boot[n] : Timeout(n, b)
  BY <1>2, <1>5 DEF Timeout, Messages
<1>6. CASE \E n \in Nodes : Move(n)
  BY <1>6 DEF Move, Messages
<1>7. CASE \E k \in Messages : Forward(k)
  BY <1>7 DEF Forward, Messages
<1>8. CASE \E k \in Messages : Refuse(k) \/ Writes(k)
  <2>1. PICK k \in Messages : Refuse(k) \/ Writes(k)
    BY <1>8
  <2>2. \/ joins' = joins \ {k} /\ UNCHANGED pending
        \/ pending' = pending \ {k} /\ UNCHANGED joins
    BY <2>1 DEF Refuse, Writes, Known, Forwarded
  <2>3. QED
    BY <2>1, <2>2 DEF Messages
<1>9. QED
  BY <1>3, <1>4, <1>5, <1>6, <1>7, <1>8 DEF Next, Messages, Handle, Writes

----------------------------------------------------------------------------
(* The parts of the strengthening, one by one. *)

LEMMA IInit == ASSUME Init PROVE IInv
<1>1. TypeOK
  BY TypeInit
<1>2. /\ joins = {} /\ pending = {} /\ \A n \in Nodes : status[n] = "off" /\ address[n] = 0
      /\ \A n \in Nodes : keys[n] = {} /\ got[n] = {} /\ waiting[n] = {}
  BY DEF Init
<1>3. \A n, v \in Nodes : peers[n][v] = IF v = n THEN 0 ELSE None
  BY <1>2 DEF Init, Alone
<1>4. None # 0 /\ Constitution \subseteq Nodes /\ Joiners \subseteq Nodes /\ Constitution \cap Joiners = {}
  BY PeerGossipAssumption, AddressIsNone DEF Nodes
<1>5. RequestsOwn /\ Genuine /\ Stages
  BY <1>2, <1>3, <1>4 DEF RequestsOwn, Genuine, Stages, Messages
<1>6. Started /\ FirstTheConstitution
  BY <1>2, <1>3, <1>4 DEF Started, FirstTheConstitution, Messages
<1>7. \A v \in Joiners : ~ Out(v)
  BY <1>2, <1>3, <1>4 DEF Out, Messages
<1>8. OutToAll /\ KnowsItself /\ BootnodesTell
  BY <1>2, <1>7, <1>4 DEF OutToAll, KnowsItself, BootnodesTell, Messages
<1>9. QED
  BY <1>1, <1>5, <1>6, <1>8 DEF IInv

LEMMA RequestsOwnStep == ASSUME TypeOK, RequestsOwn, Next PROVE RequestsOwn'
<1>1. SUFFICES ASSUME NEW m \in Messages', m.asker # None
               PROVE  m.asker = m.vk /\ m.to \in Boot[m.vk]
  BY DEF RequestsOwn
<1>2. CASE m \in Messages
  BY <1>1, <1>2 DEF RequestsOwn
<1>3. CASE \E n \in Nodes : m \in Requests(n)
  BY <1>3 DEF Requests
<1>4. CASE \E k \in joins : m \in Forwards(Reached(k.to), k)
  BY <1>1, <1>4 DEF Forwards
<1>5. QED
  BY <1>2, <1>3, <1>4, MessagesStep

\* Only joiners come back with another address.
LEMMA Settled ==
    ASSUME TypeOK, Next, Movers \subseteq Joiners, NEW c \in Constitution
    PROVE  address'[c] = address[c] /\ ~ Move(c) /\ (status[c] # "off" => status'[c] # "off")
             /\ (status[c] = "up" => status'[c] = "up") /\ (status'[c] = "off" => status[c] = "off")
<1>1. c \in Nodes /\ c \notin Movers
  BY PeerGossipAssumption DEF Nodes
<1>2. ~ Move(c)
  BY <1>1 DEF Move
<1>3. status'[c] # status[c] => (status[c] = "off" /\ status'[c] = "joining") \/ (status[c] = "joining" /\ status'[c] = "up")
  BY <1>1, <1>2, StatusStep
<1>4. QED
  BY <1>1, <1>2, <1>3, AddressStep

LEMMA GenuineStep ==
    ASSUME TypeOK, TypeOK', Genuine, Next, Movers \subseteq Joiners
    PROVE  Genuine'
<1>1. \A v \in Nodes : address[v] \in Nat /\ address'[v] \in Nat /\ address[v] <= address'[v]
  BY AddressStep, PeerGossipAssumption DEF TypeOK, Addresses
<1>2. ASSUME NEW m \in Messages' PROVE m.ip <= address'[m.vk]
  <2>1. m.vk \in Nodes /\ m.ip \in Nat
    BY MessageType DEF TypeOK, Messages, Addresses
  <2>2. CASE m \in Messages
    BY <1>1, <2>1, <2>2 DEF Genuine
  <2>3. CASE \E n \in Nodes : m \in Requests(n)
    BY <1>1, <2>3 DEF Requests
  <2>4. CASE \E k \in joins : m \in Forwards(Reached(k.to), k)
    <3>1. PICK k \in joins : m \in Forwards(Reached(k.to), k)
      BY <2>4
    <3>2. m.vk = k.vk /\ m.ip = k.ip
      BY <3>1 DEF Forwards
    <3>3. k.ip <= address[k.vk]
      BY DEF Genuine, Messages
    <3>4. QED
      BY <1>1, <2>1, <3>2, <3>3
  <2>5. QED
    BY <2>2, <2>3, <2>4, MessagesStep
<1>3. ASSUME NEW w \in Nodes, NEW v \in Nodes, peers'[w][v] # None PROVE peers'[w][v] <= address'[v]
  <2>1. peers[w][v] \in Addresses \cup {None} /\ peers'[w][v] \in Nat
    BY <1>3 DEF TypeOK, Addresses
  <2>2. CASE peers'[w][v] = peers[w][v]
    BY <1>1, <1>3, <2>1, <2>2 DEF Genuine
  <2>3. CASE Start(w) /\ peers'[w] = Alone(w)
    BY <1>1, <1>3, <2>3 DEF Alone
  <2>4. CASE << v, peers'[w][v] >> \in got[w]
    <3>1. peers'[w][v] <= address[v]
      BY <2>4 DEF Genuine
    <3>2. QED
      BY <1>1, <2>1, <3>1
  <2>5. CASE peers'[w][v] = peers[Adviser][v]
    <3>1. Adviser \in Nodes
      BY PeerGossipAssumption DEF Nodes
    <3>2. peers'[w][v] <= address[v]
      BY <1>3, <2>5, <3>1 DEF Genuine
    <3>3. QED
      BY <1>1, <2>1, <3>2
  <2>6. CASE \E m \in Messages : m.to = w /\ m.vk = v /\ peers'[w][v] = m.ip
    <3>1. peers'[w][v] <= address[v]
      BY <2>6 DEF Genuine
    <3>2. QED
      BY <1>1, <2>1, <3>1
  <2>7. QED
    BY <2>2, <2>3, <2>4, <2>5, <2>6, PeersStep
<1>4. ASSUME NEW w \in Nodes, NEW e \in got'[w] PROVE e[2] <= address'[e[1]]
  <2>1. e \in Entries
    BY DEF TypeOK
  <2>2. e[1] \in Nodes /\ e[2] \in Addresses /\ e[2] \in Nat
    BY <2>1 DEF Entries, Addresses
  <2>3. CASE e \in got[w]
    <3>1. e[2] <= address[e[1]]
      BY <2>3 DEF Genuine
    <3>2. QED
      BY <1>1, <2>2, <3>1
  <2>4. CASE e \notin got[w]
    <3>1. PICK m \in Messages : peers'[m.to][e[1]] = e[2]
      BY <2>4, GotStep
    <3>2. m.to \in Nodes
      BY MessageType DEF TypeOK, Messages
    <3>3. QED
      BY <1>3, <2>2, <3>1, <3>2, AddressIsNone
  <2>5. QED
    BY <2>3, <2>4
<1>5. \A c \in Constitution : address'[c] = 0
  BY Settled DEF Genuine
<1>6. QED
  BY <1>2, <1>3, <1>4, <1>5 DEF Genuine

\* What changes a table but a start and the end of a round.
LEMMA PeersStepOn ==
    ASSUME TypeOK, Next, NEW w \in Nodes, NEW v \in Nodes, peers'[w][v] # peers[w][v],
           ~ Start(w), peers[w][v] # None \/ ~ EndRound(w)
    PROVE  \/ UpdateSockets(w) /\ peers'[w][v] = peers[Adviser][v] /\ peers[Adviser][v] # None
           \/ \E m \in Messages : Writes(m) /\ m.to = w /\ m.vk = v /\ peers'[w][v] = m.ip
<1>1. \/ Start(w) /\ peers'[w] = Alone(w)
      \/ EndRound(w) /\ peers[w][v] = None /\ << v, peers'[w][v] >> \in got[w]
      \/ UpdateSockets(w) /\ peers'[w][v] = peers[Adviser][v] /\ peers[Adviser][v] # None
      \/ \E m \in Messages : Writes(m) /\ m.to = w /\ m.vk = v /\ peers'[w][v] = m.ip
  BY PeersStep
<1>2. QED
  BY <1>1

\* A node that runs, and has an address, keeps one.
LEMMA AddressKept ==
    ASSUME TypeOK, TypeOK', Next, NEW w \in Nodes, NEW v \in Nodes, status[w] # "off", peers[w][v] # None
    PROVE  peers'[w][v] # None
<1>1. ~ Start(w)
  BY DEF Start
<1>2. \A m \in Messages : m.ip # None
  BY MessageType, AddressIsNone DEF TypeOK, Messages
<1>3. CASE peers'[w][v] = peers[w][v]
  BY <1>3
<1>4. CASE peers'[w][v] # peers[w][v]
  <2>1. \/ UpdateSockets(w) /\ peers'[w][v] = peers[Adviser][v] /\ peers[Adviser][v] # None
        \/ \E m \in Messages : Writes(m) /\ m.to = w /\ m.vk = v /\ peers'[w][v] = m.ip
    BY <1>1, <1>4, PeersStepOn
  <2>2. QED
    BY <1>2, <2>1
<1>5. QED
  BY <1>3, <1>4

\* Who is not starting or between two rounds does not begin to wait.
LEMMA WaitingStep ==
    ASSUME TypeOK, Next, NEW n \in Nodes, ~ Start(n), ~ EndRound(n)
    PROVE  waiting'[n] \subseteq waiting[n]
<1>1. CASE \E x \in Nodes : Start(x) \/ EndRound(x)
  <2>1. PICK x \in Nodes : Start(x) \/ EndRound(x)
    BY <1>1
  <2>2. x # n
    BY <2>1
  <2>3. waiting' = [waiting EXCEPT ![x] = Boot[x]] \/ UNCHANGED waiting
    BY <2>1 DEF Start, EndRound
  <2>4. QED
    BY <2>2, <2>3 DEF TypeOK
<1>2. CASE \E x \in Nodes : \E b \in Boot[x] : Timeout(x, b)
  BY <1>2 DEF Timeout, TypeOK
<1>3. CASE \E m \in Messages : Writes(m)
  <2>1. PICK m \in Messages : Write(m)
    BY <1>3 DEF Writes, Known, Forwarded
  <2>2. waiting' = [waiting EXCEPT ![m.asker] = @ \ {m.to}] \/ UNCHANGED waiting
    BY <2>1 DEF Write
  <2>3. QED
    BY <2>2 DEF TypeOK
<1>4. CASE UNCHANGED waiting
  BY <1>4
<1>5. QED
  BY <1>1, <1>2, <1>3, <1>4 DEF Next, Messages, Handle, Writes, Move, UpdateSockets, Refuse, Forward

LEMMA KeysStep ==
    ASSUME TypeOK, Next, NEW n \in Nodes, keys'[n] # keys[n]
    PROVE  \/ keys'[n] = keys[n] \cup Boot[n] \cup (IF n \in Constitution THEN {n} ELSE {})
           \/ status'[n] = "up"
<1>1. CASE \E x \in Nodes : Start(x)
  BY <1>1 DEF Start, TypeOK
<1>2. CASE \E x \in Nodes : EndRound(x)
  <2>1. PICK x \in Nodes : EndRound(x)
    BY <1>2
  <2>2. (keys' = [keys EXCEPT ![x] = Nodes] /\ status' = [status EXCEPT ![x] = "up"]) \/ UNCHANGED keys
    BY <2>1 DEF EndRound
  <2>3. QED
    BY <2>2 DEF TypeOK
<1>3. CASE UNCHANGED keys
  BY <1>3
<1>4. QED
  BY <1>1, <1>2, <1>3 DEF Next, Handle, Writes, Move, UpdateSockets, Timeout, Refuse, Forward, Known, Forwarded, Write

LEMMA StagesStep ==
    ASSUME TypeOK, TypeOK', RequestsOwn, Stages, Next, Movers \subseteq Joiners
    PROVE  Stages'
<1>1. Constitution \subseteq Nodes /\ Joiners \subseteq Nodes /\ \A n \in Nodes : Sought(n) \subseteq Nodes
  BY DEF Nodes, Sought
<1>2. ASSUME NEW n \in Nodes, status'[n] # "joining" PROVE got'[n] = {} /\ waiting'[n] = {}
  <2>1. CASE status[n] = "joining"
    <3>1. EndRound(n)
      BY <1>2, <2>1, StatusStep
    <3>2. status'[n] # "joining" => UNCHANGED waiting
      <4>1. UNCHANGED waiting \/ UNCHANGED status
        BY <3>1 DEF EndRound
      <4>2. QED
        BY <2>1, <4>1
    <3>3. waiting[n] = {} /\ got' = [got EXCEPT ![n] = {}]
      BY <3>1 DEF EndRound
    <3>4. QED
      BY <1>2, <3>2, <3>3 DEF TypeOK
  <2>2. CASE status[n] # "joining"
    <3>1. got[n] = {} /\ waiting[n] = {}
      BY <2>2 DEF Stages
    <3>2. ~ EndRound(n)
      BY <2>2 DEF EndRound
    <3>3. ~ Start(n)
      BY <1>2 DEF Start, TypeOK
    <3>4. waiting'[n] = {}
      BY <3>1, <3>2, <3>3, WaitingStep
    <3>5. got'[n] = {}
      <4>1. \A e \in got'[n] : e \in got[n] \/ \E m \in Messages : m.to \in waiting[n]
        BY GotStep
      <4>2. QED
        BY <3>1, <4>1
    <3>6. QED
      BY <3>4, <3>5
  <2>3. QED
    BY <2>1, <2>2
<1>3. ASSUME NEW n \in Nodes, status'[n] = "up", NEW c \in Sought(n) PROVE peers'[n][c] # None
  <2>1. CASE status[n] = "up"
    <3>1. peers[n][c] # None
      BY <2>1 DEF Stages
    <3>2. QED
      BY <1>1, <2>1, <3>1, AddressKept
  <2>2. CASE status[n] # "up"
    <3>1. EndRound(n)
      BY <1>3, <2>2, StatusStep
    <3>2. PICK table \in Merges(n) :
            /\ peers' = [peers EXCEPT ![n] = table]
            /\ (\E x \in Sought(n) : table[x] = None) => UNCHANGED status
      BY <3>1 DEF EndRound
    <3>3. peers'[n] = table
      BY <3>2 DEF TypeOK
    <3>4. QED
      BY <1>3, <2>2, <3>2, <3>3
  <2>3. QED
    BY <2>1, <2>2
<1>4. ASSUME NEW n \in Joiners, status'[n] # "off", NEW b \in Boot[n] PROVE status'[b] = "up"
  <2>1. b \in Constitution
    BY <1>1, PeerGossipAssumption
  <2>2. CASE status[n] # "off"
    BY <1>1, <2>1, <2>2, Settled DEF Stages
  <2>3. CASE status[n] = "off"
    <3>1. Start(n)
      BY <1>1, <1>4, <2>3, StatusStep
    <3>2. status[b] = "up"
      BY <3>1 DEF Start
    <3>3. QED
      BY <2>1, <3>2, Settled
  <2>4. QED
    BY <2>2, <2>3
<1>5. ASSUME NEW c \in Constitution, status'[c] # "up" PROVE keys'[c] \subseteq Constitution
  <2>1. keys[c] \subseteq Constitution
    BY <1>5, Settled DEF Stages
  <2>2. Boot[c] \subseteq Constitution
    BY <1>1, PeerGossipAssumption
  <2>3. QED
    BY <1>1, <1>5, <2>1, <2>2, KeysStep
<1>6. ASSUME NEW m \in Messages' PROVE status'[m.to] # "off"
  <2>1. m.to \in Nodes
    BY MessageType DEF TypeOK, Messages
  <2>2. CASE m \in Messages
    <3>1. status[m.to] # "off"
      BY <2>2 DEF Stages
    <3>2. ~ Move(m.to)
      BY <2>2 DEF Move, Messages
    <3>3. QED
      BY <2>1, <3>1, <3>2, StatusStep
  <2>3. CASE \E n \in Nodes : m \in Requests(n)
    <3>1. m.to \in Constitution /\ status[m.to] # "off"
      BY <2>3, PeerGossipAssumption DEF Requests, Running
    <3>2. QED
      BY <3>1, Settled
  <2>4. CASE \E k \in joins : Forward(k) /\ m \in Forwards(Reached(k.to), k)
    <3>1. PICK k \in joins : Forward(k) /\ m \in Forwards(Reached(k.to), k)
      BY <2>4
    <3>2. UNCHANGED status
      BY <3>1 DEF Forward
    <3>3. m.to \in Reached(k.to)
      BY <3>1 DEF Forwards
    <3>4. status[m.to] # "off"
      BY <3>3 DEF Reached, Running
    <3>5. QED
      BY <3>2, <3>4
  <2>5. QED
    BY <2>2, <2>3, <2>4, MessagesStep
<1>7. QED
  BY <1>2, <1>3, <1>4, <1>5, <1>6 DEF Stages

LEMMA StartedStep ==
    ASSUME TypeOK, TypeOK', Stages, Started, Next, Movers \subseteq Joiners
    PROVE  Started'
<1>1. SUFFICES ASSUME NEW c \in Constitution, status'[c] = "off"
               PROVE  /\ \A m \in Messages' : m.vk # c
                      /\ \A w \in Nodes \ {c} : peers'[w][c] = None
                      /\ \A w \in Nodes : \A e \in got'[w] : e[1] # c
  BY DEF Started
<1>2. c \in Nodes /\ Adviser \in Nodes /\ status[c] = "off" /\ ~ Start(c) /\ ~ EndRound(c)
  <2>1. c \in Nodes /\ Adviser \in Nodes
    BY PeerGossipAssumption DEF Nodes
  <2>2. status[c] = "off"
    BY <1>1, Settled
  <2>3. ~ Start(c)
    BY <1>1, <2>1 DEF Start, TypeOK
  <2>4. QED
    BY <2>1, <2>2, <2>3 DEF EndRound
<1>3. ASSUME NEW m \in Messages' PROVE m.vk # c
  <2>1. CASE m \in Messages
    BY <1>2, <2>1 DEF Started
  <2>2. CASE \E n \in Nodes : (Start(n) \/ EndRound(n)) /\ m \in Requests(n)
    BY <1>2, <2>2 DEF Requests
  <2>3. CASE \E k \in joins : m \in Forwards(Reached(k.to), k)
    <3>1. PICK k \in joins : m.vk = k.vk
      BY <2>3 DEF Forwards
    <3>2. QED
      BY <1>2, <3>1 DEF Started, Messages
  <2>4. QED
    BY <2>1, <2>2, <2>3, MessagesStep
<1>4. ASSUME NEW w \in Nodes \ {c} PROVE peers'[w][c] = None
  <2>1. peers[w][c] = None
    BY <1>2 DEF Started
  <2>2. ~ (<< c, peers'[w][c] >> \in got[w])
    BY <1>2 DEF Started
  <2>3. peers'[w] = Alone(w) => peers'[w][c] = None
    BY <1>2 DEF Alone
  <2>4. UpdateSockets(w) => peers[Adviser][c] = None
    <3>1. UpdateSockets(w) => Adviser # c
      BY <1>2 DEF UpdateSockets, Running
    <3>2. QED
      BY <1>2, <3>1 DEF Started
  <2>5. \A m \in Messages : m.vk # c
    BY <1>2 DEF Started
  <2>6. QED
    BY <1>2, <2>1, <2>2, <2>3, <2>4, <2>5, PeersStep
<1>5. ASSUME NEW w \in Nodes, NEW e \in got'[w] PROVE e[1] # c
  <2>1. CASE e \in got[w]
    BY <1>2, <2>1 DEF Started
  <2>2. CASE e \notin got[w]
    <3>1. PICK m \in Messages : e \in Entries /\ peers'[m.to][e[1]] = e[2]
      BY <2>2, GotStep
    <3>2. m.to \in Nodes /\ m.to # c
      BY <1>2, MessageType DEF TypeOK, Messages, Stages
    <3>3. e[2] # None
      BY <3>1, AddressIsNone DEF Entries
    <3>4. QED
      BY <1>4, <3>1, <3>2, <3>3
  <2>3. QED
    BY <2>1, <2>2
<1>6. QED
  BY <1>3, <1>4, <1>5

LEMMA FirstTheConstitutionStep ==
    ASSUME TypeOK, TypeOK', RequestsOwn, Genuine, Stages, FirstTheConstitution, Next, Movers \subseteq Joiners
    PROVE  FirstTheConstitution'
<1>1. /\ Constitution \subseteq Nodes /\ Joiners \subseteq Nodes /\ Constitution \cap Joiners = {}
      /\ \A n \in Nodes : Boot[n] \subseteq Constitution
  BY PeerGossipAssumption DEF Nodes
<1>2. ASSUME NEW c \in Constitution, NEW n \in Joiners, status'[c] # "up"
      PROVE  peers'[c][n] = None /\ \A m \in pending' : ~ (m.to = c /\ m.vk = n)
  <2>1. status[c] # "up" /\ peers[c][n] = None /\ \A m \in pending : ~ (m.to = c /\ m.vk = n)
    BY <1>2, Settled DEF FirstTheConstitution
  <2>2. \A m \in joins : m.to = c /\ m.vk = n => m.vk \notin keys[m.to]
    BY <1>1, <2>1 DEF Stages
  <2>3. \A m \in pending' : ~ (m.to = c /\ m.vk = n)
    <3>1. SUFFICES ASSUME NEW m \in pending', m.to = c, m.vk = n PROVE m \in pending
      BY <2>1
    <3>2. ~ Forward(m)
      BY <2>2, <3>1 DEF Forward
    <3>3. QED
      BY <3>2, PendingStep
  <2>4. ~ (EndRound(c) /\ << n, peers'[c][n] >> \in got[c])
    <3>1. SUFFICES ASSUME EndRound(c), << n, peers'[c][n] >> \in got[c] PROVE FALSE
      OBVIOUS
    <3>2. \E e \in got[c] : e[1] \in Joiners
      BY <3>1
    <3>3. \A d \in Constitution : \E e \in got[c] : e[1] = d
      BY <3>2 DEF FirstTheConstitution
    <3>4. PICK table \in Merges(c) :
            IF \A d \in Constitution : table[d] # None THEN status' = [status EXCEPT ![c] = "up"] ELSE TRUE
      BY <3>1 DEF EndRound, Sought
    <3>5. ASSUME NEW d \in Constitution PROVE table[d] # None
      <4>1. d \in Nodes
        BY <1>1
      <4>2. CASE peers[c][d] = None
        <5>1. PICK e \in got[c] : e[1] = d
          BY <3>3
        <5>2. table[d] \in {f[2] : f \in {f \in got[c] : f[1] = d}}
          BY <4>1, <4>2, <5>1 DEF Merges
        <5>3. \A f \in got[c] : f[2] # None
          BY <1>1, AddressIsNone DEF TypeOK, Entries
        <5>4. QED
          BY <5>2, <5>3
      <4>3. CASE peers[c][d] # None
        BY <4>1, <4>3 DEF Merges
      <4>4. QED
        BY <4>2, <4>3
    <3>6. status'[c] = "up"
      BY <1>1, <3>4, <3>5 DEF TypeOK
    <3>7. QED
      BY <1>2, <3>6
  <2>5. peers'[c][n] = None
    <3>1. peers'[c] = Alone(c) => peers'[c][n] = None
      BY <1>1 DEF Alone
    <3>2. ~ UpdateSockets(c)
      BY <2>1 DEF UpdateSockets
    <3>3. \A m \in Messages : m.to = c /\ m.vk = n => ~ Writes(m)
      BY <2>1, <2>2 DEF Writes, Messages, Known, Forwarded
    <3>4. QED
      BY <1>1, <2>1, <2>4, <3>1, <3>2, <3>3, PeersStep
  <2>6. QED
    BY <2>3, <2>5
<1>3. ASSUME NEW c \in Constitution, NEW e \in got'[c], e[1] \in Joiners, NEW d \in Constitution
      PROVE  \E f \in got'[c] : f[1] = d
  <2>1. CASE e \in got[c]
    <3>1. ~ EndRound(c)
      <4>1. EndRound(c) => got'[c] = {}
        BY <1>1 DEF EndRound, TypeOK
      <4>2. QED
        BY <4>1
    <3>2. \E f \in got[c] : f[1] = d
      BY <1>3, <2>1 DEF FirstTheConstitution
    <3>3. QED
      BY <1>1, <3>1, <3>2, GotKept
  <2>2. CASE e \notin got[c]
    <3>1. PICK m \in Messages :
            /\ m.to \in waiting[c] /\ got'[c] = got[c] \cup {f \in Entries : peers'[m.to][f[1]] = f[2]}
            /\ e \in Entries /\ peers'[m.to][e[1]] = e[2]
      BY <1>1, <2>2, GotStep
    <3>2. m.to \in Constitution /\ m.to \in Nodes /\ d \in Nodes
      BY <1>1, <3>1 DEF TypeOK
    <3>3. e[2] # None
      BY <3>1, AddressIsNone DEF Entries
    <3>4. status'[m.to] = "up"
      BY <1>2, <1>3, <3>1, <3>2, <3>3
    <3>5. peers'[m.to][d] # None
      BY <3>2, <3>4, StagesStep DEF Stages, Sought, Nodes
    <3>6. peers'[m.to][d] \in Addresses
      BY <3>2, <3>5 DEF TypeOK
    <3>7. << d, peers'[m.to][d] >> \in got'[c]
      BY <3>1, <3>2, <3>6 DEF Entries
    <3>8. QED
      BY <3>7
  <2>3. QED
    BY <2>1, <2>2
<1>4. ASSUME NEW m \in Messages', m.vk \in Constitution PROVE m.to \in Constitution
  <2>1. CASE m \in Messages
    BY <1>4, <2>1 DEF FirstTheConstitution
  <2>2. CASE \E n \in Nodes : m \in Requests(n)
    BY <1>1, <2>2 DEF Requests
  <2>3. CASE \E k \in joins : Forward(k) /\ m \in Forwards(Reached(k.to), k)
    <3>1. PICK k \in joins : Forward(k) /\ m \in Forwards(Reached(k.to), k)
      BY <2>3
    <3>2. m.vk = k.vk /\ m.to \in Reached(k.to)
      BY <3>1 DEF Forwards
    <3>3. k.to \in Constitution /\ k.to \in Nodes /\ k.vk \in Nodes /\ k.ip \in Addresses
      BY <1>1, <1>4, <3>2, MessageType DEF FirstTheConstitution, Messages, TypeOK
    <3>4. k.ip = 0
      <4>1. k.ip <= 0
        BY <1>4, <3>2 DEF Genuine, Messages
      <4>2. QED
        BY <3>3, <4>1 DEF Addresses
    <3>5. status[k.to] # "up"
      <4>1. SUFFICES ASSUME status[k.to] = "up" PROVE peers[k.to][k.vk] = k.ip
        BY <3>1 DEF Forward, News
      <4>2. peers[k.to][k.vk] # None
        BY <1>4, <3>2, <3>3, <4>1 DEF Stages, Sought, Nodes
      <4>3. peers[k.to][k.vk] <= 0
        BY <1>4, <3>2, <3>3, <4>2 DEF Genuine
      <4>4. peers[k.to][k.vk] \in Addresses
        BY <3>3, <4>2 DEF TypeOK
      <4>5. QED
        BY <3>4, <4>3, <4>4 DEF Addresses
    <3>6. m.to \in Nodes /\ peers[k.to][m.to] = address[m.to] /\ address[m.to] # None
      BY <1>1, <3>2, <3>3, AddressIsNone DEF Reached, TypeOK
    <3>7. m.to \notin Joiners
      BY <3>3, <3>5, <3>6 DEF FirstTheConstitution
    <3>8. QED
      BY <3>6, <3>7 DEF Nodes
  <2>4. QED
    BY <2>1, <2>2, <2>3, MessagesStep
<1>5. QED
  BY <1>2, <1>3, <1>4 DEF FirstTheConstitution

\* A table gets an address that is not current only if the node is missed.
LEMMA WriteCurrent ==
    ASSUME NEW m \in Messages, Writes(m), m.vk \notin missed'
    PROVE  m.ip = address[m.vk]
BY DEF Writes, Known, Forwarded, Write

LEMMA KnowsItselfStep ==
    ASSUME TypeOK, KnowsItself, Next
    PROVE  KnowsItself'
<1>1. SUFFICES ASSUME NEW n \in Nodes, status'[n] # "off", n \notin missed' PROVE peers'[n][n] = address'[n]
  BY DEF KnowsItself
<1>2. n \notin missed
  BY <1>1, GrowStep
<1>3. address'[n] = address[n]
  <2>1. ~ Move(n)
    BY <1>1 DEF Move, TypeOK
  <2>2. QED
    BY <2>1, AddressStep
<1>4. CASE Start(n)
  BY <1>3, <1>4 DEF Start, Alone, TypeOK
<1>5. CASE ~ Start(n)
  <2>1. status[n] # "off"
    BY <1>1, <1>5, StatusStep
  <2>2. peers[n][n] = address[n]
    BY <1>2, <2>1 DEF KnowsItself
  <2>3. CASE EndRound(n) /\ peers[n][n] = None
    BY <2>3 DEF TypeOK
  <2>4. CASE UpdateSockets(n) /\ peers'[n][n] = peers[Adviser][n] /\ peers[Adviser][n] # None
    BY <1>1, <1>3, <2>4 DEF UpdateSockets
  <2>5. CASE \E m \in Messages : Writes(m) /\ m.to = n /\ m.vk = n /\ peers'[n][n] = m.ip
    BY <1>1, <1>3, <2>5, WriteCurrent
  <2>6. QED
    BY <1>3, <1>5, <2>2, <2>3, <2>4, <2>5, PeersStep
<1>6. QED
  BY <1>4, <1>5

----------------------------------------------------------------------------
(* What is out stays out, and is due until it is known. *)

LEMMA JoinerBasics ==
    ASSUME NEW v \in Joiners
    PROVE  /\ v \in Nodes /\ v \notin Constitution /\ Boot[v] \subseteq Constitution
           /\ Adviser \in Constitution /\ Adviser \in Nodes /\ Adviser # v
           /\ Constitution \subseteq Nodes
BY PeerGossipAssumption DEF Nodes

\* A node that comes back with a new address has told it to nobody.
LEMMA MoveHides ==
    ASSUME TypeOK, Genuine, Stages, NEW v \in Nodes, Move(v)
    PROVE  ~ Out(v)' /\ \A m \in Messages' : m.vk = v => ~ Current(m)'
<1>1. /\ address'[v] = address[v] + 1 /\ address[v] \in Nat /\ status'[v] = "off"
      /\ UNCHANGED << peers, got >> /\ status[v] = "up"
  BY PeerGossipAssumption DEF Move, TypeOK, Addresses
<1>2. Messages' \subseteq Messages /\ \A m \in Messages' : m.to # v
  BY DEF Move, Messages
<1>3. \A m \in Messages' : m.vk = v => ~ Current(m)'
  <2>1. SUFFICES ASSUME NEW m \in Messages', m.vk = v PROVE m.ip # address'[v]
    BY DEF Current
  <2>2. m.ip <= address[v]
    BY <1>2, <2>1 DEF Genuine
  <2>3. QED
    BY <1>1, <2>2
<1>4. \A w \in Nodes : peers'[w][v] # address'[v]
  <2>1. \A w \in Nodes : peers[w][v] \in Addresses \cup {None} /\ (peers[w][v] # None => peers[w][v] <= address[v])
    BY DEF TypeOK, Genuine
  <2>2. address'[v] # None
    <3>1. address'[v] \in Addresses
      BY MoveType DEF TypeOK
    <3>2. QED
      BY <3>1, AddressIsNone
  <2>3. QED
    BY <1>1, <2>1, <2>2
<1>5. \A w \in Nodes : << v, address'[v] >> \notin got'[w]
  <2>1. \A w \in Nodes : \A e \in got[w] : e[1] = v => e[2] <= address[v]
    BY DEF Genuine
  <2>2. SUFFICES ASSUME NEW w \in Nodes, << v, address'[v] >> \in got[w] PROVE FALSE
    BY <1>1
  <2>3. address'[v] <= address[v]
    BY <2>1, <2>2
  <2>4. QED
    BY <1>1, <2>3
<1>6. got'[v] = {}
  BY <1>1 DEF Stages
<1>7. QED
  BY <1>1, <1>2, <1>3, <1>4, <1>5, <1>6 DEF Out

\* It is out once its bootnode has taken up its request.
LEMMA OutBy ==
    ASSUME TypeOK, TypeOK', RequestsOwn, Stages, Next, NEW v \in Joiners, ~ Out(v), Out(v)', ~ Move(v)
    PROVE  \E m \in joins :
             Forward(m) /\ m.vk = v /\ Current(m) /\ m.asker = v /\ m.to \in Boot[v]
<1>1. /\ v \in Nodes /\ v \notin Constitution /\ Boot[v] \subseteq Constitution
      /\ Adviser \in Constitution /\ Adviser \in Nodes /\ Adviser # v /\ Constitution \subseteq Nodes
  BY JoinerBasics
<1>2. address'[v] = address[v] /\ address[v] # None /\ address[v] \in Addresses
  BY <1>1, AddressStep, AddressIsNone DEF TypeOK
<1>3. /\ \A w \in Nodes \ {v} : peers[w][v] # address[v]
      /\ \A m \in Messages : m.to # v
      /\ \A m \in Messages : m.vk = v /\ Current(m) => m \notin pending /\ m.asker # None
      /\ \A w \in Nodes : << v, address[v] >> \notin got[w]
      /\ status[v] # "off" => \A x \in Nodes \ {v} : peers[v][x] = None
      /\ got[v] = {}
  BY DEF Out, Passed
<1>4. SUFFICES ASSUME \A m \in joins : m.vk = v /\ Current(m) => ~ Forward(m)
               PROVE  FALSE
  <2>1. \A m \in joins : m.vk = v /\ Current(m) => m.asker = v /\ m.to \in Boot[v]
    BY <1>3 DEF RequestsOwn, Messages
  <2>2. QED
    BY <1>4, <2>1
<1>5. \A m \in Messages : m.vk = v /\ Current(m) => ~ Writes(m)
  <2>1. SUFFICES ASSUME NEW m \in Messages, m.vk = v, Current(m), Known(m) PROVE FALSE
    BY <1>3 DEF Writes, Forwarded
  <2>2. m.to \in Nodes \ {v}
    BY <1>3, MessageType DEF Messages, TypeOK
  <2>3. peers[m.to][v] = m.ip
    BY <2>1 DEF Known, News
  <2>4. QED
    BY <1>3, <2>1, <2>2, <2>3 DEF Current
<1>6. \A m \in Messages : Writes(m) /\ m.vk = v => m.ip # address[v]
  BY <1>5 DEF Current
<1>7. ASSUME NEW w \in Nodes \ {v}, peers'[w][v] = address[v] PROVE FALSE
  <2>1. peers'[w] = Alone(w) => peers'[w][v] = None
    BY <1>1, <1>7 DEF Alone
  <2>2. QED
    BY <1>1, <1>2, <1>3, <1>6, <1>7, <2>1, PeersStep
<1>8. ASSUME NEW m \in Messages', m.vk = v, Current(m)', Passed(m)' PROVE FALSE
  <2>1. m.ip = address[v] /\ (m \in pending' \/ m.asker = None)
    BY <1>2, <1>8 DEF Current, Passed
  <2>2. CASE m \in Messages
    <3>1. Current(m) /\ m \notin pending /\ m.asker # None
      BY <1>3, <1>8, <2>1, <2>2 DEF Current
    <3>2. Forward(m) /\ m \in joins
      BY <2>1, <3>1, PendingStep
    <3>3. QED
      BY <1>4, <1>8, <3>1, <3>2
  <2>3. CASE m \notin Messages
    <3>1. m.asker = None
      BY <2>1, <2>3, PendingStep DEF Messages
    <3>2. ~ \E n \in Nodes : m \in Requests(n)
      BY <3>1, PeerGossipAssumption DEF Requests
    <3>3. PICK k \in joins : Forward(k) /\ m \in Forwards(Reached(k.to), k)
      BY <2>3, <3>2, MessagesStep
    <3>4. k.vk = v /\ k.ip = address[v]
      BY <1>8, <2>1, <3>3 DEF Forwards
    <3>5. QED
      BY <1>4, <3>3, <3>4 DEF Current
  <2>4. QED
    BY <2>2, <2>3
<1>9. ASSUME NEW w \in Nodes, << v, address[v] >> \in got'[w] PROVE FALSE
  <2>1. PICK m \in Messages : m.to \in waiting[w] /\ peers'[m.to][v] = address[v]
    BY <1>3, <1>9, GotStep
  <2>2. m.to \in Nodes \ {v}
    BY <1>1, <2>1 DEF TypeOK
  <2>3. QED
    BY <1>7, <2>1, <2>2
<1>10. ASSUME NEW m \in Messages', m.to = v PROVE FALSE
  <2>1. m \notin Messages
    BY <1>3, <1>10
  <2>2. ~ \E n \in Nodes : m \in Requests(n)
    BY <1>1, <1>10, PeerGossipAssumption DEF Requests
  <2>3. PICK k \in joins : m \in Forwards(Reached(k.to), k)
    BY <2>1, <2>2, MessagesStep
  <2>4. v \in Reached(k.to)
    BY <1>10, <2>3 DEF Forwards
  <2>5. k.to \in Nodes
    BY MessageType DEF TypeOK
  <2>6. k.to # v /\ peers[k.to][v] = address[v]
    BY <2>4 DEF Reached
  <2>7. QED
    BY <1>3, <2>5, <2>6
<1>11. ASSUME status'[v] # "off", NEW x \in Nodes \ {v}, peers'[v][x] # None PROVE FALSE
  <2>1. CASE Start(v)
    BY <1>1, <1>11, <2>1 DEF Start, Alone, TypeOK
  <2>2. CASE ~ Start(v)
    <3>1. status[v] # "off"
      BY <1>1, <1>11, <2>2, StatusStep
    <3>2. peers[v][x] = None /\ peers[v][Adviser] = None
      BY <1>1, <1>3, <3>1
    <3>3. ~ UpdateSockets(v)
      BY <1>1, <3>2, AddressIsNone DEF UpdateSockets, TypeOK
    <3>4. /\ << x, peers'[v][x] >> \notin got[v]
          /\ \A m \in Messages : m.to # v
      BY <1>3
    <3>5. QED
      BY <1>1, <1>11, <2>2, <3>2, <3>3, <3>4, PeersStep
  <2>3. QED
    BY <2>1, <2>2
<1>12. ASSUME NEW e \in got'[v] PROVE FALSE
  <2>1. PICK m \in Messages : Writes(m) /\ m.asker = v /\ m.ip = address[v]
    BY <1>1, <1>3, <1>12, GotStep
  <2>2. m.vk = v
    BY <1>1, <2>1, PeerGossipAssumption DEF RequestsOwn
  <2>3. QED
    BY <1>6, <2>1, <2>2
<1>13. QED
  BY <1>2, <1>7, <1>8, <1>9, <1>10, <1>11, <1>12 DEF Out

\* A node that runs gets what it is due, or it stays due.
LEMMA DueStays ==
    ASSUME TypeOK, TypeOK', Next, NEW w \in Nodes, NEW v \in Nodes, Due(w, v), v \notin missed',
           address'[v] = address[v], status[w] # "off", ~ Move(w)
    PROVE  Due(w, v)'
<1>1. ~ Start(w) /\ v \notin missed /\ address[v] # None
  BY GrowStep, AddressIsNone DEF Start, TypeOK
<1>2. CASE peers[w][v] = address[v]
  <2>1. UpdateSockets(w) => peers[Adviser][v] \in {None, address[v]}
    BY DEF UpdateSockets
  <2>2. \A m \in Messages : Writes(m) /\ m.vk = v => m.ip = address[v]
    BY WriteCurrent
  <2>3. peers'[w][v] # peers[w][v] =>
          \/ UpdateSockets(w) /\ peers'[w][v] = peers[Adviser][v] /\ peers[Adviser][v] # None
          \/ \E m \in Messages : Writes(m) /\ m.to = w /\ m.vk = v /\ peers'[w][v] = m.ip
    BY <1>1, <1>2, PeersStepOn
  <2>4. peers'[w][v] = address[v]
    BY <1>2, <2>1, <2>2, <2>3
  <2>5. QED
    BY <2>4 DEF Due
<1>3. CASE \E m \in Messages : m.to = w /\ m.vk = v /\ Current(m) /\ Passed(m)
  <2>1. PICK m \in Messages : m.to = w /\ m.vk = v /\ Current(m) /\ Passed(m)
    BY <1>3
  <2>2. CASE m \in Messages' /\ (m.asker = None \/ m \in pending')
    <3>1. Current(m)' /\ Passed(m)'
      BY <2>1, <2>2 DEF Current, Passed
    <3>2. QED
      BY <2>1, <2>2, <3>1 DEF Due
  <2>3. CASE Refuse(m)
    BY <2>1, <2>3 DEF Refuse
  <2>4. CASE Writes(m)
    <3>1. Write(m)
      BY <2>4 DEF Writes, Known, Forwarded
    <3>2. peers'[w][v] = m.ip
      BY <2>1, <3>1 DEF Write, TypeOK
    <3>3. QED
      BY <2>1, <3>2 DEF Due, Current
  <2>5. QED
    BY <2>1, <2>2, <2>3, <2>4, MessageKept DEF Passed
<1>4. QED
  BY <1>2, <1>3 DEF Due

LEMMA PendingKept ==
    ASSUME TypeOK, Next, NEW m \in pending, m \notin pending'
    PROVE  Move(m.to) \/ Forwarded(m)
<1>1. CASE \E n \in Nodes : EndRound(n)
  BY <1>1 DEF EndRound
<1>2. CASE \E n \in Nodes : Move(n)
  BY <1>2 DEF Move
<1>3. CASE \E k \in Messages : Forwarded(k)
  <2>1. PICK k \in Messages : Forwarded(k)
    BY <1>3
  <2>2. pending' = pending \ {k}
    BY <2>1 DEF Forwarded
  <2>3. QED
    BY <2>1, <2>2
<1>4. CASE \E n \in Nodes : Start(n) \/ UpdateSockets(n) \/ \E b \in Boot[n] : Timeout(n, b)
  BY <1>4 DEF Start, UpdateSockets, Timeout
<1>5. CASE \E k \in Messages : Refuse(k) \/ Forward(k) \/ Known(k)
  BY <1>5 DEF Refuse, Forward, Known
<1>6. QED
  BY <1>1, <1>2, <1>3, <1>4, <1>5 DEF Next, Messages, Handle

LEMMA HeardOfStays ==
    ASSUME TypeOK, TypeOK', Next, NEW b \in Nodes, NEW n \in Nodes, HeardOf(b, n), status[b] # "off", ~ Move(b)
    PROVE  HeardOf(b, n)'
<1>1. CASE peers[b][n] # None
  BY <1>1, AddressKept DEF HeardOf
<1>2. CASE \E m \in pending : m.to = b /\ m.vk = n
  <2>1. PICK m \in pending : m.to = b /\ m.vk = n
    BY <1>2
  <2>2. CASE m \in pending'
    BY <2>1, <2>2 DEF HeardOf
  <2>3. CASE m \notin pending'
    <3>1. Forwarded(m) /\ m.ip # None
      BY <2>1, <2>3, PendingKept, MessageType, AddressIsNone DEF TypeOK
    <3>2. peers'[b][n] = m.ip
      BY <2>1, <3>1 DEF Forwarded, Write, TypeOK
    <3>3. QED
      BY <3>1, <3>2 DEF HeardOf
  <2>4. QED
    BY <2>2, <2>3
<1>3. QED
  BY <1>1, <1>2 DEF HeardOf

\* The bootnode of a joiner that runs is up.
LEMMA BootUp ==
    ASSUME Stages, NEW v \in Joiners, status[v] # "off", NEW b \in Boot[v]
    PROVE  b \in Constitution /\ b \in Nodes /\ b # v /\ status[b] = "up"
BY JoinerBasics DEF Stages

\* A request taken up at the bootnode is forwarded to all the constitution.
LEMMA TakenUp ==
    ASSUME TypeOK, Stages, NEW m \in joins, NEW v \in Joiners, Forward(m), m.vk = v, m.to \in Boot[v], Current(m),
           status[m.to] = "up", address'[v] = address[v]
    PROVE  /\ \A b \in Boot[v] : HeardOf(b, v)'
           /\ v \notin missed' => \A w \in Constitution : Due(w, v)'
<1>1. /\ m \in pending' /\ Boot[v] = {m.to} /\ Constitution \subseteq Nodes /\ Current(m)'
  <2>1. \E b \in Constitution : Boot[v] = {b}
    BY PeerGossipAssumption
  <2>2. QED
    BY <2>1 DEF Forward, Current, Nodes
<1>2. \A b \in Boot[v] : HeardOf(b, v)'
  BY <1>1 DEF HeardOf
<1>3. ASSUME v \notin missed', NEW w \in Constitution PROVE Due(w, v)'
  <2>1. CASE w = m.to
    BY <1>1, <2>1 DEF Due, Passed, Messages
  <2>2. CASE w # m.to
    <3>1. PICK nodes \in SUBSET Reached(m.to) :
            /\ joins' = (joins \ {m}) \cup Forwards(nodes, m)
            /\ missed' = missed \cup Crossing(m.to, m)
                  \cup (IF nodes # {x \in Nodes \ {m.to} : peers[m.to][x] # None} THEN {m.vk} ELSE {})
      BY DEF Forward
    <3>2. w \in nodes
      <4>1. m.to \in Nodes
        BY MessageType DEF TypeOK
      <4>2. peers[m.to][w] # None
        BY <4>1 DEF Stages, Sought, Nodes
      <4>3. QED
        BY <1>1, <1>3, <2>2, <3>1, <4>2
    <3>3. PICK f \in Messages' : f = [to |-> w, vk |-> m.vk, ip |-> m.ip, asker |-> None]
      BY <3>1, <3>2 DEF Forwards, Messages
    <3>4. Passed(f)' /\ Current(f)'
      BY <1>1, <3>3 DEF Passed, Current
    <3>5. QED
      BY <3>3, <3>4 DEF Due
  <2>3. QED
    BY <2>1, <2>2
<1>4. QED
  BY <1>2, <1>3

LEMMA OutToAllStep ==
    ASSUME TypeOK, TypeOK', RequestsOwn, Genuine, Stages, FirstTheConstitution, OutToAll, Next,
           Movers \subseteq Joiners
    PROVE  OutToAll'
<1>1. SUFFICES ASSUME NEW v \in Joiners
               PROVE  /\ status'[v] = "off" => ~ Out(v)' /\ \A m \in Messages' : m.vk = v => ~ Current(m)'
                      /\ Out(v)' => \A b \in Boot[v] : HeardOf(b, v)'
                      /\ Out(v)' /\ v \notin missed' => \A w \in Constitution : Due(w, v)'
  BY DEF OutToAll
<1>2. v \in Nodes /\ Constitution \subseteq Nodes /\ Boot[v] \subseteq Constitution /\ v \notin Constitution
  BY JoinerBasics
<1>3. CASE Move(v)
  BY <1>2, <1>3, MoveHides
<1>4. CASE ~ Move(v)
  <2>1. address'[v] = address[v]
    BY <1>2, <1>4, AddressStep
  <2>2. CASE ~ Out(v) /\ ~ Out(v)'
    <3>1. ASSUME status'[v] = "off", NEW m \in Messages', m.vk = v PROVE ~ Current(m)'
      <4>1. status[v] = "off" /\ ~ Start(v) /\ ~ EndRound(v)
        BY <1>2, <1>4, <3>1, StatusStep DEF Start, EndRound, TypeOK
      <4>2. \A k \in Messages : k.vk = v => k.ip # address[v]
        BY <4>1 DEF OutToAll, Current
      <4>3. m \in Messages \/ \E k \in joins : m.vk = k.vk /\ m.ip = k.ip
        <5>1. CASE \E n \in Nodes : (Start(n) \/ EndRound(n)) /\ m \in Requests(n)
          BY <3>1, <4>1, <5>1 DEF Requests
        <5>2. CASE \E k \in joins : m \in Forwards(Reached(k.to), k)
          BY <5>2 DEF Forwards
        <5>3. QED
          BY <5>1, <5>2, MessagesStep
      <4>4. m.ip # address[v]
        BY <3>1, <4>2, <4>3 DEF Messages
      <4>5. QED
        BY <2>1, <3>1, <4>4 DEF Current
    <3>2. QED
      BY <2>2, <3>1
  <2>3. CASE ~ Out(v) /\ Out(v)'
    <3>1. PICK m \in joins : Forward(m) /\ m.vk = v /\ Current(m) /\ m.asker = v /\ m.to \in Boot[v]
      BY <1>4, <2>3, OutBy
    <3>2. status[v] # "off"
      BY <3>1 DEF OutToAll, Messages
    <3>3. status[m.to] = "up"
      BY <3>1, <3>2, BootUp
    <3>4. status'[v] # "off"
      BY <3>1, <3>2 DEF Forward
    <3>5. QED
      BY <2>1, <3>1, <3>3, <3>4, TakenUp
  <2>4. CASE Out(v)
    <3>1. status[v] # "off" /\ status'[v] # "off"
      BY <1>2, <1>4, <2>4, StatusStep DEF OutToAll
    <3>2. ASSUME NEW b \in Boot[v] PROVE HeardOf(b, v)'
      <4>1. b \in Constitution /\ b \in Nodes /\ status[b] = "up"
        BY <3>1, BootUp
      <4>2. HeardOf(b, v)
        BY <2>4 DEF OutToAll
      <4>3. QED
        BY <1>2, <4>1, <4>2, Settled, HeardOfStays
    <3>3. ASSUME v \notin missed', NEW w \in Constitution PROVE Due(w, v)'
      <4>1. Due(w, v)
        BY <2>4, <3>3, GrowStep DEF OutToAll
      <4>2. status[w] # "off"
        <5>1. SUFFICES ASSUME peers[w][v] = address[v] PROVE status[w] # "off"
          BY <4>1 DEF Due, Stages
        <5>2. address[v] # None
          BY <1>2, AddressIsNone DEF TypeOK
        <5>3. QED
          BY <5>1, <5>2 DEF FirstTheConstitution
      <4>3. QED
        BY <1>2, <2>1, <3>3, <4>1, <4>2, Settled, DueStays
    <3>4. QED
      BY <3>1, <3>2, <3>3
  <2>5. QED
    BY <2>2, <2>3, <2>4
<1>5. QED
  BY <1>3, <1>4

----------------------------------------------------------------------------
(* What a bootnode tells those who join through it. *)

\* Who has an entry about another, or an answer, is out.
LEMMA OutWhoKnows ==
    ASSUME TypeOK, NEW n \in Joiners, NEW v \in Nodes, v # n, status[n] # "off",
           Stale(n, v) \/ Answered(n) \/ peers[n][v] # None
    PROVE  Out(n)
<1>1. Constitution \subseteq Nodes \ {n}
  BY JoinerBasics
<1>2. QED
  BY <1>1 DEF Stale, Answered, Out

\* A joiner whose bootnode takes up a message about v, when both are out, is due it.
LEMMA PendingTells ==
    ASSUME TypeOK, TypeOK', RequestsOwn, Stages, OutToAll, Next,
           NEW n \in Joiners, NEW v \in Joiners, n # v, NEW b \in Boot[n], BootnodeTells(n, v, b),
           v \notin missed', address[v] # 0, address'[v] = address[v], status[n] # "off", ~ Move(n), Out(n)',
           NEW m \in pending', m.to = b, m.vk = v, Current(m)
    PROVE  Due(n, v)'
<1>1. n \in Nodes /\ v \in Nodes /\ Boot[n] = {b} /\ b \in Nodes /\ b # n
  <2>1. \E c \in Constitution : Boot[n] = {c}
    BY PeerGossipAssumption
  <2>2. QED
    BY <2>1, JoinerBasics
<1>2. CASE m \in pending /\ Out(n)
  <2>1. Due(n, v)
    BY <1>2 DEF BootnodeTells
  <2>2. QED
    BY <1>1, <2>1, DueStays
<1>3. CASE m \in pending /\ ~ Out(n)
  <2>1. PICK r \in joins : Forward(r) /\ r.to \in Boot[n]
    BY <1>3, OutBy
  <2>2. v \in Crossing(r.to, r)
    BY <1>1, <1>3, <2>1 DEF Crossing
  <2>3. QED
    BY <2>1, <2>2 DEF Forward
<1>4. CASE m \notin pending
  <2>1. m \in joins /\ Forward(m)
    BY <1>4, PendingStep
  <2>2. Out(n)
    <3>1. SUFFICES ASSUME ~ Out(n) PROVE FALSE
      OBVIOUS
    <3>2. PICK r \in joins : Forward(r) /\ r.vk = n
      BY <3>1, OutBy
    <3>3. pending' = pending \cup {r}
      BY <3>2 DEF Forward
    <3>4. QED
      BY <1>4, <3>2, <3>3
  <2>3. HeardOf(b, n)
    BY <2>2 DEF OutToAll
  <2>4. PICK nodes \in SUBSET Reached(b) :
          /\ joins' = (joins \ {m}) \cup Forwards(nodes, m)
          /\ missed' = missed \cup Crossing(b, m)
                \cup (IF nodes # {x \in Nodes \ {b} : peers[b][x] # None} THEN {v} ELSE {})
    BY <2>1 DEF Forward
  <2>5. (\A h \in pending : h.to # b) /\ nodes = {x \in Nodes \ {b} : peers[b][x] # None}
    BY <2>4 DEF Crossing
  <2>6. peers[b][n] # None
    BY <2>3, <2>5 DEF HeardOf
  <2>7. PICK f \in Messages' : f = [to |-> n, vk |-> m.vk, ip |-> m.ip, asker |-> None]
    BY <1>1, <2>4, <2>5, <2>6 DEF Forwards, Messages
  <2>8. Passed(f)' /\ Current(f)'
    BY <2>7 DEF Passed, Current
  <2>9. QED
    BY <2>7, <2>8 DEF Due
<1>5. QED
  BY <1>2, <1>3, <1>4

\* A bootnode learns an address by a message it takes up: otherwise somebody is missed.
LEMMA LearnsByMessage ==
    ASSUME TypeOK, Stages, OutToAll, Next, NEW v \in Joiners, NEW b \in Constitution,
           status[b] = "up", v \notin missed', peers'[b][v] = address[v]
    PROVE  Dealt(b, v)
<1>1. /\ v \in Nodes /\ b \in Nodes /\ Adviser \in Nodes \ {v}
      /\ v \notin missed /\ address[v] # None /\ ~ Start(b) /\ ~ EndRound(b)
  <2>1. v \in Nodes /\ b \in Nodes /\ Adviser \in Nodes \ {v}
    BY JoinerBasics
  <2>2. ~ Start(b) /\ ~ EndRound(b)
    BY DEF Start, EndRound
  <2>3. QED
    BY <2>1, <2>2, GrowStep, AddressIsNone DEF TypeOK
<1>2. CASE peers'[b][v] = peers[b][v]
  BY <1>2 DEF Dealt
<1>3. CASE UpdateSockets(b) /\ peers'[b][v] # peers[b][v] /\ peers'[b][v] = peers[Adviser][v]
  <2>1. Out(v)
    BY <1>1, <1>3 DEF Out
  <2>2. Due(b, v)
    BY <1>1, <2>1 DEF OutToAll
  <2>3. SUFFICES ASSUME ~ Dealt(b, v) PROVE FALSE
    OBVIOUS
  <2>4. \E m \in joins : m.to = b /\ m.vk = v
    BY <2>2, <2>3 DEF Due, Dealt, Messages
  <2>5. v \in Overtaken(b)
    BY <1>1, <1>3, <2>4 DEF Overtaken
  <2>6. QED
    BY <1>3, <2>5 DEF UpdateSockets
<1>4. CASE \E m \in Messages : Writes(m) /\ m.to = b /\ m.vk = v
  <2>1. PICK m \in Messages : Writes(m) /\ m.to = b /\ m.vk = v
    BY <1>4
  <2>2. m.ip = address[v]
    BY <2>1, WriteCurrent
  <2>3. CASE Forwarded(m)
    BY <2>1, <2>2, <2>3 DEF Forwarded, Dealt, Current
  <2>4. CASE Known(m)
    BY <2>1, <2>2, <2>4 DEF Known, News, Dealt
  <2>5. QED
    BY <2>1, <2>3, <2>4 DEF Writes
<1>5. CASE peers'[b][v] # peers[b][v]
  <2>1. \/ UpdateSockets(b) /\ peers'[b][v] = peers[Adviser][v] /\ peers[Adviser][v] # None
        \/ \E m \in Messages : Writes(m) /\ m.to = b /\ m.vk = v /\ peers'[b][v] = m.ip
    BY <1>1, <1>5, PeersStepOn
  <2>2. QED
    BY <1>3, <1>4, <1>5, <2>1
<1>6. QED
  BY <1>2, <1>5

\* The steps while v keeps its address and n runs.
LEMMA BootnodeTellsOn ==
    ASSUME TypeOK, TypeOK', RequestsOwn, Genuine, Stages, FirstTheConstitution, OutToAll, Next,
           NEW n \in Joiners, NEW v \in Joiners, n # v, NEW b \in Boot[n], BootnodeTells(n, v, b),
           v \notin missed', address[v] # 0, address'[v] = address[v], status[n] # "off", status'[n] # "off"
    PROVE  BootnodeTells(n, v, b)'
<1>1. /\ n \in Nodes /\ v \in Nodes /\ b \in Constitution /\ b \in Nodes /\ status[b] = "up" /\ Boot[n] = {b}
      /\ Constitution \subseteq Nodes \ {n} /\ v \notin Constitution
      /\ ~ Move(n) /\ ~ Start(n) /\ address[v] \in Addresses /\ address[v] # None
  <2>1. \E c \in Constitution : Boot[n] = {c}
    BY PeerGossipAssumption
  <2>2. n \in Nodes /\ v \in Nodes /\ b \in Constitution /\ b \in Nodes /\ status[b] = "up"
    BY JoinerBasics, BootUp
  <2>3. ~ Move(n) /\ ~ Start(n)
    BY <2>2 DEF Move, Start, TypeOK
  <2>4. QED
    BY <2>1, <2>2, <2>3, JoinerBasics, AddressIsNone DEF TypeOK
<1>2. ASSUME Out(n)', NEW m \in pending', m.to = b, m.vk = v, Current(m)' PROVE Due(n, v)'
  BY <1>1, <1>2, PendingTells DEF Current
<1>3. Stale(n, v)' \/ Answered(n)' => Out(n)'
  <2>1. Stale(n, v)' \/ Answered(n)' => \E x \in Nodes \ {n} : peers'[n][x] # None \/ got'[n] # {}
    BY <1>1 DEF Stale, Answered
  <2>2. QED
    BY <2>1 DEF Out
<1>4. Due(n, v) => Due(n, v)'
  BY <1>1, DueStays
<1>5. ASSUME peers'[b][v] = address[v], Stale(n, v)' PROVE Due(n, v)'
  <2>1. Dealt(b, v)
    BY <1>1, <1>5, LearnsByMessage
  <2>2. Stale(n, v)
    <3>1. CASE peers'[n][v] \notin {None, address[v]}
      <4>1. CASE peers'[n][v] = peers[n][v]
        BY <3>1, <4>1 DEF Stale
      <4>2. CASE EndRound(n) /\ << v, peers'[n][v] >> \in got[n]
        <5>1. PICK e \in got[n] : e = << v, peers'[n][v] >>
          BY <4>2
        <5>2. e[1] = v /\ e[2] # address[v]
          BY <3>1, <5>1
        <5>3. QED
          BY <5>2 DEF Stale
      <4>3. CASE UpdateSockets(n) /\ peers'[n][v] = peers[Adviser][v]
        BY <1>1, <3>1, <4>3 DEF UpdateSockets
      <4>4. CASE \E m \in Messages : Writes(m) /\ m.to = n /\ m.vk = v /\ peers'[n][v] = m.ip
        BY <3>1, <4>4, WriteCurrent
      <4>5. QED
        BY <1>1, <4>1, <4>2, <4>3, <4>4, PeersStep
    <3>2. CASE \E e \in got'[n] : e[1] = v /\ e[2] # address[v]
      <4>1. PICK e \in got'[n] : e[1] = v /\ e[2] # address[v]
        BY <3>2
      <4>2. CASE e \in got[n]
        BY <4>1, <4>2 DEF Stale
      <4>3. CASE e \notin got[n]
        <5>1. PICK m \in Messages : m.to \in waiting[n] /\ peers'[m.to][v] = e[2]
          BY <1>1, <4>1, <4>3, GotStep
        <5>2. m.to = b
          BY <1>1, <5>1 DEF TypeOK
        <5>3. QED
          BY <1>5, <4>1, <5>1, <5>2
      <4>4. QED
        BY <4>2, <4>3
    <3>3. QED
      BY <1>5, <3>1, <3>2 DEF Stale
  <2>3. QED
    BY <1>4, <2>1, <2>2 DEF BootnodeTells
<1>6. ASSUME peers'[b][v] = address[v], Answered(n)'
      PROVE  Due(n, v)' \/ (<< v, address[v] >> \in got'[n] /\ peers'[n][v] = None)
  <2>1. Dealt(b, v)
    BY <1>1, <1>6, LearnsByMessage
  <2>2. SUFFICES ASSUME ~ Due(n, v)'
                 PROVE  << v, address[v] >> \in got'[n] /\ peers'[n][v] = None
    OBVIOUS
  <2>3. peers'[n][v] = None
    <3>1. peers'[n][v] # address[v]
      BY <1>1, <2>2 DEF Due
    <3>2. ~ Stale(n, v)'
      BY <1>5, <1>6, <2>2
    <3>3. QED
      BY <1>1, <3>1, <3>2 DEF Stale
  <2>4. CASE Answered(n)
    <3>1. << v, address[v] >> \in got[n]
      BY <1>4, <2>1, <2>2, <2>4 DEF BootnodeTells
    <3>2. ~ EndRound(n)
      <4>1. SUFFICES ASSUME EndRound(n) PROVE FALSE
        OBVIOUS
      <4>2. PICK table \in Merges(n) : peers' = [peers EXCEPT ![n] = table]
        BY <4>1 DEF EndRound
      <4>3. peers'[n] = table
        BY <1>1, <4>2 DEF TypeOK
      <4>4. \E e \in got[n] : e[1] = v
        BY <3>1
      <4>5. peers[n][v] = None => table[v] \in {e[2] : e \in {e \in got[n] : e[1] = v}}
        BY <1>1, <4>2, <4>4 DEF Merges
      <4>6. \A e \in got[n] : e[2] # None
        BY <1>1, AddressIsNone DEF TypeOK, Entries
      <4>7. peers[n][v] # None => table[v] = peers[n][v]
        BY <1>1, <4>2 DEF Merges
      <4>8. QED
        BY <2>3, <4>3, <4>5, <4>6, <4>7
    <3>3. QED
      BY <1>1, <2>3, <3>1, <3>2, GotKept
  <2>5. CASE ~ Answered(n)
    <3>1. got[n] = {} /\ \A c \in Constitution : peers[n][c] = None
      BY <2>5 DEF Answered
    <3>2. \A c \in Constitution : peers'[n][c] = None
      <4>1. SUFFICES ASSUME NEW c \in Constitution, peers'[n][c] # None PROVE FALSE
        OBVIOUS
      <4>2. c \in Nodes /\ c \notin Joiners /\ n \notin Constitution
        BY <1>1, PeerGossipAssumption
      <4>3. ~ UpdateSockets(n)
        <5>1. Adviser \in Constitution
          BY PeerGossipAssumption
        <5>2. status[n] # "up"
          BY <1>1, <3>1, <5>1 DEF Stages, Sought, Nodes
        <5>3. QED
          BY <5>2 DEF UpdateSockets
      <4>4. << c, peers'[n][c] >> \notin got[n]
        BY <3>1
      <4>5. \A m \in Messages : ~ (m.to = n /\ m.vk = c)
        BY <4>2 DEF FirstTheConstitution
      <4>6. peers'[n][c] # peers[n][c]
        BY <3>1, <4>1
      <4>7. \E m \in Messages : m.to = n /\ m.vk = c
        BY <1>1, <4>2, <4>3, <4>4, <4>6, PeersStep
      <4>8. QED
        BY <4>5, <4>7
    <3>3. PICK e \in got'[n] : e \notin got[n]
      BY <1>6, <3>1, <3>2 DEF Answered
    <3>4. PICK m \in Messages :
            m.to \in waiting[n] /\ got'[n] = got[n] \cup {d \in Entries : peers'[m.to][d[1]] = d[2]}
      BY <1>1, <3>3, GotStep
    <3>5. m.to = b
      BY <1>1, <3>4 DEF TypeOK
    <3>6. << v, address[v] >> \in got'[n]
      BY <1>1, <1>6, <3>4, <3>5 DEF Entries
    <3>7. QED
      BY <2>3, <3>6
  <2>6. QED
    BY <2>4, <2>5
<1>7. Dealt(b, v)' => peers'[b][v] = address[v] \/ \E m \in pending' : m.to = b /\ m.vk = v /\ Current(m)'
  BY DEF Dealt
<1>8. QED
  BY <1>2, <1>3, <1>5, <1>6, <1>7 DEF BootnodeTells

LEMMA BootnodesTellStep ==
    ASSUME TypeOK, TypeOK', RequestsOwn, Genuine, Stages, FirstTheConstitution, OutToAll, BootnodesTell, Next,
           Movers \subseteq Joiners
    PROVE  BootnodesTell'
<1>1. SUFFICES ASSUME NEW n \in Joiners, NEW v \in Joiners, n # v, v \notin missed', address'[v] # 0, status'[n] # "off",
                      NEW b \in Boot[n]
               PROVE  BootnodeTells(n, v, b)'
  BY DEF BootnodesTell
<1>2. n \in Nodes /\ v \in Nodes /\ v \notin missed /\ b \in Nodes /\ b # v
      /\ Constitution \subseteq Nodes \ {n}
  BY <1>1, JoinerBasics, GrowStep
<1>3. CASE Move(v)
  <2>1. ~ Out(v)' /\ \A m \in Messages' : m.vk = v => ~ Current(m)'
    BY <1>2, <1>3, MoveHides
  <2>2. ~ Dealt(b, v)' /\ ~ \E m \in pending' : m.vk = v /\ Current(m)'
    BY <1>2, <2>1 DEF Dealt, Out, Messages
  <2>3. QED
    BY <2>2 DEF BootnodeTells
<1>4. CASE ~ Move(v) /\ status[n] = "off"
  <2>1. Start(n)
    BY <1>1, <1>2, <1>4, StatusStep
  <2>2. ~ Out(n)'
    <3>1. ~ Out(n)
      BY <1>4 DEF OutToAll
    <3>2. ~ Move(n)
      BY <1>4 DEF Move
    <3>3. \A m \in joins : m.vk = n => ~ Current(m)
      BY <1>4 DEF OutToAll, Messages
    <3>4. QED
      BY <3>1, <3>2, <3>3, OutBy
  <2>3. peers'[n] = Alone(n) /\ got'[n] = {}
    BY <1>2, <1>4, <2>1 DEF Start, TypeOK, Stages
  <2>4. peers'[n][v] = None /\ \A c \in Constitution : peers'[n][c] = None
    BY <1>1, <1>2, <2>3 DEF Alone
  <2>5. ~ Stale(n, v)' /\ ~ Answered(n)'
    BY <2>3, <2>4 DEF Stale, Answered
  <2>6. QED
    BY <2>2, <2>5 DEF BootnodeTells
<1>5. CASE ~ Move(v) /\ status[n] # "off"
  <2>2. address'[v] = address[v]
    BY <1>2, <1>5, AddressStep
  <2>1. BootnodeTells(n, v, b)
    BY <1>1, <1>2, <1>5, <2>2 DEF BootnodesTell
  <2>3. QED
    BY <1>1, <1>5, <2>1, <2>2, BootnodeTellsOn
<1>6. QED
  BY <1>3, <1>4, <1>5

LEMMA IStep == ASSUME IInv, [Next]_vars, Movers \subseteq Joiners PROVE IInv'
<1>1. CASE UNCHANGED vars
  <2>1. Messages' = Messages /\ \A m : Current(m)' = Current(m) /\ Passed(m)' = Passed(m)
    BY <1>1 DEF vars, Messages, Current, Passed
  <2>2. /\ \A v : Out(v)' = Out(v)
        /\ \A w, v : Due(w, v)' = Due(w, v) /\ Dealt(w, v)' = Dealt(w, v) /\ HeardOf(w, v)' = HeardOf(w, v)
        /\ \A w, v : Stale(w, v)' = Stale(w, v) /\ Answered(w)' = Answered(w)
    BY <1>1, <2>1 DEF vars, Out, Due, Dealt, HeardOf, Stale, Answered
  <2>3. \A n, v, b : BootnodeTells(n, v, b)' = BootnodeTells(n, v, b)
    BY <1>1, <2>1, <2>2 DEF vars, BootnodeTells
  <2>4. QED
    BY <1>1, <2>1, <2>2, <2>3 DEF vars, IInv, TypeOK, RequestsOwn, Genuine, Stages, Started, FirstTheConstitution,
       OutToAll, KnowsItself, BootnodesTell
<1>2. CASE Next
  <2>1. TypeOK'
    BY TypeStep DEF IInv
  <2>2. QED
    BY <1>2, <2>1, RequestsOwnStep, GenuineStep, StagesStep, StartedStep, FirstTheConstitutionStep, OutToAllStep,
       KnowsItselfStep, BootnodesTellStep DEF IInv
<1>3. QED
  BY <1>1, <1>2

LEMMA IKnown == ASSUME IInv PROVE KnownUnlessMissed
<1>1. SUFFICES ASSUME joins = {}, pending = {}, NEW n \in Nodes, NEW v \in Nodes,
                      status[n] = "up", status[v] = "up", v \notin missed
               PROVE  peers[n][v] = address[v]
  BY DEF KnownUnlessMissed
<1>2. Messages = {} /\ TypeOK /\ Genuine /\ Stages /\ OutToAll /\ KnowsItself /\ BootnodesTell
  BY <1>1 DEF Messages, IInv
<1>3. CASE v \in Constitution
  <2>1. address[v] = 0 /\ peers[n][v] # None /\ peers[n][v] <= 0
    BY <1>1, <1>2, <1>3 DEF Genuine, Stages, Sought, Nodes
  <2>2. peers[n][v] \in Nat
    BY <1>2, <2>1 DEF TypeOK, Addresses
  <2>3. QED
    BY <2>1, <2>2
<1>4. CASE v \in Joiners
  <2>1. \A w \in Nodes : Due(w, v) => peers[w][v] = address[v]
    BY <1>2 DEF Due
  <2>2. \A w \in Constitution : peers[w][v] = address[v]
    <3>1. Adviser \in Constitution /\ Adviser \in Nodes \ {v}
      BY <1>4, JoinerBasics
    <3>2. Out(v)
      BY <1>1, <1>2, <3>1 DEF Out, Stages, Sought, Nodes
    <3>3. QED
      BY <1>1, <1>2, <1>4, <2>1, <3>2 DEF OutToAll, Nodes
  <2>3. CASE n = v
    BY <1>1, <1>2, <2>3 DEF KnowsItself
  <2>4. CASE n \in Joiners /\ n # v
    <3>1. PICK b \in Boot[n] : b \in Constitution
      BY <2>4, PeerGossipAssumption
    <3>2. Dealt(b, v)
      BY <2>2, <3>1 DEF Dealt
    <3>3. Answered(n) /\ got[n] = {}
      BY <1>1, <1>2, <3>1 DEF Answered, Stages, Sought, Nodes
    <3>4. CASE address[v] # 0
      <4>1. Due(n, v)
        BY <1>1, <1>2, <1>4, <2>4, <3>2, <3>3, <3>4 DEF BootnodesTell, BootnodeTells
      <4>2. QED
        BY <2>1, <4>1
    <3>5. CASE address[v] = 0
      <4>1. peers[n][v] # None /\ peers[n][v] <= 0
        BY <1>1, <1>2, <2>4, <3>5, JoinerBasics DEF Genuine, Stages, Sought
      <4>2. peers[n][v] \in Nat
        BY <1>2, <4>1 DEF TypeOK, Addresses
      <4>3. QED
        BY <3>5, <4>1, <4>2
    <3>6. QED
      BY <3>4, <3>5
  <2>5. QED
    BY <2>2, <2>3, <2>4 DEF Nodes
<1>5. QED
  BY <1>3, <1>4 DEF Nodes

\* If only nodes that joined come back with another address: once every join message
\* has been dealt with, nodes that are up have one another's address, whichever
\* bootnodes they used and however they joined at the same time, unless somebody's
\* message was lost, refused, out of date, overtaken by a table or, after a move,
\* crossed with another's.
THEOREM PeersKnown == Spec => [](Movers \subseteq Joiners => KnownUnlessMissed)
<1>1. CASE Movers \subseteq Joiners
  <2>1. IInv /\ [Next]_vars => IInv'
    BY <1>1, IStep
  <2>2. IInv => (Movers \subseteq Joiners => KnownUnlessMissed)
    BY IKnown
  <2>3. QED
    BY IInit, <2>1, <2>2, PTL DEF Spec
<1>2. CASE ~ (Movers \subseteq Joiners)
  BY <1>2, PTL
<1>3. QED
  BY <1>1, <1>2
================================================================================
