------------------------------ MODULE PeerGossip ------------------------------
(***************************************************************************)
(* How nodes find one another: Network and JoinProcessor (network.py) over *)
(* the router (router.py), with the key files of authentication.py and the *)
(* start of a node (base.py, cli/start.py).                                *)
(*                                                                         *)
(* A node started from the constitution has all its nodes as bootnodes,    *)
(* and asks them, round after round, until it has an address for each of   *)
(* their keys.  One that joins later asks a masternode, and looks for the  *)
(* members that this one names (/constitution): here those of Constitution *)
(* and all that join, who are elected before they start.                   *)
(* Handlers of join messages are interrupted while they forward the        *)
(* message; forwards and answers may be lost or late.                      *)
(***************************************************************************)
EXTENDS Naturals, FiniteSets

CONSTANTS
    Constitution,   \* the nodes the network starts with
    Joiners,        \* nodes that join once their bootnodes are up
    Boot,           \* the bootnodes of each node, itself left out: it would get its own
                    \* table; one that joins later has one (mn_seed)
    Delegates,      \* nodes that ask for tables again after a block
    Adviser,        \* the masternode that a delegate asks: the first it knows
    Movers,         \* nodes that come back with another address ...
    MaxMoves,       \* ... at most this often each (bound)
    None

Nodes == Constitution \cup Joiners

ASSUME PeerGossipAssumption ==
    /\ Constitution \cap Joiners = {} /\ None \notin Nodes \cup (0 .. MaxMoves)
    /\ Boot \in [Nodes -> SUBSET Constitution] /\ \A n \in Nodes : n \notin Boot[n]
    /\ \A n \in Joiners : \E b \in Constitution : Boot[n] = {b}
    /\ Delegates \cup Movers \subseteq Nodes /\ Adviser \in Constitution \ Delegates
    /\ MaxMoves \in Nat

VARIABLES
    status,     \* "off", "joining" (Network.start, and the catch-up after it), "up"
    address,    \* the address a node has now
    peers,      \* each node's table: vk -> address, or None
    keys,       \* each node's key files
    waiting,    \* the bootnodes whose answer a node waits for
    got,        \* the entries of the answers of this round
    joins,      \* join messages under way: requests (with who asks) and forwards
    pending,    \* handlers that are forwarding the message
    missed      \* history: the nodes whose address somebody may not have been told

vars == << status, address, peers, keys, waiting, got, joins, pending, missed >>

Addresses == 0 .. MaxMoves
Joins == [to : Nodes, vk : Nodes, ip : Addresses, asker : Nodes \cup {None}]
Entries == Nodes \X Addresses

TypeOK ==
    /\ status \in [Nodes -> {"off", "joining", "up"}]
    /\ address \in [Nodes -> Addresses]
    /\ peers \in [Nodes -> [Nodes -> Addresses \cup {None}]]
    /\ keys \in [Nodes -> SUBSET Nodes]
    /\ waiting \in [Nodes -> SUBSET Constitution]
    /\ \A n \in Nodes : peers[n][n] # None /\ waiting[n] \subseteq Boot[n]
    /\ got \in [Nodes -> SUBSET Entries]
    /\ joins \subseteq Joins /\ pending \subseteq Joins
    /\ missed \subseteq Nodes

\* A bug to catch: the table starts empty.
AloneEmpty(n) == [v \in Nodes |-> None]
\* The table of a node that has just been constructed.
Alone(n) == [v \in Nodes |-> IF v = n THEN address[n] ELSE None]
Running(n) == status[n] # "off"

Init ==
    /\ status = [n \in Nodes |-> "off"]
    /\ address = [n \in Nodes |-> 0]
    /\ peers = [n \in Nodes |-> Alone(n)]
    /\ keys = [n \in Nodes |-> {}]
    /\ waiting = [n \in Nodes |-> {}] /\ got = [n \in Nodes |-> {}]
    /\ joins = {} /\ pending = {} /\ missed = {}

----------------------------------------------------------------------------
(* Network.start *)

\* The requests of a round; one to a node that is off is not answered.
Requests(n) ==
    {[to |-> b, vk |-> n, ip |-> address[n], asker |-> n] : b \in {b \in Boot[n] : Running(b)}}

\* A node starts: it has its bootnodes' keys, and the key files it had, and asks.
Start(n) ==
    /\ status[n] = "off"
    /\ n \in Joiners => \A b \in Boot[n] : status[b] = "up"
    /\ status' = [status EXCEPT ![n] = "joining"]
    /\ peers' = [peers EXCEPT ![n] = Alone(n)]
    /\ keys' = [keys EXCEPT ![n] = @ \cup Boot[n] \cup (IF n \in Constitution THEN {n} ELSE {})]
    /\ waiting' = [waiting EXCEPT ![n] = Boot[n]]
    /\ joins' = joins \cup Requests(n)
    /\ UNCHANGED << address, got, pending, missed >>

\* secure_request's poll times out: the request is lost, or is being handled, or
\* its answer is lost.  (That it is taken up later has the same effects.)
Timeout(n, b) ==
    /\ b \in waiting[n]
    /\ waiting' = [waiting EXCEPT ![n] = @ \ {b}]
    /\ joins' = {m \in joins : ~(m.asker = n /\ m.to = b)}
    /\ UNCHANGED << status, address, peers, keys, got, pending, missed >>

\* The table after a round: what is not known yet is added, in any order of answers.
Merges(n) ==
    {table \in [Nodes -> Addresses \cup {None}] :
        \A v \in Nodes :
            LET told == {e[2] : e \in {e \in got[n] : e[1] = v}}
            IN  IF peers[n][v] = None /\ told # {} THEN table[v] \in told ELSE table[v] = peers[n][v]}

\* A bug to catch: who joins looks for the first members only.
SoughtFirst(n) == Constitution

\* The keys a node looks for: those in its constitution file, or the members
\* that the masternode it joins through has named.
Sought(n) == IF n \in Constitution THEN Constitution ELSE Nodes

\* gather is over: ask again, or finish the start, with catch-up and the keys of
\* all members (refresh_governance_sockets).
EndRound(n) ==
    /\ status[n] = "joining" /\ waiting[n] = {}
    /\ \E table \in Merges(n) :
        /\ peers' = [peers EXCEPT ![n] = table]
        /\ IF \A v \in Sought(n) : table[v] # None
           THEN /\ status' = [status EXCEPT ![n] = "up"] /\ keys' = [keys EXCEPT ![n] = Nodes]
                /\ UNCHANGED << waiting, joins >>
           ELSE /\ waiting' = [waiting EXCEPT ![n] = Boot[n]] /\ joins' = joins \cup Requests(n)
                /\ UNCHANGED << status, keys >>
    /\ got' = [got EXCEPT ![n] = {}]
    /\ UNCHANGED << address, pending, missed >>

\* The process ends, and will be started with another address.
Move(n) ==
    /\ n \in Movers /\ status[n] = "up" /\ address[n] < MaxMoves
    /\ status' = [status EXCEPT ![n] = "off"]
    /\ address' = [address EXCEPT ![n] = @ + 1]
    /\ pending' = {h \in pending : h.to # n}
    /\ joins' = {m \in joins : m.to # n}
    /\ missed' = missed \cup {m.vk : m \in {m \in joins \cup pending : m.to = n}}
    /\ UNCHANGED << peers, keys, waiting, got >>

----------------------------------------------------------------------------
(* JoinProcessor.process_message *)

\* A message is forwarded if its address is not what n has of the key.
News(n, m) == peers[n][m.vk] # m.ip

\* secure_multicast reaches the peers whose key n has, at the address n knows.
\* (The message to itself is back when the table is written, and changes nothing.)
Reached(n) == {w \in keys[n] \ {n} : peers[n][w] = address[w] /\ Running(w)}
Forwards(nodes, m) == {[to |-> w, vk |-> m.vk, ip |-> m.ip, asker |-> None] : w \in nodes}

\* Those whose own join is only half done at n when m comes: they and m.vk may
\* keep an old address of one another.  (Of one that has had no other, they have
\* none, and will ask for it.)
Crossing(n, m) ==
    LET half == {h.vk : h \in {h \in pending : h.to = n}}
    IN  {v \in half \cup (IF half = {} THEN {} ELSE {m.vk}) : address[v] # 0}

\* No key file of the sender: no answer (or 'ok', which is none).
Refuse(m) ==
    /\ m \in joins /\ Running(m.to) /\ m.vk \notin keys[m.to]
    /\ joins' = joins \ {m}
    /\ missed' = missed \cup {m.vk}
    /\ UNCHANGED << status, address, peers, keys, waiting, got, pending >>

\* A message that is news is forwarded, before the table is written: an await.
\* Any of the forwards may be lost.
Forward(m) ==
    LET n == m.to
        told == {w \in Nodes \ {n} : peers[n][w] # None}
    IN  /\ m \in joins /\ Running(n) /\ m.vk \in keys[n] /\ News(n, m)
        /\ \E nodes \in SUBSET Reached(n) :
            /\ joins' = (joins \ {m}) \cup Forwards(nodes, m)
            /\ missed' = missed \cup Crossing(n, m) \cup (IF nodes # told THEN {m.vk} ELSE {})
        /\ pending' = pending \cup {m}
        /\ UNCHANGED << status, address, peers, keys, waiting, got >>

\* A bug to catch: only a message that is news is answered.
AnswersNews(n, m) == m \in pending
Answers(n, m) == TRUE

\* The table is written and returned to who asked, if it still waits.
Write(m) ==
    LET n == m.to
        table == [peers[n] EXCEPT ![m.vk] = m.ip]
        a == m.asker
    IN  /\ peers' = [peers EXCEPT ![n] = table]
        /\ missed' = IF m.ip = address[m.vk] THEN missed ELSE missed \cup {m.vk}
        /\ IF a # None /\ Answers(n, m) /\ n \in waiting[a] /\ m.ip = address[a]
           THEN /\ waiting' = [waiting EXCEPT ![a] = @ \ {n}]
                /\ got' = [got EXCEPT ![a] = @ \cup {e \in Entries : table[e[1]] = e[2]}]
           ELSE UNCHANGED << waiting, got >>
        /\ UNCHANGED << status, address, keys >>

\* After the forwarding ...
Forwarded(m) == m \in pending /\ pending' = pending \ {m} /\ Write(m) /\ UNCHANGED joins

\* ... or at once.
Known(m) ==
    /\ m \in joins /\ Running(m.to) /\ m.vk \in keys[m.to] /\ ~News(m.to, m)
    /\ joins' = joins \ {m} /\ Write(m) /\ UNCHANGED pending

\* The nodes of which n is told by a message under way: once n has learned an
\* address otherwise, the message is no news, and n tells nobody.
Overtaken(n) == {v \in Nodes : peers'[n][v] # peers[n][v] /\ \E m \in joins : m.to = n /\ m.vk = v}

\* Delegate.update_sockets: the adviser's table overwrites the delegate's.
UpdateSockets(n) ==
    /\ n \in Delegates /\ status[n] = "up"
    /\ peers[n][Adviser] = address[Adviser] /\ Running(Adviser) /\ n \in keys[Adviser]
    /\ peers' = [peers EXCEPT ![n] =
                    [v \in Nodes |-> IF peers[Adviser][v] # None THEN peers[Adviser][v] ELSE @[v]]]
    /\ missed' = missed \cup {v \in Nodes : peers[Adviser][v] \notin {None, address[v]}} \cup Overtaken(n)
    /\ UNCHANGED << status, address, keys, waiting, got, joins, pending >>

----------------------------------------------------------------------------
Handle(m) == Refuse(m) \/ Forward(m) \/ Forwarded(m) \/ Known(m)

Next ==
    \/ \E n \in Nodes :
        \/ Start(n) \/ EndRound(n) \/ Move(n) \/ UpdateSockets(n)
        \/ \E b \in Boot[n] : Timeout(n, b)
    \/ \E m \in joins \cup pending : Handle(m)

\* b takes up a request of n; b answers it while n waits.
TakesUp(n, b) == \E m \in joins : m.to = b /\ m.asker = n /\ Forward(m)
AnswersTo(n, b) ==
    /\ b \in waiting[n]
    /\ \E m \in joins \cup pending : m.to = b /\ m.asker = n /\ m.ip = address[n] /\ (Known(m) \/ Forwarded(m))

\* Nodes start, rounds end, and a request made again and again is at some time
\* taken up, and answered in time.
Fairness ==
    \A n \in Nodes :
        /\ WF_vars(Start(n)) /\ WF_vars(EndRound(n))
        /\ \A b \in Boot[n] : WF_vars(Timeout(n, b)) /\ SF_vars(TakesUp(n, b)) /\ SF_vars(AnswersTo(n, b))

Spec == Init /\ [][Next]_vars /\ Fairness

----------------------------------------------------------------------------
\* When all messages have been dealt with, nodes that are up have one another's
\* address, also those that joined at the same time, unless a message was lost,
\* refused for want of a key, out of date, overtaken by a table, or, of a node
\* that has moved, crossed with the join of the node it should have gone to.
\* (For instances in which only joiners move: a masternode that restarts forgets
\* who joined through it, and one that was missed may never hear of its new
\* address.)
KnownUnlessMissed ==
    joins = {} /\ pending = {} =>
        \A n, v \in Nodes :
            status[n] = "up" /\ status[v] = "up" => peers[n][v] = address[v] \/ v \in missed

\* Every node comes up: the nodes of the constitution wait for one another, and
\* those that join for a bootnode, and then for one another.
NodesComeUp == <>[](\A n \in Nodes : status[n] = "up")
===============================================================================
