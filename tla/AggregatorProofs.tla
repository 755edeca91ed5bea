-------------------------- MODULE AggregatorProofs --------------------------
(***************************************************************************)
(* Proofs about the vote counting: for every set of delegates, masternodes *)
(* and results, whatever messages come, in whatever order and how often.   *)
(***************************************************************************)
EXTENDS Aggregator, TLAPS, FiniteSetTheorems, SequenceTheorems

(* The strengthening that makes the properties inductive. *)

WasSent(msg) == msg.pass \in 1 .. Len(sent[msg.signer])

InInbox(m) == {inbox[m][k] : k \in DOMAIN inbox[m]}

\* Whatever m has of a delegate, queued, popped or popped for an earlier block.
Holds(m) == InInbox(m) \cup taken[m] \cup takenBefore[m]

\* Messages are those of passes that have been executed.
Delivered ==
    /\ \A packet \in net : WasSent(packet.msg)
    /\ \A m \in Masters : \A msg \in Holds(m) : WasSent(msg)

\* A message in flight is not held; what is held for one block is not held for
\* another, not even as a copy that is still queued.
HeldOnce(m) ==
    /\ \A packet \in net : packet.to = m => packet.msg \notin Holds(m)
    /\ InInbox(m) \cap takenBefore[m] = {}
    /\ phase[m] = "send" => InInbox(m) \cap taken[m] = {}
    /\ taken[m] \cap takenBefore[m] = {}

\* What is best has a vote.
BestSupported(c) == c.best # NoResult => Votes(c, c.best) >= 1

\* A vote counted for r at index i is vouched for by what its signer sent.
VouchedAt(i, c) ==
    \A r \in Results : \A k \in DOMAIN c.signatures[r] :
        LET sig == c.signatures[r][k]
        IN  /\ sig.pass \in 1 .. Len(sent[sig.signer])
            /\ i + 1 \in 1 .. Len(sent[sig.signer][sig.pass])
            /\ sent[sig.signer][sig.pass][i + 1].result = r

GoodContender(i, c) == OneVoteEach(c) /\ BestLeads(c) /\ BestSupported(c) /\ VouchedAt(i, c)

HeardAlikeAt(m) ==
    (\A msg \in taken[m] : Len(Content(msg)) >= Cardinality(DOMAIN contenders[m]))
        => \A i \in DOMAIN contenders[m] :
             i < Parallelism => contenders[m][i].received = {msg.signer : msg \in taken[m]}

MasterInv(m) ==
    /\ \E n \in Nat : DOMAIN contenders[m] = Indices(n)
    /\ HeldOnce(m)
    /\ \A i \in DOMAIN contenders[m] : GoodContender(i, contenders[m][i])
    /\ HeardAlikeAt(m)

IInv == TypeOK /\ Delivered /\ \A m \in Masters : MasterInv(m)

----------------------------------------------------------------------------
(* One more vote in a contender. *)

\* The vote of a delegate d, which has not voted yet, for r: the lists after it.
LEMMA SignaturesAfter ==
    ASSUME NEW c \in Contender, NEW sig \in Signature, NEW r \in Results
    PROVE  LET d == AddPotentialSolution(c, sig, r) IN
           /\ d \in Contender
           /\ d.received = c.received \cup {sig.signer}
           /\ d.responses = c.responses + 1
           /\ d.best = IF Beats(c, r) THEN r ELSE c.best
           /\ \A s \in Results \ {r} : d.signatures[s] = c.signatures[s]
           /\ d.signatures[r] = Append(c.signatures[r], sig)
           /\ Len(d.signatures[r]) = Len(c.signatures[r]) + 1
           /\ \A k \in DOMAIN c.signatures[r] : d.signatures[r][k] = c.signatures[r][k]
           /\ DOMAIN d.signatures[r] = DOMAIN c.signatures[r] \cup {Len(c.signatures[r]) + 1}
           /\ d.signatures[r][Len(c.signatures[r]) + 1] = sig
<1> DEFINE d == AddPotentialSolution(c, sig, r)
           new == [c.signatures EXCEPT ![r] = Append(@, sig)]
<1>1. c.signatures \in [Results -> Seq(Signature)] /\ c.best \in Results \cup {NoResult}
      /\ c.responses \in Nat /\ c.received \in SUBSET Delegates
  BY DEF Contender
<1>2. c.signatures[r] \in Seq(Signature) /\ Append(c.signatures[r], sig) \in Seq(Signature)
  BY <1>1
<1>3. new \in [Results -> Seq(Signature)]
  BY <1>1, <1>2
<1>4. sig.signer \in Delegates
  BY DEF Signature
<1>5. d = [signatures |-> new, best |-> IF Beats(c, r) THEN r ELSE c.best,
           responses |-> c.responses + 1, received |-> c.received \cup {sig.signer}]
  BY DEF AddPotentialSolution
<1>6. d \in Contender
  BY <1>1, <1>3, <1>4, <1>5 DEF Contender
<1>7. /\ \A s \in Results \ {r} : d.signatures[s] = c.signatures[s]
      /\ d.signatures[r] = Append(c.signatures[r], sig)
  BY <1>1, <1>5
<1>8. /\ Len(d.signatures[r]) = Len(c.signatures[r]) + 1
      /\ \A k \in DOMAIN c.signatures[r] : d.signatures[r][k] = c.signatures[r][k]
      /\ DOMAIN d.signatures[r] = DOMAIN c.signatures[r] \cup {Len(c.signatures[r]) + 1}
      /\ d.signatures[r][Len(c.signatures[r]) + 1] = sig
  BY <1>2, <1>7
<1>9. QED
  BY <1>5, <1>6, <1>7, <1>8

LEMMA EmptyContenderGood ==
    ASSUME NEW i
    PROVE  EmptyContender \in Contender /\ GoodContender(i, EmptyContender)
<1>1. EmptyContender \in Contender
  <2>1. << >> \in Seq(Signature)
    OBVIOUS
  <2>2. QED
    BY <2>1 DEF EmptyContender, Contender
<1>2. \A r \in Results : EmptyContender.signatures[r] = << >>
  BY DEF EmptyContender
<1>3. EmptyContender.received = {} /\ EmptyContender.best = NoResult /\ EmptyContender.responses = 0
  BY DEF EmptyContender
<1>4. OneVoteEach(EmptyContender)
  BY <1>2, <1>3, FS_EmptySet DEF OneVoteEach, Voters
<1>5. BestLeads(EmptyContender) /\ BestSupported(EmptyContender)
  BY <1>2, <1>3 DEF BestLeads, BestSupported, Votes
<1>6. VouchedAt(i, EmptyContender)
  <2>1. PICK c : c = EmptyContender
    OBVIOUS
  <2>2. \A r \in Results : DOMAIN c.signatures[r] = {}
    BY <1>2, <2>1
  <2>3. VouchedAt(i, c)
    <3>1. SUFFICES ASSUME NEW r \in Results, NEW k \in DOMAIN c.signatures[r] PROVE FALSE
      BY Zenon DEF VouchedAt
    <3>2. QED
      BY <2>2
  <2>4. QED
    BY <2>1, <2>3
<1>7. QED
  BY <1>1, <1>4, <1>5, <1>6 DEF GoodContender

\* The vote of a delegate that has not been counted keeps the votes exact.
LEMMA AddOneVote ==
    ASSUME SubBlocksAssumption, NEW c \in Contender, OneVoteEach(c),
           NEW sig \in Signature, sig.signer \notin c.received, NEW r \in Results
    PROVE  OneVoteEach(AddPotentialSolution(c, sig, r))
<1> DEFINE d == AddPotentialSolution(c, sig, r)
           n == Len(c.signatures[r]) + 1
<1>1. /\ d \in Contender
      /\ d.received = c.received \cup {sig.signer}
      /\ d.responses = c.responses + 1
      /\ \A s \in Results \ {r} : d.signatures[s] = c.signatures[s]
      /\ \A k \in DOMAIN c.signatures[r] : d.signatures[r][k] = c.signatures[r][k]
      /\ DOMAIN d.signatures[r] = DOMAIN c.signatures[r] \cup {n}
      /\ d.signatures[r][n] = sig
  BY SignaturesAfter
<1>2. n \notin DOMAIN c.signatures[r]
  BY DEF Contender
<1> HIDE DEF d, n
\* Whoever is in a list of d, but for the last entry for r, was in that list of c.
<1>3. \A s \in Results : \A k \in DOMAIN d.signatures[s] :
        \/ s = r /\ k = n
        \/ k \in DOMAIN c.signatures[s] /\ d.signatures[s][k] = c.signatures[s][k]
  BY <1>1
<1>4. \A s \in Results : \A k \in DOMAIN c.signatures[s] :
        c.signatures[s][k].signer \in c.received
  BY DEF OneVoteEach, Voters
<1>5. \A s \in Results : \A k \in DOMAIN c.signatures[s] :
        k \in DOMAIN d.signatures[s] /\ d.signatures[s][k] = c.signatures[s][k]
  BY <1>1
<1>6. ASSUME NEW s \in Results, NEW t \in Results,
             NEW j \in DOMAIN d.signatures[s], NEW k \in DOMAIN d.signatures[t],
             d.signatures[s][j].signer = d.signatures[t][k].signer
      PROVE  s = t /\ j = k
  <2>1. CASE s = r /\ j = n /\ t = r /\ k = n
    BY <2>1
  <2>2. CASE s = r /\ j = n /\ ~(t = r /\ k = n)
    BY <2>2, <1>1, <1>3, <1>4, <1>6
  <2>3. CASE ~(s = r /\ j = n) /\ t = r /\ k = n
    BY <2>3, <1>1, <1>3, <1>4, <1>6
  <2>4. CASE ~(s = r /\ j = n) /\ ~(t = r /\ k = n)
    <3>1. /\ j \in DOMAIN c.signatures[s] /\ d.signatures[s][j] = c.signatures[s][j]
          /\ k \in DOMAIN c.signatures[t] /\ d.signatures[t][k] = c.signatures[t][k]
      BY <2>4, <1>3
    <3>2. QED
      BY <3>1, <1>6 DEF OneVoteEach
  <2>5. QED
    BY <2>1, <2>2, <2>3, <2>4
<1>7. d.received = UNION {Voters(d, s) : s \in Results}
  <2>1. ASSUME NEW x \in d.received PROVE \E s \in Results : x \in Voters(d, s)
    <3>1. CASE x = sig.signer
      BY <3>1, <1>1 DEF Voters
    <3>2. CASE x \in c.received
      <4>1. PICK s \in Results : x \in Voters(c, s)
        BY <3>2 DEF OneVoteEach
      <4>2. QED
        BY <4>1, <1>5 DEF Voters
    <3>3. QED
      BY <3>1, <3>2, <2>1, <1>1
  <2>2. ASSUME NEW s \in Results, NEW x \in Voters(d, s) PROVE x \in d.received
    <3>1. PICK k \in DOMAIN d.signatures[s] : x = d.signatures[s][k].signer
      BY DEF Voters
    <3>2. QED
      BY <3>1, <1>1, <1>3, <1>4
  <2>3. QED
    BY <2>1, <2>2
<1>8. d.responses = Cardinality(d.received)
  <2>1. IsFiniteSet(c.received) /\ c.responses = Cardinality(c.received)
    BY FS_Subset DEF SubBlocksAssumption, Contender, OneVoteEach
  <2>2. Cardinality(c.received \cup {sig.signer}) = Cardinality(c.received) + 1
    BY <2>1, FS_AddElement
  <2>3. QED
    BY <1>1, <2>1, <2>2
<1>9. QED
  BY <1>6, <1>7, <1>8 DEF OneVoteEach, d

\* One more vote keeps the best solution an argmax.
LEMMA AddBest ==
    ASSUME SubBlocksAssumption, NEW c \in Contender, BestLeads(c), BestSupported(c),
           NEW sig \in Signature, NEW r \in Results
    PROVE  /\ BestLeads(AddPotentialSolution(c, sig, r))
           /\ BestSupported(AddPotentialSolution(c, sig, r))
<1> DEFINE d == AddPotentialSolution(c, sig, r)
<1>1. /\ d.best = IF Beats(c, r) THEN r ELSE c.best
      /\ \A s \in Results \ {r} : Votes(d, s) = Votes(c, s)
      /\ Votes(d, r) = Votes(c, r) + 1
  BY SignaturesAfter DEF Votes
<1>2. \A s \in Results : Votes(c, s) \in Nat
  BY DEF Votes, Contender
<1>3. c.best \in Results \cup {NoResult} /\ NoResult \notin Results
  BY DEF Contender, SubBlocksAssumption
<1> HIDE DEF d
<1>4. CASE Beats(c, r)
  <2>1. d.best = r /\ d.best # NoResult
    BY <1>1, <1>3, <1>4
  <2>2. \A s \in Results : Votes(d, s) <= Votes(d, r)
    BY <1>1, <1>2, <1>3, <1>4 DEF Beats, BestLeads
  <2>3. QED
    BY <1>1, <1>2, <2>1, <2>2 DEF BestLeads, BestSupported, d
<1>5. CASE ~ Beats(c, r)
  <2>1. d.best = c.best /\ c.best \in Results /\ c.best # NoResult
    BY <1>1, <1>3, <1>5 DEF Beats
  <2>2. c.best # r
    BY <1>2, <1>5, <2>1 DEF Beats
  <2>3. Votes(d, d.best) = Votes(c, c.best)
    BY <1>1, <2>1, <2>2
  <2>4. \A s \in Results : Votes(d, s) <= Votes(d, d.best)
    BY <1>1, <1>2, <1>5, <2>1, <2>3 DEF Beats, BestLeads
  <2>5. QED
    BY <2>1, <2>3, <2>4 DEF BestLeads, BestSupported, d
<1>6. QED
  BY <1>4, <1>5

\* A vote that its signer sent keeps the votes vouched for.
LEMMA AddVouched ==
    ASSUME NEW i, NEW c \in Contender, VouchedAt(i, c),
           NEW sig \in Signature, NEW r \in Results,
           sig.pass \in 1 .. Len(sent[sig.signer]),
           i + 1 \in 1 .. Len(sent[sig.signer][sig.pass]),
           sent[sig.signer][sig.pass][i + 1].result = r
    PROVE  VouchedAt(i, AddPotentialSolution(c, sig, r))
<1> DEFINE d == AddPotentialSolution(c, sig, r)
           n == Len(c.signatures[r]) + 1
<1>1. /\ \A s \in Results \ {r} : d.signatures[s] = c.signatures[s]
      /\ \A k \in DOMAIN c.signatures[r] : d.signatures[r][k] = c.signatures[r][k]
      /\ DOMAIN d.signatures[r] = DOMAIN c.signatures[r] \cup {n}
      /\ d.signatures[r][n] = sig
  BY SignaturesAfter
<1> HIDE DEF d, n
<1> SUFFICES ASSUME NEW s \in Results, NEW k \in DOMAIN d.signatures[s]
             PROVE  /\ d.signatures[s][k].pass \in 1 .. Len(sent[d.signatures[s][k].signer])
                    /\ i + 1 \in 1 .. Len(sent[d.signatures[s][k].signer][d.signatures[s][k].pass])
                    /\ sent[d.signatures[s][k].signer][d.signatures[s][k].pass][i + 1].result = s
  BY DEF VouchedAt, d
<1>2. CASE s = r /\ k = n
  BY <1>1, <1>2
<1>3. CASE ~(s = r /\ k = n)
  <2>1. k \in DOMAIN c.signatures[s] /\ d.signatures[s][k] = c.signatures[s][k]
    BY <1>1, <1>3
  <2>2. QED
    BY <2>1 DEF VouchedAt
<1>4. QED
  BY <1>2, <1>3

----------------------------------------------------------------------------
(* What a poll does to one contender. *)

\* The first queued message was sent, and is well formed.
LEMMA HeadSent ==
    ASSUME TypeOK, Delivered, NEW m \in Masters, inbox[m] # << >>
    PROVE  LET msg == Head(inbox[m]) IN
           /\ msg \in Message /\ msg \in InInbox(m) /\ WasSent(msg)
           /\ Content(msg) \in Seq(Sbc)
           /\ Tail(inbox[m]) \in Seq(Message)
           /\ \A k \in DOMAIN Tail(inbox[m]) : Tail(inbox[m])[k] \in InInbox(m)
<1> DEFINE msg == Head(inbox[m])
<1>1. inbox[m] \in Seq(Message)
  BY DEF TypeOK
<1>2. msg \in Message /\ 1 \in DOMAIN inbox[m] /\ msg = inbox[m][1]
  BY <1>1
<1>3. msg \in InInbox(m)
  BY <1>2 DEF InInbox
<1>4. WasSent(msg)
  BY <1>3 DEF Delivered, Holds
<1>5. Content(msg) \in Seq(Sbc)
  <2>1. sent[msg.signer] \in Seq(Seq(Sbc))
    BY <1>2 DEF TypeOK, Message
  <2>2. QED
    BY <1>4, <2>1 DEF WasSent, Content
<1>6. /\ Tail(inbox[m]) \in Seq(Message)
      /\ \A k \in DOMAIN Tail(inbox[m]) : k + 1 \in DOMAIN inbox[m] /\ Tail(inbox[m])[k] = inbox[m][k + 1]
  BY <1>1
<1>7. QED
  BY <1>2, <1>3, <1>4, <1>5, <1>6 DEF InInbox

\* A contender stays as it was, for one of two reasons, or gets one new vote.
LEMMA PolledContender ==
    ASSUME TypeOK, Delivered, NEW m \in Masters, inbox[m] # << >>,
           NEW i \in DOMAIN contenders[m],
           NEW msg, msg = Head(inbox[m]),
           NEW c, c = contenders[m][i],
           NEW d, d = AddSbcs(contenders[m], msg.signer, msg.pass, Content(msg))[i]
    PROVE  \/ d = c /\ (i >= Parallelism \/ i + 1 > Len(Content(msg)) \/ msg.signer \in c.received)
           \/ \E sig \in Signature, r \in Results :
                /\ d = AddPotentialSolution(c, sig, r)
                /\ sig.signer = msg.signer /\ sig.signer \notin c.received
                /\ sig.pass \in 1 .. Len(sent[sig.signer])
                /\ i + 1 \in 1 .. Len(sent[sig.signer][sig.pass])
                /\ sent[sig.signer][sig.pass][i + 1].result = r
<1>1. msg \in Message /\ WasSent(msg) /\ Content(msg) \in Seq(Sbc)
  BY HeadSent
<1>2. i \in Nat /\ Parallelism \in Nat
  BY SubBlocksAssumption DEF TypeOK
<1> DEFINE sig == [signer |-> msg.signer, pass |-> msg.pass]
<1>3. d = IF Answers(Content(msg), i) /\ ~ AlreadyCounted(c, msg.signer)
          THEN AddPotentialSolution(c, sig, Content(msg)[i + 1].result)
          ELSE c
  BY DEF AddSbcs
<1>4. CASE Answers(Content(msg), i) /\ msg.signer \notin c.received
  <2>1. d = AddPotentialSolution(c, sig, Content(msg)[i + 1].result)
    BY <1>3, <1>4 DEF AlreadyCounted
  <2>2. sig \in Signature /\ sig.signer = msg.signer /\ sig.pass = msg.pass
    BY <1>1 DEF Signature, Message
  <2>3. i + 1 \in 1 .. Len(Content(msg)) /\ Content(msg)[i + 1] \in Sbc
    BY <1>1, <1>2, <1>4 DEF Answers
  <2>4. Content(msg)[i + 1].result \in Results
    BY <2>3 DEF Sbc
  <2>5. QED
    BY <1>1, <1>4, <2>1, <2>2, <2>3, <2>4 DEF WasSent, Content
<1>5. CASE ~ (Answers(Content(msg), i) /\ msg.signer \notin c.received)
  <2>1. d = c
    BY <1>3, <1>5 DEF AlreadyCounted
  <2>2. Len(Content(msg)) \in Nat
    BY <1>1
  <2>3. QED
    BY <1>2, <1>5, <2>1, <2>2 DEF Answers
<1>6. QED
  BY <1>4, <1>5

\* It stays, or becomes, what a contender should be.
LEMMA PolledGood ==
    ASSUME TypeOK, Delivered, NEW m \in Masters, inbox[m] # << >>,
           NEW i \in DOMAIN contenders[m], GoodContender(i, contenders[m][i]),
           NEW msg, msg = Head(inbox[m]),
           NEW d, d = AddSbcs(contenders[m], msg.signer, msg.pass, Content(msg))[i]
    PROVE  d \in Contender /\ GoodContender(i, d)
<1> DEFINE c == contenders[m][i]
<1>1. c \in Contender
  BY DEF TypeOK
<1>2. CASE d = c
  BY <1>1, <1>2
<1>3. CASE \E sig \in Signature, r \in Results :
             /\ d = AddPotentialSolution(c, sig, r)
             /\ sig.signer = msg.signer /\ sig.signer \notin c.received
             /\ sig.pass \in 1 .. Len(sent[sig.signer])
             /\ i + 1 \in 1 .. Len(sent[sig.signer][sig.pass])
             /\ sent[sig.signer][sig.pass][i + 1].result = r
  <2>1. PICK sig \in Signature, r \in Results :
             /\ d = AddPotentialSolution(c, sig, r)
             /\ sig.signer \notin c.received
             /\ sig.pass \in 1 .. Len(sent[sig.signer])
             /\ i + 1 \in 1 .. Len(sent[sig.signer][sig.pass])
             /\ sent[sig.signer][sig.pass][i + 1].result = r
    BY <1>3
  <2> HIDE DEF c
  <2>2. OneVoteEach(c) /\ BestLeads(c) /\ BestSupported(c) /\ VouchedAt(i, c)
    BY DEF GoodContender, c
  <2>3. d \in Contender
    BY <1>1, <2>1, SignaturesAfter
  <2>4. OneVoteEach(d)
    BY <1>1, <2>1, <2>2, AddOneVote, SubBlocksAssumption
  <2>5. BestLeads(d) /\ BestSupported(d)
    BY <1>1, <2>1, <2>2, AddBest, SubBlocksAssumption
  <2>6. VouchedAt(i, d)
    BY <1>1, <2>1, <2>2, AddVouched
  <2>7. QED
    BY <2>3, <2>4, <2>5, <2>6 DEF GoodContender
<1>4. QED
  BY <1>2, <1>3, PolledContender

----------------------------------------------------------------------------
(* Type correctness. *)

\* What process_message queues is a sequence of copies of the message.
LEMMA QueuedType ==
    ASSUME TypeOK, NEW m \in Masters, NEW msg \in Message, WasSent(msg)
    PROVE  /\ Queued(m, msg) \in Seq(Message)
           /\ \A k \in DOMAIN Queued(m, msg) : Queued(m, msg)[k] = msg
<1> DEFINE sbcs == Content(msg)
           n == ValidPrefix(sbcs)
<1>1. sbcs \in Seq(Sbc)
  <2>1. sent[msg.signer] \in Seq(Seq(Sbc))
    BY DEF TypeOK, Message
  <2>2. QED
    BY <2>1 DEF WasSent, Content
<1>2. n \in Nat
  <2>1. DOMAIN sbcs = 1 .. Len(sbcs) /\ Len(sbcs) \in Nat
    BY <1>1
  <2>2. IsFiniteSet(DOMAIN sbcs)
    BY <2>1, FS_Interval
  <2>3. IsFiniteSet({k \in DOMAIN sbcs : \A p \in 1 .. k : SbcIsValid(sbcs, p)})
    BY <2>2, FS_Subset
  <2>4. QED
    BY <2>3, FS_CardinalityType DEF ValidPrefix
<1> HIDE DEF n
<1>3. [k \in 1 .. n |-> msg] \in Seq(Message)
  BY <1>2
<1>4. QED
  BY <1>3 DEF Queued, n

LEMMA ExecuteType ==
    ASSUME TypeOK, NEW d \in Delegates, Execute(d)
    PROVE  TypeOK'
<1>1. PICK n \in MasterCounts : \E sbcs \in [1 .. n -> Sbc] : sent' = [sent EXCEPT ![d] = Append(@, sbcs)]
  BY DEF Execute
<1>2. PICK sbcs \in [1 .. n -> Sbc] : sent' = [sent EXCEPT ![d] = Append(@, sbcs)]
  BY <1>1
<1>3. sbcs \in Seq(Sbc)
  <2>1. n \in Nat
    BY AggregatorAssumption
  <2>2. QED
    BY <2>1
<1>4. sent[d] \in Seq(Seq(Sbc)) /\ Append(sent[d], sbcs) \in Seq(Seq(Sbc))
  BY <1>3 DEF TypeOK
<1>5. sent' \in [Delegates -> Seq(Seq(Sbc))]
  BY <1>2, <1>4 DEF TypeOK
<1>6. net' \subseteq [to : Masters, msg : Message]
  <2>1. Len(sent[d]) + 1 \in Nat
    BY <1>4
  <2>2. QED
    BY <2>1 DEF Execute, TypeOK, Message
<1>7. QED
  BY <1>5, <1>6 DEF Execute, TypeOK, masterVars

LEMMA MasterType ==
    ASSUME TypeOK, Delivered, NEW m \in Masters,
           ReceiveSbcs(m) \/ StartGather(m) \/ Poll(m) \/ Expire(m) \/ Finish(m) \/ Resume(m)
    PROVE  TypeOK'
<1>1. CASE ReceiveSbcs(m)
  <2>1. PICK packet \in net :
          /\ net' = net \ {packet}
          /\ inbox' = [inbox EXCEPT ![m] = @ \o Queued(m, packet.msg)]
    BY <1>1 DEF ReceiveSbcs
  <2>2. packet.msg \in Message /\ WasSent(packet.msg)
    BY DEF TypeOK, Delivered
  <2>3. inbox[m] \o Queued(m, packet.msg) \in Seq(Message)
    BY <2>2, QueuedType, SMTT(30) DEF TypeOK
  <2>4. QED
    BY <1>1, <2>1, <2>3, SMTT(30) DEF ReceiveSbcs, TypeOK, masterVars
<1>2. CASE StartGather(m)
  <2>1. PICK n \in MasterCounts, k \in ContactCounts :
          /\ expected' = [expected EXCEPT ![m] = n]
          /\ contacts' = [contacts EXCEPT ![m] = k]
          /\ contenders' = [contenders EXCEPT ![m] = [i \in Indices(n) |-> EmptyContender]]
    BY <1>2 DEF StartGather
  <2>2. n \in Nat /\ k \in Nat /\ Indices(n) \subseteq Nat
    BY AggregatorAssumption DEF Indices
  <2>3. [i \in Indices(n) |-> EmptyContender] \in [Indices(n) -> Contender]
    BY EmptyContenderGood
  <2>4. \A x \in Masters : contenders'[x] = IF x = m THEN [i \in Indices(n) |-> EmptyContender] ELSE contenders[x]
    BY <2>1 DEF TypeOK
  <2>5. QED
    BY <1>2, <2>1, <2>2, <2>3, <2>4, SMTT(30) DEF StartGather, TypeOK
<1>3. CASE Poll(m)
  <2> DEFINE msg == Head(inbox[m])
             new == AddSbcs(contenders[m], msg.signer, msg.pass, Content(msg))
  <2>1. /\ msg \in Message /\ Tail(inbox[m]) \in Seq(Message)
    BY <1>3, HeadSent DEF Poll
  <2>2. /\ contenders' = [contenders EXCEPT ![m] = new]
        /\ taken' = [taken EXCEPT ![m] = @ \cup {msg}]
        /\ inbox' = [inbox EXCEPT ![m] = Tail(@)]
        /\ inbox[m] # << >>
    BY <1>3 DEF Poll
  <2>3. DOMAIN new = DOMAIN contenders[m] /\ new = [i \in DOMAIN contenders[m] |-> new[i]]
    BY DEF AddSbcs
  <2>4. ASSUME NEW i \in DOMAIN contenders[m] PROVE new[i] \in Contender
    <3>1. contenders[m][i] \in Contender
      BY DEF TypeOK
    <3>2. \/ new[i] = contenders[m][i]
          \/ \E sig \in Signature, r \in Results : new[i] = AddPotentialSolution(contenders[m][i], sig, r)
      BY <2>2, PolledContender
    <3>3. QED
      BY <3>1, <3>2, SignaturesAfter
  <2>5. new \in [DOMAIN new -> Contender]
    BY <2>3, <2>4
  <2> HIDE DEF new, msg
  <2>6. \A x \in Masters : contenders'[x] = IF x = m THEN new ELSE contenders[x]
    BY <2>2 DEF TypeOK
  <2>7. \A x \in Masters : contenders'[x] \in [DOMAIN contenders'[x] -> Contender] /\ DOMAIN contenders'[x] \subseteq Nat
    BY <2>3, <2>5, <2>6 DEF TypeOK
  <2>8. QED
    BY <1>3, <2>1, <2>2, <2>7 DEF Poll, TypeOK
<1>4. CASE Expire(m)
  BY <1>4 DEF Expire, TypeOK
<1>5. CASE Finish(m)
  BY <1>5 DEF Finish, TypeOK
<1>6. CASE Resume(m)
  BY <1>6 DEF Resume, Cleared, TypeOK
<1>7. QED
  BY <1>1, <1>2, <1>3, <1>4, <1>5, <1>6

----------------------------------------------------------------------------
(* The steps keep the invariant. *)

\* A step that changes nothing of master x, and only takes messages out of the
\* network, keeps what holds of x.
LEMMA OtherMaster ==
    ASSUME NEW x \in Masters, MasterInv(x), sent' = sent, net' \subseteq net,
           inbox'[x] = inbox[x], phase'[x] = phase[x], contenders'[x] = contenders[x],
           taken'[x] = taken[x], takenBefore'[x] = takenBefore[x]
    PROVE  MasterInv(x)'
<1>1. InInbox(x)' = InInbox(x) /\ Holds(x)' = Holds(x)
  BY DEF InInbox, Holds
<1>2. HeldOnce(x)'
  BY <1>1 DEF MasterInv, HeldOnce
<1>3. HeardAlikeAt(x)'
  BY DEF MasterInv, HeardAlikeAt, Content
<1>4. ASSUME NEW i \in DOMAIN contenders[x] PROVE GoodContender(i, contenders[x][i])'
  <2>1. OneVoteEach(contenders[x][i])' /\ BestLeads(contenders[x][i])' /\ BestSupported(contenders[x][i])'
    BY DEF MasterInv, GoodContender
  <2>2. VouchedAt(i, contenders[x][i]) /\ contenders'[x][i] = contenders[x][i]
    BY DEF MasterInv, GoodContender
  <2>3. VouchedAt(i, contenders[x][i])'
    <3>1. PICK c : c = contenders[x][i] /\ c = contenders'[x][i]
      BY <2>2
    <3>2. VouchedAt(i, c) <=> VouchedAt(i, c)'
      BY DEF VouchedAt
    <3>3. QED
      BY <2>2, <3>1, <3>2
  <2>4. QED
    BY <2>1, <2>3 DEF GoodContender
<1>5. QED
  BY <1>2, <1>3, <1>4 DEF MasterInv

\* Messages that were sent stay sent, and say the same.
LEMMA SentStays ==
    ASSUME TypeOK, NEW d \in Delegates, Execute(d),
           NEW s \in Delegates, NEW p \in 1 .. Len(sent[s])
    PROVE  p \in 1 .. Len(sent'[s]) /\ sent'[s][p] = sent[s][p]
<1>1. PICK n \in MasterCounts : \E sbcs \in [1 .. n -> Sbc] : sent' = [sent EXCEPT ![d] = Append(@, sbcs)]
  BY DEF Execute
<1>2. PICK sbcs : sent' = [sent EXCEPT ![d] = Append(@, sbcs)]
  BY <1>1
<1>3. sent[s] \in Seq(Seq(Sbc))
  BY DEF TypeOK
<1>4. CASE s = d
  <2>1. sent'[s] = Append(sent[s], sbcs)
    BY <1>2, <1>4 DEF TypeOK
  <2>2. QED
    BY <1>3, <2>1
<1>5. CASE s # d
  BY <1>2, <1>5 DEF TypeOK
<1>6. QED
  BY <1>4, <1>5

LEMMA ExecuteStep ==
    ASSUME IInv, NEW d \in Delegates, Execute(d)
    PROVE  Delivered' /\ \A m \in Masters : MasterInv(m)'
<1> PICK new : new = [signer |-> d, pass |-> Len(sent[d]) + 1]
  OBVIOUS
<1>0. TypeOK /\ Delivered /\ \A m \in Masters : MasterInv(m)
  BY DEF IInv
<1>1. /\ net' = net \cup {[to |-> m, msg |-> new] : m \in Masters}
      /\ UNCHANGED << inbox, contenders, phase, taken, takenBefore >>
  BY DEF Execute, masterVars
<1>2. Len(sent[d]) \in Nat /\ Len(sent'[d]) = Len(sent[d]) + 1
  <2>1. PICK sbcs : sent' = [sent EXCEPT ![d] = Append(@, sbcs)]
    BY DEF Execute
  <2>2. sent[d] \in Seq(Seq(Sbc)) /\ sent'[d] = Append(sent[d], sbcs)
    BY <1>0, <2>1 DEF TypeOK
  <2>3. QED
    BY <2>2
<1>3. ASSUME NEW msg \in Message, WasSent(msg)
      PROVE  WasSent(msg)' /\ Content(msg)' = Content(msg) /\ msg # new
  <2>1. msg.signer \in Delegates /\ msg.pass \in 1 .. Len(sent[msg.signer])
    BY <1>3 DEF WasSent, Message
  <2>2. /\ msg.pass \in 1 .. Len(sent'[msg.signer])
        /\ sent'[msg.signer][msg.pass] = sent[msg.signer][msg.pass]
    BY <1>0, <2>1, SentStays
  <2>3. QED
    BY <1>2, <2>1, <2>2 DEF WasSent, Content
<1>4. \A m \in Masters : InInbox(m)' = InInbox(m) /\ Holds(m)' = Holds(m)
  BY <1>1 DEF InInbox, Holds
<1>5. ASSUME NEW m \in Masters, NEW msg \in Holds(m) PROVE msg \in Message /\ WasSent(msg)
  <2>1. inbox[m] \in Seq(Message)
    BY <1>0 DEF TypeOK
  <2>2. QED
    BY <1>0, <2>1 DEF TypeOK, Delivered, Holds, InInbox
<1>6. Delivered'
  <2>1. \A packet \in net : packet.msg \in Message /\ WasSent(packet.msg)'
    BY <1>0, <1>3 DEF Delivered, TypeOK
  <2>2. WasSent(new)'
    BY <1>2 DEF WasSent
  <2>3. \A packet \in net' : WasSent(packet.msg)'
    BY <1>1, <2>1, <2>2
  <2>4. QED
    BY <1>3, <1>4, <1>5, <2>3 DEF Delivered
<1>7. ASSUME NEW m \in Masters PROVE MasterInv(m)'
  <2>1. HeldOnce(m)'
    <3>1. new \notin Holds(m)
      BY <1>3, <1>5
    <3>2. \A packet \in net' : packet.to = m => packet.msg \notin Holds(m)
      BY <1>0, <1>1, <3>1 DEF MasterInv, HeldOnce
    <3>3. QED
      BY <1>0, <1>1, <1>4, <3>2 DEF MasterInv, HeldOnce
  <2>2. ASSUME NEW i \in DOMAIN contenders[m] PROVE GoodContender(i, contenders[m][i])'
    <3> DEFINE c == contenders[m][i]
    <3>1. c \in Contender /\ contenders'[m][i] = c
      BY <1>0, <1>1 DEF TypeOK
    <3>2. OneVoteEach(c) /\ BestLeads(c) /\ BestSupported(c) /\ VouchedAt(i, c)
      BY <1>0 DEF MasterInv, GoodContender
    <3>3. ASSUME NEW r \in Results, NEW k \in DOMAIN c.signatures[r]
          PROVE  LET sig == c.signatures[r][k]
                 IN  /\ sig.pass \in 1 .. Len(sent'[sig.signer])
                     /\ i + 1 \in 1 .. Len(sent'[sig.signer][sig.pass])
                     /\ sent'[sig.signer][sig.pass][i + 1].result = r
      <4> DEFINE sig == c.signatures[r][k]
      <4>1. sig \in Signature /\ sig.signer \in Delegates
        <5>1. c.signatures[r] \in Seq(Signature)
          BY <3>1 DEF Contender
        <5>2. sig \in Signature
          BY <5>1
        <5>3. QED
          BY <5>2 DEF Signature
      <4>2. /\ sig.pass \in 1 .. Len(sent[sig.signer])
            /\ i + 1 \in 1 .. Len(sent[sig.signer][sig.pass])
            /\ sent[sig.signer][sig.pass][i + 1].result = r
        BY <3>2 DEF VouchedAt
      <4>3. QED
        BY <1>0, <4>1, <4>2, SentStays
    <3>4. VouchedAt(i, contenders[m][i])'
      BY <3>1, <3>3 DEF VouchedAt
    <3>5. OneVoteEach(contenders[m][i])' /\ BestLeads(contenders[m][i])' /\ BestSupported(contenders[m][i])'
      BY <3>1, <3>2
    <3>6. QED
      BY <3>4, <3>5 DEF GoodContender
  <2>3. HeardAlikeAt(m)'
    <3>1. \A msg \in taken[m] : Content(msg)' = Content(msg)
      BY <1>3, <1>5 DEF Holds
    <3>2. QED
      BY <1>0, <1>1, <3>1 DEF MasterInv, HeardAlikeAt
  <2>4. QED
    BY <1>0, <1>1, <2>1, <2>2, <2>3 DEF MasterInv
<1>8. QED
  BY <1>6, <1>7

\* What m holds after the queue has grown by copies of one message.
LEMMA ReceiveStep ==
    ASSUME IInv, NEW m \in Masters, ReceiveSbcs(m)
    PROVE  Delivered' /\ MasterInv(m)'
<1>0. TypeOK /\ Delivered /\ MasterInv(m)
  BY DEF IInv
<1>1. PICK packet \in net :
        /\ packet.to = m
        /\ net' = net \ {packet}
        /\ inbox' = [inbox EXCEPT ![m] = @ \o Queued(m, packet.msg)]
  BY DEF ReceiveSbcs
<1>2. UNCHANGED << sent, phase, contenders, taken, takenBefore >>
  BY DEF ReceiveSbcs, masterVars
<1>3. packet.msg \in Message /\ WasSent(packet.msg)
  BY <1>0 DEF TypeOK, Delivered
<1>4. \A x \in Masters : InInbox(x)' \subseteq InInbox(x) \cup (IF x = m THEN {packet.msg} ELSE {})
  <2>1. ASSUME NEW x \in Masters, NEW msg \in InInbox(x)'
        PROVE  msg \in InInbox(x) \cup (IF x = m THEN {packet.msg} ELSE {})
    <3>1. PICK k \in DOMAIN inbox'[x] : msg = inbox'[x][k]
      BY DEF InInbox
    <3>2. CASE x # m
      BY <1>0, <1>1, <3>1, <3>2 DEF TypeOK, InInbox
    <3>3. CASE x = m
      <4> DEFINE q == Queued(m, packet.msg)
      <4>1. inbox[m] \in Seq(Message) /\ q \in Seq(Message) /\ inbox'[m] = inbox[m] \o q
        BY <1>0, <1>1, <1>3, QueuedType DEF TypeOK
      <4>2. \A j \in DOMAIN q : q[j] = packet.msg
        BY <1>0, <1>3, QueuedType
      <4> HIDE DEF q
      <4>3. \/ k \in DOMAIN inbox[m] /\ inbox'[m][k] = inbox[m][k]
            \/ k - Len(inbox[m]) \in DOMAIN q /\ inbox'[m][k] = q[k - Len(inbox[m])]
        BY <3>1, <3>3, <4>1
      <4>4. QED
        BY <3>1, <3>3, <4>2, <4>3 DEF InInbox
    <3>4. QED
      BY <3>2, <3>3
  <2>2. QED
    BY <2>1
<1>5. Delivered'
  <2>1. \A x \in Masters : Holds(x)' \subseteq Holds(x) \cup {packet.msg}
    BY <1>2, <1>4 DEF Holds
  <2>2. \A x \in Masters : \A msg \in Holds(x)' : WasSent(msg)
    BY <1>0, <1>3, <2>1 DEF Delivered
  <2>3. \A p \in net' : WasSent(p.msg)
    BY <1>0, <1>1 DEF Delivered
  <2>4. QED
    BY <1>2, <2>2, <2>3 DEF Delivered, WasSent
<1>6. HeldOnce(m)'
  <2>1. packet.msg \notin Holds(m)
    BY <1>0, <1>1 DEF MasterInv, HeldOnce
  <2>2. ASSUME NEW p \in net', p.to = m PROVE p.msg \notin Holds(m)'
    <3>1. p \in net /\ p # packet
      BY <1>1, <2>2
    <3>2. p \in [to : Masters, msg : Message] /\ packet \in [to : Masters, msg : Message]
      BY <1>0, <3>1 DEF TypeOK
    <3>3. p.msg # packet.msg
      BY <1>1, <2>2, <3>1, <3>2
    <3>4. p.msg \notin Holds(m)
      BY <1>0, <2>2, <3>1 DEF MasterInv, HeldOnce
    <3>5. QED
      BY <1>2, <1>4, <3>3, <3>4 DEF Holds
  <2>3. /\ InInbox(m)' \cap takenBefore[m] = {}
        /\ phase[m] = "send" => InInbox(m)' \cap taken[m] = {}
        /\ taken[m] \cap takenBefore[m] = {}
    BY <1>0, <1>4, <2>1 DEF MasterInv, HeldOnce, Holds
  <2>4. QED
    BY <1>2, <2>2, <2>3 DEF HeldOnce
<1>7. HeardAlikeAt(m)'
  BY <1>0, <1>2 DEF MasterInv, HeardAlikeAt, Content
<1>8. ASSUME NEW i \in DOMAIN contenders[m] PROVE GoodContender(i, contenders[m][i])'
  <2>1. GoodContender(i, contenders[m][i]) /\ contenders'[m][i] = contenders[m][i]
    BY <1>0, <1>2 DEF MasterInv
  <2>2. OneVoteEach(contenders[m][i])' /\ BestLeads(contenders[m][i])' /\ BestSupported(contenders[m][i])'
    BY <2>1 DEF GoodContender
  <2>3. VouchedAt(i, contenders[m][i])'
    BY <1>2, <2>1 DEF GoodContender, VouchedAt
  <2>4. QED
    BY <2>2, <2>3 DEF GoodContender
<1>9. QED
  BY <1>0, <1>2, <1>5, <1>6, <1>7, <1>8 DEF MasterInv

LEMMA StartGatherStep ==
    ASSUME IInv, NEW m \in Masters, StartGather(m)
    PROVE  Delivered' /\ MasterInv(m)'
<1>0. TypeOK /\ Delivered /\ MasterInv(m)
  BY DEF IInv
<1>1. PICK n \in MasterCounts : contenders' = [contenders EXCEPT ![m] = [i \in Indices(n) |-> EmptyContender]]
  BY DEF StartGather
<1>2. /\ n \in Nat
      /\ contenders'[m] = [i \in Indices(n) |-> EmptyContender]
  BY <1>0, <1>1, AggregatorAssumption DEF TypeOK
<1>3. /\ UNCHANGED << sent, net, inbox >>
      /\ phase[m] = "send" /\ phase'[m] = "gather"
      /\ taken'[m] = {} /\ takenBefore'[m] = takenBefore[m] \cup taken[m]
      /\ \A x \in Masters \ {m} : taken'[x] = taken[x] /\ takenBefore'[x] = takenBefore[x]
  BY <1>0 DEF StartGather, TypeOK
<1>4. \A x \in Masters : InInbox(x)' = InInbox(x) /\ Holds(x)' = Holds(x)
  BY <1>3 DEF InInbox, Holds
<1>5. Delivered'
  BY <1>0, <1>3, <1>4 DEF Delivered, WasSent
<1>6. HeldOnce(m)'
  BY <1>0, <1>3, <1>4 DEF MasterInv, HeldOnce
<1>7. HeardAlikeAt(m)'
  <2>1. \A i \in DOMAIN contenders'[m] : contenders'[m][i].received = {}
    BY <1>2 DEF EmptyContender
  <2>2. QED
    BY <1>3, <2>1 DEF HeardAlikeAt
<1>8. ASSUME NEW i \in DOMAIN contenders'[m] PROVE GoodContender(i, contenders[m][i])'
  <2>1. contenders'[m][i] = EmptyContender
    BY <1>2
  <2>2. GoodContender(i, EmptyContender)
    BY EmptyContenderGood
  <2>3. OneVoteEach(contenders[m][i])' /\ BestLeads(contenders[m][i])' /\ BestSupported(contenders[m][i])'
    BY <2>1, <2>2 DEF GoodContender
  <2>4. VouchedAt(i, contenders[m][i])'
    BY <1>3, <2>1, <2>2 DEF GoodContender, VouchedAt
  <2>5. QED
    BY <2>3, <2>4 DEF GoodContender
<1>9. QED
  BY <1>2, <1>5, <1>6, <1>7, <1>8 DEF MasterInv

\* Who is vouched for now is vouched for in the next state, nothing being sent.
LEMMA VouchedMoves ==
    ASSUME NEW m, NEW i, NEW c, VouchedAt(i, c), contenders'[m][i] = c, sent' = sent
    PROVE  VouchedAt(i, contenders[m][i])'
BY DEF VouchedAt

LEMMA PollStep ==
    ASSUME IInv, NEW m \in Masters, Poll(m)
    PROVE  Delivered' /\ MasterInv(m)'
<1>0. TypeOK /\ Delivered /\ MasterInv(m)
  BY DEF IInv
<1> PICK msg : msg = Head(inbox[m])
  OBVIOUS
<1> PICK new : new = AddSbcs(contenders[m], msg.signer, msg.pass, Content(msg))
  OBVIOUS
<1>1. /\ inbox[m] # << >> /\ phase[m] = "gather"
      /\ contenders'[m] = new
      /\ taken'[m] = taken[m] \cup {msg} /\ takenBefore'[m] = takenBefore[m]
      /\ \A x \in Masters \ {m} : taken'[x] = taken[x] /\ takenBefore'[x] = takenBefore[x] /\ inbox'[x] = inbox[x]
      /\ inbox'[m] = Tail(inbox[m])
      /\ UNCHANGED << sent, net, phase >>
  BY <1>0 DEF Poll, TypeOK
<1>2. msg \in InInbox(m) /\ msg \in Message /\ WasSent(msg) /\ InInbox(m)' \subseteq InInbox(m)
  <2>1. \A k \in DOMAIN Tail(inbox[m]) : Tail(inbox[m])[k] \in InInbox(m)
    BY <1>0, <1>1, HeadSent
  <2>2. InInbox(m)' \subseteq InInbox(m)
    BY <1>1, <2>1 DEF InInbox
  <2>3. QED
    BY <1>0, <1>1, <2>2, HeadSent
<1>3. \A x \in Masters : Holds(x)' \subseteq Holds(x)
  <2>1. \A x \in Masters \ {m} : InInbox(x)' = InInbox(x)
    BY <1>1 DEF InInbox
  <2>2. QED
    BY <1>1, <1>2, <2>1 DEF Holds
<1>4. Delivered'
  BY <1>0, <1>1, <1>3 DEF Delivered, WasSent
<1>5. HeldOnce(m)'
  BY <1>0, <1>1, <1>2, <1>3 DEF MasterInv, HeldOnce
<1>6. DOMAIN new = DOMAIN contenders[m]
  BY DEF AddSbcs
<1>7. ASSUME NEW i \in DOMAIN new PROVE GoodContender(i, contenders[m][i])'
  <2>1. GoodContender(i, contenders[m][i])
    BY <1>0, <1>6 DEF MasterInv
  <2>2. GoodContender(i, new[i])
    BY <1>0, <1>1, <1>6, <2>1, PolledGood
  <2>3. OneVoteEach(contenders[m][i])' /\ BestLeads(contenders[m][i])' /\ BestSupported(contenders[m][i])'
    BY <1>1, <2>2 DEF GoodContender
  <2>4. PICK c : c = new[i]
    OBVIOUS
  <2>5. VouchedAt(i, contenders[m][i])'
    <3>1. VouchedAt(i, c) /\ contenders'[m][i] = c /\ sent' = sent
      BY <1>1, <2>2, <2>4 DEF GoodContender
    <3>2. QED
      BY <3>1, VouchedMoves
  <2>6. QED
    BY <2>3, <2>5 DEF GoodContender
<1>8. HeardAlikeAt(m)'
  <2> SUFFICES ASSUME \A x \in taken'[m] : Len(Content(x)) >= Cardinality(DOMAIN new),
                      NEW i \in DOMAIN new, i < Parallelism
               PROVE  new[i].received = {x.signer : x \in taken'[m]}
    BY <1>1 DEF HeardAlikeAt, Content
  <2>1. PICK n \in Nat : DOMAIN new = Indices(n)
    BY <1>0, <1>6 DEF MasterInv
  <2>2. Cardinality(DOMAIN new) = n /\ i \in Nat /\ i + 1 <= n
    <3>1. DOMAIN new = 0 .. n - 1 /\ n - 1 \in Int
      BY <2>1 DEF Indices
    <3>2. Cardinality(0 .. n - 1) = IF 0 > n - 1 THEN 0 ELSE (n - 1) - 0 + 1
      BY <3>1, FS_Interval
    <3>3. i \in 0 .. n - 1
      BY <3>1
    <3>4. QED
      BY <3>1, <3>2, <3>3
  <2>3. contenders[m][i].received = {x.signer : x \in taken[m]}
    BY <1>0, <1>1, <1>6 DEF MasterInv, HeardAlikeAt
  <2>4. Len(Content(msg)) \in Nat /\ Len(Content(msg)) >= n
    BY <1>0, <1>1, <2>2, HeadSent
  <2>5. ~(i >= Parallelism) /\ ~(i + 1 > Len(Content(msg)))
    BY <2>2, <2>4, SubBlocksAssumption
  <2>6. new[i].received = contenders[m][i].received \cup {msg.signer}
    <3> DEFINE c == contenders[m][i]
    <3>1. c \in Contender
      BY <1>0, <1>6 DEF TypeOK
    <3>2. \/ new[i] = c /\ msg.signer \in c.received
          \/ \E sig \in Signature, r \in Results :
                new[i] = AddPotentialSolution(c, sig, r) /\ sig.signer = msg.signer
      BY <1>0, <1>1, <1>6, <2>5, PolledContender
    <3>3. QED
      BY <3>1, <3>2, SignaturesAfter
  <2>7. QED
    BY <1>1, <2>3, <2>6
<1>9. QED
  BY <1>0, <1>1, <1>4, <1>5, <1>6, <1>7, <1>8 DEF MasterInv

\* The steps that leave contenders and what was taken alone.
LEMMA LoopStep ==
    ASSUME IInv, NEW m \in Masters, Expire(m) \/ Finish(m) \/ Resume(m)
    PROVE  Delivered' /\ MasterInv(m)'
<1>0. TypeOK /\ Delivered /\ MasterInv(m)
  BY DEF IInv
<1>1. /\ UNCHANGED << sent, net, contenders, taken, takenBefore >>
      /\ \A x \in Masters : inbox'[x] = inbox[x] \/ inbox'[x] = << >>
      /\ inbox'[m] = << >> \/ (inbox'[m] = inbox[m] /\ (phase'[m] = "send" => phase[m] = "send"))
  BY <1>0 DEF Expire, Finish, Resume, Cleared, TypeOK
<1>2. \A x \in Masters : InInbox(x)' = InInbox(x) \/ InInbox(x)' = {}
  BY <1>1 DEF InInbox
<1>3. Delivered'
  BY <1>0, <1>1, <1>2 DEF Delivered, Holds, WasSent
<1>4. HeldOnce(m)'
  <2>1. Holds(m)' \subseteq Holds(m)
    BY <1>1, <1>2 DEF Holds
  <2>2. phase'[m] = "send" => InInbox(m)' \cap taken'[m] = {}
    BY <1>0, <1>1 DEF MasterInv, HeldOnce, InInbox
  <2>3. QED
    BY <1>0, <1>1, <1>2, <2>1, <2>2 DEF MasterInv, HeldOnce
<1>5. HeardAlikeAt(m)'
  BY <1>0, <1>1 DEF MasterInv, HeardAlikeAt, Content
<1>6. ASSUME NEW i \in DOMAIN contenders[m] PROVE GoodContender(i, contenders[m][i])'
  <2>1. GoodContender(i, contenders[m][i]) /\ contenders'[m][i] = contenders[m][i]
    BY <1>0, <1>1 DEF MasterInv
  <2>2. OneVoteEach(contenders[m][i])' /\ BestLeads(contenders[m][i])' /\ BestSupported(contenders[m][i])'
    BY <2>1 DEF GoodContender
  <2>3. VouchedAt(i, contenders[m][i])'
    BY <1>1, <2>1 DEF GoodContender, VouchedAt
  <2>4. QED
    BY <2>2, <2>3 DEF GoodContender
<1>7. QED
  BY <1>0, <1>1, <1>3, <1>4, <1>5, <1>6 DEF MasterInv

LEMMA InvInit == Init => IInv
<1> SUFFICES ASSUME Init PROVE IInv
  OBVIOUS
<1> USE DEF Init
<1>1. TypeOK
  <2>1. << >> \in Seq(Seq(Sbc)) /\ << >> \in Seq(Message)
    OBVIOUS
  <2>2. \A m \in Masters : contenders[m] = [i \in {} |-> EmptyContender]
    OBVIOUS
  <2>3. \A m \in Masters : DOMAIN contenders[m] = {}
    BY <2>2
  <2>4. \A m \in Masters : contenders[m] \in [DOMAIN contenders[m] -> Contender]
    BY <2>2, <2>3
  <2>5. QED
    BY <2>1, <2>3, <2>4 DEF TypeOK
<1>2. \A m \in Masters : InInbox(m) = {} /\ Holds(m) = {}
  BY DEF InInbox, Holds
<1>3. Delivered
  BY <1>2 DEF Delivered
<1>4. ASSUME NEW m \in Masters PROVE MasterInv(m)
  <2>1. DOMAIN contenders[m] = {}
    OBVIOUS
  <2>2. Indices(0) = {}
    BY DEF Indices
  <2>3. HeldOnce(m) /\ HeardAlikeAt(m)
    BY <1>2, <2>1 DEF HeldOnce, HeardAlikeAt
  <2>4. QED
    BY <2>1, <2>2, <2>3 DEF MasterInv
<1>5. QED
  BY <1>1, <1>3, <1>4 DEF IInv

LEMMA InvStep == IInv /\ [Next]_vars => IInv'
<1> SUFFICES ASSUME IInv, [Next]_vars PROVE IInv'
  OBVIOUS
<1>0. TypeOK /\ Delivered /\ \A m \in Masters : MasterInv(m)
  BY DEF IInv
<1>1. CASE \E d \in Delegates : Execute(d)
  BY <1>0, <1>1, ExecuteType, ExecuteStep DEF IInv
<1>2. ASSUME NEW m \in Masters,
             ReceiveSbcs(m) \/ StartGather(m) \/ Poll(m) \/ Expire(m) \/ Finish(m) \/ Resume(m)
      PROVE  IInv'
  <2>1. TypeOK'
    BY <1>0, <1>2, MasterType
  <2>2. Delivered' /\ MasterInv(m)'
    BY <1>2, ReceiveStep, StartGatherStep, PollStep, LoopStep
  <2>3. ASSUME NEW x \in Masters, x # m PROVE MasterInv(x)'
    <3>1. /\ sent' = sent /\ net' \subseteq net
          /\ inbox'[x] = inbox[x] /\ phase'[x] = phase[x] /\ contenders'[x] = contenders[x]
          /\ taken'[x] = taken[x] /\ takenBefore'[x] = takenBefore[x]
      BY <1>0, <1>2, <2>3 DEF TypeOK, ReceiveSbcs, StartGather, Poll, Expire, Finish, Resume, masterVars
    <3>2. QED
      BY <1>0, <3>1, OtherMaster
  <2>4. QED
    BY <2>1, <2>2, <2>3 DEF IInv
<1>3. CASE UNCHANGED vars
  <2>1. TypeOK'
    BY <1>0, <1>3 DEF vars, TypeOK
  <2>2. Delivered'
    BY <1>0, <1>3 DEF vars, Delivered, WasSent, Holds, InInbox
  <2>3. \A m \in Masters : MasterInv(m)'
    BY <1>0, <1>3, OtherMaster DEF vars
  <2>4. QED
    BY <2>1, <2>2, <2>3 DEF IInv
<1>4. QED
  BY <1>1, <1>2, <1>3 DEF Next

\* The inductive invariant holds throughout, on every network.
THEOREM Invariant == Spec => []IInv
BY InvInit, InvStep, PTL DEF Spec

----------------------------------------------------------------------------
(* What the invariant gives of one contender. *)

\* The votes for a result are as many as the delegates that gave them.
LEMMA VotersCounted ==
    ASSUME NEW c \in Contender, OneVoteEach(c), NEW r \in Results
    PROVE  /\ Voters(c, r) \subseteq c.received /\ Voters(c, r) \subseteq Delegates
           /\ IsFiniteSet(Voters(c, r))
           /\ Cardinality(Voters(c, r)) = Votes(c, r)
<1> DEFINE n == Len(c.signatures[r])
           f == [k \in 1 .. n |-> c.signatures[r][k].signer]
<1>1. n \in Nat /\ DOMAIN c.signatures[r] = 1 .. n
  BY DEF Contender
<1>2. Voters(c, r) \subseteq c.received /\ Voters(c, r) \subseteq Delegates
  BY DEF OneVoteEach, Contender
<1>3. IsFiniteSet(Voters(c, r))
  BY <1>2, SubBlocksAssumption, FS_Subset DEF SubBlocksAssumption
<1>4. f \in [1 .. n -> Voters(c, r)]
  BY <1>1 DEF Voters
<1>5. IsInjective(f)
  BY <1>1 DEF IsInjective, OneVoteEach
<1>6. \A d \in Voters(c, r) : \E k \in 1 .. n : f[k] = d
  BY <1>1 DEF Voters
<1> HIDE DEF f, n
<1>7. f \in Bijection(1 .. n, Voters(c, r))
  BY <1>4, <1>5, <1>6 DEF Bijection, Injection, Surjection
<1>8. Cardinality(Voters(c, r)) = n
  BY <1>1, <1>7, FS_CountingElements DEF ExistsBijection
<1>9. QED
  BY <1>2, <1>3, <1>8 DEF Votes, n

\* Required consensus of all delegates is a majority of them.
LEMMA DecidedByMajority ==
    ASSUME TypeOK, NEW m \in Masters, NEW i \in DOMAIN contenders[m],
           GoodContender(i, contenders[m][i]), Decided(m, i),
           NEW c, c = contenders[m][i]
    PROVE  /\ c \in Contender /\ c.best \in Results
           /\ Voters(c, c.best) \subseteq Delegates
           /\ Cardinality(Voters(c, c.best)) = Votes(c, c.best)
           /\ 2 * Votes(c, c.best) > Cardinality(Delegates)
<1>1. c \in Contender
  BY DEF TypeOK
<1>2. c.best # NoResult /\ 100 * Votes(c, c.best) >= 66 * contacts[m]
      /\ contacts[m] >= Cardinality(Delegates)
  BY DEF Decided, HasRequiredConsensus, RequiredPercent
<1>3. c.best \in Results
  BY <1>1, <1>2 DEF Contender
<1>4. Votes(c, c.best) \in Nat /\ Votes(c, c.best) >= 1
  BY <1>1, <1>2, <1>3 DEF Contender, Votes, GoodContender, BestSupported
<1>5. contacts[m] \in Nat /\ Cardinality(Delegates) \in Nat
  BY SubBlocksAssumption, FS_CardinalityType DEF TypeOK, SubBlocksAssumption
<1>6. 2 * Votes(c, c.best) > Cardinality(Delegates)
  BY <1>2, <1>4, <1>5
<1>7. QED
  BY <1>1, <1>3, <1>6, VotersCounted DEF GoodContender

\* A majority cannot be outvoted by those that are left, one vote at a time.
LEMMA MajorityStays ==
    ASSUME NEW c \in Contender, OneVoteEach(c), c.best \in Results,
           2 * Votes(c, c.best) > Cardinality(Delegates),
           NEW d \in Delegates \ c.received, NEW r \in Results, r # c.best
    PROVE  ~ Beats(c, r)
<1> DEFINE S == Voters(c, c.best)
           T == Voters(c, r)
           U == Delegates \ {d}
<1>1. IsFiniteSet(U) /\ Cardinality(U) = Cardinality(Delegates) - 1 /\ Cardinality(Delegates) \in Nat
  BY SubBlocksAssumption, FS_RemoveElement, FS_CardinalityType DEF SubBlocksAssumption
<1>2. /\ S \subseteq U /\ Cardinality(S) = Votes(c, c.best)
      /\ T \subseteq U /\ Cardinality(T) = Votes(c, r)
  BY VotersCounted
<1>3. S \cap T = {}
  BY DEF OneVoteEach, Voters
<1> HIDE DEF S, T, U
<1>4. ~ (Cardinality(S) + Cardinality(T) > Cardinality(U))
  BY <1>1, <1>2, <1>3, FS_MajoritiesIntersect
<1>5. Votes(c, c.best) \in Nat /\ Votes(c, r) \in Nat
  BY DEF Votes, Contender
<1>6. QED
  BY <1>1, <1>2, <1>4, <1>5, SubBlocksAssumption DEF Beats, SubBlocksAssumption

----------------------------------------------------------------------------
(* The properties. *)

\* Every variable keeps its type, for every membership and every number of
\* contacts, however many messages are queued, popped, counted and cleared.
THEOREM TypeCorrect == Spec => []TypeOK
<1>1. IInv => TypeOK
  BY DEF IInv
<1>2. QED
  BY <1>1, Invariant, PTL

\* add_sbcs counts one vote per delegate and sub-block, however many copies of
\* a message process_message queued and in whatever order they are popped.
THEOREM VotesExact == Spec => []TallyExact
<1>1. IInv => TallyExact
  BY DEF IInv, MasterInv, GoodContender, TallyExact
<1>2. QED
  BY <1>1, Invariant, PTL

\* add_potential_solution keeps best_solution an argmax of the votes.
THEOREM BestMaximal == Spec => []BestIsMaximal
<1>1. IInv => BestIsMaximal
  BY DEF IInv, MasterInv, GoodContender, BestIsMaximal
<1>2. QED
  BY <1>1, Invariant, PTL

\* What is counted for a result of a sub-block is a vote its signer cast for
\* that result of that sub-block: no vote is invented or moved.
THEOREM VotesVouched == Spec => []Vouched
<1>1. IInv => Vouched
  <2> SUFFICES ASSUME IInv, NEW m \in Masters, NEW i \in DOMAIN contenders[m],
                      NEW r \in Results, NEW k \in DOMAIN contenders[m][i].signatures[r]
               PROVE  LET sig == contenders[m][i].signatures[r][k]
                      IN  /\ sig.pass \in 1 .. Len(sent[sig.signer])
                          /\ i + 1 \in 1 .. Len(sent[sig.signer][sig.pass])
                          /\ sent[sig.signer][sig.pass][i + 1].result = r
    BY Zenon DEF Vouched
  <2>1. VouchedAt(i, contenders[m][i])
    BY DEF IInv, MasterInv, GoodContender
  <2>2. QED
    BY <2>1, Zenon DEF VouchedAt
<1>2. QED
  BY <1>1, Invariant, PTL

\* A message is popped for one block only: clearing the queue after the block
\* throws away the copies that are left of those already counted.
THEOREM MessagesCountedOnce == Spec => []CountedOnce
<1>1. IInv => CountedOnce
  BY DEF IInv, MasterInv, HeldOnce, CountedOnce
<1>2. QED
  BY <1>1, Invariant, PTL

\* All sub-blocks of a block have heard the delegates of the popped messages,
\* unless a message is shorter than the block.
THEOREM SubBlocksHeardAlike == Spec => []HeardAlike
<1>1. IInv => HeardAlike
  <2>1. HeardAlike <=> \A m \in Masters : HeardAlikeAt(m)
    BY DEF HeardAlike, HeardAlikeAt
  <2>2. QED
    BY <2>1 DEF IInv, MasterInv
<1>2. QED
  BY <1>1, Invariant, PTL

\* Two masternodes that have required consensus of all the delegates on a
\* sub-block, on votes of one pass, put the same result into their blocks: the
\* two majorities share a delegate, which sent one result for the sub-block.
THEOREM QuorumsAgree == Spec => []Agreement
<1>1. IInv => Agreement
  <2> SUFFICES ASSUME IInv, NEW a \in Masters, NEW b \in Masters,
                      NEW i \in DOMAIN contenders[a] \cap DOMAIN contenders[b],
                      NEW p \in 1 .. MaxPasses,
                      Decided(a, i), Decided(b, i), SignedInPass(a, i, p), SignedInPass(b, i, p)
               PROVE  contenders[a][i].best = contenders[b][i].best
    BY DEF Agreement
  <2> PICK ca : ca = contenders[a][i]
    OBVIOUS
  <2> PICK cb : cb = contenders[b][i]
    OBVIOUS
  <2>1. TypeOK /\ GoodContender(i, ca) /\ GoodContender(i, cb)
    BY DEF IInv, MasterInv
  <2>2. /\ ca \in Contender /\ ca.best \in Results
        /\ Voters(ca, ca.best) \subseteq Delegates
        /\ 2 * Cardinality(Voters(ca, ca.best)) > Cardinality(Delegates)
    BY <2>1, DecidedByMajority
  <2>3. /\ cb \in Contender /\ cb.best \in Results
        /\ Voters(cb, cb.best) \subseteq Delegates
        /\ 2 * Cardinality(Voters(cb, cb.best)) > Cardinality(Delegates)
    BY <2>1, DecidedByMajority
  <2>4. PICK d : d \in Voters(ca, ca.best) /\ d \in Voters(cb, cb.best)
    <3>1. /\ Cardinality(Voters(ca, ca.best)) \in Nat
          /\ Cardinality(Voters(cb, cb.best)) \in Nat
          /\ Cardinality(Delegates) \in Nat /\ IsFiniteSet(Delegates)
      BY <2>2, <2>3, SubBlocksAssumption, FS_Subset, FS_CardinalityType DEF SubBlocksAssumption
    <3>2. Cardinality(Voters(ca, ca.best)) + Cardinality(Voters(cb, cb.best)) > Cardinality(Delegates)
      BY <2>2, <2>3, <3>1
    <3>3. QED
      BY <2>2, <2>3, <3>1, <3>2, FS_MajoritiesIntersect
  <2>5. PICK j \in DOMAIN ca.signatures[ca.best] : ca.signatures[ca.best][j].signer = d
    BY <2>4 DEF Voters
  <2>6. PICK k \in DOMAIN cb.signatures[cb.best] : cb.signatures[cb.best][k].signer = d
    BY <2>4 DEF Voters
  <2>7. ca.signatures[ca.best][j].pass = p /\ cb.signatures[cb.best][k].pass = p
    BY DEF SignedInPass
  <2>8. sent[d][p][i + 1].result = ca.best
    <3>1. VouchedAt(i, ca)
      BY <2>1 DEF GoodContender
    <3>2. LET sig == ca.signatures[ca.best][j]
          IN  sent[sig.signer][sig.pass][i + 1].result = ca.best
      BY <2>2, <2>5, <3>1, Zenon DEF VouchedAt
    <3>3. QED
      BY <2>5, <2>7, <3>2
  <2>9. sent[d][p][i + 1].result = cb.best
    <3>1. VouchedAt(i, cb)
      BY <2>1 DEF GoodContender
    <3>2. LET sig == cb.signatures[cb.best][k]
          IN  sent[sig.signer][sig.pass][i + 1].result = cb.best
      BY <2>3, <2>6, <3>1, Zenon DEF VouchedAt
    <3>3. QED
      BY <2>6, <2>7, <3>2
  <2>10. QED
    BY <2>8, <2>9
<1>2. QED
  BY <1>1, Invariant, PTL

\* The result a majority of the delegates stands for is final: the votes that
\* are popped while other sub-blocks of the block are open cannot replace it.
THEOREM DecisionsStable == Spec => DecisionStable
<1>1. ASSUME IInv, [Next]_vars,
             NEW m \in Masters, NEW i \in DOMAIN contenders[m],
             Decided(m, i), gathers'[m] = gathers[m]
      PROVE  contenders'[m][i].best = contenders[m][i].best
  <2>0. TypeOK /\ Delivered /\ GoodContender(i, contenders[m][i])
    BY <1>1 DEF IInv, MasterInv
  <2>1. CASE Poll(m)
    <3> PICK msg : msg = Head(inbox[m])
      OBVIOUS
    <3> PICK c : c = contenders[m][i]
      OBVIOUS
    <3> PICK d : d = AddSbcs(contenders[m], msg.signer, msg.pass, Content(msg))[i]
      OBVIOUS
    <3>1. contenders'[m][i] = d /\ inbox[m] # << >>
      BY <2>0, <2>1 DEF Poll, TypeOK
    <3>2. /\ c \in Contender /\ c.best \in Results
          /\ 2 * Votes(c, c.best) > Cardinality(Delegates)
          /\ OneVoteEach(c)
      BY <1>1, <2>0, DecidedByMajority DEF GoodContender
    <3>3. CASE d = c
      BY <3>1, <3>3
    <3>4. CASE \E sig \in Signature, r \in Results :
                 d = AddPotentialSolution(c, sig, r) /\ sig.signer \notin c.received
      <4>1. PICK sig \in Signature, r \in Results :
                 d = AddPotentialSolution(c, sig, r) /\ sig.signer \notin c.received
        BY <3>4
      <4>2. sig.signer \in Delegates \ c.received
        BY <4>1 DEF Signature
      <4>3. r # c.best => ~ Beats(c, r)
        BY <3>2, <4>2, MajorityStays
      <4>4. d.best = c.best
        BY <3>2, <4>1, <4>3, SignaturesAfter
      <4>5. QED
        BY <3>1, <4>4
    <3>5. QED
      BY <2>0, <3>1, <3>3, <3>4, PolledContender
  <2>2. CASE StartGather(m)
    BY <1>1, <2>0, <2>2 DEF StartGather, TypeOK
  <2>3. CASE ~ Poll(m) /\ ~ StartGather(m)
    <3>1. CASE \E d \in Delegates : Execute(d)
      BY <3>1 DEF Execute, masterVars
    <3>2. CASE \E x \in Masters : ReceiveSbcs(x) \/ Expire(x) \/ Finish(x) \/ Resume(x)
      BY <3>2 DEF ReceiveSbcs, Expire, Finish, Resume, masterVars
    <3>3. CASE \E x \in Masters \ {m} : StartGather(x) \/ Poll(x)
      BY <2>0, <3>3 DEF StartGather, Poll, TypeOK
    <3>4. CASE UNCHANGED vars
      BY <3>4 DEF vars
    <3>5. QED
      BY <1>1, <2>3, <3>1, <3>2, <3>3, <3>4 DEF Next
  <2>4. QED
    BY <2>1, <2>2, <2>3
<1>2. IInv /\ [Next]_vars
        => [\A m \in Masters : \A i \in DOMAIN contenders[m] :
              Decided(m, i) /\ gathers'[m] = gathers[m]
                => contenders'[m][i].best = contenders[m][i].best]_vars
  BY <1>1
<1>3. QED
  BY <1>2, Invariant, PTL DEF Spec, DecisionStable
----------------------------------------------------------------------------
(* The end of a gather. *)

\* In a gather the clock can run out, and once it has, the loop can be left.
\* (An assumption of the theorem below: ENABLED is beyond the provers.)
Runnable(m) ==
    /\ phase[m] = "gather" /\ ~ expired[m] => ENABLED << Expire(m) >>_vars
    /\ phase[m] = "gather" /\ expired[m] => ENABLED << Finish(m) >>_vars

\* A gather goes on until it ends, and no step of anybody turns its clock back.
LEMMA GatherGoesOn ==
    ASSUME TypeOK, [Next]_vars, NEW m \in Masters, phase[m] = "gather"
    PROVE  /\ phase'[m] \in {"gather", "hang"}
           /\ phase'[m] = "gather" /\ expired[m] => expired'[m]
<1>1. CASE \E d \in Delegates : Execute(d)
  BY <1>1 DEF Execute, masterVars
<1>2. CASE \E x \in Masters : ReceiveSbcs(x) \/ Poll(x)
  BY <1>2 DEF ReceiveSbcs, Poll, masterVars
<1>3. CASE \E x \in Masters : StartGather(x) \/ Resume(x)
  BY <1>3 DEF StartGather, Resume, TypeOK
<1>4. CASE \E x \in Masters : Expire(x) \/ Finish(x)
  BY <1>4 DEF Expire, Finish, TypeOK
<1>5. CASE UNCHANGED vars
  BY <1>5 DEF vars
<1>6. QED
  BY <1>1, <1>2, <1>3, <1>4, <1>5 DEF Next

\* seconds_to_timeout end a gather at a masternode, whatever comes in meanwhile
\* and however many delegates, masternodes and messages there are.  Only the
\* fairness of this masternode's own clock and loop is needed, and of the loop
\* no more than that it is left: GatherEnds, one masternode at a time.
THEOREM GathersEnd ==
    ASSUME NEW m \in Masters
    PROVE  /\ Init /\ [][Next]_vars
           /\ WF_vars(Expire(m)) /\ WF_vars(Finish(m)) /\ []Runnable(m)
           => (phase[m] = "gather" ~> phase[m] = "hang")
<1>1. Init /\ [][Next]_vars => []TypeOK
  <2>1. IInv => TypeOK
    BY DEF IInv
  <2>2. QED
    BY <2>1, InvInit, InvStep, PTL
<1>2. TypeOK /\ phase[m] = "gather" /\ ~ expired[m] /\ [Next]_vars
        => (phase[m] = "gather" /\ ~ expired[m])' \/ (phase[m] = "gather" /\ expired[m])'
           \/ (phase[m] = "hang")'
  BY GatherGoesOn
<1>3. TypeOK /\ phase[m] = "gather" /\ ~ expired[m] /\ << Expire(m) >>_vars
        => (phase[m] = "gather" /\ expired[m])'
  BY DEF Expire, TypeOK
<1>4. TypeOK /\ phase[m] = "gather" /\ expired[m] /\ [Next]_vars
        => (phase[m] = "gather" /\ expired[m])' \/ (phase[m] = "hang")'
  BY GatherGoesOn
<1>5. TypeOK /\ phase[m] = "gather" /\ expired[m] /\ << Finish(m) >>_vars
        => (phase[m] = "hang")'
  BY DEF Finish, TypeOK
<1>6. Runnable(m)
        => /\ phase[m] = "gather" /\ ~ expired[m] => ENABLED << Expire(m) >>_vars
           /\ phase[m] = "gather" /\ expired[m] => ENABLED << Finish(m) >>_vars
  BY DEF Runnable
<1>7. QED
  BY <1>1, <1>2, <1>3, <1>4, <1>5, <1>6, PTL
=============================================================================
