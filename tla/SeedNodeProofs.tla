---------------------------- MODULE SeedNodeProofs ----------------------------
(***************************************************************************)
(* Theorems about SeedNode, for every number of blocks and every length of *)
(* the stream.                                                             *)
(***************************************************************************)
EXTENDS SeedNode, SequenceTheorems, TLAPS

\* What is on its way was sent.
StreamSent == stream \in Seq(sent \X {"front", "back"})

\* A check that has a result is over, and the peer says nothing before it is
\* asked.
PhaseInv ==
    /\ (pc = "done") = (result # "none")
    /\ pc \in {"start", "connect"} => sent = {}

\* The client remembers that it introduced itself.
GreetingInv == greetings = IF handshake THEN 1 ELSE 0

IInv == /\ TypeOK /\ StreamSent /\ PhaseInv /\ GreetingInv
        /\ PassIsDeserved /\ RaisesBeforeContact /\ HealthyPeerPasses

-----------------------------------------------------------------------------
\* A sequence over a set is one over a larger set.
LEMMA SeqMonotone ==
    ASSUME NEW S, NEW T, S \subseteq T, NEW s \in Seq(S)
    PROVE  s \in Seq(T)
  OBVIOUS

\* A message that is named a handshake is one of Handshakes.
LEMMA HandshakeMessage ==
    ASSUME NEW m \in Messages, m.type = "handshake"
    PROVE  m \in Handshakes
  <1>1. CASE m \in Signals
    <2>1. PICK t \in {"chain_size", "go_away", "time", "notice", "other"} :
              m = [type |-> t]
        BY <1>1 DEF Signals
    <2>2. m.type = t
        BY <2>1
    <2> QED
        BY <2>1, <2>2
  <1> QED
      BY <1>1 DEF Messages

\* The inductive invariant holds when a check begins.
LEMMA InitIInv == Init => IInv
  <1> SUFFICES ASSUME Init PROVE IInv
      OBVIOUS
  <1>1. 0 \in Heads
      BY ConstantsAssumption DEF Heads
  <1>2. stream \in Seq(Parts) /\ sent \subseteq Messages
      BY DEF Init
  <1>3. greetings \in Nat /\ head <= network
      BY DEF Init
  <1>4. TypeOK
    <2>1. /\ open \in BOOLEAN /\ whole \in BOOLEAN /\ refused \in BOOLEAN
          /\ handshake \in BOOLEAN
        BY Zenon DEF Init
    <2> QED
        BY <1>1, <1>2, <1>3, <2>1 DEF Init, TypeOK
  <1>5. StreamSent /\ PhaseInv /\ GreetingInv
      BY DEF Init, StreamSent, PhaseInv, GreetingInv
  <1> QED
      BY <1>4, <1>5
      DEF Init, IInv, PassIsDeserved, RaisesBeforeContact, HealthyPeerPasses

\* The steps before the first message.
LEMMA ContactKeeps == IInv /\ (NotListed \/ ReadHead \/ Connect) => IInv'
  <1> SUFFICES ASSUME IInv, NotListed \/ ReadHead \/ Connect PROVE IInv'
      OBVIOUS
  <1>1. /\ UNCHANGED <<greetings, handshake, endpoint, peer, network, head,
                       whole>>
        /\ sent = {}
      BY DEF IInv, PhaseInv, NotListed, ReadHead, Connect
  <1>2. TypeOK'
    <2>1. refused' \in BOOLEAN
        BY Zenon DEF IInv, TypeOK, NotListed, ReadHead, Connect
    <2>2. /\ pc' \in {"start", "connect", "recv", "done"}
          /\ result' \in {"none", "pass", "fail", "raised"}
          /\ (pc' = "done") = (result' # "none")
          /\ ref' \in Heads \cup {NoHead}
        BY DEF IInv, TypeOK, NotListed, ReadHead, Connect, Return
    <2> QED
        BY <1>1, <2>1, <2>2 DEF IInv, TypeOK, peer
  <1>3. StreamSent' /\ GreetingInv'
      BY <1>1 DEF IInv, StreamSent, GreetingInv, peer
  <1>4. PhaseInv'
      BY <1>1
      DEF IInv, PhaseInv, NotListed, ReadHead, Connect, Return, peer
  <1>5. result' = "pass" => FALSE
      BY DEF IInv, PhaseInv, NotListed, ReadHead, Connect, Return
  <1>6. PassIsDeserved' /\ RaisesBeforeContact'
      BY <1>1, <1>5 DEF PassIsDeserved, RaisesBeforeContact, peer
  <1>7. HealthyPeerPasses'
    <2>1. result' = "fail" => endpoint' = "absent" \/ refused'
        BY <1>1
        DEF IInv, PhaseInv, NotListed, ReadHead, Connect, Return
    <2> QED
        BY <2>1 DEF HealthyPeerPasses
  <1> QED
      BY <1>2, <1>3, <1>4, <1>6, <1>7 DEF IInv

\* What recv() leaves in the stream was sent, and so was what it returns.
LEMMA RecvKeeps ==
    ASSUME IInv, NEW n \in 1..Len(stream), Recv(n)
    PROVE  /\ StreamSent' /\ stream' \in Seq(Parts)
           /\ stream[1][1] \in sent /\ stream[1][1] \in Messages
  <1>1. stream \in Seq(sent \X {"front", "back"}) /\ sent \subseteq Messages
      BY DEF IInv, StreamSent, TypeOK
  <1>2. Len(stream) \in Nat /\ n \in Nat /\ n >= 1 /\ n <= Len(stream)
      BY <1>1
  <1>3. \A i \in (n + 1)..Len(stream) : stream[i] \in sent \X {"front", "back"}
      BY <1>1, <1>2
  <1>4. stream' \in Seq(sent \X {"front", "back"})
      BY <1>2, <1>3, SubSeqProperties DEF Recv, Rest
  <1>5. stream' \in Seq(Parts)
      BY <1>1, <1>4, SeqMonotone DEF Parts
  <1>6. stream[1] \in sent \X {"front", "back"}
      BY <1>1, <1>2
  <1> QED
      BY <1>1, <1>4, <1>5, <1>6 DEF StreamSent, Recv

\* What a message does to the client, whichever way it was read.
LEMMA OutcomeKeeps ==
    ASSUME IInv, pc = "recv", NEW m \in sent, m \in Messages,
           UNCHANGED <<sent, ref>>,
           \/ Fail \/ Ignore \/ Greet
           \/ m.type = "handshake" /\ Accept(m)
    PROVE  /\ pc' \in {"recv", "done"}
           /\ result' \in {"none", "pass", "fail", "raised"}
           /\ greetings' \in Nat /\ handshake' \in BOOLEAN
           /\ PhaseInv' /\ GreetingInv' /\ PassIsDeserved'
           /\ RaisesBeforeContact'
  <1>1. /\ greetings \in Nat /\ handshake \in BOOLEAN /\ result = "none"
        /\ ref \in Heads \cup {NoHead}
      BY DEF IInv, TypeOK, PhaseInv
  <1>2. CASE Fail
      BY <1>1, <1>2
      DEF Fail, Return, IInv, PhaseInv, GreetingInv, PassIsDeserved,
          RaisesBeforeContact
  <1>3. CASE Ignore
      BY <1>1, <1>3
      DEF Ignore, IInv, PhaseInv, GreetingInv, PassIsDeserved,
          RaisesBeforeContact
  <1>4. CASE Greet
      BY <1>1, <1>4
      DEF Greet, IInv, PhaseInv, GreetingInv, PassIsDeserved,
          RaisesBeforeContact
  <1>5. CASE m.type = "handshake" /\ Accept(m)
    <2>1. m \in sent \cap Handshakes
        BY <1>5, HandshakeMessage
    <2>2. /\ pc' = "done" /\ result' \in {"pass", "fail", "raised"}
          /\ greetings' = greetings /\ handshake' = handshake
        BY <1>5 DEF Accept, Return
    <2>3. result' = "pass" => m.chain = Wax /\ m.head >= ref
        BY <1>5 DEF Accept, Return
    <2>4. result' = "raised" => ref = NoHead
        BY <1>5 DEF Accept, Return
    <2> QED
        BY <1>1, <2>1, <2>2, <2>3, <2>4
        DEF IInv, PhaseInv, GreetingInv, PassIsDeserved, RaisesBeforeContact
  <1> QED
      BY <1>2, <1>3, <1>4, <1>5

\* A chunk of the stream keeps the invariant, however it was cut.
LEMMA ReceiveKeeps == IInv /\ Receive => IInv'
  <1> SUFFICES ASSUME IInv, Receive PROVE IInv'
      OBVIOUS
  <1>1. PICK n \in 1..Len(stream) :
            /\ Recv(n)
            /\ \/ Whole(Chunk(n)) /\ Handle(stream[1][1])
               \/ n = 1 /\ HandleCut(stream[1][1])
               \/ stream[1][2] = "back" /\ HandleRest
      BY DEF Receive
  <1> DEFINE m == stream[1][1]
  <1>2. /\ StreamSent' /\ stream' \in Seq(Parts)
        /\ m \in sent /\ m \in Messages
      BY <1>1, RecvKeeps
  <1>3. /\ pc = "recv" /\ UNCHANGED <<ref, endpoint, open, sent, network, head,
                                      refused>>
        /\ whole' \in BOOLEAN
      BY <1>1 DEF Recv, IInv, TypeOK
  <1>4. \/ Fail \/ Ignore \/ Greet
        \/ m.type = "handshake" /\ Accept(m)
      BY <1>1 DEF Handle, HandleCut, HandleRest
  <1> HIDE DEF m
  <1>5. /\ pc' \in {"recv", "done"}
        /\ result' \in {"none", "pass", "fail", "raised"}
        /\ greetings' \in Nat /\ handshake' \in BOOLEAN
        /\ PhaseInv' /\ GreetingInv' /\ PassIsDeserved'
        /\ RaisesBeforeContact'
      BY <1>2, <1>3, <1>4, OutcomeKeeps
  <1>6. TypeOK'
      BY <1>2, <1>3, <1>5 DEF IInv, TypeOK, PhaseInv
  <1>7. HealthyPeerPasses'
    <2> SUFFICES ASSUME result' = "fail", whole'
                 PROVE  \E x \in sent' :
                          \/ x.type \in {"go_away", "other"}
                          \/ /\ x.type = "handshake"
                             /\ x.chain # Wax \/ x.head < ref'
        BY DEF HealthyPeerPasses
    <2>1. Handle(m)
      <3>1. n = 2 /\ Whole(Chunk(n))
          BY <1>1, Zenon DEF Recv
      <3>2. stream \in Seq(Parts) /\ Len(stream) >= 2
          BY <3>1 DEF IInv, TypeOK
      <3>3. Chunk(n)[1] = stream[1]
          BY <3>1, <3>2 DEF Chunk
      <3> QED
          BY <1>1, <3>1, <3>3 DEF Whole, m
    <2>2. result = "none"
        BY <1>3 DEF IInv, PhaseInv
    <2>3. CASE m.type \in {"go_away", "other"}
        BY <1>2, <1>3, <2>3
    <2>4. CASE m.type = "handshake" /\ Accept(m)
      <3>1. m.chain # Wax \/ (ref # NoHead /\ ~(m.head >= ref))
          BY <2>4 DEF Accept, Return
      <3>2. m.head \in Heads /\ ref \in Heads \cup {NoHead}
          BY <1>2, <2>4, HandshakeMessage DEF Handshakes, IInv, TypeOK
      <3>3. m.chain # Wax \/ m.head < ref
          BY <3>1, <3>2, ConstantsAssumption DEF Heads
      <3> QED
          BY <1>2, <1>3, <2>4, <3>3
    <2> QED
        BY <2>1, <2>2, <2>3, <2>4 DEF Handle, Greet, Ignore
  <1> QED
      BY <1>2, <1>5, <1>6, <1>7 DEF IInv

\* Silence and the end of the stream.
LEMMA ReceiveNothingKeeps == IInv /\ ReceiveNothing => IInv'
  BY DEF IInv, TypeOK, StreamSent, PhaseInv, GreetingInv, PassIsDeserved,
         RaisesBeforeContact, HealthyPeerPasses, ReceiveNothing, Return, peer

\* The peer adds to what was sent.
LEMMA PeerKeeps == IInv /\ Peer => IInv'
  <1> SUFFICES ASSUME IInv, Peer PROVE IInv'
      OBVIOUS
  <1>1. CASE PeerCloses
    <2>1. open' \in BOOLEAN
        BY <1>1, Zenon DEF PeerCloses
    <2> QED
        BY <1>1, <2>1
        DEF IInv, TypeOK, StreamSent, PhaseInv, GreetingInv, PassIsDeserved,
            RaisesBeforeContact, HealthyPeerPasses, PeerCloses, client
  <1>2. ASSUME NEW m \in Messages, PeerSends(m) PROVE IInv'
    <2>1. /\ UNCHANGED <<client, endpoint, open, network, head, whole, refused>>
          /\ pc = "recv" /\ sent' = sent \cup {m}
          /\ stream' = stream \o <<<<m, "front">>, <<m, "back">>>>
        BY <1>2 DEF PeerSends
    <2>2. stream \in Seq(sent' \X {"front", "back"})
        BY <2>1, SeqMonotone DEF IInv, StreamSent
    <2>3. <<<<m, "front">>, <<m, "back">>>> \in Seq(sent' \X {"front", "back"})
        BY <2>1
    <2>4. stream' \in Seq(sent' \X {"front", "back"})
        BY <2>1, <2>2, <2>3, ConcatProperties
    <2>5. sent' \subseteq Messages
        BY <2>1 DEF IInv, TypeOK
    <2>6. stream' \in Seq(Parts)
        BY <2>4, <2>5, SeqMonotone DEF Parts
    <2>7. TypeOK'
        BY <2>1, <2>5, <2>6 DEF IInv, TypeOK, client
    <2>8. PhaseInv' /\ GreetingInv' /\ PassIsDeserved' /\ RaisesBeforeContact'
        BY <2>1
        DEF IInv, PhaseInv, GreetingInv, PassIsDeserved, RaisesBeforeContact,
            client
    <2>9. HealthyPeerPasses'
        BY <2>1 DEF IInv, HealthyPeerPasses, client
    <2> QED
        BY <2>4, <2>7, <2>8, <2>9 DEF IInv, StreamSent
  <1> QED
      BY <1>1, <1>2 DEF Peer

\* Blocks concern neither the client nor the stream.
LEMMA BlocksKeep == IInv /\ (PeerSyncs \/ BlockProduced) => IInv'
  <1> SUFFICES ASSUME IInv, PeerSyncs \/ BlockProduced PROVE IInv'
      OBVIOUS
  <1>1. UNCHANGED <<client, endpoint, peer, whole, refused>>
      BY DEF PeerSyncs, BlockProduced
  <1>2. network' \in Heads /\ head' \in Heads /\ head' <= network'
      BY ConstantsAssumption
      DEF IInv, TypeOK, PeerSyncs, BlockProduced, Heads
  <1>3. TypeOK'
      BY <1>1, <1>2 DEF IInv, TypeOK, client, peer
  <1> QED
      BY <1>1, <1>3
      DEF IInv, StreamSent, PhaseInv, GreetingInv, PassIsDeserved,
          RaisesBeforeContact, HealthyPeerPasses, client, peer

\* Every step keeps the inductive invariant.
LEMMA NextIInv == IInv /\ [Next]_vars => IInv'
  <1> SUFFICES ASSUME IInv, [Next]_vars PROVE IInv'
      OBVIOUS
  <1>1. CASE UNCHANGED vars
      BY <1>1
      DEF IInv, TypeOK, StreamSent, PhaseInv, GreetingInv, PassIsDeserved,
          RaisesBeforeContact, HealthyPeerPasses, vars, client, peer
  <1> QED
      BY <1>1, ContactKeeps, ReceiveKeeps, ReceiveNothingKeeps, PeerKeeps,
         BlocksKeep
      DEF Next, Client

\* The inductive invariant holds throughout a check of a seed node.
LEMMA Invariance == Spec => []IInv
  BY InitIInv, NextIInv, PTL DEF Spec

-----------------------------------------------------------------------------
\* Every variable of the check (p2pnew.py, p2p.py) has its type.
THEOREM SeedTypeCorrect == Spec => []TypeOK
  <1>1. IInv => TypeOK
      BY DEF IInv
  <1> QED
      BY <1>1, Invariance, PTL

\* However the stream of p2p.py:34 is cut, a guild passes only if its peer sent
\* a handshake that deserves it.
THEOREM PassDeserved == Spec => []PassIsDeserved
  <1>1. IInv => PassIsDeserved
      BY DEF IInv
  <1> QED
      BY <1>1, Invariance, PTL

\* The client introduces itself once at most (p2p.py:214).
THEOREM GreetsOnce == Spec => []OneGreeting
  <1>1. IInv => OneGreeting
      BY DEF IInv, GreetingInv, OneGreeting
  <1> QED
      BY <1>1, Invariance, PTL

\* A peer that was reached does not end the run of all checks (p2pnew.py:16-24)
\* where the head block of the network is known.
THEOREM RaisesEarly == Spec => []RaisesBeforeContact
  <1>1. IInv => RaisesBeforeContact
      BY DEF IInv
  <1> QED
      BY <1>1, Invariance, PTL

\* Where TCP delivers message by message, a peer in good order that stays
\* connected does not fail (p2p.py:45-75).
THEOREM HealthyPeerNotFailed == Spec => []HealthyPeerPasses
  <1>1. IInv => HealthyPeerPasses
      BY DEF IInv
  <1> QED
      BY <1>1, Invariance, PTL
=============================================================================
