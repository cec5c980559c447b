------------------------------- MODULE SeedNode -------------------------------
(***************************************************************************)
(* The check of a guild's seed node (services/p2pnew.py, utils/p2p.py):    *)
(* read the head block of the network, connect, and wait for the handshake *)
(* of the peer, whose head block must not be behind.                       *)
(*                                                                         *)
(* TCP delivers a stream of bytes.  The client takes whatever one call of  *)
(* recv() returns for exactly one message: it reads the header there, and  *)
(* what follows the first message is dropped.  Each message is sent in two *)
(* parts here, and recv() returns any number of parts: a message may come  *)
(* whole, cut, behind the rest of another one, or in front of others.      *)
(*                                                                         *)
(* The peer is any program that speaks the protocol.  A rest that happens  *)
(* to read like a handshake of the right chain is left out.                *)
(***************************************************************************)
EXTENDS Integers, Sequences, FiniteSets

CONSTANTS
    MaxHead,   \* bound on the block number of the network
    MaxStream  \* bound on the parts on their way to the client

ASSUME ConstantsAssumption == MaxHead \in Nat /\ MaxStream \in Nat

Wax == "wax"                  \* AntelopeNetClient.chain_id
NoHead == -1                  \* an answer without head_block_num
Heads == 0..MaxHead

\* Messages by message_type; "other" is every type the client does not know.
Handshakes == [type : {"handshake"}, chain : {Wax, "other chain"}, head : Heads]
Signals == {[type |-> t] :
              t \in {"chain_size", "go_away", "time", "notice", "other"}}
Messages == Handshakes \cup Signals
Parts == Messages \X {"front", "back"}

VARIABLES
    pc,        \* where verify_block_from_p2p is
    result,    \* what it returned, or "raised"
    endpoint,  \* the p2p_url of the guild's seed node
    ref,       \* head_block_num
    greetings, \* handshakes sent by the client
    handshake, \* self.handshake
    stream,    \* parts the peer sent and the client did not receive
    open,      \* the peer did not close the connection
    network,   \* the head block of the network
    head,      \* the head block of the peer
    sent,      \* messages the peer sent
    whole,     \* each recv() returned one whole message so far
    refused    \* a connection failed, or the peer fell silent

client == <<pc, result, ref, greetings, handshake>>
peer == <<stream, open, sent>>
vars == <<client, endpoint, peer, network, head, whole, refused>>

TypeOK ==
    /\ pc \in {"start", "connect", "recv", "done"}
    /\ result \in {"none", "pass", "fail", "raised"}
    /\ (pc = "done") = (result # "none")
    /\ endpoint \in {"absent", "malformed", "host:port"}
    /\ ref \in Heads \cup {NoHead}
    /\ greetings \in Nat /\ handshake \in BOOLEAN
    /\ stream \in Seq(Parts)
    /\ open \in BOOLEAN
    /\ network \in Heads /\ head \in Heads /\ head <= network
    /\ sent \subseteq Messages
    /\ whole \in BOOLEAN /\ refused \in BOOLEAN

Init ==
    /\ pc = "start" /\ result = "none"
    /\ endpoint \in {"absent", "malformed", "host:port"}
    /\ ref = NoHead
    /\ greetings = 0 /\ handshake = FALSE
    /\ stream = <<>> /\ open = TRUE
    /\ network = 0 /\ head = 0
    /\ sent = {}
    /\ whole = TRUE /\ refused = FALSE

Return(r) == pc' = "done" /\ result' = r

-----------------------------------------------------------------------------
\* verify_block_from_p2p

NotListed ==
    /\ pc = "start" /\ endpoint = "absent"
    /\ Return("fail")
    /\ UNCHANGED <<ref, greetings, handshake, endpoint, peer, network, head,
                   whole, refused>>

\* headblock_headblock_id: the answer may lack the number, or there is none.
ReadHead ==
    /\ pc = "start" /\ endpoint # "absent"
    /\ \/ /\ ref' \in {network, NoHead}
          /\ pc' = "connect"
          /\ UNCHANGED <<result, refused>>
       \/ /\ Return("fail")
          /\ refused' = TRUE
          /\ UNCHANGED ref
    /\ UNCHANGED <<greetings, handshake, endpoint, peer, network, head, whole>>

\* connect: a p2p_url that is NULL or has no port raises before the try.
Connect ==
    /\ pc = "connect"
    /\ \/ /\ endpoint = "malformed"
          /\ Return("raised")
          /\ UNCHANGED refused
       \/ /\ endpoint # "malformed"
          /\ pc' = "recv"
          /\ UNCHANGED <<result, refused>>
       \/ /\ endpoint # "malformed"
          /\ Return("fail")
          /\ refused' = TRUE
    /\ UNCHANGED <<ref, greetings, handshake, endpoint, peer, network, head,
                   whole>>

-----------------------------------------------------------------------------
\* receive_messages

Chunk(n) == SubSeq(stream, 1, n)
Rest(n) == SubSeq(stream, n + 1, Len(stream))
Whole(chunk) == Len(chunk) > 1 /\ chunk[1][2] = "front"

\* recv() returns the first n parts.
Recv(n) ==
    /\ pc = "recv" /\ n <= Len(stream)
    /\ stream' = Rest(n)
    /\ whole' = (whole /\ n = 2 /\ Whole(Chunk(n)))
    /\ UNCHANGED <<ref, endpoint, open, sent, network, head, refused>>

Ignore == UNCHANGED <<pc, result, greetings, handshake>>
Fail == Return("fail") /\ UNCHANGED <<greetings, handshake>>

\* Mutant: the chain is not compared.
AcceptAnyChain(m) ==
    /\ Return(IF ref = NoHead THEN "raised"
              ELSE IF m.head >= ref THEN "pass" ELSE "fail")
    /\ UNCHANGED <<greetings, handshake>>

\* Mutant: nothing is returned for another chain.
AcceptForgets(m) ==
    /\ Return(IF m.chain # Wax THEN "none"
              ELSE IF ref = NoHead THEN "raised"
              ELSE IF m.head >= ref THEN "pass" ELSE "fail")
    /\ UNCHANGED <<greetings, handshake>>

\* Mutant: the head block must be ahead.
AcceptAhead(m) ==
    /\ Return(IF m.chain # Wax THEN "fail"
              ELSE IF ref = NoHead THEN "raised"
              ELSE IF m.head > ref THEN "pass" ELSE "fail")
    /\ UNCHANGED <<greetings, handshake>>

\* handle_handshake_message, and the comparison in verify_block_from_p2p, which
\* raises where there is nothing to compare with.
Accept(m) ==
    /\ Return(IF m.chain # Wax THEN "fail"
              ELSE IF ref = NoHead THEN "raised"
              ELSE IF m.head >= ref THEN "pass" ELSE "fail")
    /\ UNCHANGED <<greetings, handshake>>

\* handle_time_message: perform_handshake at the first one, which also counts
\* where send() failed.
Greet ==
    /\ greetings' = greetings + (IF handshake THEN 0 ELSE 1)
    /\ handshake' = TRUE
    /\ UNCHANGED <<pc, result>>

\* handle_net_message for a whole message at the front of a chunk.
Handle(m) ==
    \/ m.type = "handshake" /\ Accept(m)
    \/ m.type = "time" /\ Greet
    \/ m.type \in {"chain_size", "notice"} /\ Ignore
    \/ m.type \in {"go_away", "other"} /\ Fail

\* Mutant: connect has no except clause.
HandleCutRaises(m) ==
    \/ m.type \in {"chain_size", "notice"} /\ Ignore
    \/ Return("raised") /\ UNCHANGED <<greetings, handshake>>

\* A message that is cut: a number is missing, which raises and ends in the
\* except clause of connect; but a chain_size_message is not read beyond its
\* header, and the last list of a notice_message may be cut anywhere.
HandleCut(m) ==
    \/ m.type \in {"chain_size", "notice"} /\ Ignore
    \/ Fail

\* The rest of a message: any byte may stand where message_type is read.
HandleRest == Fail \/ Ignore \/ Greet

Receive ==
    \E n \in 1..Len(stream) :
        /\ Recv(n)
        /\ LET part == stream[1]
           IN \/ Whole(Chunk(n)) /\ Handle(part[1])
              \/ part[2] = "front" /\ n = 1 /\ HandleCut(part[1])
              \/ part[2] = "back" /\ HandleRest

\* Mutant: the socket has no timeout.
ReceiveEnd ==
    /\ pc = "recv" /\ stream = <<>> /\ ~open
    /\ Return("fail")
    /\ refused' = TRUE
    /\ UNCHANGED <<ref, greetings, handshake, endpoint, peer, network, head,
                   whole>>

\* recv() times out after 15 seconds of silence, or returns nothing because
\* the peer closed the connection.
ReceiveNothing ==
    /\ pc = "recv" /\ stream = <<>>
    /\ Return("fail")
    /\ refused' = TRUE
    /\ UNCHANGED <<ref, greetings, handshake, endpoint, peer, network, head,
                   whole>>

Client == NotListed \/ ReadHead \/ Connect \/ Receive \/ ReceiveNothing

-----------------------------------------------------------------------------
\* The peer and the network

PeerSends(m) ==
    /\ pc = "recv" /\ open /\ Len(stream) + 2 <= MaxStream
    /\ m.type = "handshake" => m.head = head
    /\ stream' = stream \o <<<<m, "front">>, <<m, "back">>>>
    /\ sent' = sent \cup {m}
    /\ UNCHANGED <<client, endpoint, open, network, head, whole, refused>>

PeerCloses ==
    /\ pc = "recv" /\ open
    /\ open' = FALSE
    /\ UNCHANGED <<client, endpoint, stream, sent, network, head, whole,
                   refused>>

PeerSyncs ==
    /\ head < network /\ head' = head + 1
    /\ UNCHANGED <<client, endpoint, peer, network, whole, refused>>

BlockProduced ==
    /\ network < MaxHead /\ network' = network + 1
    /\ UNCHANGED <<client, endpoint, peer, head, whole, refused>>

Peer == PeerCloses \/ \E m \in Messages : PeerSends(m)

Next == Client \/ Peer \/ PeerSyncs \/ BlockProduced

Spec == Init /\ [][Next]_vars

\* The client runs, and its timeouts expire.
FairSpec == Spec /\ WF_vars(Client)
-----------------------------------------------------------------------------
\* Properties

\* However TCP cuts and joins the messages, a guild passes only if its peer
\* sent a handshake of the WAX chain with a head block that was not behind the
\* one read before the connection (p2p.py:184-203, p2pnew.py:24).
PassIsDeserved ==
    result = "pass" =>
        \E m \in sent \cap Handshakes : m.chain = Wax /\ m.head >= ref

\* Where TCP delivers message by message, a peer that stays connected, says
\* nothing the client does not know and has a head block that is not behind
\* does not fail (p2p.py:45-75).
HealthyPeerPasses ==
    result = "fail" /\ whole /\ ~refused /\ endpoint = "host:port" =>
        \E m \in sent : \/ m.type \in {"go_away", "other"}
                        \/ m.type = "handshake" /\ (m.chain # Wax \/ m.head < ref)

\* The client introduces itself at most once, whatever it takes for time
\* messages (p2p.py:214).
OneGreeting == greetings <= 1

\* A check that reached the peer never ends the whole run of checks unless the
\* network's head block was unknown (p2pnew.py:16-24).
RaisesBeforeContact == result = "raised" => sent = {} \/ ref = NoHead

\* A peer that stops talking is given up (p2p.py:17).
SilenceEnds == <>[][~\E m \in Messages : PeerSends(m)]_vars => <>(pc = "done")
=============================================================================
