---------------------------- MODULE MCCoapStack ----------------------------
(***************************************************************************)
(* Instances of CoapStack for TLC: the packets a peer may send, by role.   *)
(***************************************************************************)
EXTENDS CoapStack, TLC

Pkt(type, code, mid, token, payload) ==
  [type |-> type, code |-> code, mid |-> mid, token |-> token, payload |-> payload]

\* Requests of one kind are not told apart.
RequestSymmetry == Permutations(ConRequests) \cup Permutations(Requests \ ConRequests)

\* The peer as a server: empty ACKs, piggybacked responses and resets of
\* every MID, separate responses of the given type to every token.
Answers(type) ==
  {Pkt("Acknowledgement", code, m, None, None) : code \in {"Empty", "Response"}, m \in MIDs}
    \cup {Pkt("Reset", "Empty", m, None, None) : m \in MIDs}
    \cup {Pkt(type, "Response", 0, t, None) : t \in Tokens}
NonAnswers == Answers("NonConfirmable")
ConAnswers == Answers("Confirmable")

\* The peer as a client: confirmable requests under two tokens and two MIDs,
\* one of which both tokens use, a NON request, a ping, and an ACK that says
\* nothing.
ClientPeerPackets ==
  {Pkt("Confirmable", "Request", 0, None, "a"), Pkt("Confirmable", "Request", 1, 0, "b"),
   Pkt("Confirmable", "Request", 0, 0, "a"),
   Pkt("NonConfirmable", "Request", 2, None, "b"), Pkt("Confirmable", "Empty", 3, None, None),
   Pkt("Acknowledgement", "Reserved", 0, None, None)}

\* A client that uses a MID again, under another token, when it may.
SameMidRequests ==
  {Pkt("Confirmable", "Request", 0, None, "a"), Pkt("Confirmable", "Request", 0, 0, "b")}

\* A peer that only ever acknowledges, and sends one request of its own.
QuietPeerPackets ==
  {Pkt("Acknowledgement", "Empty", m, None, None) : m \in MIDs}
    \cup {Pkt("NonConfirmable", "Request", 0, None, "a")}
=============================================================================
