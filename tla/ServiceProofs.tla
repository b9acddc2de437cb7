---------------------------- MODULE ServiceProofs ----------------------------
(***************************************************************************)
(* Proofs about the smaller services of a node: the forwarder, for every   *)
(* request, however long and however TCP groups its bytes, every number of *)
(* replies and every value of Full; the relay client, for all intervals    *)
(* and any loss of datagrams; the sharing of a secret, for all numbers of  *)
(* nodes and choices of coefficients.                                      *)
(***************************************************************************)
EXTENDS Forwarder, RelayClient, Sharding, TLAPS

(* The forwarder *)

\* What the bounds of the counters need to be kept by every step: units are
\* only counted as ciphertext once the header has been read, and nothing is
\* written to the mail server before the relay.
Progress ==
    /\ pc \in {"ciphertext", "verify", "connect", "relay"} => read >= 1
    /\ pc \in {"header", "ciphertext", "verify", "connect"} => smtp = 0

\* The proof that handle_client has seen is still that of this connection
\* when the mail server is connected, and covers a prefix of what is relayed.
ProofSeen ==
    /\ pc = "connect" => VerifyProof(Ct)
    /\ pc = "relay" => /\ req.circuit
                       /\ req.signature = "good" /\ req.commitments = "good"
                       /\ req.signed <= Ct

\* How a relay ends when it ends of itself.
RelayEnds == {"client", "server", "timeout"}

\* What was read from an end has gone out to the other unless a send() wrote
\* less, and an end that ended the relay had nothing more to be read.
PassedOn ==
    /\ pc # "closed" => end = "open"
    /\ eof => sent = 1 + req.len
    /\ (pc = "relay" \/ end \in RelayEnds) /\ "smtp" \notin lost => smtp = Ct
    /\ "client" \notin lost => answers = heard
    /\ end = "client" => read = 1 + req.len
    /\ end \in {"server", "timeout"} => heard = replies

ForwarderInv ==
    TypeOK /\ Progress /\ ProofSeen /\ OnlyVerifiedForwarded /\ PassedOn

\* The fields of a request.
LEMMA RequestType ==
    TypeOK => /\ req.len \in Nat /\ req.signed \in Nat
              /\ req.circuit \in BOOLEAN /\ req.delimiter \in BOOLEAN
              /\ req.waits \in BOOLEAN
  BY ForwarderAssumption DEF TypeOK, Request

\* The numbers of a connection and their bounds.
LEMMA Counts ==
    ASSUME TypeOK
    PROVE  /\ req.len \in Nat /\ req.signed \in Nat
           /\ sent \in Nat /\ sent <= 1 + req.len
           /\ read \in Nat /\ read <= sent
           /\ smtp \in Nat /\ smtp <= read
           /\ replies \in Nat /\ replies <= MaxReplies
           /\ heard \in Nat /\ heard <= replies
           /\ answers \in Nat /\ answers <= heard
           /\ MaxReplies \in Nat /\ Full \in Nat /\ Full > 0
  BY RequestType, ForwarderAssumption DEF TypeOK

\* A connection starts with nothing read and nothing forwarded.
LEMMA InitForwarder == Init => ForwarderInv
<1> SUFFICES ASSUME Init PROVE ForwarderInv
  OBVIOUS
<1>1. req.len \in Nat
  BY ForwarderAssumption DEF Init, Request
<1>2. eof \in BOOLEAN /\ smtpEof \in BOOLEAN
  BY DEF Init
<1>3. TypeOK
  BY <1>1, <1>2, ForwarderAssumption DEF Init, TypeOK
<1> QED
  BY <1>3 DEF Init, ForwarderInv, Progress, ProofSeen, OnlyVerifiedForwarded,
              PassedOn, RelayEnds

\* recv returns a number of units that were sent and not yet read.
LEMMA RecvBounds ==
    ASSUME TypeOK, NEW k \in Nat, Recv(k)
    PROVE  /\ read' \in Nat /\ read' = read + k /\ read' <= sent
           /\ k = 0 => eof /\ read' = sent
  BY Counts DEF Recv

\* What a send() writes and what it leaves unsaid.
LEMMA WriteFacts ==
    ASSUME NEW n \in Nat, NEW w, NEW to \in {"smtp", "client"},
           Writes(n, w, to)
    PROVE  /\ w \in Nat /\ w <= n
           /\ Shortfall(n, w, to) \in SUBSET {"smtp", "client"}
           /\ to \notin Shortfall(n, w, to) => w = n
  BY DEF Writes, Shortfall

\* The connection to the mail server: refused, or the beginning of the relay
\* with a write of the ciphertext that may be cut short.
LEMMA ConnectFacts ==
    ASSUME ForwarderInv, NEW up \in BOOLEAN, NEW w \in Units, Connect(up, w)
    PROVE  /\ pc = "connect" /\ read >= 1 /\ VerifyProof(Ct)
           /\ UNCHANGED <<req, sent, eof, read, heard, answers, replies,
                          smtpEof>>
           /\ lost' \in SUBSET {"smtp", "client"} /\ lost \subseteq lost'
           /\ "client" \in lost' => "client" \in lost
           /\ \/ /\ pc' = "relay" /\ end' = end
                 /\ smtp' \in Nat /\ smtp' <= Ct
                 /\ "smtp" \notin lost' => smtp' = Ct
              \/ pc' = "closed" /\ end' = "refused" /\ smtp' = 0
<1>1. /\ pc = "connect" /\ read >= 1 /\ VerifyProof(Ct) /\ smtp = 0
      /\ UNCHANGED <<req, sent, eof, read, heard, answers, replies, smtpEof>>
  BY DEF Connect, ForwarderInv, Progress, ProofSeen, clientSide, serverSide
<1>2. Ct \in Nat
  BY <1>1, Counts DEF Ct, ForwarderInv
<1>3. CASE up
  <2>1. /\ Writes(Ct, w, "smtp") /\ smtp' = w
        /\ lost' = lost \cup Shortfall(Ct, w, "smtp")
        /\ pc' = "relay" /\ end' = end
    BY <1>3 DEF Connect
  <2>2. "client" \notin Shortfall(Ct, w, "smtp")
    BY DEF Shortfall
  <2>3. /\ w \in Nat /\ w <= Ct
        /\ Shortfall(Ct, w, "smtp") \in SUBSET {"smtp", "client"}
        /\ "smtp" \notin Shortfall(Ct, w, "smtp") => w = Ct
    BY <2>1, <1>2, WriteFacts
  <2>4. lost \in SUBSET {"smtp", "client"}
    BY DEF ForwarderInv, TypeOK
  <2> QED
    BY <1>1, <2>1, <2>2, <2>3, <2>4
<1>4. CASE ~up
  <2>1. /\ pc' = "closed" /\ end' = "refused" /\ smtp' = smtp /\ lost' = lost
    BY <1>4 DEF Connect, Close
  <2> QED
    BY <1>1, <2>1 DEF ForwarderInv, TypeOK
<1> QED
  BY <1>3, <1>4

\* A round of the relay loop: what is read is written or a send() was cut
\* short, and the round moves something or is the last.
LEMMA RoundFacts ==
    ASSUME TypeOK, NEW k \in Units, NEW w \in Units,
           NEW r \in Replies, NEW a \in Replies, RelayRound(k, w, r, a)
    PROVE  /\ pc = "relay"
           /\ UNCHANGED <<req, sent, eof, replies, smtpEof>>
           /\ k \in Nat /\ w \in Nat /\ w <= k
           /\ r \in Nat /\ a \in Nat /\ a <= r
           /\ read' = read + k /\ read' <= sent
           /\ heard' = heard + r /\ heard' <= replies
           /\ smtp' = smtp + w /\ answers' = answers + a
           /\ lost' \in SUBSET {"smtp", "client"} /\ lost \subseteq lost'
           /\ "smtp" \notin lost' => w = k
           /\ "client" \notin lost' => a = r
           /\ \/ pc' = "relay" /\ end' = end /\ (k > 0 \/ r > 0)
              \/ pc' = "closed" /\ end' = "client" /\ eof /\ read' = sent
              \/ pc' = "closed" /\ end' = "server" /\ heard' = replies
<1>a. k \in Nat /\ r \in Nat
  BY Counts DEF Units, Replies
<1>1. /\ pc = "relay"
      /\ UNCHANGED <<req, sent, eof, replies, smtpEof>>
      /\ smtp' = smtp + w /\ heard' = heard + r /\ answers' = answers + a
      /\ Writes(k, w, "smtp") /\ Writes(r, a, "client")
      /\ lost' = lost \cup Shortfall(k, w, "smtp") \cup
                   Shortfall(r, a, "client")
      /\ ClientReady \/ SmtpReady
  BY DEF RelayRound, clientSide, serverSide
<1>2. /\ w \in Nat /\ w <= k /\ a \in Nat /\ a <= r
      /\ lost' \in SUBSET {"smtp", "client"} /\ lost \subseteq lost'
      /\ "smtp" \notin lost' => w = k
      /\ "client" \notin lost' => a = r
  <2>1. lost \in SUBSET {"smtp", "client"}
    BY DEF TypeOK
  <2>2. /\ w \in Nat /\ w <= k
        /\ Shortfall(k, w, "smtp") \in SUBSET {"smtp", "client"}
        /\ "smtp" \notin Shortfall(k, w, "smtp") => w = k
    BY <1>a, <1>1, WriteFacts
  <2>3. /\ a \in Nat /\ a <= r
        /\ Shortfall(r, a, "client") \in SUBSET {"smtp", "client"}
        /\ "client" \notin Shortfall(r, a, "client") => a = r
    BY <1>a, <1>1, WriteFacts
  <2> QED
    BY <1>1, <2>1, <2>2, <2>3
<1>3. /\ read' = read + k /\ read' <= sent
      /\ ClientReady /\ k = 0 => eof /\ read' = sent
      /\ ~ClientReady => k = 0
  <2>1. CASE ClientReady
    BY <2>1, <1>a, RecvBounds DEF RelayRound
  <2>2. CASE ~ClientReady
    BY <2>2, Counts DEF RelayRound
  <2> QED
    BY <2>1, <2>2
<1>4. /\ heard' <= replies
      /\ SmtpReady /\ ~(ClientReady /\ k = 0) /\ r = 0 => heard' = replies
  <2>1. CASE SmtpReady /\ ~(ClientReady /\ k = 0)
    <3>1. RecvReplies(r)
      BY <2>1 DEF RelayRound
    <3> QED
      BY <3>1, <1>1, <1>a, Counts DEF RecvReplies
  <2>2. CASE ~(SmtpReady /\ ~(ClientReady /\ k = 0))
    <3>1. r = 0
      BY <2>2 DEF RelayRound
    <3> QED
      BY <3>1, <2>2, <1>1, Counts
  <2> QED
    BY <2>1, <2>2
<1>5. \/ ClientReady /\ k = 0 /\ pc' = "closed" /\ end' = "client"
      \/ /\ SmtpReady /\ ~(ClientReady /\ k = 0) /\ r = 0
         /\ pc' = "closed" /\ end' = "server"
      \/ /\ ~(ClientReady /\ k = 0) /\ ~(SmtpReady /\ r = 0)
         /\ pc' = pc /\ end' = end
  BY DEF RelayRound, Close
<1>6. ~(ClientReady /\ k = 0) /\ ~(SmtpReady /\ r = 0) => k > 0 \/ r > 0
  BY <1>a, <1>1
<1> QED
  BY <1>a, <1>1, <1>2, <1>3, <1>4, <1>5, <1>6

\* Every step of the client, of the mail server and of handle_client keeps
\* the invariant.
LEMMA StepForwarder == ForwarderInv /\ [Next]_vars => ForwarderInv'
<1> SUFFICES ASSUME ForwarderInv, [Next]_vars PROVE ForwarderInv'
  OBVIOUS
<1>a. TypeOK
  BY DEF ForwarderInv
<1>b. /\ req.len \in Nat /\ req.signed \in Nat
      /\ sent \in Nat /\ sent <= 1 + req.len
      /\ read \in Nat /\ read <= sent /\ smtp \in Nat /\ smtp <= read
      /\ replies \in Nat /\ replies <= MaxReplies
      /\ heard \in Nat /\ heard <= replies
      /\ answers \in Nat /\ answers <= heard
      /\ MaxReplies \in Nat
  BY <1>a, Counts
<1> USE DEF ForwarderInv, Progress, ProofSeen, OnlyVerifiedForwarded,
            PassedOn, RelayEnds, clientSide, serverSide
<1>1. CASE UNCHANGED vars
  BY <1>1 DEF vars, TypeOK, Ct, VerifyProof
<1>2. CASE ClientSend
  <2>1. TypeOK'
    BY <1>2, <1>a, <1>b DEF ClientSend, TypeOK
  <2> QED
    BY <1>2, <2>1 DEF ClientSend, Ct, VerifyProof
<1>3. CASE ClientShutdown
  <2>1. TypeOK'
    BY <1>3, <1>a, <1>b DEF ClientShutdown, TypeOK
  <2> QED
    BY <1>3, <2>1 DEF ClientShutdown, Ct, VerifyProof
<1>4. CASE SmtpReply
  <2>1. TypeOK'
    BY <1>4, <1>a, <1>b DEF SmtpReply, TypeOK
  <2> QED
    BY <1>4, <2>1 DEF SmtpReply, Ct, VerifyProof
<1>5. CASE SmtpClose
  <2>1. TypeOK'
    BY <1>5, <1>a, <1>b DEF SmtpClose, TypeOK
  <2> QED
    BY <1>5, <2>1 DEF SmtpClose, Ct, VerifyProof
<1>6. ASSUME NEW k \in Units, ReadHeader(k) PROVE ForwarderInv'
  <2>0. k \in Nat
    BY <1>b DEF Units
  <2>1. /\ read' \in Nat /\ read' = read + k /\ read' <= sent
    BY <1>6, <2>0, <1>a, RecvBounds DEF ReadHeader
  <2>2. /\ pc = "header" /\ smtp = 0
        /\ \/ pc' = "ciphertext" /\ k > 0 /\ end' = end
           \/ pc' = "header" /\ end' = end
           \/ pc' = "closed" /\ end' = "noHeader"
        /\ UNCHANGED <<req, sent, eof, replies, smtpEof, smtp, heard, answers,
                       lost>>
    BY <1>6 DEF ReadHeader, Close
  <2>3. TypeOK'
    BY <1>a, <1>b, <2>1, <2>2 DEF TypeOK
  <2> QED
    BY <2>0, <2>1, <2>2, <2>3, <1>b
<1>7. ASSUME NEW k \in Units, ReadCiphertext(k) PROVE ForwarderInv'
  <2>0. k \in Nat
    BY <1>b DEF Units
  <2>1. read' \in Nat /\ read' >= read /\ read' <= sent
    BY <1>7, <2>0, <1>a, <1>b, RecvBounds DEF ReadCiphertext
  <2>2. /\ pc = "ciphertext" /\ pc' \in {"ciphertext", "verify"} /\ smtp = 0
        /\ UNCHANGED <<req, sent, eof, replies, smtpEof, smtp, heard, answers,
                       lost, end>>
    BY <1>7 DEF ReadCiphertext
  <2>3. TypeOK'
    BY <1>a, <1>b, <2>1, <2>2 DEF TypeOK
  <2> QED
    BY <2>1, <2>2, <2>3, <1>b
<1>8. ASSUME NEW k \in Units, NEW w \in Units, NEW r \in Replies,
             NEW a \in Replies, RelayRound(k, w, r, a)
      PROVE  ForwarderInv'
  <2>1. /\ pc = "relay"
        /\ UNCHANGED <<req, sent, eof, replies, smtpEof>>
        /\ k \in Nat /\ w \in Nat /\ w <= k
        /\ r \in Nat /\ a \in Nat /\ a <= r
        /\ read' = read + k /\ read' <= sent
        /\ heard' = heard + r /\ heard' <= replies
        /\ smtp' = smtp + w /\ answers' = answers + a
        /\ lost' \in SUBSET {"smtp", "client"} /\ lost \subseteq lost'
        /\ "smtp" \notin lost' => w = k
        /\ "client" \notin lost' => a = r
        /\ \/ pc' = "relay" /\ end' = end
           \/ pc' = "closed" /\ end' = "client" /\ eof /\ read' = sent
           \/ pc' = "closed" /\ end' = "server" /\ heard' = replies
    BY <1>8, <1>a, RoundFacts
  <2>2. TypeOK'
    BY <1>a, <1>b, <2>1 DEF TypeOK
  <2>3. Progress' /\ ProofSeen' /\ OnlyVerifiedForwarded'
    BY <1>b, <2>1 DEF Ct
  <2>4. PassedOn'
    BY <1>b, <2>1 DEF Ct
  <2> QED
    BY <2>2, <2>3, <2>4
<1>9. ASSUME NEW k \in Units, BrokenPipe(k) PROVE ForwarderInv'
  <2>1. /\ pc = "relay" /\ pc' = "closed" /\ end' = "killed"
        /\ "smtp" \in lost /\ k \in Nat /\ Recv(k)
        /\ UNCHANGED <<req, sent, eof, replies, smtpEof, smtp, heard, answers,
                       lost>>
    BY <1>9, <1>b DEF BrokenPipe, Close, Units
  <2>2. read' = read + k /\ read' <= sent
    BY <2>1, <1>a, RecvBounds
  <2>3. TypeOK'
    BY <1>a, <1>b, <2>1, <2>2 DEF TypeOK
  <2> QED
    BY <1>b, <2>1, <2>2, <2>3 DEF Ct
<1>10. CASE Verify
  <2>1. /\ pc = "verify" /\ smtp = 0 /\ read >= 1
        /\ \/ pc' = "connect" /\ VerifyProof(Ct) /\ end' = end
           \/ pc' = "closed" /\ end' = "unverified"
        /\ UNCHANGED <<req, sent, eof, read, smtp, replies, heard, answers,
                       smtpEof, lost>>
    BY <1>10 DEF Verify, Close
  <2>2. TypeOK'
    BY <1>a, <2>1 DEF TypeOK
  <2> QED
    BY <2>1, <2>2 DEF Ct, VerifyProof
<1>11. ASSUME NEW up \in BOOLEAN, NEW w \in Units, Connect(up, w)
       PROVE  ForwarderInv'
  <2>1. /\ pc = "connect" /\ read >= 1 /\ VerifyProof(Ct)
        /\ UNCHANGED <<req, sent, eof, read, heard, answers, replies, smtpEof>>
        /\ lost' \in SUBSET {"smtp", "client"} /\ lost \subseteq lost'
        /\ "client" \in lost' => "client" \in lost
        /\ \/ /\ pc' = "relay" /\ end' = end
              /\ smtp' \in Nat /\ smtp' <= Ct
              /\ "smtp" \notin lost' => smtp' = Ct
           \/ pc' = "closed" /\ end' = "refused" /\ smtp' = 0
    BY <1>11, ConnectFacts
  <2>2. TypeOK'
    BY <1>a, <1>b, <2>1 DEF TypeOK, Ct
  <2> QED
    BY <2>1, <2>2, <1>b DEF Ct, VerifyProof
<1>12. CASE SelectTimeout
  <2>1. /\ pc = "relay" /\ pc' = "closed" /\ end' = "timeout"
        /\ UNCHANGED <<req, sent, eof, read, smtp, replies, heard, answers,
                       smtpEof, lost>>
        /\ ~(replies > heard)
    BY <1>12 DEF SelectTimeout, SmtpReady, Close
  <2>2. TypeOK'
    BY <1>a, <2>1 DEF TypeOK
  <2> QED
    BY <1>b, <2>1, <2>2 DEF Ct
<1> QED
  BY <1>1, <1>2, <1>3, <1>4, <1>5, <1>6, <1>7, <1>8, <1>9, <1>10, <1>11,
     <1>12
  DEF Next, Handler

\* A connection counts no more units relayed than read, and no more read than
\* sent, and its handler is always at one of its stages.
THEOREM ForwarderTypes == Spec => []TypeOK
<1>1. ForwarderInv => TypeOK
  BY DEF ForwarderInv
<1> QED
  BY InitForwarder, StepForwarder, <1>1, PTL DEF Spec

\* Whatever the request is and however its bytes arrive, nothing is written to
\* the mail server unless the proof is valid for a prefix of what is relayed.
THEOREM ForwardsOnlyVerified == Spec => []OnlyVerifiedForwarded
<1>1. ForwarderInv => OnlyVerifiedForwarded
  BY DEF ForwarderInv
<1> QED
  BY InitForwarder, StepForwarder, <1>1, PTL DEF Spec

\* However a relay ends, what it has read of either end has gone out to the
\* other unless a send() wrote less than it was given, and the end that ended
\* it has nothing more to say.
THEOREM RelaysToTheEnd == Spec => []RelayIsComplete
<1>1. ForwarderInv => RelayIsComplete
  BY DEF ForwarderInv, PassedOn, RelayEnds, RelayIsComplete
<1> QED
  BY InitForwarder, StepForwarder, <1>1, PTL DEF Spec

\* The first write to the mail server is given exactly what the signature
\* covers: nothing of the client's later bytes goes with it, and what is
\* missing is missing because send() wrote less.
THEOREM FirstWriteIsSigned ==
    Spec => [][pc # "relay" /\ pc' = "relay"
                 => /\ Ct' = req.signed /\ smtp' <= req.signed
                    /\ smtp' = req.signed \/ "smtp" \in lost']_vars
<1> DEFINE First == pc # "relay" /\ pc' = "relay"
                      => /\ Ct' = req.signed /\ smtp' <= req.signed
                         /\ smtp' = req.signed \/ "smtp" \in lost'
<1>1. ForwarderInv /\ [Next]_vars => [First]_vars
  <2> SUFFICES ASSUME ForwarderInv, Next, pc # "relay", pc' = "relay"
               PROVE  /\ Ct' = req.signed /\ smtp' <= req.signed
                      /\ smtp' = req.signed \/ "smtp" \in lost'
    OBVIOUS
  <2>1. PICK up \in BOOLEAN, w \in Units : Connect(up, w)
    BY DEF Next, Handler, ClientSend, ClientShutdown, SmtpReply, SmtpClose,
           ReadHeader, ReadCiphertext, RelayRound, BrokenPipe, Verify,
           SelectTimeout, Close
  <2>2. /\ VerifyProof(Ct) /\ read' = read
        /\ smtp' <= Ct /\ ("smtp" \notin lost' => smtp' = Ct)
    BY <2>1, ConnectFacts
  <2> QED
    BY <2>2 DEF Ct, VerifyProof
<1> QED
  BY InitForwarder, StepForwarder, <1>1, PTL DEF Spec

\* A complete and valid request on a side that stays open: the ciphertext is
\* verified when all of it, and nothing more, has been read.
FullInv ==
    FullRequest =>
        /\ ~eof
        /\ pc = "verify" => Ct = Full
        /\ \/ end \in {"open", "refused", "timeout", "server"}
           \/ end = "killed" /\ "smtp" \in lost

\* Every step treats a complete and valid request as such.
LEMMA FullStep == ForwarderInv /\ FullInv /\ [Next]_vars => FullInv'
<1> DEFINE Kept(e, l) == \/ e \in {"open", "refused", "timeout", "server"}
                         \/ e = "killed" /\ "smtp" \in l
<1> SUFFICES ASSUME ForwarderInv, FullInv, [Next]_vars, FullRequest'
             PROVE  /\ ~eof'
                    /\ pc' = "verify" => Ct' = Full
                    /\ Kept(end', lost')
  BY DEF FullInv
<1>a. TypeOK
  BY DEF ForwarderInv
<1>b. /\ req.len \in Nat /\ req.signed \in Nat /\ sent \in Nat
      /\ read \in Nat /\ read <= sent /\ sent <= 1 + req.len
      /\ Full \in Nat /\ Full > 0
  BY <1>a, Counts
<1>c. req' = req
  BY DEF Next, Handler, ClientSend, ClientShutdown, SmtpReply, SmtpClose,
         ReadHeader, ReadCiphertext, RelayRound, BrokenPipe, Verify, Connect,
         SelectTimeout, vars, clientSide
<1>d. FullRequest
  BY <1>c DEF FullRequest
<1>e. /\ ~eof /\ (pc = "verify" => Ct = Full)
      /\ Kept(end, lost)
      /\ req.waits /\ req.delimiter /\ req.len = Full
  BY <1>d DEF FullInv, FullRequest
<1>1. \A k : Recv(k) => /\ k \in 1..(sent - read) /\ k # 0 /\ k > 0
                        /\ read' = read + k
  BY <1>b, <1>e DEF Recv
<1>2. CASE UNCHANGED vars
  BY <1>2, <1>e DEF vars, clientSide, Ct
<1>3. CASE ClientSend \/ ClientShutdown \/ SmtpReply \/ SmtpClose
  BY <1>3, <1>e DEF ClientSend, ClientShutdown, SmtpReply, SmtpClose, Ct,
                    clientSide
<1>4. ASSUME NEW k \in Units, ReadHeader(k)
      PROVE  pc' # "verify" /\ end' = end /\ eof' = eof /\ lost' = lost
  BY <1>4, <1>1, <1>e DEF ReadHeader, clientSide
<1>5. ASSUME NEW k \in Units, ReadCiphertext(k)
      PROVE  /\ pc' = "verify" => Ct' = Full
             /\ end' = end /\ eof' = eof /\ lost' = lost
  <2>1. CASE Ct >= Full /\ k = 0
    BY <1>5, <2>1, <1>b, <1>e, <1>1 DEF ReadCiphertext, Ct, clientSide
  <2>2. CASE ~(Ct >= Full /\ k = 0)
    BY <1>5, <2>2, <1>1 DEF ReadCiphertext, clientSide
  <2> QED
    BY <2>1, <2>2
<1>6. ASSUME NEW k \in Units, NEW w \in Units, NEW r \in Replies,
             NEW a \in Replies, RelayRound(k, w, r, a)
      PROVE  /\ pc' # "verify" /\ end' \in {end, "server"} /\ eof' = eof
             /\ lost \subseteq lost'
  BY <1>6, <1>a, <1>e, RoundFacts
<1>7. ASSUME NEW k \in Units, BrokenPipe(k)
      PROVE  /\ pc' # "verify" /\ eof' = eof
             /\ end' = "killed" /\ "smtp" \in lost'
  BY <1>7 DEF BrokenPipe, Close, clientSide
<1>8. CASE Verify
  <2>1. pc = "verify"
    BY <1>8 DEF Verify
  <2>2. VerifyProof(Ct)
    BY <1>d, <1>e, <2>1 DEF VerifyProof, FullRequest
  <2> QED
    BY <1>8, <1>e, <2>2 DEF Verify, clientSide
<1>9. ASSUME NEW up \in BOOLEAN, NEW w \in Units, Connect(up, w)
      PROVE  /\ pc' # "verify" /\ end' \in {end, "refused"} /\ eof' = eof
             /\ lost \subseteq lost'
  BY <1>9, ConnectFacts
<1>10. CASE SelectTimeout
  BY <1>10, <1>e DEF SelectTimeout, Close, clientSide
<1> QED
  BY <1>2, <1>3, <1>4, <1>5, <1>6, <1>7, <1>8, <1>9, <1>10, <1>e
  DEF Next, Handler

\* A complete and valid request is never dropped, however TCP groups its
\* bytes: its connection ends only because the mail server could not be
\* reached, was silent, or closed, or with the process, after a write to it
\* was lost.  This is the safety part of AnswerReachesClient.
THEOREM FullRequestKept ==
    Spec => [](FullRequest
                 => \/ end \in {"open", "refused", "timeout", "server"}
                    \/ end = "killed" /\ "smtp" \in lost)
<1>1. Init => FullInv
  BY DEF Init, FullInv
<1>2. FullInv => (FullRequest
                    => \/ end \in {"open", "refused", "timeout", "server"}
                       \/ end = "killed" /\ "smtp" \in lost)
  BY DEF FullInv
<1> QED
  BY <1>1, <1>2, InitForwarder, StepForwarder, FullStep, PTL DEF Spec

\* How many stages of handle_client come after the one it is in.
StagesAfter(at) ==
    CASE at = "header" -> 5
      [] at = "ciphertext" -> 4
      [] at = "verify" -> 3
      [] at = "connect" -> 2
      [] at = "relay" -> 1
      [] at = "closed" -> 0

\* A stream that is still open is one close away from its end.
ClosesLeft(closed) == IF closed THEN 0 ELSE 1

\* What is still to be sent, read, relayed and closed on a connection.
WorkLeft ==
    StagesAfter(pc) + (1 + req.len - sent) + (1 + req.len - read)
      + (MaxReplies - replies) + (MaxReplies - heard)
      + ClosesLeft(eof) + ClosesLeft(smtpEof)

\* The numbers that the work left is the sum of.
LEMMA WorkTypes ==
    ASSUME TypeOK
    PROVE  /\ StagesAfter(pc) \in 0..5 /\ req.len \in Nat
           /\ sent \in Nat /\ sent <= 1 + req.len
           /\ read \in Nat /\ read <= sent
           /\ replies \in Nat /\ heard \in Nat /\ MaxReplies \in Nat
           /\ heard <= replies /\ replies <= MaxReplies
           /\ ClosesLeft(eof) \in 0..1 /\ ClosesLeft(smtpEof) \in 0..1
<1>1. StagesAfter(pc) \in 0..5
  BY DEF TypeOK, StagesAfter
<1>2. ClosesLeft(eof) \in 0..1 /\ ClosesLeft(smtpEof) \in 0..1
  BY DEF ClosesLeft
<1> QED
  BY <1>1, <1>2, Counts

\* handle_client goes through its stages in order and to each of them once,
\* or leaves for good, and neither stream is opened again.
LEMMA StagesInOrder ==
    ASSUME TypeOK, Next
    PROVE  /\ StagesAfter(pc') <= StagesAfter(pc)
           /\ pc' # pc => StagesAfter(pc') < StagesAfter(pc)
           /\ ClosesLeft(eof') <= ClosesLeft(eof)
           /\ ClosesLeft(smtpEof') <= ClosesLeft(smtpEof)
<1>1. \/ pc' = pc
      \/ pc = "header" /\ pc' \in {"ciphertext", "closed"}
      \/ pc = "ciphertext" /\ pc' = "verify"
      \/ pc = "verify" /\ pc' \in {"connect", "closed"}
      \/ pc = "connect" /\ pc' \in {"relay", "closed"}
      \/ pc = "relay" /\ pc' = "closed"
  BY DEF Next, Handler, ClientSend, ClientShutdown, SmtpReply, SmtpClose,
         ReadHeader, ReadCiphertext, RelayRound, BrokenPipe, Verify, Connect,
         SelectTimeout, Close
<1>2. /\ eof' = eof \/ (~eof /\ eof')
      /\ smtpEof' = smtpEof \/ (~smtpEof /\ smtpEof')
  BY DEF Next, Handler, ClientSend, ClientShutdown, SmtpReply, SmtpClose,
         ReadHeader, ReadCiphertext, RelayRound, BrokenPipe, Verify, Connect,
         SelectTimeout, clientSide, serverSide
<1>3. ClosesLeft(eof') <= ClosesLeft(eof)
  BY <1>2 DEF ClosesLeft
<1>4. ClosesLeft(smtpEof') <= ClosesLeft(smtpEof)
  BY <1>2 DEF ClosesLeft
<1>5. StagesAfter(pc) \in 0..5
  BY WorkTypes
<1>6. pc' # pc => StagesAfter(pc') < StagesAfter(pc)
  BY <1>1 DEF StagesAfter
<1>7. pc' = pc => StagesAfter(pc') <= StagesAfter(pc)
  BY <1>5
<1>8. pc' # pc => StagesAfter(pc') \in 0..5
  BY <1>1 DEF StagesAfter
<1> QED
  BY <1>3, <1>4, <1>5, <1>6, <1>7, <1>8

\* Every step moves something: the stage, one of the four counts or the end
\* of a stream.  recv returns nothing only at the end of the client's stream,
\* which ends the stage, and the mail server is ready with nothing to relay
\* only when it has closed, which ends the relay.
LEMMA SomethingMoves ==
    ASSUME TypeOK, Next
    PROVE  /\ req' = req
           /\ sent' >= sent /\ read' >= read
           /\ replies' >= replies /\ heard' >= heard
           /\ \/ pc' # pc \/ sent' > sent \/ read' > read
              \/ replies' > replies \/ heard' > heard
              \/ ClosesLeft(eof') < ClosesLeft(eof)
              \/ ClosesLeft(smtpEof') < ClosesLeft(smtpEof)
<1> DEFINE Moves ==
      \/ pc' # pc \/ sent' > sent \/ read' > read
      \/ replies' > replies \/ heard' > heard
      \/ ClosesLeft(eof') < ClosesLeft(eof)
      \/ ClosesLeft(smtpEof') < ClosesLeft(smtpEof)
<1> DEFINE Goal == /\ req' = req
                   /\ sent' >= sent /\ read' >= read
                   /\ replies' >= replies /\ heard' >= heard
                   /\ Moves
<1> SUFFICES Goal
  OBVIOUS
<1> USE DEF clientSide, serverSide
<1>1. /\ sent \in Nat /\ read \in Nat /\ replies \in Nat /\ heard \in Nat
      /\ read <= sent /\ heard <= replies
  BY WorkTypes
<1>2. CASE ClientSend \/ SmtpReply
  BY <1>1, <1>2 DEF ClientSend, SmtpReply
<1>3. CASE ClientShutdown
  <2>1. ClosesLeft(eof') < ClosesLeft(eof)
    BY <1>3 DEF ClientShutdown, ClosesLeft
  <2>2. UNCHANGED <<req, sent, read, replies, heard>>
    BY <1>3 DEF ClientShutdown
  <2> HIDE DEF Moves
  <2>3. Moves
    BY <2>1 DEF Moves
  <2> QED
    BY <1>1, <2>2, <2>3
<1>4. CASE SmtpClose
  <2>1. ClosesLeft(smtpEof') < ClosesLeft(smtpEof)
    BY <1>4 DEF SmtpClose, ClosesLeft
  <2>2. UNCHANGED <<req, sent, read, replies, heard>>
    BY <1>4 DEF SmtpClose
  <2> HIDE DEF Moves
  <2>3. Moves
    BY <2>1 DEF Moves
  <2> QED
    BY <1>1, <2>2, <2>3
<1>5. CASE \/ Verify \/ SelectTimeout
           \/ \E up \in BOOLEAN, w \in Units : Connect(up, w)
  <2>1. /\ pc' # pc
        /\ UNCHANGED <<req, sent, read, replies, heard>>
    BY <1>5 DEF Verify, SelectTimeout, Connect, Close
  <2> QED
    BY <1>1, <2>1
<1>6. ASSUME NEW k, Recv(k)
      PROVE  /\ read' >= read /\ (k # 0 => read' > read)
             /\ k = 0 => ~(sent > read)
  BY <1>1, <1>6 DEF Recv
<1>7. ASSUME NEW k \in Units, ReadHeader(k) \/ BrokenPipe(k) PROVE Goal
  <2>1. Recv(k) /\ UNCHANGED <<req, sent, replies, heard>>
    BY <1>7 DEF ReadHeader, BrokenPipe
  <2>2. k = 0 => pc' # pc
    BY <1>7 DEF ReadHeader, BrokenPipe, Close
  <2> QED
    BY <1>1, <1>6, <2>1, <2>2
<1>8. ASSUME NEW k \in Units, ReadCiphertext(k) PROVE Goal
  <2>1. UNCHANGED <<req, sent, replies, heard>>
    BY <1>8 DEF ReadCiphertext
  <2>2. \/ pc' # pc /\ read' = read
        \/ Recv(k) /\ (k = 0 => pc' # pc)
    BY <1>8 DEF ReadCiphertext
  <2> QED
    BY <1>1, <1>6, <2>1, <2>2
<1>9. ASSUME NEW k \in Units, NEW w \in Units, NEW r \in Replies,
             NEW a \in Replies, RelayRound(k, w, r, a)
      PROVE  Goal
  <2>1. /\ UNCHANGED <<req, sent, replies>>
        /\ k \in Nat /\ r \in Nat
        /\ read' = read + k /\ heard' = heard + r
        /\ pc' # pc \/ k > 0 \/ r > 0
    BY <1>9, RoundFacts
  <2> QED
    BY <1>1, <2>1
<1> QED
  BY <1>2, <1>3, <1>4, <1>5, <1>7, <1>8, <1>9 DEF Next, Handler

\* handle_client never goes round its loops for nothing, at the end of either
\* stream in particular: every step of a connection leaves less to do, so that
\* a connection of any length comes to rest.
THEOREM ConnectionsComeToRest ==
    Spec => [](WorkLeft \in Nat) /\ [][WorkLeft' < WorkLeft]_vars
<1>1. ForwarderInv => TypeOK /\ WorkLeft \in Nat
  <2> SUFFICES ASSUME ForwarderInv PROVE TypeOK /\ WorkLeft \in Nat
    OBVIOUS
  <2>1. TypeOK
    BY DEF ForwarderInv
  <2> QED
    BY <2>1, WorkTypes DEF WorkLeft
<1>2. TypeOK /\ TypeOK' /\ [Next]_vars => [WorkLeft' < WorkLeft]_vars
  <2> SUFFICES ASSUME TypeOK, TypeOK', Next PROVE WorkLeft' < WorkLeft
    OBVIOUS
  <2>1. /\ StagesAfter(pc) \in 0..5 /\ req.len \in Nat
        /\ sent \in Nat /\ read \in Nat /\ replies \in Nat
        /\ heard \in Nat /\ MaxReplies \in Nat
        /\ ClosesLeft(eof) \in 0..1 /\ ClosesLeft(smtpEof) \in 0..1
    BY WorkTypes
  <2>2. /\ StagesAfter(pc') \in 0..5
        /\ sent' \in Nat /\ read' \in Nat /\ replies' \in Nat
        /\ heard' \in Nat
        /\ ClosesLeft(eof') \in 0..1 /\ ClosesLeft(smtpEof') \in 0..1
    <3>1. StagesAfter(pc') \in 0..5
      BY DEF TypeOK, StagesAfter
    <3>2. ClosesLeft(eof') \in 0..1 /\ ClosesLeft(smtpEof') \in 0..1
      BY DEF ClosesLeft
    <3>3. /\ sent' \in Nat /\ read' \in Nat
          /\ replies' \in Nat /\ heard' \in Nat
      BY <2>1, SomethingMoves DEF TypeOK
    <3> QED
      BY <3>1, <3>2, <3>3
  <2>3. WorkLeft' = StagesAfter(pc') + (1 + req.len - sent')
          + (1 + req.len - read') + (MaxReplies - replies')
          + (MaxReplies - heard') + ClosesLeft(eof') + ClosesLeft(smtpEof')
    BY SomethingMoves DEF WorkLeft
  <2> QED
    BY <2>1, <2>2, <2>3, StagesInOrder, SomethingMoves DEF WorkLeft
<1> QED
  BY <1>1, <1>2, InitForwarder, StepForwarder, PTL DEF Spec

-----------------------------------------------------------------------------
(* The relay client *)

\* One exchange is under way at a time: nothing before the engine runs, then
\* a Register or the Challenge that answers it, and no tick until it is over.
OneExchange ==
    /\ engine = "starting" => net = {} /\ ~registered
    /\ net # {} => waited = 0
    /\ ~registered => /\ cookie = NoCookie /\ ~bound
                      /\ \A m \in net : m.type \in {"Register", "Challenge"}
                      /\ \A m, n \in net : m = n

\* A registered service has one cookie for good, and the relay has its port
\* only under that cookie.
OneCookie ==
    /\ registered => cookie \in Cookies
    /\ registered => \A m \in net :
           /\ m.type \notin {"Register", "Challenge"}
           /\ m.type \in {"Confirm", "Heartbeat"} => m.cookie = cookie
    /\ bound => cookie = incarnation

\* A heartbeat is under way.
Beating == \E m \in net : m.type = "Heartbeat"

\* The longest time from one heartbeat to the next: the interval is tested
\* once a round, and a round that waits for a datagram takes RecvTimeout.
Beat == HbEvery + RecvTimeout - 1

\* The time since last_heartbeat, which elapsed does not count beyond HbEvery.
SinceLast == IF elapsed < HbEvery THEN elapsed ELSE HbEvery + waited - 1

\* The age of the lease when no heartbeat was lost since it was renewed.
Fresh == IF Beating THEN Beat ELSE SinceLast

\* Each heartbeat lost in a row adds one Beat to the age of the lease.
LeaseAge ==
    /\ Beating => elapsed = 0
    /\ bound => lease <= Ttl
    /\ engine = "running" /\ registered /\ elapsed = HbEvery => waited >= 1
    /\ engine = "running" /\ bound =>
         /\ lostRow = 0 => lease <= Fresh
         /\ lostRow = 1 => lease <= Beat + Fresh

ServiceInv == ServiceTypeOK /\ OneExchange /\ OneCookie /\ LeaseAge

\* The fields of a datagram.
LEMMA MessageFields ==
    ASSUME NEW m \in Messages
    PROVE  /\ m.type \in Types
           /\ m.type \in {"Challenge", "Confirm", "Heartbeat"}
                => m.cookie \in Cookies
           /\ m.type = "Neighbors" => m.sub \in Subdomains \cup {NoSub}
  BY DEF Messages, Types

\* Each datagram the client or the relay makes is one of Messages.
LEMMA MessageForms ==
    /\ [type |-> "Register"] \in Messages
    /\ \A c \in Cookies : /\ [type |-> "Challenge", cookie |-> c] \in Messages
                          /\ [type |-> "Confirm", cookie |-> c] \in Messages
                          /\ [type |-> "Heartbeat", cookie |-> c] \in Messages
    /\ \A u \in Subdomains \cup {NoSub} :
           [type |-> "Neighbors", sub |-> u] \in Messages
  BY DEF Messages

\* An engine that has not started has sent nothing.
LEMMA InitService == ServiceInit => ServiceInv
<1> SUFFICES ASSUME ServiceInit PROVE ServiceInv
  OBVIOUS
<1>1. 1 \in Cookies
  BY RelayAssumption DEF Cookies
<1>2. ServiceTypeOK
  <2>1. /\ elapsed \in 0..HbEvery /\ waited \in 0..RecvTimeout
        /\ lease \in 0..(Ttl + 1) /\ lostRow \in 0..2
    BY RelayAssumption DEF ServiceInit
  <2>2. registered \in BOOLEAN /\ bound \in BOOLEAN
    BY DEF ServiceInit
  <2> QED
    BY <1>1, <2>1, <2>2 DEF ServiceInit, ServiceTypeOK
<1>3. OneExchange /\ OneCookie /\ LeaseAge
  BY DEF ServiceInit, OneExchange, OneCookie, LeaseAge, Beating
<1> QED
  BY <1>2, <1>3 DEF ServiceInv

\* The first Register.
LEMMA StartService == ServiceInv /\ Start => ServiceInv'
<1> SUFFICES ASSUME ServiceInv, Start PROVE ServiceInv'
  OBVIOUS
<1>1. net' = {[type |-> "Register"]} /\ ~registered /\ ~bound
  BY DEF Start, ServiceInv, OneExchange
<1>2. ServiceTypeOK'
  BY <1>1, MessageForms, RelayAssumption
     DEF Start, ServiceInv, ServiceTypeOK, clientVars, relayVars
<1>3. OneExchange' /\ OneCookie'
  BY <1>1 DEF Start, ServiceInv, OneExchange, OneCookie, clientVars, relayVars
<1>4. LeaseAge'
  BY <1>1 DEF Start, LeaseAge, Beating, clientVars, relayVars
<1> QED
  BY <1>2, <1>3, <1>4 DEF ServiceInv

\* A round after which the service is not registered had no datagram, and
\* sends at most a Register.
LEMMA SilentRound ==
    ASSUME ServiceInv, engine = "running" => net = {}, Round(Silence),
           ~registered
    PROVE  ServiceInv'
<1>1. ~registered' /\ ~bound' /\ cookie' = NoCookie /\ ~HeartbeatDue
  BY DEF ServiceInv, OneExchange, Round, HandleRelayPacket, Silence, ToClient,
         relayVars, HeartbeatDue
<1>2. Silence \notin net
  BY MessageFields DEF ServiceInv, ServiceTypeOK, Silence, Types
<1>3. Answer(Silence) = {}
  BY DEF Answer, Silence
<1>4. \/ net' = net
      \/ net' = {[type |-> "Register"]} /\ net = {}
  BY <1>1, <1>2, <1>3 DEF Round
<1>5. ServiceTypeOK'
  BY <1>1, <1>4, MessageForms, RelayAssumption
     DEF ServiceInv, ServiceTypeOK, Round, HandleRelayPacket, LastHeartbeat,
         Silence, relayVars
<1>6. OneExchange' /\ OneCookie'
  BY <1>1, <1>4 DEF Round, ServiceInv, OneExchange, OneCookie, relayVars
<1>7. LeaseAge'
  BY <1>1, <1>4 DEF ServiceInv, OneExchange, LeaseAge, Beating
<1> QED
  BY <1>5, <1>6, <1>7 DEF ServiceInv

\* The round that receives a Challenge: the service is registered from now
\* on, confirms, and sends a heartbeat at once when one is due.
LEMMA ChallengeRound ==
    ASSUME ServiceInv, NEW m \in net, m.type = "Challenge", Round(m)
    PROVE  ServiceInv'
<1>1. net = {m} /\ ~bound' /\ ~registered
  BY DEF ServiceInv, OneExchange, OneCookie, Round, relayVars
<1>2. m.cookie \in Cookies
  BY MessageFields DEF ServiceInv, ServiceTypeOK
<1>3. registered' /\ cookie' = m.cookie /\ subdomain' = subdomain
  BY DEF Round, HandleRelayPacket, ToClient
<1>4. Answer(m) = {[type |-> "Confirm", cookie |-> m.cookie]}
  BY DEF Answer
<1>5. net' \subseteq {[type |-> "Confirm", cookie |-> m.cookie],
                      [type |-> "Heartbeat", cookie |-> m.cookie]}
  BY <1>1, <1>3, <1>4 DEF Round, RegisterDue
<1>6. [type |-> "Heartbeat", cookie |-> m.cookie] \in net' => HeartbeatDue
  BY <1>1, <1>3, <1>4 DEF Round, RegisterDue
<1>7. elapsed' \in 0..(HbEvery - 1) /\ (HeartbeatDue => elapsed' = 0)
  BY <1>3, RelayAssumption
     DEF ServiceInv, ServiceTypeOK, Round, LastHeartbeat, HeartbeatDue
<1>8. ServiceTypeOK'
  <2>1. net' \subseteq Messages
    BY <1>2, <1>5, MessageForms
  <2> QED
    BY <1>2, <1>3, <1>7, <2>1, RelayAssumption
       DEF ServiceInv, ServiceTypeOK, Round, relayVars
<1>9. OneExchange' /\ OneCookie'
  BY <1>1, <1>2, <1>3, <1>5 DEF Round, OneExchange, OneCookie
<1>10. LeaseAge'
  <2>1. Beating' => elapsed' = 0
    BY <1>5, <1>6, <1>7 DEF Beating
  <2> QED
    BY <1>1, <1>7, <2>1, RelayAssumption DEF LeaseAge
<1> QED
  BY <1>8, <1>9, <1>10 DEF ServiceInv

\* Any other round of a registered service: the interval of the heartbeats is
\* tested, and a heartbeat that is due starts the next interval.
LEMMA RegisteredRound ==
    ASSUME ServiceInv, registered, NEW m, Round(m),
           \/ m \in net /\ m.type = "Neighbors"
           \/ m = Silence
    PROVE  ServiceInv'
<1> USE DEF ServiceInv
<1>1. m.type \notin {"Challenge", "Heartbeat", "Confirm"}
  BY DEF Silence
<1>2. registered' /\ cookie' = cookie /\ cookie \in Cookies
  BY <1>1 DEF Round, HandleRelayPacket, OneCookie
<1>3. subdomain' \in Subdomains \cup {NoSub}
  <2>1. CASE m \in net /\ m.type = "Neighbors"
    BY <2>1, MessageFields DEF ServiceTypeOK, Round, HandleRelayPacket
  <2>2. CASE m = Silence
    BY <2>2 DEF ServiceTypeOK, Round, HandleRelayPacket, Silence
  <2> QED
    BY <2>1, <2>2
<1>4. Answer(m) = {} /\ ~RegisterDue
  BY <1>1, <1>2 DEF Answer, RegisterDue
<1> DEFINE hb == [type |-> "Heartbeat", cookie |-> cookie]
<1>5. net' = (net \ {m}) \cup
                (IF HeartbeatDue /\ engine = "running" THEN {hb} ELSE {})
  BY <1>2, <1>4 DEF Round
<1>6. elapsed' \in 0..(HbEvery - 1)
  BY <1>2, RelayAssumption
     DEF ServiceTypeOK, Round, LastHeartbeat, HeartbeatDue
<1>7. /\ HeartbeatDue => elapsed' = 0 /\ elapsed = HbEvery
      /\ ~HeartbeatDue => elapsed' = elapsed /\ elapsed < HbEvery
  BY <1>2, RelayAssumption
     DEF ServiceTypeOK, Round, LastHeartbeat, HeartbeatDue
<1>8. ServiceTypeOK'
  <2>1. net' \subseteq Messages
    BY <1>2, <1>5, MessageForms DEF ServiceTypeOK
  <2> QED
    BY <1>2, <1>3, <1>6, <2>1, RelayAssumption
       DEF ServiceTypeOK, Round, relayVars
<1>9. OneExchange' /\ OneCookie'
  BY <1>2, <1>5 DEF Round, OneExchange, OneCookie, relayVars
<1>10. LeaseAge'
  <2>1. Beating' <=> Beating \/ (HeartbeatDue /\ engine = "running")
    <3>1. HeartbeatDue /\ engine = "running" => hb \in net'
      BY <1>5
    <3>2. hb.type = "Heartbeat"
      OBVIOUS
    <3>3. \A n \in net : n.type = "Heartbeat" => n \in net'
      BY <1>1, <1>5
    <3>4. \A n \in net' : n \in net \/ (HeartbeatDue /\ engine = "running")
      BY <1>5
    <3> HIDE DEF hb
    <3> QED
      BY <3>1, <3>2, <3>3, <3>4 DEF Beating
  <2>2. Beating' => elapsed' = 0
    BY <2>1, <1>7, RelayAssumption DEF LeaseAge
  <2>3. bound' = bound /\ lease' = lease /\ lostRow' = lostRow /\ waited' = 0
    BY DEF Round, relayVars
  <2>4. engine' = "running" => engine = "running"
    BY DEF Round
  <2>5. ASSUME engine = "running" PROVE Fresh <= Fresh'
    <3>1. CASE HeartbeatDue
      <4>1. Fresh' = Beat
        BY <3>1, <2>1, <2>5 DEF Fresh, Beat
      <4>2. Fresh <= Beat
        BY <3>1, <1>7, RelayAssumption
           DEF Fresh, Beat, SinceLast, ServiceTypeOK
      <4> QED
        BY <4>1, <4>2
    <3>2. CASE ~HeartbeatDue
      BY <3>2, <2>1, <2>3, <1>7, RelayAssumption
         DEF Fresh, Beat, SinceLast, ServiceTypeOK
    <3> QED
      BY <3>1, <3>2
  <2>6. Fresh \in Int /\ Fresh' \in Int /\ Beat \in Int
    BY <1>6, <2>3, RelayAssumption DEF Fresh, Beat, SinceLast, ServiceTypeOK
  <2>7. Beat' = Beat
    BY DEF Beat
  <2>8. lease \in Int
    BY RelayAssumption DEF ServiceTypeOK
  <2> HIDE DEF ServiceInv
  <2>9. LeaseAge
    BY DEF ServiceInv
  <2>10. elapsed' # HbEvery
    BY <1>6, RelayAssumption
  <2>11. ASSUME engine' = "running", bound'
         PROVE  /\ lostRow' = 0 => lease' <= Fresh'
                /\ lostRow' = 1 => lease' <= Beat' + Fresh'
    <3>1. engine = "running" /\ bound /\ Fresh <= Fresh'
      BY <2>11, <2>3, <2>4, <2>5
    <3>2. /\ lostRow = 0 => lease <= Fresh
          /\ lostRow = 1 => lease <= Beat + Fresh
      BY <3>1, <2>9 DEF LeaseAge
    <3>3. lostRow = 0 => lease <= Fresh'
      BY <3>1, <3>2, <2>6, <2>8
    <3>4. lostRow = 1 => lease <= Beat + Fresh'
      <4>1. \A a, b, c, d \in Int : a <= b + c /\ c <= d => a <= b + d
        OBVIOUS
      <4> QED
        BY <3>1, <3>2, <2>6, <2>8, <4>1, Zenon
    <3> QED
      BY <3>3, <3>4, <2>3, <2>7, Zenon
  <2> QED
    BY <2>2, <2>3, <2>9, <2>10, <2>11 DEF LeaseAge
<1> QED
  BY <1>8, <1>9, <1>10

\* The end of the engine's work: nothing but engine changes.
LEMMA EngineEnds == ServiceInv /\ (StartFails \/ Stop) => ServiceInv'
<1> SUFFICES ASSUME ServiceInv, StartFails \/ Stop PROVE ServiceInv'
  OBVIOUS
<1>1. /\ engine' \in {"stopping", "exited"}
      /\ UNCHANGED <<registered, cookie, subdomain, elapsed, waited, net>>
      /\ UNCHANGED <<incarnation, bound, lease, lostRow>>
  BY DEF StartFails, Stop, clientVars, relayVars
<1>2. ServiceTypeOK'
  BY <1>1 DEF ServiceInv, ServiceTypeOK
<1>3. OneExchange' /\ OneCookie'
  BY <1>1 DEF ServiceInv, OneExchange, OneCookie
<1>4. LeaseAge'
  BY <1>1 DEF ServiceInv, LeaseAge, Beating
<1> QED
  BY <1>2, <1>3, <1>4 DEF ServiceInv

\* The relay answers a Register with a Challenge, the only datagram under way.
LEMMA RegisterStep ==
    ASSUME ServiceInv, NEW m \in net, RelayRegister(m) PROVE ServiceInv'
<1>1. /\ UNCHANGED <<engine, registered, cookie, subdomain, elapsed, waited>>
      /\ UNCHANGED <<incarnation, bound, lease, lostRow>>
  BY DEF RelayRegister, Reply, clientVars
<1>2. ~registered /\ net = {m}
  BY DEF ServiceInv, OneExchange, OneCookie, RelayRegister
<1>3. net' = {[type |-> "Challenge", cookie |-> incarnation]}
  BY <1>2 DEF RelayRegister, Reply
<1>4. net' \subseteq Messages
  BY <1>3, MessageForms DEF ServiceInv, ServiceTypeOK
<1>5. ServiceTypeOK'
  BY <1>1, <1>4 DEF ServiceInv, ServiceTypeOK
<1>6. OneExchange' /\ OneCookie'
  BY <1>1, <1>2, <1>3 DEF ServiceInv, OneExchange, OneCookie
<1>7. LeaseAge'
  BY <1>1, <1>2, <1>3 DEF ServiceInv, LeaseAge, OneExchange, Beating
<1> QED
  BY <1>5, <1>6, <1>7 DEF ServiceInv

\* The relay renews the lease: its age starts again, and so does lostRow.
LEMMA RenewStep ==
    ASSUME ServiceInv, NEW m \in net, NEW u \in Subdomains \cup {NoSub},
           RelayRenew(m, u)
    PROVE  ServiceInv'
<1>1. /\ UNCHANGED <<engine, registered, cookie, subdomain, elapsed, waited>>
      /\ UNCHANGED incarnation
      /\ bound' = TRUE /\ lease' = 0 /\ lostRow' = 0
  BY DEF RelayRenew, Reply, clientVars
<1>2. registered /\ cookie = incarnation
  BY DEF ServiceInv, OneExchange, OneCookie, RelayRenew
<1>3. net' = (net \ {m}) \cup {[type |-> "Neighbors", sub |-> u]}
  BY DEF RelayRenew, Reply
<1>4. ServiceTypeOK'
  <2>1. net' \subseteq Messages
    BY <1>3, MessageForms DEF ServiceInv, ServiceTypeOK
  <2> QED
    BY <1>1, <2>1, RelayAssumption DEF ServiceInv, ServiceTypeOK
<1>5. OneExchange' /\ OneCookie'
  BY <1>1, <1>2, <1>3 DEF ServiceInv, OneExchange, OneCookie
<1>6. LeaseAge'
  <2>1. Beating' => Beating
    BY <1>3 DEF Beating
  <2>2. elapsed \in 0..HbEvery /\ waited \in 0..RecvTimeout
    BY DEF ServiceInv, ServiceTypeOK
  <2>3. 0 <= Fresh'
    BY <1>1, <2>2, RelayAssumption DEF Fresh, Beat, SinceLast
  <2>4. LeaseAge
    BY DEF ServiceInv
  <2> QED
    BY <1>1, <2>1, <2>3, <2>4, RelayAssumption DEF LeaseAge
<1> QED
  BY <1>4, <1>5, <1>6 DEF ServiceInv

\* A datagram that leaves the network and is not answered.
LEMMA GoneFacts ==
    ASSUME ServiceInv, NEW m \in net, net' = net \ {m},
           UNCHANGED <<engine, registered, cookie, subdomain>>,
           UNCHANGED <<elapsed, waited, incarnation, bound, lease>>,
           lostRow' \in 0..2
    PROVE  /\ ServiceTypeOK' /\ OneExchange' /\ OneCookie'
           /\ Beating' => Beating
           /\ m.type # "Heartbeat" => (Beating' <=> Beating)
           /\ m.type = "Heartbeat" => elapsed = 0 /\ ~Beating'
<1>1. ServiceTypeOK'
  BY DEF ServiceInv, ServiceTypeOK
<1>2. OneExchange' /\ OneCookie'
  BY DEF ServiceInv, OneExchange, OneCookie
<1>3. /\ Beating' => Beating
      /\ m.type # "Heartbeat" => (Beating' <=> Beating)
      /\ m.type = "Heartbeat" => elapsed = 0
  BY DEF Beating, ServiceInv, LeaseAge
<1>4. ASSUME m.type = "Heartbeat", NEW n \in net', n.type = "Heartbeat"
      PROVE  FALSE
  <2>1. registered /\ m \in Messages /\ n \in Messages
    BY <1>4 DEF ServiceInv, OneExchange, ServiceTypeOK
  <2>2. m.cookie = n.cookie
    BY <1>4, <2>1 DEF ServiceInv, OneCookie
  <2>3. m = n
    BY <2>1, <2>2, <1>4 DEF Messages
  <2> QED
    BY <2>3
<1> QED
  BY <1>1, <1>2, <1>3, <1>4 DEF Beating

\* The relay ignores what has another cookie, or a heartbeat for a port it
\* does not have: never a heartbeat of a service whose port it has.
LEMMA IgnoreStep ==
    ASSUME ServiceInv, NEW m \in net, RelayIgnore(m) PROVE ServiceInv'
<1>1. /\ UNCHANGED <<engine, registered, cookie, subdomain, elapsed, waited>>
      /\ UNCHANGED <<incarnation, bound, lease>>
      /\ lostRow' = lostRow /\ net' = net \ {m}
  BY DEF RelayIgnore, clientVars, relayVars
<1>2. lostRow' \in 0..2
  BY <1>1 DEF ServiceInv, ServiceTypeOK
<1>3. m.type = "Heartbeat" => ~bound
  BY DEF RelayIgnore, ServiceInv, OneExchange, OneCookie
<1>4. LeaseAge'
  <2>1. (Beating' => Beating) /\ (bound => (Beating' <=> Beating))
    BY <1>1, <1>2, <1>3, GoneFacts
  <2> QED
    BY <1>1, <2>1 DEF ServiceInv, LeaseAge, Fresh, SinceLast
<1> QED
  BY <1>1, <1>2, <1>4, GoneFacts DEF ServiceInv

\* A restarted relay has no port at all.
LEMMA RestartStep == ServiceInv /\ RelayRestart => ServiceInv'
<1> SUFFICES ASSUME ServiceInv, RelayRestart PROVE ServiceInv'
  OBVIOUS
<1>1. /\ UNCHANGED <<engine, registered, cookie, subdomain, elapsed, waited>>
      /\ UNCHANGED <<net, lostRow>>
      /\ ~bound' /\ bound' \in BOOLEAN /\ lease' = 0
  BY DEF RelayRestart, clientVars
<1>2. incarnation' \in Cookies
  BY RelayAssumption DEF RelayRestart, ServiceInv, ServiceTypeOK, Cookies
<1>3. ServiceTypeOK'
  BY <1>1, <1>2, RelayAssumption DEF ServiceInv, ServiceTypeOK
<1>4. OneExchange' /\ OneCookie'
  BY <1>1 DEF ServiceInv, OneExchange, OneCookie
<1>5. LeaseAge'
  BY <1>1 DEF ServiceInv, LeaseAge, Beating
<1> QED
  BY <1>3, <1>4, <1>5 DEF ServiceInv

\* A lost heartbeat: the age the lease had when it was sent is at most one
\* Beat more than the heartbeats lost before account for.
LEMMA LoseStep == ASSUME ServiceInv, NEW m \in net, Lose(m) PROVE ServiceInv'
<1>1. /\ UNCHANGED <<engine, registered, cookie, subdomain, elapsed, waited>>
      /\ UNCHANGED <<incarnation, bound, lease>>
      /\ net' = net \ {m}
  BY DEF Lose, clientVars, relayVars
<1>2. lostRow \in 0..2
  BY DEF ServiceInv, ServiceTypeOK
<1>3. lostRow' \in 0..2
  BY <1>2 DEF Lose
<1>4. ServiceTypeOK' /\ OneExchange' /\ OneCookie'
  BY <1>1, <1>3, GoneFacts
<1>5. LeaseAge'
  <2>1. LeaseAge
    BY DEF ServiceInv
  <2>2. CASE m.type # "Heartbeat"
    <3>1. (Beating' <=> Beating) /\ lostRow' = lostRow
      BY <1>1, <1>3, <2>2, GoneFacts DEF Lose
    <3> QED
      BY <1>1, <2>1, <3>1 DEF LeaseAge, Fresh, SinceLast
  <2>3. CASE m.type = "Heartbeat"
    <3>1. Beating /\ ~Beating' /\ elapsed = 0
      BY <1>1, <1>3, <2>3, GoneFacts DEF Beating
    <3>2. Fresh = Beat /\ Fresh' = 0
      BY <1>1, <3>1, RelayAssumption DEF Fresh, SinceLast
    <3>3. lostRow' # 0 /\ (lostRow' = 1 => lostRow = 0)
      BY <1>2, <2>3 DEF Lose
    <3>4. Beat + 0 = Beat
      BY RelayAssumption DEF Beat
    <3> QED
      BY <1>1, <2>1, <3>1, <3>2, <3>3, <3>4, RelayAssumption DEF LeaseAge
  <2> QED
    BY <2>2, <2>3
<1> QED
  BY <1>4, <1>5 DEF ServiceInv

\* A tick: the lease and the time since the last heartbeat grow together.
LEMMA TickStep == ServiceInv /\ Tick => ServiceInv'
<1> SUFFICES ASSUME ServiceInv, Tick PROVE ServiceInv'
  OBVIOUS
<1>1. /\ UNCHANGED <<engine, registered, cookie, subdomain>>
      /\ UNCHANGED <<incarnation, lostRow>>
      /\ net = {} /\ net' = {}
      /\ engine \in {"running", "exited"}
  BY DEF Tick, clientVars
<1>2. /\ elapsed \in 0..HbEvery /\ waited \in 0..RecvTimeout
      /\ lease \in 0..(Ttl + 1) /\ bound \in BOOLEAN
      /\ bound => lease <= Ttl
  BY DEF ServiceInv, ServiceTypeOK, LeaseAge
<1>3. elapsed' \in 0..HbEvery /\ waited' \in 0..RecvTimeout
  BY <1>2, RelayAssumption DEF Tick
<1>4. /\ bound' \in BOOLEAN /\ (bound' => bound)
      /\ bound' => lease' = lease + 1 /\ lease' <= Ttl
  BY <1>2 DEF Tick
<1>5. lease' \in 0..(Ttl + 1)
  BY <1>2, RelayAssumption DEF Tick
<1>6. ServiceTypeOK'
  BY <1>1, <1>3, <1>4, <1>5 DEF ServiceInv, ServiceTypeOK
<1>7. OneExchange' /\ OneCookie'
  BY <1>1, <1>4 DEF ServiceInv, OneExchange, OneCookie
<1>8. ~Beating /\ ~Beating'
  BY <1>1 DEF Beating
<1>9. ASSUME engine = "running"
      PROVE  /\ waited' = waited + 1
             /\ registered => SinceLast + 1 <= SinceLast'
  BY <1>2, <1>9, RelayAssumption
     DEF Tick, SinceLast, ServiceInv, LeaseAge
<1>10. LeaseAge'
  <2>1. ASSUME engine = "running", bound'
        PROVE  /\ lostRow = 0 => lease' <= SinceLast'
               /\ lostRow = 1 => lease' <= Beat + SinceLast'
    <3>1. registered /\ bound
      BY <2>1, <1>4 DEF ServiceInv, OneExchange
    <3>2. /\ lostRow = 0 => lease <= SinceLast
          /\ lostRow = 1 => lease <= Beat + SinceLast
      BY <2>1, <3>1, <1>8 DEF ServiceInv, LeaseAge, Fresh
    <3>3. SinceLast \in Int /\ SinceLast' \in Int /\ Beat \in Int
      BY <1>2, <1>3, RelayAssumption DEF SinceLast, Beat
    <3>4. lease \in Int /\ lease' = lease + 1 /\ SinceLast + 1 <= SinceLast'
      BY <1>2, <1>4, <1>9, <2>1, <3>1, RelayAssumption
    <3>5. /\ \A a, b, c \in Int : a <= b /\ b + 1 <= c => a + 1 <= c
          /\ \A a, b, c, d \in Int :
                 a <= d + b /\ b + 1 <= c => a + 1 <= d + c
      OBVIOUS
    <3> QED
      BY <3>2, <3>3, <3>4, <3>5, Zenon
  <2>2. engine = "running" => waited' >= 1
    BY <1>2, <1>9
  <2> QED
    BY <1>1, <1>4, <1>8, <2>1, <2>2 DEF LeaseAge, Fresh, Beat
<1> QED
  BY <1>6, <1>7, <1>10 DEF ServiceInv

\* A round, whatever recvfrom returned.
LEMMA ReceiveStep ==
    ServiceInv /\ (ReceiveTimeout \/ \E m \in net : Receive(m)) => ServiceInv'
<1> SUFFICES ASSUME ServiceInv,
                    ReceiveTimeout \/ \E m \in net : Receive(m)
             PROVE  ServiceInv'
  OBVIOUS
<1>1. CASE ReceiveTimeout
  <2>1. engine = "running" => net = {}
    BY <1>1, RelayAssumption DEF ReceiveTimeout, ServiceInv, OneExchange
  <2>2. Round(Silence)
    BY <1>1 DEF ReceiveTimeout
  <2> QED
    BY <2>1, <2>2, SilentRound, RegisteredRound
<1>2. CASE \E m \in net : Receive(m)
  <2> PICK m \in net : Receive(m)
    BY <1>2
  <2>1. Round(m) /\ m.type \in {"Challenge", "Neighbors"}
    BY DEF Receive, ToClient
  <2>2. m.type = "Neighbors" => registered
    BY DEF ServiceInv, OneExchange
  <2> QED
    BY <2>1, <2>2, ChallengeRound, RegisteredRound
<1> QED
  BY <1>1, <1>2

\* Every step of the engine, of the relay and of the network keeps the
\* invariant.
LEMMA StepService == ServiceInv /\ [ServiceNext]_serviceVars => ServiceInv'
<1> SUFFICES ASSUME ServiceInv, [ServiceNext]_serviceVars PROVE ServiceInv'
  OBVIOUS
<1>1. CASE Start \/ StartFails \/ Stop
  BY <1>1, StartService, EngineEnds
<1>2. CASE ReceiveTimeout \/ \E m \in net : Receive(m)
  BY <1>2, ReceiveStep
<1>3. CASE \E m \in net : Relay(m)
  BY <1>3, RegisterStep, RenewStep, IgnoreStep DEF Relay
<1>4. CASE \E m \in net : Lose(m)
  BY <1>4, LoseStep
<1>5. CASE RelayRestart \/ Tick
  BY <1>5, RestartStep, TickStep
<1>6. CASE UNCHANGED serviceVars
  <2>1. UNCHANGED <<engine, registered, cookie, subdomain, elapsed, waited,
                    net, incarnation, bound, lease, lostRow>>
    BY <1>6 DEF serviceVars, clientVars, relayVars
  <2>2. ServiceTypeOK' /\ OneExchange' /\ OneCookie'
    BY <2>1 DEF ServiceInv, ServiceTypeOK, OneExchange, OneCookie
  <2>3. LeaseAge'
    BY <2>1 DEF ServiceInv, LeaseAge, Fresh, SinceLast, Beating
  <2> QED
    BY <2>2, <2>3 DEF ServiceInv
<1> QED
  BY <1>1, <1>2, <1>3, <1>4, <1>5, <1>6 DEF ServiceNext

\* The invariant holds in every state.
LEMMA ServiceInvariant == ServiceSpec => []ServiceInv
  BY InitService, StepService, PTL DEF ServiceSpec

\* The state of a service and of its relay is what RelayClient says it is:
\* among others, a lease is never counted beyond its end.
THEOREM ServiceTypes == ServiceSpec => []ServiceTypeOK
<1>1. ServiceInv => ServiceTypeOK
  BY DEF ServiceInv
<1> QED
  BY <1>1, ServiceInvariant, PTL

\* "Heartbeat every 90s (TTL 270s)": the relay keeps the port of a running
\* service unless two heartbeats in a row are lost, for all intervals with
\* two times HbEvery + RecvTimeout - 1 within the TTL; the code has
\* 2 * (90 + 5) <= 270.
THEOREM PortKept ==
    2 * Beat <= Ttl => (ServiceSpec => LeaseHeld)
<1> SUFFICES ASSUME 2 * Beat <= Ttl PROVE ServiceSpec => LeaseHeld
  OBVIOUS
<1> DEFINE Held == engine = "running" /\ bound /\ ~bound'
                     /\ incarnation' = incarnation => lostRow = 2
<1>1. ServiceInv /\ [ServiceNext]_serviceVars => [Held]_serviceVars
  <2> SUFFICES ASSUME ServiceInv, ServiceNext, engine = "running", bound,
                      ~bound', incarnation' = incarnation
               PROVE  lostRow = 2
    BY DEF serviceVars, relayVars
  <2>1. incarnation + 1 # incarnation
    BY RelayAssumption DEF ServiceInv, ServiceTypeOK, Cookies
  <2>2. Tick
    BY <2>1 DEF ServiceNext, Start, StartFails, Receive, ReceiveTimeout, Round,
       Stop, Relay, RelayRegister, RelayRenew, RelayIgnore, RelayRestart,
       Lose, Reply, relayVars
  <2>3. ~Beating /\ waited < RecvTimeout /\ lease + 1 > Ttl
    <3>1. lease \in Int
      BY RelayAssumption DEF ServiceInv, ServiceTypeOK
    <3>2. lease' = lease + 1 /\ ~(lease' <= Ttl)
      BY <2>2, Zenon DEF Tick
    <3>3. ~Beating /\ waited < RecvTimeout
      BY <2>2 DEF Tick, Beating
    <3> QED
      BY <3>1, <3>2, <3>3, RelayAssumption
  <2>4. /\ elapsed \in 0..HbEvery /\ waited \in 0..RecvTimeout
        /\ lease \in 0..(Ttl + 1) /\ lostRow \in 0..2
    BY DEF ServiceInv, ServiceTypeOK
  <2>5. SinceLast + 1 <= Beat /\ SinceLast \in Int /\ Beat \in Nat
    BY <2>3, <2>4, RelayAssumption DEF SinceLast, Beat
  <2>6. /\ lostRow = 0 => lease <= SinceLast
        /\ lostRow = 1 => lease <= Beat + SinceLast
    BY <2>3 DEF ServiceInv, LeaseAge, Fresh
  <2>7. \A b, s, l, t \in Int : 2 * b <= t /\ s + 1 <= b /\ l + 1 > t /\ b >= 0
            => ~(l <= s) /\ ~(l <= b + s)
    OBVIOUS
  <2>8. lostRow \notin {0, 1}
    <3>1. lease \in Int /\ Ttl \in Int /\ Beat \in Int /\ Beat >= 0
      BY <2>4, <2>5, RelayAssumption
    <3> HIDE DEF Held
    <3> QED
      BY <3>1, <2>3, <2>5, <2>6, <2>7
  <2> QED
    BY <2>4, <2>8
<1>2. [][Held]_serviceVars => LeaseHeld
  BY DEF LeaseHeld
<1> QED
  BY <1>1, <1>2, ServiceInvariant, PTL DEF ServiceSpec

\* "Re-register if not yet registered": a service that is registered never
\* registers again, so once the relay has restarted, the port of a service
\* that was registered before stays unbound as long as the process lives.
THEOREM RestartUnbinds ==
    ServiceSpec => [](registered /\ cookie < incarnation => [](~bound))
<1> DEFINE Stale == registered /\ cookie < incarnation
<1>1. ServiceInv /\ Stale => ~bound
  <2>1. ServiceInv => cookie \in Int /\ (bound => cookie = incarnation)
    BY RelayAssumption
       DEF ServiceInv, ServiceTypeOK, OneCookie, Cookies, NoCookie
  <2> QED
    BY <2>1
<1>2. ServiceInv /\ Stale /\ [ServiceNext]_serviceVars => Stale'
  <2> SUFFICES ASSUME ServiceInv, Stale, [ServiceNext]_serviceVars
               PROVE  Stale'
    OBVIOUS
  <2>1. incarnation \in Nat /\ cookie \in Nat
    BY RelayAssumption DEF ServiceInv, ServiceTypeOK, Cookies, NoCookie
  <2>2. \A m : Round(m) /\ (m \in net \/ m = Silence)
            => UNCHANGED <<registered, cookie, incarnation>>
    <3> TAKE m
    <3> HAVE Round(m) /\ (m \in net \/ m = Silence)
    <3>1. m.type # "Challenge"
      BY DEF ServiceInv, OneCookie, Silence
    <3>2. registered \in BOOLEAN /\ registered
      BY DEF ServiceInv, ServiceTypeOK
    <3> QED
      BY <3>1, <3>2 DEF Round, HandleRelayPacket, relayVars
  <2>3. CASE ServiceNext
    <3>1. /\ registered' = registered /\ cookie' = cookie
          /\ incarnation' \in {incarnation, incarnation + 1}
      BY <2>2, <2>3 DEF ServiceNext, Start, StartFails, Receive,
         ReceiveTimeout, Stop, Relay, RelayRegister, RelayRenew, RelayIgnore,
         RelayRestart, Lose, Reply, Tick, relayVars, clientVars
    <3> QED
      BY <2>1, <3>1
  <2>4. CASE UNCHANGED serviceVars
    BY <2>4 DEF serviceVars, clientVars, relayVars
  <2> QED
    BY <2>3, <2>4
<1> QED
  BY <1>1, <1>2, ServiceInvariant, PTL DEF ServiceSpec

\* The relay does not have the port, and no Confirm is on its way to it.
PortLost == /\ registered /\ ~bound
            /\ \A m \in net : m.type # "Confirm"

\* The client takes itself for registered as soon as it has sent the Confirm:
\* a port whose Confirm was lost, or whose lease has run out, is never bound
\* again.
THEOREM LostPortStaysLost == ServiceSpec => [](PortLost => [](~bound))
<1>1. ServiceInv /\ PortLost /\ [ServiceNext]_serviceVars => PortLost'
  <2> SUFFICES ASSUME ServiceInv, PortLost, [ServiceNext]_serviceVars
               PROVE  PortLost'
    OBVIOUS
  <2> USE DEF PortLost
  <2>1. \A m : Round(m) /\ (m \in net \/ m = Silence)
            => /\ registered' /\ bound' = bound
               /\ \A n \in net' : n.type # "Confirm"
    <3> TAKE m
    <3> HAVE Round(m) /\ (m \in net \/ m = Silence)
    <3>1. m.type # "Challenge"
      BY DEF ServiceInv, OneCookie, Silence
    <3>2. Answer(m) = {}
      BY <3>1 DEF Answer
    <3>3. \A n \in net' : n \in net \/ n.type \in {"Heartbeat", "Register"}
      BY <3>2 DEF Round
    <3> QED
      BY <3>3 DEF Round, HandleRelayPacket, relayVars
  <2>2. CASE ReceiveTimeout \/ \E m \in net : Receive(m)
    BY <2>1, <2>2 DEF ReceiveTimeout, Receive
  <2>3. CASE Start \/ StartFails \/ Stop
    <3>1. ~Start
      BY DEF Start, ServiceInv, OneExchange
    <3> QED
      <4>1. registered' = registered /\ bound' = bound /\ net' = net
        BY <3>1, <2>3 DEF StartFails, Stop, clientVars, relayVars
      <4> QED
        BY <4>1, Zenon
  <2>4. CASE \E m \in net : Relay(m) \/ Lose(m)
    <3> PICK m \in net : Relay(m) \/ Lose(m)
      BY <2>4
    <3>1. m.type # "Register" /\ m.type # "Confirm"
      BY DEF ServiceInv, OneCookie
    <3>2. RelayIgnore(m) \/ Lose(m)
      BY <3>1 DEF Relay, RelayRegister, RelayRenew
    <3> QED
      <4>1. registered' = registered /\ bound' = bound /\ net' \subseteq net
        BY <3>2 DEF RelayIgnore, Lose, clientVars, relayVars
      <4> QED
        BY <4>1, Zenon
  <2>5. CASE RelayRestart \/ Tick
    BY <2>5 DEF RelayRestart, Tick, clientVars
  <2>6. CASE UNCHANGED serviceVars
    BY <2>6 DEF serviceVars, clientVars, relayVars
  <2> QED
    BY <2>2, <2>3, <2>4, <2>5, <2>6 DEF ServiceNext
<1>2. PortLost => ~bound
  BY DEF PortLost
<1> QED
  BY <1>1, <1>2, ServiceInvariant, PTL DEF ServiceSpec

-----------------------------------------------------------------------------
(* Sharding *)

\* The shards of epoch e are points of the one polynomial with coefficients r.
Dealt(e, r) ==
    \A i \in Holders(e) : held[i] = ShardSecret(secret, r, Total, e)[i]

\* The new shards under way are points of the polynomial of those installed.
Underway(r) ==
    \A i \in 1..Remaining :
        pending[i] # NoShard
          => pending[i] = ShardSecret(secret, r, Total, 2)[i]

\* A node that left has nothing, and during the resharding a node whose new
\* shard is not under way any more has it.
Replaced ==
    /\ stage # "enrolled"
         => \A i \in 1..Total : i > Remaining => held[i] = NoShard
    /\ stage = "resharding"
         => \A i \in 1..Remaining :
                pending[i] = NoShard => held[i].epoch = 2

\* The shards of each epoch are points of one polynomial with the secret, and
\* no node that stays is ever without a shard.
ShardInv ==
    /\ Replaced
    /\ secret \in Secrets
    /\ DOMAIN held = 1..Total /\ held = [i \in 1..Total |-> held[i]]
    /\ pending = [i \in 1..Remaining |-> pending[i]]
    /\ \A i \in 1..Total : held[i] = NoShard \/ held[i].epoch \in {1, 2}
    /\ \A i \in 1..Remaining : held[i] # NoShard
    /\ \E r \in Random : Dealt(1, r)
    /\ \E r \in Random : Dealt(2, r) /\ Underway(r)
    /\ stage \in {"enrolled", "left"} => Holders(2) = {} /\ pending = Nothing

\* What a node gets does not depend on the number of nodes.
LEMMA ShardFields ==
    ASSUME NEW s \in Secrets, NEW r \in Random, NEW n \in {Total, Remaining},
           NEW e \in {1, 2}, NEW i \in 1..n
    PROVE  /\ ShardSecret(s, r, n, e)[i] = ShardSecret(s, r, Total, e)[i]
           /\ ShardSecret(s, r, n, e)[i].epoch = e
           /\ ShardSecret(s, r, n, e)[i] # NoShard
<1>1. i \in 1..Total
  BY ShardingAssumption
<1>2. ShardSecret(s, r, n, e)[i] = ShardSecret(s, r, Total, e)[i]
  BY <1>1 DEF ShardSecret
<1>3. ShardSecret(s, r, Total, e)[i].epoch = e
  BY <1>1 DEF ShardSecret
<1> QED
  BY <1>1, <1>2, <1>3, NoShardAssumption

\* The enrolment deals one polynomial to all nodes.
LEMMA InitSharding == ShardingInit => ShardInv
<1> SUFFICES ASSUME ShardingInit PROVE ShardInv
  OBVIOUS
<1> PICK r \in Random : held = ShardSecret(secret, r, Total, 1)
  BY DEF ShardingInit
<1>1. secret \in Secrets /\ pending = Nothing
  BY DEF ShardingInit
<1>2. held = [i \in 1..Total |-> held[i]]
  BY DEF ShardSecret
<1>3. \A i \in 1..Total : held[i].epoch = 1 /\ held[i] # NoShard
  BY <1>1, ShardFields
<1>4. Holders(2) = {} /\ Dealt(1, r)
  BY <1>3 DEF Holders, Dealt
<1>5. Dealt(2, r) /\ Underway(r)
  BY <1>1, <1>4 DEF Dealt, Underway, Nothing
<1>6. \A i \in 1..Remaining : i \in 1..Total
  BY ShardingAssumption
<1>7. pending = [i \in 1..Remaining |-> pending[i]]
  BY <1>1 DEF Nothing
<1>8. Replaced
  BY DEF ShardingInit, Replaced
<1> QED
  BY <1>1, <1>2, <1>3, <1>4, <1>5, <1>6, <1>7, <1>8 DEF ShardInv

\* Nodes that leave take no part any more; the others keep their shards.
LEMMA LeaveSharding == ShardInv /\ Leave => ShardInv'
<1> SUFFICES ASSUME ShardInv, Leave PROVE ShardInv'
  OBVIOUS
<1> USE DEF ShardInv
<1>1. /\ held' = [i \in 1..Total |->
                     IF i > Remaining THEN NoShard ELSE held[i]]
      /\ secret' = secret /\ pending' = pending
      /\ stage = "enrolled"
  BY DEF Leave
<1>2. \A i \in 1..Total : held'[i] = NoShard \/ held'[i] = held[i]
  BY <1>1
<1>3. \A e : Holders(e)' \subseteq Holders(e)
  BY <1>2 DEF Holders
<1>4. \A e : \A i \in Holders(e)' : held'[i] = held[i]
  BY <1>2 DEF Holders
<1>5. \A r : /\ Dealt(1, r) => Dealt(1, r)'
             /\ Dealt(2, r) => Dealt(2, r)'
             /\ Underway(r) => Underway(r)'
  BY <1>1, <1>3, <1>4 DEF Dealt, Underway
<1>6. /\ \E r \in Random : Dealt(1, r)'
      /\ \E r \in Random : Dealt(2, r)' /\ Underway(r)'
  BY <1>5
<1>7. held' = [i \in 1..Total |-> held'[i]] /\ DOMAIN held' = 1..Total
  BY <1>1
<1>8. \A i \in 1..Remaining : i \in 1..Total /\ held'[i] = held[i]
  BY <1>1, ShardingAssumption
<1>9. Holders(2)' = {} /\ pending' = Nothing
  BY <1>1, <1>3
<1>10. Replaced'
  BY <1>1, ShardingAssumption DEF Leave, Replaced
<1> QED
  BY <1>1, <1>2, <1>6, <1>7, <1>8, <1>9, <1>10

\* The second sharing deals another polynomial with the same secret.
LEMMA ReshardSharding ==
    ASSUME ShardInv, NEW r \in Random, Reshard(r) PROVE ShardInv'
<1> USE DEF ShardInv
<1>1. /\ pending' = ShardSecret(secret, r, Remaining, 2)
      /\ secret' = secret /\ held' = held
      /\ stage = "left" /\ stage' = "resharding"
  BY DEF Reshard
<1>2. \A e : Holders(e)' = Holders(e)
  BY <1>1 DEF Holders
<1>3. Holders(2)' = {} /\ Dealt(2, r)'
  BY <1>1, <1>2 DEF Dealt
<1>4. \E q \in Random : Dealt(1, q)'
  BY <1>1, <1>2 DEF Dealt
<1>5. Underway(r)'
  BY <1>1, ShardFields DEF Underway
<1>6. pending' = [i \in 1..Remaining |-> pending'[i]]
  BY <1>1 DEF ShardSecret
<1>7. Replaced'
  <2>1. \A i \in 1..Remaining : pending'[i] # NoShard
    BY <1>1, ShardFields
  <2> QED
    BY <1>1, <2>1 DEF Replaced
<1> QED
  BY <1>1, <1>3, <1>4, <1>5, <1>6, <1>7

\* A node changes from a point of one polynomial to a point of the other.
LEMMA InstallSharding ==
    ASSUME ShardInv, NEW k \in 1..Remaining, Install(k) PROVE ShardInv'
<1> USE DEF ShardInv
<1>1. /\ secret' = secret /\ stage' = stage /\ stage = "resharding"
      /\ held' = [held EXCEPT ![k] = pending[k]]
      /\ pending' = [pending EXCEPT ![k] = NoShard]
      /\ pending[k] # NoShard
  BY DEF Install
<1>2. k \in 1..Total
  BY ShardingAssumption
<1>3. /\ held' = [i \in 1..Total |-> held'[i]] /\ DOMAIN held' = 1..Total
      /\ \A i \in 1..Total : held'[i] = IF i = k THEN pending[k] ELSE held[i]
  BY <1>1
<1>4. /\ pending' = [i \in 1..Remaining |-> pending'[i]]
      /\ \A i \in 1..Remaining :
             pending'[i] = IF i = k THEN NoShard ELSE pending[i]
  BY <1>1
<1> PICK q \in Random : Dealt(2, q) /\ Underway(q)
  OBVIOUS
<1> HIDE DEF ShardInv
<1>5. ShardInv
  OBVIOUS
<1>6. pending[k] = ShardSecret(secret, q, Total, 2)[k]
  BY <1>1 DEF Underway
<1>7. pending[k].epoch = 2
  BY <1>2, <1>5, <1>6, ShardFields DEF ShardInv
<1>8. \E r \in Random : Dealt(1, r)'
  <2> PICK r \in Random : Dealt(1, r)
    BY DEF ShardInv
  <2>1. \A i \in Holders(1)' : i \in Holders(1) /\ held'[i] = held[i]
    BY <1>3, <1>7 DEF Holders
  <2> QED
    BY <2>1, <1>1 DEF Dealt
<1>9. Dealt(2, q)'
  <2>1. \A i \in Holders(2)' :
            i = k \/ (i \in Holders(2) /\ held'[i] = held[i])
    BY <1>3 DEF Holders
  <2>2. held'[k] = ShardSecret(secret, q, Total, 2)[k]
    BY <1>2, <1>3, <1>6
  <2> QED
    BY <2>1, <2>2, <1>1 DEF Dealt
<1>10. Underway(q)'
  BY <1>1, <1>4 DEF Underway
<1>11. /\ \A i \in 1..Total : held'[i] = NoShard \/ held'[i].epoch \in {1, 2}
       /\ \A i \in 1..Remaining : held'[i] # NoShard
  <2>1. \A i \in 1..Remaining : i \in 1..Total
    BY ShardingAssumption
  <2> QED
    BY <2>1, <1>1, <1>3, <1>5, <1>7 DEF ShardInv
<1>12. Replaced'
  <2>1. \A i \in 1..Remaining : i \in 1..Total /\ ~(i > Remaining)
    BY ShardingAssumption
  <2> QED
    BY <2>1, <1>1, <1>3, <1>4, <1>5, <1>7 DEF ShardInv, Replaced
<1> QED
  BY <1>1, <1>3, <1>4, <1>5, <1>8, <1>9, <1>10, <1>11, <1>12 DEF ShardInv

\* Every step of the scripts keeps the invariant.
LEMMA StepSharding == ShardInv /\ [ShardingNext]_shardingVars => ShardInv'
<1> SUFFICES ASSUME ShardInv, [ShardingNext]_shardingVars PROVE ShardInv'
  OBVIOUS
<1>1. CASE UNCHANGED shardingVars
  BY <1>1 DEF shardingVars, ShardInv, Replaced, Dealt, Underway, Holders
<1>2. CASE ShardingNext
  BY <1>2, LeaveSharding, ReshardSharding, InstallSharding DEF ShardingNext
<1> QED
  BY <1>1, <1>2

\* The invariant holds in every state.
LEMMA ShardingInvariant == ShardingSpec => []ShardInv
  BY InitSharding, StepSharding, PTL DEF ShardingSpec

\* At any moment of a resharding any Threshold holders of one epoch
\* reconstruct the secret, or its remainder, for every prime, number of nodes
\* and choice of coefficients: shards of the two epochs are never mixed up,
\* and each epoch has one polynomial.  That one polynomial is reconstructed
\* from its own values, which is Lagrange's theorem, is the hypothesis.
THEOREM ThresholdSuffices ==
    Interpolates => (ShardingSpec => []ThresholdReconstructs)
<1> SUFFICES ASSUME Interpolates
             PROVE  ShardingSpec => []ThresholdReconstructs
  OBVIOUS
<1>1. ShardInv => ThresholdReconstructs
  <2> SUFFICES ASSUME ShardInv, NEW e \in {1, 2},
                      NEW S \in kSubset(Threshold, Holders(e))
               PROVE  ReconstructSecret(S, [x \in S |-> held[x].y])
                        = secret % Prime
    BY DEF ThresholdReconstructs
  <2> PICK r \in Random : Dealt(e, r)
    BY DEF ShardInv
  <2> DEFINE coeffs == [d \in 0..(Threshold - 1) |->
                           IF d = 0 THEN secret ELSE r[d]]
  <2>1. coeffs \in [0..(Threshold - 1) -> Secrets \cup Field]
    <3>1. \A d \in 0..(Threshold - 1) : d = 0 \/ d \in 1..(Threshold - 1)
      BY ShardingAssumption
    <3> QED
      BY <3>1 DEF ShardInv, Random
  <2>2. coeffs[0] = secret
    BY ShardingAssumption
  <2>3. S \in kSubset(Threshold, 1..Total) /\ S \subseteq Holders(e)
    BY DEF kSubset, Holders
  <2>4. \A x \in S : held[x].y = Polynomial(coeffs, x)
    <3> SUFFICES ASSUME NEW x \in S PROVE held[x].y = Polynomial(coeffs, x)
      OBVIOUS
    <3>1. x \in 1..Total
      BY <2>3 DEF kSubset
    <3>2. held[x] = ShardSecret(secret, r, Total, e)[x]
      BY <2>3 DEF Dealt
    <3>3. ShardSecret(secret, r, Total, e)[x]
            = [epoch |-> e, y |-> Polynomial(coeffs, x)]
      BY <3>1 DEF ShardSecret
    <3> HIDE DEF coeffs
    <3> QED
      BY <3>2, <3>3
  <2> HIDE DEF coeffs
  <2>5. [x \in S |-> held[x].y] = [x \in S |-> Polynomial(coeffs, x)]
    BY <2>4
  <2>6. ReconstructSecret(S, [x \in S |-> Polynomial(coeffs, x)])
          = coeffs[0] % Prime
    BY <2>1, <2>3 DEF Interpolates
  <2> QED
    BY <2>2, <2>5, <2>6
<1> QED
  BY <1>1, ShardingInvariant, PTL

\* When the last new shard is installed no shard of epoch 1 is left anywhere,
\* and every node that stayed holds one of epoch 2.
THEOREM OldSharesGone ==
    ShardingSpec => [](stage = "resharding" /\ pending = Nothing
                         => Holders(1) = {} /\ Holders(2) = 1..Remaining)
<1>1. ShardInv => (stage = "resharding" /\ pending = Nothing
                     => Holders(1) = {} /\ Holders(2) = 1..Remaining)
  <2> SUFFICES ASSUME ShardInv, stage = "resharding", pending = Nothing
               PROVE  Holders(1) = {} /\ Holders(2) = 1..Remaining
    OBVIOUS
  <2>1. \A i \in 1..Remaining :
            i \in 1..Total /\ held[i] # NoShard /\ held[i].epoch = 2
    <3>1. \A i \in 1..Remaining : i \in 1..Total
      BY ShardingAssumption
    <3>2. \A i \in 1..Remaining : pending[i] = NoShard
      BY DEF Nothing
    <3> QED
      BY <3>1, <3>2 DEF ShardInv, Replaced
  <2>2. \A i \in 1..Total : i \in 1..Remaining \/ held[i] = NoShard
    BY ShardingAssumption DEF ShardInv, Replaced
  <2> QED
    BY <2>1, <2>2 DEF Holders
<1> QED
  BY <1>1, ShardingInvariant, PTL
=============================================================================
