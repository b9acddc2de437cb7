------------------------------ MODULE Forwarder ------------------------------
(***************************************************************************)
(* A connection of SMTPForwarder: handle_client reads a proof header and a *)
(* ciphertext, verify_proof checks them, and forward_to_smtp sends the     *)
(* ciphertext to the mail server and relays between the two ends until one *)
(* of them closes.  What its send() calls return is not looked at.         *)
(* Connections have a thread each and share nothing they change, so one    *)
(* connection is modelled.                                                 *)
(*                                                                         *)
(* The client's stream is a header followed by ciphertext; lengths are in  *)
(* units of which the header has one and which TCP delivers in any         *)
(* grouping.  The client and the mail server are external.                 *)
(***************************************************************************)
EXTENDS Naturals

CONSTANTS
    Full,      \* the 4096 bytes handle_client waits for
    Requests,  \* what a client may present: a set of records of Request
    MaxReplies \* bound on the replies of the mail server

\* len: units of ciphertext sent;  signed: units the signature is computed
\* over;  waits: does the client keep its side open for the answer;
\* delimiter: is the header terminated;  circuit: is the circuit hash the
\* expected one;  signature, commitments: missing, valid or not.
Request ==
    [len : Nat, signed : Nat, waits : BOOLEAN, delimiter : BOOLEAN,
     circuit : BOOLEAN,
     signature : {"missing", "good", "bad"},
     commitments : {"missing", "good", "bad"}]

ASSUME ForwarderAssumption ==
    /\ Full \in Nat \ {0}
    /\ Requests \subseteq Request
    /\ MaxReplies \in Nat \ {0}

VARIABLES
    pc,      \* where handle_client is
    req,     \* the client's request
    sent,    \* units the client has written
    eof,     \* the client has shut down its side
    read,    \* units the forwarder has read
    smtp,    \* units that went out to the mail server
    replies, \* replies the mail server has written
    heard,   \* replies the forwarder has read
    answers, \* replies that went out to the client
    smtpEof, \* the mail server has closed
    lost,    \* (history) to whom a send() wrote less than it was given
    end      \* (history) why the connection was closed

clientSide == <<req, sent, eof>>
serverSide == <<replies, smtpEof>>
vars == <<pc, clientSide, read, smtp, heard, answers, serverSide, lost, end>>

TypeOK ==
    /\ pc \in {"header", "ciphertext", "verify", "connect", "relay", "closed"}
    /\ req \in Requests
    /\ sent \in 0..(1 + req.len)
    /\ eof \in BOOLEAN
    /\ read \in 0..sent
    /\ smtp \in 0..read
    /\ replies \in 0..MaxReplies
    /\ heard \in 0..replies
    /\ answers \in 0..heard
    /\ smtpEof \in BOOLEAN
    /\ lost \in SUBSET {"smtp", "client"}
    /\ end \in {"open", "noHeader", "unverified", "refused", "client",
                "server", "timeout", "killed"}

Init ==
    /\ pc = "header"
    /\ req \in Requests
    /\ sent = 0 /\ eof = FALSE /\ read = 0
    /\ smtp = 0 /\ replies = 0 /\ heard = 0 /\ answers = 0
    /\ smtpEof = FALSE
    /\ lost = {} /\ end = "open"

-----------------------------------------------------------------------------
(* The client and the mail server *)

ClientSend ==
    /\ ~eof
    /\ sent < 1 + req.len
    /\ sent' = sent + 1
    /\ UNCHANGED <<pc, req, eof, read, smtp, heard, answers, serverSide, lost,
                   end>>

\* The client has sent its request and shuts down its side: it goes on
\* reading, but says that nothing follows.
ClientShutdown ==
    /\ ~eof /\ ~req.waits
    /\ sent = 1 + req.len
    /\ eof' = TRUE
    /\ UNCHANGED <<pc, req, sent, read, smtp, heard, answers, serverSide, lost,
                   end>>

\* The mail server greets, and answers what it is sent.
SmtpReply ==
    /\ pc = "relay"
    /\ ~smtpEof
    /\ replies < MaxReplies
    /\ replies' = replies + 1
    /\ UNCHANGED <<pc, clientSide, read, smtp, heard, answers, smtpEof, lost,
                   end>>

SmtpClose ==
    /\ pc = "relay"
    /\ replies > 0
    /\ ~smtpEof
    /\ smtpEof' = TRUE
    /\ UNCHANGED <<pc, clientSide, read, smtp, heard, answers, replies, lost,
                   end>>

-----------------------------------------------------------------------------
(* handle_client *)

Close(why) == pc' = "closed" /\ end' = why

\* recv returned k units, or 0 at the end of the stream.
Recv(k) ==
    /\ k \in 1..(sent - read) \/ (k = 0 /\ eof /\ read = sent)
    /\ read' = read + k

\* Reading up to the blank line; there is no receive timeout.  The buffer is
\* larger than the units of any request.
ReadHeader(k) ==
    /\ pc = "header"
    /\ Recv(k)
    /\ \/ k > 0 /\ req.delimiter /\ pc' = "ciphertext" /\ UNCHANGED end
       \/ k > 0 /\ ~req.delimiter /\ UNCHANGED <<pc, end>>
       \/ k = 0 /\ Close("noHeader")
    /\ UNCHANGED <<clientSide, smtp, heard, answers, serverSide, lost>>

Ct == read - 1

\* The loop is left when enough has been read: at once if it came with the
\* header, and otherwise after more data or the end of the stream.
ReadCiphertext(k) ==
    /\ pc = "ciphertext"
    /\ \/ Ct >= Full /\ k = 0 /\ pc' = "verify" /\ UNCHANGED read
       \/ Ct < Full /\ Recv(k) /\ pc' = IF k = 0 THEN "verify" ELSE pc
    /\ UNCHANGED <<clientSide, smtp, heard, answers, serverSide, lost, end>>

\* A bug: the commitments are enough.
VerifyCommitmentsOnly(ct) == req.circuit /\ req.commitments = "good"

\* verify_proof over the ct units that were read.  The signature covers them
\* all; it does not match when fewer or more were read than were signed.
VerifyProof(ct) ==
    /\ req.circuit
    /\ req.signature # "missing" /\ req.commitments # "missing"
    /\ req.signature = "good" /\ req.signed = ct
    /\ req.commitments = "good"

Verify ==
    /\ pc = "verify"
    /\ \/ VerifyProof(Ct) /\ pc' = "connect" /\ UNCHANGED end
       \/ ~VerifyProof(Ct) /\ Close("unverified")
    /\ UNCHANGED <<clientSide, read, smtp, heard, answers, serverSide, lost>>

\* send() is given n units for one end and writes w of them: all of them, or
\* fewer when it is interrupted or the connection breaks.
Writes(n, w, to) == w \in 0..n /\ (to = "smtp" /\ smtpEof => w = 0)

Shortfall(n, w, to) == IF w < n THEN {to} ELSE {}

\* Resolving or connecting fails, or the ciphertext is sent.
Connect(up, w) ==
    /\ pc = "connect"
    /\ \/ /\ up
          /\ pc' = "relay"
          /\ Writes(Ct, w, "smtp")
          /\ smtp' = w
          /\ lost' = lost \cup Shortfall(Ct, w, "smtp")
          /\ UNCHANGED end
       \/ ~up /\ w = 0 /\ Close("refused") /\ UNCHANGED <<smtp, lost>>
    /\ UNCHANGED <<clientSide, read, heard, answers, serverSide>>

ClientReady == sent > read \/ eof
SmtpReady == replies > heard \/ smtpEof

\* recv returned r replies of the mail server, or 0 when it has closed.
RecvReplies(r) ==
    \/ r \in 1..(replies - heard)
    \/ r = 0 /\ heard = replies

\* A bug: the round ends after the client was served, and a client with
\* nothing to say is waited for.
RelayRoundClientOnly(k, w, r, a) ==
    /\ pc = "relay"
    /\ ClientReady
    /\ Recv(k)
    /\ Writes(k, w, "smtp") /\ r = 0 /\ a = 0
    /\ smtp' = smtp + w
    /\ lost' = lost \cup Shortfall(k, w, "smtp")
    /\ \/ k = 0 /\ Close("client")
       \/ k > 0 /\ UNCHANGED <<pc, end>>
    /\ UNCHANGED <<clientSide, heard, answers, serverSide>>

\* A bug: a round that relays an answer does not relay the request.
RelayRoundOneWay(k, w, r, a) ==
    /\ pc = "relay"
    /\ ClientReady \/ SmtpReady
    /\ IF ClientReady THEN Recv(k) ELSE k = 0 /\ UNCHANGED read
    /\ IF SmtpReady THEN RecvReplies(r) /\ w = 0 ELSE r = 0 /\ w = k
    /\ a = r
    /\ smtp' = smtp + w /\ heard' = heard + r /\ answers' = answers + a
    /\ \/ ClientReady /\ k = 0 /\ Close("client")
       \/ ~(ClientReady /\ k = 0) /\ SmtpReady /\ r = 0 /\ Close("server")
       \/ /\ ~(ClientReady /\ k = 0) /\ ~(SmtpReady /\ r = 0)
          /\ UNCHANGED <<pc, end>>
    /\ UNCHANGED <<clientSide, serverSide, lost>>

\* A round of the select loop: k units read from the client and w of them
\* written, r replies read and a of them written.  The client is served first,
\* and the end of its stream ends the loop even if the mail server has
\* something to say.
RelayRound(k, w, r, a) ==
    LET clientEnd == ClientReady /\ k = 0
        smtpEnd == ~clientEnd /\ SmtpReady /\ r = 0
    IN  /\ pc = "relay"
        /\ ClientReady \/ SmtpReady
        /\ IF ClientReady THEN Recv(k) ELSE k = 0 /\ UNCHANGED read
        /\ IF ~clientEnd /\ SmtpReady THEN RecvReplies(r) ELSE r = 0
        /\ Writes(k, w, "smtp") /\ Writes(r, a, "client")
        /\ smtp' = smtp + w /\ heard' = heard + r /\ answers' = answers + a
        /\ lost' = lost \cup Shortfall(k, w, "smtp")
                        \cup Shortfall(r, a, "client")
        /\ \/ clientEnd /\ Close("client")
           \/ smtpEnd /\ Close("server")
           \/ ~clientEnd /\ ~smtpEnd /\ UNCHANGED <<pc, end>>
        /\ UNCHANGED <<clientSide, serverSide>>

\* The client's data is written to a mail server that has closed and to which
\* a write was lost before: send() raises SIGPIPE, which nothing handles or
\* blocks, and the process is gone.
BrokenPipe(k) ==
    /\ pc = "relay"
    /\ smtpEof /\ "smtp" \in lost
    /\ k > 0 /\ Recv(k)
    /\ Close("killed")
    /\ UNCHANGED <<clientSide, smtp, heard, answers, serverSide, lost>>

\* Nothing is ready for 30 seconds.
SelectTimeout ==
    /\ pc = "relay"
    /\ ~ClientReady /\ ~SmtpReady
    /\ Close("timeout")
    /\ UNCHANGED <<clientSide, read, smtp, heard, answers, serverSide, lost>>

-----------------------------------------------------------------------------
Units == 0..(1 + req.len)
Replies == 0..MaxReplies

Handler ==
    \/ \E k \in Units : ReadHeader(k) \/ ReadCiphertext(k) \/ BrokenPipe(k)
    \/ Verify
    \/ \E up \in BOOLEAN, w \in Units : Connect(up, w)
    \/ \E k, w \in Units, r, a \in Replies : RelayRound(k, w, r, a)
    \/ SelectTimeout

Next == ClientSend \/ ClientShutdown \/ SmtpReply \/ SmtpClose \/ Handler

Spec == Init /\ [][Next]_vars

\* The handler's thread runs and the client writes its request and, unless it
\* waits for the answer, shuts down.  The mail server need not do anything.
FairSpec == Spec /\ WF_vars(Handler) /\ WF_vars(ClientSend \/ ClientShutdown)

-----------------------------------------------------------------------------
(* Properties *)

\* "If all pass --> proxy to SMTP server; if any fail --> drop connection":
\* nothing is written to the mail server unless the signature, which covers
\* the ciphertext that was read, and the commitments are those of the
\* cluster, however TCP groups the stream.
OnlyVerifiedForwarded ==
    smtp > 0 => /\ req.circuit
                /\ req.signature = "good" /\ req.commitments = "good"
                /\ req.signed <= Ct

\* However the relay ends, neither end has written anything that the other is
\* not given: all that was read went out unless a send() wrote less, and the
\* loop ends for the client only after its last byte, for the mail server and
\* the timeout only after the last reply.
RelayIsComplete ==
    end \in {"client", "server", "timeout"} =>
        /\ "smtp" \notin lost => smtp = Ct
        /\ "client" \notin lost => answers = heard
        /\ IF end = "client" THEN read = 1 + req.len ELSE heard = replies

\* A request whose proof is valid and whose ciphertext is exactly what
\* handle_client waits for, from a client that keeps its side open.
FullRequest ==
    /\ req.delimiter /\ req.circuit /\ req.signed = req.len
    /\ req.signature = "good" /\ req.commitments = "good"
    /\ req.len = Full /\ req.waits

\* Such a request gets the mail server's answer, however TCP groups it, unless
\* the mail server cannot be reached, is silent for 30 seconds or closes, or
\* a send() wrote less than it was given.
\* (A shorter ciphertext is waited on, a longer one may be verified in part,
\* and a client that shuts down its side ends the relay before the answer.)
AnswerReachesClient ==
    FullRequest ~> \/ answers > 0
                   \/ end \in {"refused", "timeout", "server"}
                   \/ lost # {}
=============================================================================
