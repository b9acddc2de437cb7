----------------------------- MODULE SmtpClient -----------------------------
(***************************************************************************)
(* send_verification_email: one SMTP dialogue, command by command, over a  *)
(* TCP connection that STARTTLS may turn into a TLS one.  A reply is one   *)
(* or several lines, of which the last is marked; smtp_read_response       *)
(* collects what recv or SSL_read returns until it sees a marked line, and *)
(* drops whatever came after it.                                           *)
(*                                                                         *)
(* The mail server is external: it answers the commands it receives in     *)
(* order, in one to MaxLines lines that TCP delivers in any grouping, may  *)
(* refuse any of them, may give up at any time with an unasked-for 421 and *)
(* may fall silent.                                                        *)
(***************************************************************************)
EXTENDS Naturals, Sequences

CONSTANTS
    Configs,  \* settings the client may be run with: a set of records
    MaxLines  \* bound on the lines of a reply

\* configured: host and recipient are set;  starttls, user: cfg.starttls and
\* whether cfg.user is set;  offers: does the server offer STARTTLS (which is
\* not a setting of the client, but as fixed).
Config == [configured : BOOLEAN, starttls : BOOLEAN, user : BOOLEAN,
           offers : BOOLEAN]

ASSUME SmtpAssumption ==
    /\ Configs \subseteq Config
    /\ MaxLines \in Nat \ {0}

VARIABLES
    cfg,
    pc,        \* the command whose reply is next, or where the function is
    mode,      \* is the command still to be sent, or its reply to be read
    out,       \* lines of the reply collected so far
    tls,       \* is ssl set
    result,    \* what the function returned
    commands,  \* commands on their way to the server
    lines,     \* lines on their way to the client
    server,    \* is the server answering, silent, or gone
    accepted,  \* the server has taken responsibility for the message
    authPlain  \* (history) the credentials went out without TLS

vars == <<cfg, pc, mode, out, tls, result, commands, lines, server, accepted,
          authPlain>>
serverVars == <<server, accepted>>

Commands == {"greeting", "ehlo", "starttls", "ehlo2", "auth", "mail", "rcpt",
             "data", "body", "quit"}

\* The code the client expects.
Expected(c) ==
    CASE c \in {"greeting", "starttls"} -> 220
      [] c = "auth" -> 235
      [] c = "data" -> 354
      [] c = "quit" -> 221
      [] OTHER -> 250

Codes == {220, 221, 235, 250, 354, 421, 550}

\* starttls: the line names the extension.
Line == [code : Codes, final : BOOLEAN, starttls : BOOLEAN]

TypeOK ==
    /\ cfg \in Configs
    /\ pc \in Commands \cup {"connect", "handshake", "done"}
    /\ mode \in {"send", "read"}
    /\ out \in Seq(Line)
    /\ tls \in BOOLEAN
    /\ result \in {"none", "true", "false"}
    /\ commands \in Seq(Commands)
    /\ lines \in Seq(Line)
    /\ server \in {"up", "silent", "gone"}
    /\ accepted \in BOOLEAN
    /\ authPlain \in BOOLEAN

\* The server sees a connection as a command to greet.
Init ==
    /\ cfg \in Configs
    /\ pc = "connect"
    /\ mode = "send"
    /\ out = <<>>
    /\ tls = FALSE
    /\ result = "none"
    /\ commands = <<>>
    /\ lines = <<>>
    /\ server = "up"
    /\ accepted = FALSE
    /\ authPlain = FALSE

-----------------------------------------------------------------------------
(* The client *)

\* The label cleanup, and the early returns before it: TLS is shut down and
\* the socket closed.
Return(value) ==
    /\ pc' = "done"
    /\ result' = value
    /\ tls' = FALSE

\* Not configured, not resolved, not connected; or connected, and the
\* greeting is awaited.
Connect(up) ==
    /\ pc = "connect"
    /\ \/ /\ cfg.configured /\ up
          /\ pc' = "greeting" /\ mode' = "read"
          /\ commands' = <<"greeting">>
          /\ UNCHANGED <<result, tls>>
       \/ /\ ~(cfg.configured /\ up)
          /\ Return("false")
          /\ UNCHANGED <<mode, commands>>
    /\ UNCHANGED <<cfg, out, lines, serverVars, authPlain>>

\* smtp_send: send may fail, and may send only a part, which counts as a
\* success and leaves the server waiting for the rest.  SSL_write sends all
\* or fails.  Nobody looks at whether QUIT was sent.
SendCommand(outcome) ==
    /\ pc \in Commands
    /\ mode = "send"
    /\ outcome = "part" => ~tls
    /\ authPlain' = (authPlain \/ (pc = "auth" /\ ~tls /\ outcome = "all"))
    /\ commands' = IF outcome = "all" THEN Append(commands, pc) ELSE commands
    /\ out' = <<>>
    /\ \/ /\ outcome # "fail" \/ pc = "quit"
          /\ mode' = "read"
          /\ UNCHANGED <<pc, result, tls>>
       \/ /\ outcome = "fail" /\ pc # "quit"
          /\ Return("false")
          /\ UNCHANGED mode
    /\ UNCHANGED <<cfg, lines, serverVars>>

\* AUTH is left out without a user name.
Authenticate == IF cfg.user THEN "auth" ELSE "mail"

\* resp.find("STARTTLS") in the whole reply.
Advertised(reply) == \E i \in DOMAIN reply : reply[i].starttls

\* The command after c, whose reply was as expected.
Following(c, reply) ==
    CASE c = "greeting" -> "ehlo"
      [] c = "ehlo" -> IF cfg.starttls /\ Advertised(reply)
                         THEN "starttls" ELSE Authenticate
      [] c = "starttls" -> "handshake"
      [] c = "ehlo2" -> Authenticate
      [] c = "auth" -> "mail"
      [] c = "mail" -> "rcpt"
      [] c = "rcpt" -> "data"
      [] c = "data" -> "body"
      [] c = "body" -> "quit"

\* A bug: the reply to the message is not looked at.
GoesOnUnread(c, code) == code = Expected(c) \/ c = "body"

GoesOn(c, code) == code = Expected(c)

\* What the caller does with a complete reply, or with code -1.
Replied(code, reply) ==
    \/ /\ pc = "quit"
       /\ Return("true")
       /\ UNCHANGED mode
    \/ /\ pc # "quit" /\ GoesOn(pc, code)
       /\ pc' = Following(pc, reply)
       /\ mode' = "send"
       /\ UNCHANGED <<result, tls>>
    \/ /\ pc # "quit" /\ ~GoesOn(pc, code)
       /\ Return("false")
       /\ UNCHANGED mode

\* A bug: each recv overwrites what was read before.
CollectedLast(k) == SubSeq(lines, 1, k)

Collected(k) == out \o SubSeq(lines, 1, k)

Finals(reply) == {i \in DOMAIN reply : reply[i].final}

\* One recv or SSL_read of k lines.  The code is that of the first final line.
ReadResponse(k) ==
    /\ pc \in Commands
    /\ mode = "read"
    /\ k \in 1..Len(lines)
    /\ out' = Collected(k)
    /\ lines' = SubSeq(lines, k + 1, Len(lines))
    /\ \/ /\ Finals(out') = {}
          /\ UNCHANGED <<pc, mode, result, tls>>
       \/ \E i \in Finals(out') :
            /\ \A j \in Finals(out') : i <= j
            /\ Replied(out'[i].code, out')
    /\ UNCHANGED <<cfg, commands, serverVars, authPlain>>

\* A bug: the timeout is not set; recv only returns when the server is gone.
NothingToReadBlocking == lines = <<>> /\ server = "gone"

\* Nothing came for 10 seconds, or the connection is at its end.
NothingToRead == lines = <<>>

ReadFails ==
    /\ pc \in Commands
    /\ mode = "read"
    /\ NothingToRead
    /\ Replied(0, out)
    /\ UNCHANGED <<cfg, out, commands, lines, serverVars, authPlain>>

\* SSL_connect, which fails on anything but a handshake.
Handshake(ok) ==
    /\ pc = "handshake"
    /\ \/ /\ ok /\ server = "up" /\ lines = <<>>
          /\ tls' = TRUE
          /\ pc' = "ehlo2"
          /\ UNCHANGED result
       \/ ~ok /\ Return("false")
    /\ UNCHANGED <<cfg, mode, out, commands, lines, serverVars, authPlain>>

-----------------------------------------------------------------------------
(* The mail server *)

\* The n lines of a reply; EHLO names the extension in the j-th of them.
Reply(code, n, j) ==
    [i \in 1..n |-> [code |-> code, final |-> i = n, starttls |-> i = j]]

Answer(ok, n, j) ==
    /\ server = "up"
    /\ commands # <<>>
    /\ j > 0 <=> Head(commands) = "ehlo" /\ cfg.offers /\ ok
    /\ j <= n
    /\ LET c == Head(commands)
       IN  /\ lines' = lines \o Reply(IF ok THEN Expected(c) ELSE 550, n, j)
           /\ accepted' = (accepted \/ (c = "body" /\ ok))
    /\ commands' = Tail(commands)
    /\ UNCHANGED <<cfg, pc, mode, out, tls, result, server, authPlain>>

\* The server closes the connection with a 421, or stops answering.
GiveUp(how) ==
    /\ server = "up"
    /\ server' = how
    /\ lines' = IF how = "gone" THEN lines \o Reply(421, 1, 0) ELSE lines
    /\ UNCHANGED <<cfg, pc, mode, out, tls, result, commands, accepted,
                   authPlain>>

-----------------------------------------------------------------------------
Client ==
    \/ \E up \in BOOLEAN : Connect(up)
    \/ \E outcome \in {"all", "part", "fail"} : SendCommand(outcome)
    \/ \E k \in 1..(MaxLines + 1) : ReadResponse(k)
    \/ ReadFails
    \/ \E ok \in BOOLEAN : Handshake(ok)

MailServer ==
    \/ \E ok \in BOOLEAN, n \in 1..MaxLines, j \in 0..MaxLines : Answer(ok, n, j)
    \/ \E how \in {"silent", "gone"} : GiveUp(how)

Next == Client \/ MailServer

Spec == Init /\ [][Next]_vars

\* The function runs; the server need not do anything.
FairSpec == Spec /\ WF_vars(Client)

-----------------------------------------------------------------------------
(* Properties *)

\* "Returns true on 250 acceptance, false on any error": TRUE is returned only
\* when the server has accepted the message, whatever it answers to the other
\* commands, wherever it gives up, and however its replies are cut into
\* segments and joined.
TrueMeansAccepted == result = "true" => accepted

\* With STARTTLS configured and offered, the credentials are not written to
\* the plain connection, however the reply to EHLO is cut into segments.
AuthUnderTls == cfg.starttls /\ cfg.offers => ~authPlain

\* The dialogue ends, so that main goes on to its shutdown, also when the
\* server falls silent or got only a part of a command.
DialogueEnds == <>(pc = "done")
=============================================================================
