-------------------------- MODULE SmtpClientProofs --------------------------
(***************************************************************************)
(* Proofs about SmtpClient, for every configuration and replies of any     *)
(* number of lines, cut into segments and joined in any way.               *)
(***************************************************************************)
EXTENDS SmtpClient, TLAPS

(* Lines and sequences of lines *)

\* A reply has n lines of one code; the last is marked, the j-th names the
\* extension.
LEMMA ReplyFacts ==
    ASSUME NEW code \in Codes, NEW n \in Nat \ {0}, NEW j \in Nat
    PROVE  LET r == Reply(code, n, j)
           IN  /\ r \in Seq(Line) /\ Len(r) = n
               /\ \A i \in 1..n : /\ r[i].code = code
                                  /\ r[i].final <=> i = n
                                  /\ r[i].starttls <=> i = j
<1> DEFINE r == Reply(code, n, j)
<1>1. ASSUME NEW i \in 1..n
      PROVE  /\ r[i] \in Line /\ r[i].code = code
             /\ r[i].final <=> i = n
             /\ r[i].starttls <=> i = j
  <2>1. ASSUME NEW f \in BOOLEAN, NEW s \in BOOLEAN
        PROVE  LET l == [code |-> code, final |-> f, starttls |-> s]
               IN  /\ l \in Line /\ l.code = code
                   /\ l.final = f /\ l.starttls = s
    BY DEF Line
  <2> DEFINE f == i = n
             s == i = j
  <2>2. /\ r[i] = [code |-> code, final |-> f, starttls |-> s]
        /\ f \in BOOLEAN /\ s \in BOOLEAN
    BY DEF Reply
  <2> HIDE DEF f, s, r
  <2>3. /\ r[i] \in Line /\ r[i].code = code
        /\ r[i].final = f /\ r[i].starttls = s
    BY <2>1, <2>2
  <2>4. (r[i].final <=> i = n) /\ (r[i].starttls <=> i = j)
    BY <2>3 DEF f, s
  <2> QED
    BY <2>3, <2>4
<1>2. r \in [1..n -> Line]
  BY <1>1 DEF Reply
<1>3. r \in Seq(Line) /\ Len(r) = n
  BY <1>2
<1> QED
  BY <1>1, <1>3

\* What joining two sequences does.
LEMMA JoinFacts ==
    ASSUME NEW o \in Seq(Line), NEW s \in Seq(Line)
    PROVE  /\ o \o s \in Seq(Line) /\ Len(o \o s) = Len(o) + Len(s)
           /\ \A i \in 1..Len(o) : (o \o s)[i] = o[i]
           /\ \A i \in 1..Len(s) : (o \o s)[Len(o) + i] = s[i]
  OBVIOUS

\* The reply of a server that closes the connection.
LEMMA LastReply ==
    \E r \in Seq(Line) : /\ r = Reply(421, 1, 0) /\ Len(r) = 1
                         /\ r[1].code = 421 /\ r[1].final
<1>1. PICK code \in Codes, n \in Nat \ {0}, j \in Nat :
         code = 421 /\ n = 1 /\ j = 0
  BY DEF Codes
<1> DEFINE r == Reply(code, n, j)
<1>2. /\ r \in Seq(Line) /\ Len(r) = n
      /\ \A i \in 1..n : /\ r[i].code = code
                         /\ r[i].final <=> i = n
                         /\ r[i].starttls <=> i = j
  BY ReplyFacts
<1>3. r = Reply(421, 1, 0)
  BY <1>1
<1> HIDE DEF r
<1>4. r[n].code = code /\ r[n].final
  BY <1>2
<1> QED
  BY <1>1, <1>2, <1>3, <1>4

\* What joining a sequence of one line does.
LEMMA AppendFacts ==
    ASSUME NEW o \in Seq(Line), NEW s \in Seq(Line), Len(s) = 1
    PROVE  /\ o \o s \in Seq(Line) /\ Len(o \o s) = Len(o) + 1
           /\ \A i \in 1..Len(o) : (o \o s)[i] = o[i]
           /\ (o \o s)[Len(o) + 1] = s[1]
<1> DEFINE w == o \o s
<1>1. /\ w \in Seq(Line) /\ Len(w) = Len(o) + Len(s)
      /\ \A i \in 1..Len(o) : w[i] = o[i]
      /\ \A i \in 1..Len(s) : w[Len(o) + i] = s[i]
  BY JoinFacts
<1> HIDE DEF w
<1>2. w[Len(o) + 1] = s[1]
  BY <1>1
<1>3. /\ w \in Seq(Line) /\ Len(w) = Len(o) + 1
      /\ \A i \in 1..Len(o) : w[i] = o[i]
  BY <1>1
<1> QED
  BY <1>2, <1>3 DEF w

\* What a read of k lines does to the lines collected and to those left.
LEMMA CutFacts ==
    ASSUME NEW o \in Seq(Line), NEW s \in Seq(Line), NEW k \in 1..Len(s)
    PROVE  LET c == o \o SubSeq(s, 1, k)
               r == SubSeq(s, k + 1, Len(s))
           IN  /\ c \in Seq(Line) /\ Len(c) = Len(o) + k
               /\ \A i \in 1..Len(o) : c[i] = o[i]
               /\ \A i \in 1..k : c[Len(o) + i] = s[i]
               /\ r \in Seq(Line) /\ Len(r) = Len(s) - k
               /\ \A i \in 1..Len(r) : r[i] = s[i + k] /\ i + k \in 1..Len(s)
<1>1. /\ Len(s) \in Nat /\ k \in Nat /\ 1 <= k /\ k <= Len(s)
      /\ Len(o) \in Nat
  OBVIOUS
<1>2. /\ SubSeq(s, 1, k) \in Seq(Line) /\ Len(SubSeq(s, 1, k)) = k
      /\ \A i \in 1..k : SubSeq(s, 1, k)[i] = s[i]
  BY <1>1
<1>3. /\ SubSeq(s, k + 1, Len(s)) \in Seq(Line)
      /\ Len(SubSeq(s, k + 1, Len(s))) = Len(s) - k
      /\ \A i \in 1..(Len(s) - k) : SubSeq(s, k + 1, Len(s))[i] = s[i + k]
  BY <1>1
<1> DEFINE a == SubSeq(s, 1, k)
           c == o \o a
<1>4. /\ c \in Seq(Line) /\ Len(c) = Len(o) + Len(a)
      /\ \A i \in 1..Len(o) : c[i] = o[i]
      /\ \A i \in 1..Len(a) : c[Len(o) + i] = a[i]
  BY <1>2, JoinFacts
<1>5. /\ Len(c) = Len(o) + k
      /\ \A i \in 1..k : c[Len(o) + i] = s[i]
  <2> HIDE DEF c, a
  <2> QED
    BY <1>2, <1>4 DEF a
<1> DEFINE r == SubSeq(s, k + 1, Len(s))
<1>6. \A i \in 1..Len(r) : r[i] = s[i + k] /\ i + k \in 1..Len(s)
  <2>1. /\ Len(r) = Len(s) - k
        /\ \A i \in 1..(Len(s) - k) : r[i] = s[i + k]
    BY <1>3
  <2> HIDE DEF r
  <2> QED
    BY <1>1, <2>1
<1> QED
  BY <1>3, <1>4, <1>5, <1>6

\* The code of every command is one of Codes, none of those that refuse.
LEMMA ExpectedFacts ==
    ASSUME NEW c \in Commands
    PROVE  /\ Expected(c) \in Codes /\ Expected(c) \notin {0, 421, 550}
           /\ c \in {"ehlo", "body"} => Expected(c) = 250
  BY DEF Commands, Expected, Codes

-----------------------------------------------------------------------------
(* The inductive invariant *)

\* Every line has that code, or none.
All421(s) == \A i \in 1..Len(s) : s[i].code = 421
No421(s) == \A i \in 1..Len(s) : s[i].code # 421

\* The client and the server are in step: one command at most is on its way,
\* and until it is answered there is nothing to read but the 421 of a server
\* that is gone; when the next command is to be sent, likewise.  Of a reply
\* nothing but such a 421 follows the marked line, and what was collected so
\* far has no marked line.
Dialogue ==
    pc # "done" =>
      /\ \/ commands = <<>>
         \/ commands = <<pc>> /\ mode = "read" /\ out = <<>> /\ All421(lines)
      /\ mode = "send" => All421(lines)
      /\ mode = "read" => pc \in Commands /\ Finals(out) = {}
      /\ pc = "connect" => mode = "send" /\ out = <<>> /\ commands = <<>>
      /\ pc = "handshake" => mode = "send"
      /\ server = "up" => No421(lines)
      /\ \A i, j \in 1..Len(lines) :
            i < j /\ lines[i].final => lines[j].code = 421
      /\ \A i \in 1..Len(lines) : lines[i].code = 421 => lines[i].final

\* A 250 to the message means that it was accepted.
Accepting ==
    /\ pc = "body" /\ mode = "read" =>
          \A i \in 1..Len(lines) : lines[i].code = 250 => accepted
    /\ pc = "quit" => accepted
    /\ TrueMeansAccepted

\* A server that offers STARTTLS has named it when the reply to EHLO ends.
Advertising ==
    pc = "ehlo" /\ mode = "read" /\ cfg.offers =>
       \A i \in 1..Len(lines) :
          lines[i].final /\ lines[i].code = 250 =>
             Advertised(out) \/ \E j \in 1..i : lines[j].starttls

\* The dialogue goes on under TLS.
Secured ==
    cfg.starttls /\ cfg.offers =>
        /\ pc \in {"ehlo2", "auth", "mail", "rcpt", "data", "body", "quit"}
             => tls
        /\ ~authPlain

SmtpInv == TypeOK /\ Dialogue /\ Accepting /\ Advertising /\ Secured

\* Before the connection.
LEMMA InitSmtp == Init => SmtpInv
<1> SUFFICES ASSUME Init PROVE SmtpInv
  OBVIOUS
<1>1. tls \in BOOLEAN /\ accepted \in BOOLEAN /\ authPlain \in BOOLEAN
  BY DEF Init
<1>2. TypeOK
  BY <1>1 DEF Init, TypeOK
<1>3. Dialogue
  BY DEF Init, Dialogue, All421, No421
<1>4. Accepting /\ Advertising /\ Secured
  BY DEF Init, Accepting, Advertising, Secured, TrueMeansAccepted
<1> QED
  BY <1>2, <1>3, <1>4 DEF SmtpInv

\* A step that returns from the function.
LEMMA ReturnStep ==
    ASSUME SmtpInv, TypeOK', pc' = "done", result' = "true" => accepted,
           UNCHANGED <<cfg, accepted, authPlain>>
    PROVE  SmtpInv'
  BY DEF SmtpInv, Dialogue, Accepting, Advertising, Secured, TrueMeansAccepted,
         Commands

\* Connecting.
LEMMA ConnectStep ==
    ASSUME SmtpInv, NEW up \in BOOLEAN, Connect(up) PROVE SmtpInv'
<1>a. TypeOK /\ Dialogue /\ Accepting /\ Advertising /\ Secured
  BY DEF SmtpInv
<1>b. /\ pc = "connect" /\ UNCHANGED <<cfg, out, lines, server, accepted,
                                       authPlain>>
  BY DEF Connect, serverVars
<1>1. CASE cfg.configured /\ up
  <2>1. /\ pc' = "greeting" /\ mode' = "read" /\ commands' = <<"greeting">>
        /\ UNCHANGED <<result, tls>>
    BY <1>1 DEF Connect
  <2>2. TypeOK'
    BY <1>a, <1>b, <2>1 DEF TypeOK, Commands
  <2>3. Dialogue'
    BY <1>a, <1>b, <2>1 DEF Dialogue, All421, No421, Finals, Commands
  <2> QED
    BY <1>a, <1>b, <2>1, <2>2, <2>3
    DEF SmtpInv, Accepting, Advertising, Secured, TrueMeansAccepted
<1>2. CASE ~(cfg.configured /\ up)
  <2>1. /\ pc' = "done" /\ result' = "false"
        /\ UNCHANGED <<mode, commands>>
    BY <1>2 DEF Connect, Return
  <2>2. tls' \in BOOLEAN
    BY <1>2 DEF Connect, Return
  <2>3. TypeOK'
    BY <1>a, <1>b, <2>1, <2>2 DEF TypeOK
  <2> QED
    BY <1>b, <2>1, <2>3, ReturnStep
<1> QED
  BY <1>1, <1>2

\* Sending a command, or a part of it, or failing to.
LEMMA SendStep ==
    ASSUME SmtpInv, NEW outcome \in {"all", "part", "fail"},
           SendCommand(outcome)
    PROVE  SmtpInv'
<1>a. TypeOK /\ Dialogue /\ Accepting /\ Advertising /\ Secured
  BY DEF SmtpInv
<1>b. /\ pc \in Commands /\ mode = "send" /\ out' = <<>>
      /\ UNCHANGED <<cfg, lines, server, accepted>>
      /\ commands' = IF outcome = "all" THEN Append(commands, pc)
                                        ELSE commands
  BY DEF SendCommand, serverVars
<1>c. pc # "done" /\ pc # "connect" /\ pc # "handshake" /\ commands = <<>>
      /\ All421(lines)
  BY <1>a, <1>b DEF Dialogue, Commands
<1>d. commands' \in {<<>>, <<pc>>}
  BY <1>b, <1>c
<1>e. authPlain' <=> (authPlain \/ (pc = "auth" /\ ~tls /\ outcome = "all"))
  BY DEF SendCommand
<1>f. authPlain' \in BOOLEAN
  BY <1>a DEF SendCommand, TypeOK
<1>g. commands' \in Seq(Commands)
  BY <1>a, <1>b DEF TypeOK
<1>1. CASE outcome # "fail" \/ pc = "quit"
  <2>1. mode' = "read" /\ UNCHANGED <<pc, result, tls>>
    BY <1>1 DEF SendCommand
  <2>2. TypeOK'
    BY <1>a, <1>b, <1>f, <1>g, <2>1 DEF TypeOK
  <2>3. Dialogue'
    BY <1>a, <1>b, <1>c, <1>d, <2>1 DEF Dialogue, All421, No421, Finals
  <2>4. Accepting' /\ Advertising'
    BY <1>a, <1>b, <1>c, <2>1
    DEF Accepting, Advertising, All421, TrueMeansAccepted
  <2>5. Secured'
    BY <1>a, <1>b, <1>e, <2>1 DEF Secured
  <2> QED
    BY <2>2, <2>3, <2>4, <2>5 DEF SmtpInv
<1>2. CASE outcome = "fail" /\ pc # "quit"
  <2>1. pc' = "done" /\ result' = "false" /\ mode' = mode
    BY <1>2 DEF SendCommand, Return
  <2>2. tls' \in BOOLEAN
    BY <1>2 DEF SendCommand, Return
  <2>3. TypeOK'
    BY <1>a, <1>b, <1>f, <1>g, <2>1, <2>2 DEF TypeOK
  <2>4. authPlain' = authPlain
    BY <1>2, <1>a, <1>e, <1>f DEF TypeOK
  <2> QED
    BY <1>b, <2>1, <2>3, <2>4, ReturnStep
<1> QED
  BY <1>1, <1>2

\* The command that follows, and that it is only sent in the clear to a server
\* that has not named STARTTLS.
LEMMA FollowingFacts ==
    ASSUME TypeOK, NEW c \in Commands \ {"quit"}, NEW reply
    PROVE  /\ Following(c, reply) \in (Commands \cup {"handshake"})
                                        \ {"greeting", "ehlo2"}
           /\ Following(c, reply) = "quit" => c = "body"
           /\ Following(c, reply) \in {"auth", "mail", "rcpt", "data", "body",
                                       "quit"}
                => \/ c \in {"ehlo2", "auth", "mail", "rcpt", "data", "body"}
                   \/ c = "ehlo" /\ ~(cfg.starttls /\ Advertised(reply))
  BY DEF Following, Authenticate, Commands

\* One recv: the reply is not yet complete, is as expected, or is not.
LEMMA ReadStep ==
    ASSUME SmtpInv, NEW k \in Nat, ReadResponse(k) PROVE SmtpInv'
<1>a. TypeOK /\ Dialogue /\ Accepting /\ Advertising /\ Secured
  BY DEF SmtpInv
<1>b. /\ pc \in Commands /\ mode = "read" /\ k \in 1..Len(lines)
      /\ out' = out \o SubSeq(lines, 1, k)
      /\ lines' = SubSeq(lines, k + 1, Len(lines))
      /\ UNCHANGED <<cfg, commands, server, accepted, authPlain>>
  BY DEF ReadResponse, Collected, serverVars
<1>c. /\ out \in Seq(Line) /\ lines \in Seq(Line) /\ Len(out) \in Nat
      /\ Len(lines) \in Nat /\ 1 <= k /\ k <= Len(lines)
  BY <1>a, <1>b DEF TypeOK
<1>d. /\ out' \in Seq(Line) /\ Len(out') = Len(out) + k
      /\ \A i \in 1..Len(out) : out'[i] = out[i]
      /\ \A i \in 1..k : out'[Len(out) + i] = lines[i]
      /\ lines' \in Seq(Line) /\ Len(lines') = Len(lines) - k
      /\ \A i \in 1..Len(lines') :
            lines'[i] = lines[i + k] /\ i + k \in 1..Len(lines)
  <2> DEFINE c == out \o SubSeq(lines, 1, k)
             r == SubSeq(lines, k + 1, Len(lines))
  <2>1. /\ c \in Seq(Line) /\ Len(c) = Len(out) + k
        /\ \A i \in 1..Len(out) : c[i] = out[i]
        /\ \A i \in 1..k : c[Len(out) + i] = lines[i]
        /\ r \in Seq(Line) /\ Len(r) = Len(lines) - k
        /\ \A i \in 1..Len(r) : r[i] = lines[i + k] /\ i + k \in 1..Len(lines)
    BY <1>b, <1>c, CutFacts
  <2>2. out' = c /\ lines' = r
    BY <1>b
  <2> HIDE DEF c, r
  <2> QED
    BY <2>1, <2>2
<1>e. pc # "done" /\ pc # "connect" /\ pc # "handshake"
  BY <1>b DEF Commands
<1>f. DOMAIN out' = 1..Len(out') /\ DOMAIN out = 1..Len(out)
  BY <1>c, <1>d
\* What is left keeps the order of what was there.
<1>g. /\ All421(lines) => All421(lines')
      /\ No421(lines) => No421(lines')
  <2>1. ASSUME NEW i \in 1..Len(lines')
        PROVE  i + k \in 1..Len(lines) /\ lines'[i].code = lines[i + k].code
    BY <1>d
  <2> QED
    BY <2>1 DEF All421, No421
<1>h. /\ \A i, j \in 1..Len(lines') :
            i < j /\ lines'[i].final => lines'[j].code = 421
      /\ \A i \in 1..Len(lines') : lines'[i].code = 421 => lines'[i].final
  <2>1. ASSUME NEW i \in 1..Len(lines'), NEW j \in 1..Len(lines'),
               i < j, lines'[i].final
        PROVE  lines'[j].code = 421
    <3>1. i + k \in 1..Len(lines) /\ j + k \in 1..Len(lines) /\ i + k < j + k
      BY <2>1, <1>c, <1>d
    <3> QED
      BY <2>1, <3>1, <1>a, <1>d, <1>e DEF Dialogue
  <2>2. ASSUME NEW i \in 1..Len(lines'), lines'[i].code = 421
        PROVE  lines'[i].final
    <3>1. i + k \in 1..Len(lines) /\ lines'[i] = lines[i + k]
      BY <1>d
    <3> QED
      BY <2>2, <3>1, <1>a, <1>e DEF Dialogue
  <2> QED
    BY <2>1, <2>2
<1>1. CASE Finals(out') = {}
  <2>1. UNCHANGED <<pc, mode, result, tls>>
    BY <1>1 DEF ReadResponse
  <2>2. TypeOK'
    BY <1>a, <1>b, <1>d, <2>1 DEF TypeOK
  <2>3. commands = <<>>
    <3>1. out'[Len(out) + 1] = lines[1] /\ Len(out) + 1 \in 1..Len(out')
          /\ 1 \in 1..Len(lines)
      BY <1>c, <1>d
    <3>2. ~lines[1].final
      BY <1>1, <1>f, <3>1 DEF Finals
    <3>3. lines[1].code # 421
      BY <1>a, <1>e, <3>1, <3>2 DEF Dialogue
    <3> QED
      BY <1>a, <1>e, <3>1, <3>3 DEF Dialogue, All421
  <2>4. Dialogue'
    BY <1>a, <1>b, <1>e, <1>g, <1>h, <1>1, <2>1, <2>3 DEF Dialogue
  <2>5. Accepting'
    BY <1>a, <1>b, <1>d, <2>1 DEF Accepting, TrueMeansAccepted
  <2>6. Advertising'
    <3> SUFFICES ASSUME pc = "ehlo", cfg.offers, NEW i \in 1..Len(lines'),
                        lines'[i].final, lines'[i].code = 250
                 PROVE  Advertised(out') \/ \E j \in 1..i : lines'[j].starttls
      BY <1>b, <2>1 DEF Advertising, Advertised
    <3>1. i + k \in 1..Len(lines) /\ lines'[i] = lines[i + k]
      BY <1>d
    <3>2. Advertised(out) \/ \E j \in 1..(i + k) : lines[j].starttls
      BY <1>a, <1>b, <3>1 DEF Advertising
    <3>3. CASE Advertised(out)
      <4>1. PICK j \in 1..Len(out) : out[j].starttls
        BY <3>3, <1>f DEF Advertised
      <4>2. j \in 1..Len(out') /\ out'[j].starttls
        BY <4>1, <1>c, <1>d
      <4> QED
        BY <4>2, <1>f DEF Advertised
    <3>4. ASSUME NEW j \in 1..(i + k), lines[j].starttls
          PROVE  Advertised(out') \/ \E m \in 1..i : lines'[m].starttls
      <4>1. CASE j <= k
        <5>1. Len(out) + j \in 1..Len(out') /\ out'[Len(out) + j].starttls
          BY <3>4, <4>1, <1>c, <1>d
        <5> QED
          BY <5>1, <1>f DEF Advertised
      <4>2. CASE j > k
        <5>1. j - k \in 1..i /\ j - k \in 1..Len(lines') /\ (j - k) + k = j
          BY <4>2, <3>1, <1>c, <1>d
        <5>2. lines'[j - k] = lines[j]
          BY <5>1, <1>d
        <5> QED
          BY <3>4, <5>1, <5>2
      <4> QED
        BY <4>1, <4>2, <1>c
    <3> QED
      BY <3>2, <3>3, <3>4
  <2>7. Secured'
    BY <1>a, <1>b, <2>1 DEF Secured
  <2> QED
    BY <2>2, <2>4, <2>5, <2>6, <2>7 DEF SmtpInv
<1>2. ASSUME NEW i \in Finals(out'), Replied(out'[i].code, out')
      PROVE  SmtpInv'
  <2> DEFINE code == out'[i].code
             m == i - Len(out)
  \* The marked line is among those just read.
  <2>1. m \in 1..k /\ m \in 1..Len(lines) /\ out'[i] = lines[m]
    <3>1. i \in 1..Len(out') /\ out'[i].final
      BY <1>2, <1>f DEF Finals
    <3>2. ~(i \in 1..Len(out))
      <4>1. Finals(out) = {}
        BY <1>a, <1>b, <1>e DEF Dialogue
      <4> QED
        BY <3>1, <4>1, <1>d, <1>f DEF Finals
    <3>3. m \in 1..k /\ Len(out) + m = i
      BY <3>1, <3>2, <1>c, <1>d
    <3> QED
      BY <3>3, <1>c, <1>d
  <2>2. lines[m].final /\ lines[m].code = code
    BY <1>2, <1>f, <2>1 DEF Finals
  <2>3. All421(lines')
    <3> SUFFICES ASSUME NEW j \in 1..Len(lines') PROVE lines'[j].code = 421
      BY DEF All421
    <3>1. j + k \in 1..Len(lines) /\ m < j + k /\ lines'[j] = lines[j + k]
      BY <1>c, <1>d, <2>1
    <3> QED
      BY <3>1, <2>1, <2>2, <1>a, <1>e DEF Dialogue
  <2> HIDE DEF code, m
  <2>4. Replied(code, out')
    BY <1>2 DEF code
  <2>5. CASE pc = "quit"
    <3>1. pc' = "done" /\ result' = "true" /\ mode' = mode
      BY <2>4, <2>5 DEF Replied, Return
    <3>2. tls' \in BOOLEAN
      BY <2>4, <2>5 DEF Replied, Return
    <3>3. TypeOK'
      BY <1>a, <1>b, <1>d, <3>1, <3>2 DEF TypeOK
    <3>4. accepted
      BY <2>5, <1>a DEF Accepting
    <3> QED
      BY <1>b, <3>1, <3>3, <3>4, ReturnStep
  <2>6. CASE pc # "quit" /\ code = Expected(pc)
    <3>1. /\ pc' = Following(pc, out') /\ mode' = "send"
          /\ UNCHANGED <<result, tls>>
      BY <2>4, <2>6 DEF Replied, GoesOn
    <3>2. /\ pc' \in (Commands \cup {"handshake"}) \ {"greeting", "ehlo2"}
          /\ pc' = "quit" => pc = "body"
          /\ pc' \in {"auth", "mail", "rcpt", "data", "body", "quit"}
               => \/ pc \in {"ehlo2", "auth", "mail", "rcpt", "data", "body"}
                  \/ pc = "ehlo" /\ ~(cfg.starttls /\ Advertised(out'))
      BY <1>a, <1>b, <2>6, <3>1, FollowingFacts
    <3>3. pc' # "done" /\ pc' # "connect" /\ pc' # "ehlo2"
      BY <3>2 DEF Commands
    <3>4. TypeOK'
      BY <1>a, <1>b, <1>d, <3>1, <3>2 DEF TypeOK
    <3>5. commands = <<>>
      <4>1. code # 421
        BY <1>b, <2>6, ExpectedFacts
      <4> QED
        BY <4>1, <2>1, <2>2, <1>a, <1>e DEF Dialogue, All421
    <3>6. Dialogue'
      BY <1>a, <1>b, <1>e, <1>g, <1>h, <2>3, <3>1, <3>3, <3>5 DEF Dialogue
    <3>7. Accepting'
      <4>1. pc = "body" => accepted
        BY <1>a, <1>b, <2>1, <2>2, <2>6, ExpectedFacts DEF Accepting
      <4> QED
        BY <1>a, <1>b, <3>1, <3>2, <4>1 DEF Accepting, TrueMeansAccepted
    <3>8. Secured'
      <4>1. ASSUME pc = "ehlo", cfg.offers PROVE Advertised(out')
        <5>1. Advertised(out) \/ \E j \in 1..m : lines[j].starttls
          BY <4>1, <1>a, <1>b, <2>1, <2>2, <2>6, ExpectedFacts
          DEF Advertising
        <5>2. CASE Advertised(out)
          <6>1. PICK j \in 1..Len(out) : out[j].starttls
            BY <5>2, <1>f DEF Advertised
          <6>2. j \in 1..Len(out') /\ out'[j].starttls
            BY <6>1, <1>c, <1>d
          <6> QED
            BY <6>2, <1>f DEF Advertised
        <5>3. ASSUME NEW j \in 1..m, lines[j].starttls
              PROVE  Advertised(out')
          <6>1. j \in 1..k
            BY <2>1, <1>c
          <6>2. Len(out) + j \in 1..Len(out') /\ out'[Len(out) + j].starttls
            BY <6>1, <5>3, <1>c, <1>d
          <6> QED
            BY <6>2, <1>f DEF Advertised
        <5> QED
          BY <5>1, <5>2, <5>3
      <4> QED
        BY <4>1, <1>a, <1>b, <3>1, <3>2, <3>3 DEF Secured
    <3> QED
      BY <3>1, <3>4, <3>6, <3>7, <3>8 DEF SmtpInv, Advertising
  <2>7. CASE pc # "quit" /\ code # Expected(pc)
    <3>1. pc' = "done" /\ result' = "false" /\ mode' = mode
      BY <2>4, <2>7 DEF Replied, Return, GoesOn
    <3>2. tls' \in BOOLEAN
      BY <2>4, <2>7 DEF Replied, Return, GoesOn
    <3>3. TypeOK'
      BY <1>a, <1>b, <1>d, <3>1, <3>2 DEF TypeOK
    <3> QED
      BY <1>b, <3>1, <3>3, ReturnStep
  <2> QED
    BY <2>5, <2>6, <2>7
<1> QED
  BY <1>1, <1>2 DEF ReadResponse

\* A read that returns nothing ends the dialogue.
LEMMA ReadFailsStep == SmtpInv /\ ReadFails => SmtpInv'
<1> SUFFICES ASSUME SmtpInv, ReadFails PROVE SmtpInv'
  OBVIOUS
<1>a. TypeOK /\ Accepting /\ pc \in Commands /\ Replied(0, out)
      /\ UNCHANGED <<cfg, out, commands, lines, server, accepted, authPlain>>
  BY DEF SmtpInv, ReadFails, serverVars
<1>1. ~GoesOn(pc, 0)
  BY <1>a, ExpectedFacts DEF GoesOn
<1>2. /\ pc' = "done" /\ mode' = mode /\ result' \in {"true", "false"}
      /\ result' = "true" => pc = "quit"
  BY <1>a, <1>1 DEF Replied, Return
<1>3. tls' \in BOOLEAN
  BY <1>a, <1>1 DEF Replied, Return
<1>4. TypeOK'
  BY <1>a, <1>2, <1>3 DEF TypeOK
<1> QED
  BY <1>a, <1>2, <1>4, ReturnStep DEF Accepting

\* The handshake.
LEMMA HandshakeStep ==
    ASSUME SmtpInv, NEW ok \in BOOLEAN, Handshake(ok) PROVE SmtpInv'
<1>a. TypeOK /\ Dialogue /\ Accepting /\ Advertising /\ Secured
  BY DEF SmtpInv
<1>b. /\ pc = "handshake"
      /\ UNCHANGED <<cfg, mode, out, commands, lines, server, accepted,
                     authPlain>>
  BY DEF Handshake, serverVars
<1>1. CASE ok
  <2>1. pc' = "ehlo2" /\ result' = result
    BY <1>1 DEF Handshake
  <2>2. tls' \in BOOLEAN /\ tls'
    BY <1>1 DEF Handshake
  <2>3. TypeOK'
    BY <1>a, <1>b, <2>1, <2>2 DEF TypeOK, Commands
  <2>4. Dialogue'
    BY <1>a, <1>b, <2>1 DEF Dialogue, All421, No421, Commands
  <2> QED
    BY <1>a, <1>b, <2>1, <2>2, <2>3, <2>4
    DEF SmtpInv, Accepting, Advertising, Secured, TrueMeansAccepted
<1>2. CASE ~ok
  <2>1. pc' = "done" /\ result' = "false"
    BY <1>2 DEF Handshake, Return
  <2>2. tls' \in BOOLEAN
    BY <1>2 DEF Handshake, Return
  <2>3. TypeOK'
    BY <1>a, <1>b, <2>1, <2>2 DEF TypeOK
  <2> QED
    BY <1>b, <2>1, <2>3, ReturnStep
<1> QED
  BY <1>1, <1>2

\* The server answers the one command it has.
LEMMA AnswerStep ==
    ASSUME SmtpInv, NEW ok \in BOOLEAN, NEW n \in 1..MaxLines,
           NEW j \in 0..MaxLines, Answer(ok, n, j)
    PROVE  SmtpInv'
<1>a. TypeOK /\ Dialogue /\ Accepting /\ Advertising /\ Secured
  BY DEF SmtpInv
<1> DEFINE c == Head(commands)
           code == IF ok THEN Expected(c) ELSE 550
           r == Reply(code, n, j)
<1>b. /\ server = "up" /\ commands # <<>> /\ j <= n
      /\ j > 0 <=> c = "ehlo" /\ cfg.offers /\ ok
      /\ lines' = lines \o r /\ commands' = Tail(commands)
      /\ UNCHANGED <<cfg, pc, mode, out, tls, result, server, authPlain>>
  BY DEF Answer
<1>c. accepted' <=> (accepted \/ (c = "body" /\ ok))
  BY DEF Answer
<1>d. accepted' \in BOOLEAN
  BY <1>a DEF Answer, TypeOK
<1>e. c \in Commands /\ commands' \in Seq(Commands)
  BY <1>a, <1>b DEF TypeOK
<1>f. /\ code \in Codes /\ code # 421
      /\ code = 250 => ok
      /\ n \in Nat \ {0} /\ j \in Nat
  BY <1>e, ExpectedFacts, SmtpAssumption DEF Codes
<1> HIDE DEF code, c
<1>g. /\ r \in Seq(Line) /\ Len(r) = n
      /\ \A i \in 1..n : /\ r[i].code = code
                         /\ r[i].final <=> i = n
                         /\ r[i].starttls <=> i = j
  BY <1>f, ReplyFacts
<1> HIDE DEF r
<1>1. TypeOK'
  <2>1. lines' \in Seq(Line)
    BY <1>a, <1>b, <1>g, JoinFacts DEF TypeOK
  <2> QED
    BY <1>a, <1>b, <1>d, <1>e, <2>1 DEF TypeOK
<1>2. ASSUME pc # "done"
      PROVE  c = pc /\ mode = "read" /\ out = <<>> /\ pc \in Commands
             /\ commands' = <<>> /\ lines' = r
  <2>1. commands = <<pc>> /\ mode = "read" /\ out = <<>> /\ All421(lines)
    BY <1>2, <1>a, <1>b DEF Dialogue
  <2>2. No421(lines) /\ pc \in Commands
    BY <1>2, <1>a, <1>b, <2>1 DEF Dialogue
  <2>3. lines = <<>>
    <3>1. lines \in Seq(Line)
      BY <1>a DEF TypeOK
    <3>2. Len(lines) = 0
      <4> SUFFICES ASSUME Len(lines) # 0 PROVE FALSE
        OBVIOUS
      <4>1. 1 \in 1..Len(lines)
        BY <3>1
      <4> QED
        BY <4>1, <2>1, <2>2 DEF All421, No421
    <3> QED
      BY <3>1, <3>2
  <2>4. lines' = r
    BY <1>b, <1>g, <2>3
  <2>5. c = pc /\ commands' = <<>>
    BY <1>b, <2>1 DEF c
  <2> QED
    BY <2>1, <2>2, <2>4, <2>5
<1>3. Dialogue'
  <2> SUFFICES ASSUME pc # "done" PROVE Dialogue'
    BY <1>b DEF Dialogue
  <2>1. No421(lines') /\ Finals(out') = {} /\ Len(lines') = n
    BY <1>2, <1>b, <1>f, <1>g DEF No421, Finals
  <2>2. \A i, k \in 1..Len(lines') :
           i < k /\ lines'[i].final => lines'[k].code = 421
    <3> SUFFICES ASSUME NEW i \in 1..n, NEW k \in 1..n, i < k, r[i].final
                 PROVE  FALSE
      BY <1>2, <2>1
    <3> QED
      BY <1>f, <1>g
  <2>3. \A i \in 1..Len(lines') : lines'[i].code = 421 => lines'[i].final
    BY <1>2, <1>f, <1>g, <2>1
  <2>4. pc # "connect" /\ pc # "handshake" /\ mode' = "read"
        /\ pc' \in Commands
    BY <1>2, <1>b DEF Commands
  <2> QED
    BY <1>2, <1>b, <2>1, <2>2, <2>3, <2>4 DEF Dialogue
<1>4. Accepting'
  <2>1. ASSUME pc = "body", NEW i \in 1..Len(lines'), lines'[i].code = 250
        PROVE  accepted'
    BY <2>1, <1>2, <1>c, <1>f, <1>g
  <2> QED
    BY <1>a, <1>b, <1>c, <2>1 DEF Accepting, TrueMeansAccepted
<1>5. Advertising'
  <2> SUFFICES ASSUME pc = "ehlo", cfg.offers, NEW i \in 1..Len(lines'),
                      lines'[i].final, lines'[i].code = 250
               PROVE  \E m \in 1..i : lines'[m].starttls
    BY <1>b DEF Advertising
  <2>1. lines' = r /\ c = "ehlo" /\ i \in 1..n
    BY <1>2, <1>g
  <2>2. ok /\ i = n
    BY <2>1, <1>f, <1>g
  <2>3. j \in 1..i /\ j \in 1..n
    BY <2>1, <2>2, <1>b, <1>f
  <2>4. lines'[j].starttls
    BY <2>1, <2>3, <1>g
  <2> QED
    BY <2>3, <2>4
<1>6. Secured'
  BY <1>a, <1>b DEF Secured
<1> QED
  BY <1>1, <1>3, <1>4, <1>5, <1>6 DEF SmtpInv

\* The server gives up.
LEMMA GiveUpStep ==
    ASSUME SmtpInv, NEW how \in {"silent", "gone"}, GiveUp(how) PROVE SmtpInv'
<1>a. TypeOK /\ Dialogue /\ Accepting /\ Advertising /\ Secured
  BY DEF SmtpInv
<1>b. /\ server' = how
      /\ lines' = IF how = "gone" THEN lines \o Reply(421, 1, 0) ELSE lines
      /\ UNCHANGED <<cfg, pc, mode, out, tls, result, commands, accepted,
                     authPlain>>
  BY DEF GiveUp
<1>c. lines \in Seq(Line) /\ Len(lines) \in Nat
  BY <1>a DEF TypeOK
<1>1. CASE how = "silent"
  BY <1>1, <1>a, <1>b
  DEF SmtpInv, TypeOK, Dialogue, Accepting, Advertising, Secured,
      TrueMeansAccepted, All421
<1>2. CASE how = "gone"
  <2> DEFINE e == Len(lines) + 1
  <2>0. PICK r \in Seq(Line) : /\ r = Reply(421, 1, 0) /\ Len(r) = 1
                               /\ r[1].code = 421 /\ r[1].final
    BY LastReply
  <2>1. r \in Seq(Line) /\ Len(r) = 1 /\ r[1].code = 421 /\ r[1].final
    BY <2>0
  <2>2. /\ lines' \in Seq(Line) /\ Len(lines') = e /\ lines'[e] = r[1]
        /\ \A i \in 1..Len(lines) : lines'[i] = lines[i]
    <3>1. lines' = lines \o r
      BY <1>b, <1>2, <2>0
    <3>2. r \in Seq(Line) /\ Len(r) = 1
      BY <2>0
    <3> DEFINE w == lines \o r
    <3>3. /\ w \in Seq(Line) /\ Len(w) = e
          /\ \A i \in 1..Len(lines) : w[i] = lines[i]
          /\ w[e] = r[1]
      BY <1>c, <3>2, AppendFacts
    <3>4. lines' = w
      BY <3>1
    <3> HIDE DEF w
    <3> QED
      BY <3>3, <3>4
  <2>3. \A i \in 1..Len(lines') : i \in 1..Len(lines) \/ i = e
    BY <1>c, <2>2
  <2>4. TypeOK'
    BY <1>a, <1>b, <2>2 DEF TypeOK
  <2>5. All421(lines) => All421(lines')
    BY <2>1, <2>2, <2>3 DEF All421
  <2>6. ASSUME pc # "done"
        PROVE  /\ \A i, j \in 1..Len(lines') :
                     i < j /\ lines'[i].final => lines'[j].code = 421
               /\ \A i \in 1..Len(lines') :
                     lines'[i].code = 421 => lines'[i].final
    <3>1. ASSUME NEW i \in 1..Len(lines'), NEW j \in 1..Len(lines'),
                 i < j, lines'[i].final
          PROVE  lines'[j].code = 421
      <4>1. CASE j = e
        BY <4>1, <2>1, <2>2
      <4>2. CASE j # e
        <5>1. i \in 1..Len(lines) /\ j \in 1..Len(lines)
          BY <4>2, <3>1, <2>3, <1>c
        <5> QED
          BY <5>1, <3>1, <2>2, <2>6, <1>a DEF Dialogue
      <4> QED
        BY <4>1, <4>2
    <3>2. ASSUME NEW i \in 1..Len(lines'), lines'[i].code = 421
          PROVE  lines'[i].final
      <4>1. CASE i = e
        BY <4>1, <2>1, <2>2
      <4>2. CASE i # e
        <5>1. i \in 1..Len(lines)
          BY <4>2, <2>3
        <5> QED
          BY <5>1, <3>2, <2>2, <2>6, <1>a DEF Dialogue
      <4> QED
        BY <4>1, <4>2
    <3> QED
      BY <3>1, <3>2
  <2>7. Dialogue'
    BY <1>a, <1>b, <1>2, <2>5, <2>6 DEF Dialogue
  <2>8. Accepting'
    BY <1>a, <1>b, <2>1, <2>2, <2>3 DEF Accepting, TrueMeansAccepted
  <2>9. Advertising'
    <3>1. pc' = pc /\ mode' = mode /\ cfg' = cfg /\ out' = out
      BY <1>b
    <3> SUFFICES ASSUME pc = "ehlo", mode = "read", cfg.offers,
                        NEW i \in 1..Len(lines'),
                        lines'[i].final, lines'[i].code = 250
                 PROVE  Advertised(out) \/ \E j \in 1..i : lines'[j].starttls
      <4>1. Advertised(out) => Advertised(out)'
        BY <3>1 DEF Advertised
      <4> QED
        BY <3>1, <4>1 DEF Advertising
    <3>2. i \in 1..Len(lines) /\ lines'[i] = lines[i]
      BY <2>1, <2>2, <2>3
    <3>3. Advertised(out) \/ \E j \in 1..i : lines[j].starttls
      BY <3>2, <1>a DEF Advertising
    <3>4. \A j \in 1..i : j \in 1..Len(lines)
      BY <3>2, <1>c
    <3> QED
      BY <3>3, <3>4, <2>2
  <2>10. Secured'
    BY <1>a, <1>b DEF Secured
  <2> QED
    BY <2>4, <2>7, <2>8, <2>9, <2>10 DEF SmtpInv
<1> QED
  BY <1>1, <1>2

\* Every step of the client and of the server keeps the invariant.
LEMMA StepSmtp == SmtpInv /\ [Next]_vars => SmtpInv'
<1> SUFFICES ASSUME SmtpInv, [Next]_vars PROVE SmtpInv'
  OBVIOUS
<1>1. CASE UNCHANGED vars
  BY <1>1 DEF vars, SmtpInv, TypeOK, Dialogue, Accepting, Advertising, Secured,
              TrueMeansAccepted, All421, No421, Finals, Advertised
<1>2. ASSUME NEW up \in BOOLEAN, Connect(up) PROVE SmtpInv'
  BY <1>2, ConnectStep
<1>3. ASSUME NEW outcome \in {"all", "part", "fail"}, SendCommand(outcome)
      PROVE  SmtpInv'
  BY <1>3, SendStep
<1>4. ASSUME NEW k \in 1..(MaxLines + 1), ReadResponse(k) PROVE SmtpInv'
  <2>1. k \in Nat
    BY SmtpAssumption
  <2> QED
    BY <1>4, <2>1, ReadStep
<1>5. CASE ReadFails
  BY <1>5, ReadFailsStep
<1>6. ASSUME NEW ok \in BOOLEAN, Handshake(ok) PROVE SmtpInv'
  BY <1>6, HandshakeStep
<1>7. ASSUME NEW ok \in BOOLEAN, NEW n \in 1..MaxLines, NEW j \in 0..MaxLines,
             Answer(ok, n, j)
      PROVE  SmtpInv'
  BY <1>7, AnswerStep
<1>8. ASSUME NEW how \in {"silent", "gone"}, GiveUp(how) PROVE SmtpInv'
  BY <1>8, GiveUpStep
<1> QED
  BY <1>1, <1>2, <1>3, <1>4, <1>5, <1>6, <1>7, <1>8
  DEF Next, Client, MailServer

-----------------------------------------------------------------------------
(* Theorems *)

\* The dialogue stays at one of its commands, and what travels between the
\* client and the server are commands and lines.
THEOREM SmtpTypes == Spec => []TypeOK
<1>1. SmtpInv => TypeOK
  BY DEF SmtpInv
<1> QED
  BY InitSmtp, StepSmtp, <1>1, PTL DEF Spec

\* For replies of any length, cut and joined in any way: the function returns
\* true only for a message that the server has accepted.
THEOREM TrueOnlyIfAccepted == Spec => []TrueMeansAccepted
<1>1. SmtpInv => TrueMeansAccepted
  BY DEF SmtpInv, Accepting
<1> QED
  BY InitSmtp, StepSmtp, <1>1, PTL DEF Spec

\* With STARTTLS configured and offered, no credentials go out in the clear,
\* in whichever line and segment the offer comes.
THEOREM CredentialsUnderTls == Spec => []AuthUnderTls
<1>1. SmtpInv => AuthUnderTls
  BY DEF SmtpInv, Secured, AuthUnderTls
<1> QED
  BY InitSmtp, StepSmtp, <1>1, PTL DEF Spec

\* The client never has two commands on their way: it does not send one while
\* the answer to another is due.
THEOREM OneCommandAtATime ==
    Spec => [](pc # "done" => commands \in {<<>>, <<pc>>})
<1>1. SmtpInv => (pc # "done" => commands \in {<<>>, <<pc>>})
  BY DEF SmtpInv, Dialogue
<1> QED
  BY InitSmtp, StepSmtp, <1>1, PTL DEF Spec

-----------------------------------------------------------------------------
(* The dialogue comes to an end *)

\* How many stages of the function come after the one it is in, at most.
StagesAfter(stage) ==
    CASE stage = "connect" -> 12 [] stage = "greeting" -> 11
      [] stage = "ehlo" -> 10 [] stage = "starttls" -> 9
      [] stage = "handshake" -> 8 [] stage = "ehlo2" -> 7
      [] stage = "auth" -> 6 [] stage = "mail" -> 5
      [] stage = "rcpt" -> 4 [] stage = "data" -> 3
      [] stage = "body" -> 2 [] stage = "quit" -> 1
      [] stage = "done" -> 0

SendLeft(m) == IF m = "send" THEN MaxLines + 2 ELSE 0
ServerLeft(s) == IF s = "up" THEN 2 ELSE 0

\* What is still to be done, weighted so that a command is worth more than the
\* lines that answer it, and a stage more than the command it sends.
DialogueLeft ==
    (MaxLines + 3) * StagesAfter(pc) + SendLeft(mode)
      + (MaxLines + 1) * Len(commands) + Len(lines) + ServerLeft(server)

\* A weighted count: one less of it is a whole weight less.
LEMMA Weights ==
    ASSUME NEW w \in Nat, NEW a \in Nat, NEW b \in Nat
    PROVE  /\ w * a \in Nat
           /\ w * (a + 1) = w * a + w
           /\ a < b => w * a + w <= w * b
<1>1. \A c, d \in Nat : w * c \in Nat /\ w * (c + d) = w * c + w * d
  OBVIOUS
<1>2. w * (a + 1) = w * a + w
  OBVIOUS
<1>3. ASSUME a < b PROVE w * a + w <= w * b
  <2>1. PICK d \in Nat : b = (a + 1) + d
    <3>1. b - (a + 1) \in Nat /\ b = (a + 1) + (b - (a + 1))
      BY <1>3
    <3> QED
      BY <3>1
  <2>2. w * b = w * (a + 1) + w * d /\ w * d \in Nat /\ w * a \in Nat
    BY <1>1, <2>1
  <2> QED
    BY <1>2, <2>2
<1> QED
  BY <1>1, <1>2, <1>3

\* The stages have their numbers.
LEMMA StageTypes ==
    ASSUME NEW stage \in Commands \cup {"connect", "handshake", "done"}
    PROVE  /\ StagesAfter(stage) \in Nat
           /\ stage # "done" => StagesAfter("done") < StagesAfter(stage)
<1>1. StagesAfter("done") = 0
  BY DEF StagesAfter
<1>2. stage # "done" => StagesAfter(stage) \in 1..12
  BY DEF Commands, StagesAfter
<1> QED
  BY <1>1, <1>2

\* The command that follows is of a later stage.
LEMMA FollowingIsLater ==
    ASSUME NEW c \in Commands \ {"quit"}, NEW reply
    PROVE  StagesAfter(Following(c, reply)) < StagesAfter(c)
<1>1. /\ c = "greeting" => Following(c, reply) = "ehlo"
      /\ c = "ehlo" => Following(c, reply) \in {"starttls", "auth", "mail"}
      /\ c = "starttls" => Following(c, reply) = "handshake"
      /\ c = "ehlo2" => Following(c, reply) \in {"auth", "mail"}
      /\ c = "auth" => Following(c, reply) = "mail"
      /\ c = "mail" => Following(c, reply) = "rcpt"
      /\ c = "rcpt" => Following(c, reply) = "data"
      /\ c = "data" => Following(c, reply) = "body"
      /\ c = "body" => Following(c, reply) = "quit"
  BY DEF Following, Authenticate
<1> QED
  BY <1>1 DEF Commands, StagesAfter

\* A reply, or the failure to read one, moves the function to a later stage.
LEMMA RepliedIsLater ==
    ASSUME TypeOK, pc \in Commands, NEW code, NEW reply, Replied(code, reply)
    PROVE  StagesAfter(pc') < StagesAfter(pc) /\ mode' \in {mode, "send"}
<1>1. mode' \in {mode, "send"}
  BY DEF Replied
<1>2. CASE pc' = "done"
  BY <1>1, <1>2, StageTypes DEF Commands
<1>3. CASE pc' # "done"
  <2>1. pc \in Commands \ {"quit"} /\ pc' = Following(pc, reply)
    BY <1>3 DEF Replied, Return
  <2> QED
    BY <1>1, <2>1, FollowingIsLater
<1> QED
  BY <1>2, <1>3

\* The five ways in which a step brings the end nearer.
StageEnds ==
    /\ StagesAfter(pc') < StagesAfter(pc)
    /\ \/ commands' = commands
       \/ mode = "send" /\ mode' = "read" /\ Len(commands') = Len(commands) + 1
    /\ Len(lines') <= Len(lines) /\ server' = server
CommandSent ==
    /\ pc' = pc /\ mode = "send" /\ mode' = "read"
    /\ Len(commands') \in {Len(commands), Len(commands) + 1}
    /\ lines' = lines /\ server' = server
LinesRead ==
    /\ pc' = pc /\ mode' = mode /\ commands' = commands
    /\ Len(lines') < Len(lines) /\ server' = server
CommandAnswered ==
    /\ pc' = pc /\ mode' = mode /\ Len(commands) = Len(commands') + 1
    /\ Len(lines') <= Len(lines) + MaxLines /\ server' = server
ServerLost ==
    /\ pc' = pc /\ mode' = mode /\ commands' = commands
    /\ Len(lines') <= Len(lines) + 1
    /\ server = "up" /\ server' # "up"

\* Every step is one of them.
LEMMA StepsEnd ==
    ASSUME SmtpInv, Next
    PROVE  StageEnds \/ CommandSent \/ LinesRead \/ CommandAnswered
             \/ ServerLost
<1>1. /\ TypeOK /\ MaxLines \in Nat
      /\ Len(lines) \in Nat /\ Len(commands) \in Nat
  BY SmtpAssumption DEF SmtpInv, TypeOK
<1>2. ASSUME NEW up \in BOOLEAN, Connect(up) PROVE StageEnds
  <2>1. /\ pc = "connect" /\ pc' \in {"greeting", "done"}
        /\ lines' = lines /\ server' = server
    BY <1>2 DEF Connect, Return, serverVars
  <2>2. StagesAfter(pc') < StagesAfter(pc)
    BY <2>1 DEF StagesAfter
  <2>3. mode = "send" /\ commands = <<>>
    BY <2>1 DEF SmtpInv, Dialogue
  <2>4. \/ commands' = commands
        \/ mode' = "read" /\ commands' = <<"greeting">>
    BY <1>2 DEF Connect
  <2>5. Len(<<"greeting">>) = Len(<<>>) + 1
    OBVIOUS
  <2> QED
    BY <1>1, <2>1, <2>2, <2>3, <2>4, <2>5 DEF StageEnds
<1>3. ASSUME NEW outcome \in {"all", "part", "fail"}, SendCommand(outcome)
      PROVE  StageEnds \/ CommandSent
  <2>1. /\ mode = "send" /\ pc \in Commands
        /\ lines' = lines /\ server' = server
    BY <1>3 DEF SendCommand, serverVars
  <2>2. Len(commands') \in {Len(commands), Len(commands) + 1}
    <3>1. pc \in Commands /\ commands \in Seq(Commands)
      BY <1>1, <2>1 DEF TypeOK
    <3>2. Len(Append(commands, pc)) = Len(commands) + 1
      BY <3>1
    <3> QED
      BY <1>3, <3>2 DEF SendCommand
  <2>3. CASE mode' = "read" /\ pc' = pc
    BY <2>1, <2>2, <2>3 DEF CommandSent
  <2>4. CASE outcome = "fail" /\ pc' = "done"
    <3>1. commands' = commands
      BY <1>3, <2>4 DEF SendCommand
    <3>2. StagesAfter(pc') < StagesAfter(pc)
      BY <2>1, <2>4, StageTypes DEF Commands
    <3> QED
      BY <1>1, <2>1, <3>1, <3>2 DEF StageEnds
  <2> QED
    BY <1>3, <2>3, <2>4 DEF SendCommand, Return
<1>4. ASSUME NEW k \in 1..(MaxLines + 1), ReadResponse(k)
      PROVE  StageEnds \/ LinesRead
  <2>1. /\ pc \in Commands /\ commands' = commands /\ server' = server
        /\ k \in 1..Len(lines) /\ lines' = SubSeq(lines, k + 1, Len(lines))
    BY <1>4 DEF ReadResponse, serverVars
  <2>2. Len(lines') < Len(lines)
    <3>1. lines \in Seq(Line) /\ out \in Seq(Line)
      BY <1>1 DEF TypeOK
    <3>2. Len(SubSeq(lines, k + 1, Len(lines))) = Len(lines) - k
      BY <2>1, <3>1, CutFacts
    <3> QED
      BY <1>1, <2>1, <3>2
  <2>3. CASE UNCHANGED <<pc, mode>>
    BY <2>1, <2>2, <2>3 DEF LinesRead
  <2>4. CASE ~UNCHANGED <<pc, mode>>
    <3>1. PICK i \in Finals(out') : Replied(out'[i].code, out')
      BY <1>4, <2>4 DEF ReadResponse
    <3>2. StagesAfter(pc') < StagesAfter(pc)
      BY <1>1, <2>1, <3>1, RepliedIsLater
    <3> QED
      BY <1>1, <2>1, <2>2, <3>2 DEF StageEnds
  <2> QED
    BY <2>3, <2>4
<1>5. CASE ReadFails
  <2>1. /\ pc \in Commands /\ Replied(0, out)
        /\ commands' = commands /\ lines' = lines /\ server' = server
    BY <1>5 DEF ReadFails, serverVars
  <2>2. StagesAfter(pc') < StagesAfter(pc)
    BY <1>1, <2>1, RepliedIsLater
  <2> QED
    BY <1>1, <2>1, <2>2 DEF StageEnds
<1>6. ASSUME NEW ok \in BOOLEAN, Handshake(ok) PROVE StageEnds
  <2>1. /\ pc = "handshake" /\ pc' \in {"ehlo2", "done"}
        /\ commands' = commands /\ lines' = lines /\ server' = server
    BY <1>6 DEF Handshake, Return, serverVars
  <2>2. StagesAfter(pc') < StagesAfter(pc)
    BY <2>1 DEF StagesAfter
  <2> QED
    BY <1>1, <2>1, <2>2 DEF StageEnds
<1>7. ASSUME NEW ok \in BOOLEAN, NEW n \in 1..MaxLines, NEW j \in 0..MaxLines,
             Answer(ok, n, j)
      PROVE  CommandAnswered
  <2> DEFINE code == IF ok THEN Expected(Head(commands)) ELSE 550
             r == Reply(code, n, j)
  <2>1. /\ commands # <<>> /\ commands' = Tail(commands)
        /\ pc' = pc /\ mode' = mode /\ server' = server
        /\ lines' = lines \o r
    BY <1>7 DEF Answer
  <2>2. commands \in Seq(Commands) /\ lines \in Seq(Line)
    BY <1>1 DEF TypeOK
  <2>3. Head(commands) \in Commands /\ Len(commands) = Len(Tail(commands)) + 1
    BY <2>1, <2>2
  <2>4. code \in Codes
    BY <2>3, ExpectedFacts DEF Codes
  <2>5. n \in Nat \ {0} /\ j \in Nat /\ n <= MaxLines
    BY <1>1
  <2> HIDE DEF code
  <2>6. r \in Seq(Line) /\ Len(r) = n
    BY <2>4, <2>5, ReplyFacts
  <2> HIDE DEF r
  <2>7. Len(lines') = Len(lines) + n
    BY <2>1, <2>2, <2>6, JoinFacts
  <2> QED
    BY <1>1, <2>1, <2>3, <2>5, <2>7 DEF CommandAnswered
<1>8. ASSUME NEW how \in {"silent", "gone"}, GiveUp(how) PROVE ServerLost
  <2>1. /\ pc' = pc /\ mode' = mode /\ commands' = commands
        /\ server = "up" /\ server' # "up"
    BY <1>8 DEF GiveUp
  <2>2. lines' = lines \/ lines' = lines \o Reply(421, 1, 0)
    BY <1>8 DEF GiveUp
  <2>3. PICK r \in Seq(Line) : r = Reply(421, 1, 0) /\ Len(r) = 1
    BY LastReply
  <2>4. lines \in Seq(Line)
    BY <1>1 DEF TypeOK
  <2>5. Len(lines \o r) = Len(lines) + 1
    BY <2>3, <2>4, AppendFacts
  <2>6. Len(lines') <= Len(lines) + 1
    BY <1>1, <2>2, <2>3, <2>5
  <2> QED
    BY <2>1, <2>6 DEF ServerLost
<1> QED
  BY <1>2, <1>3, <1>4, <1>5, <1>6, <1>7, <1>8 DEF Next, Client, MailServer

\* The numbers that what is left is the sum of.
LEMMA LeftTypes ==
    ASSUME TypeOK
    PROVE  /\ MaxLines \in Nat /\ StagesAfter(pc) \in Nat
           /\ SendLeft(mode) \in {0, MaxLines + 2}
           /\ Len(commands) \in Nat /\ Len(lines) \in Nat
           /\ ServerLeft(server) \in {0, 2}
           /\ (MaxLines + 3) * StagesAfter(pc) \in Nat
           /\ (MaxLines + 1) * Len(commands) \in Nat
           /\ DialogueLeft \in Nat
<1>1. MaxLines \in Nat /\ Len(commands) \in Nat /\ Len(lines) \in Nat
  BY SmtpAssumption DEF TypeOK
<1>2. StagesAfter(pc) \in Nat
  BY StageTypes DEF TypeOK
<1>3. SendLeft(mode) \in {0, MaxLines + 2} /\ ServerLeft(server) \in {0, 2}
  BY DEF SendLeft, ServerLeft
<1>4. /\ (MaxLines + 3) * StagesAfter(pc) \in Nat
      /\ (MaxLines + 1) * Len(commands) \in Nat
  BY <1>1, <1>2, Weights
<1> DEFINE p == (MaxLines + 3) * StagesAfter(pc)
           q == (MaxLines + 1) * Len(commands)
<1>5. /\ DialogueLeft
            = p + SendLeft(mode) + q + Len(lines) + ServerLeft(server)
      /\ p \in Nat /\ q \in Nat
  BY <1>4 DEF DialogueLeft
<1> HIDE DEF p, q
<1>6. DialogueLeft \in Nat
  BY <1>1, <1>3, <1>5
<1> QED
  BY <1>1, <1>2, <1>3, <1>4, <1>6, Zenon

\* send_verification_email cannot go on for ever, whatever the server answers,
\* however it cuts its replies and wherever it falls silent: every step of the
\* dialogue leaves less of it, and what is left is a natural number.
THEOREM DialogueShrinks ==
    Spec => [](DialogueLeft \in Nat) /\ [][DialogueLeft' < DialogueLeft]_vars
<1>1. SmtpInv => DialogueLeft \in Nat
  BY LeftTypes DEF SmtpInv
<1>2. SmtpInv /\ SmtpInv' /\ [Next]_vars => [DialogueLeft' < DialogueLeft]_vars
  <2> SUFFICES ASSUME SmtpInv, SmtpInv', Next
               PROVE  DialogueLeft' < DialogueLeft
    OBVIOUS
  <2> DEFINE s == StagesAfter(pc)
             t == StagesAfter(pc')
             c == Len(commands)
             d == Len(commands')
             P == (MaxLines + 3) * s
             Q == (MaxLines + 3) * t
             R == (MaxLines + 1) * c
             T == (MaxLines + 1) * d
             x == SendLeft(mode)
             y == SendLeft(mode')
             u == ServerLeft(server)
             v == ServerLeft(server')
             l == Len(lines)
             m == Len(lines')
  <2>1. /\ MaxLines \in Nat /\ s \in Nat /\ c \in Nat /\ l \in Nat
        /\ P \in Nat /\ R \in Nat
        /\ x \in {0, MaxLines + 2} /\ u \in {0, 2}
    BY LeftTypes DEF SmtpInv
  <2>2. /\ t \in Nat /\ d \in Nat /\ m \in Nat /\ Q \in Nat /\ T \in Nat
        /\ y \in {0, MaxLines + 2} /\ v \in {0, 2}
    <3>1. TypeOK'
      BY DEF SmtpInv
    <3>2. t \in Nat
      BY <3>1, StageTypes DEF TypeOK
    <3>3. d \in Nat /\ m \in Nat
      BY <3>1 DEF TypeOK
    <3>4. y \in {0, MaxLines + 2} /\ v \in {0, 2}
      BY DEF SendLeft, ServerLeft
    <3> HIDE DEF t, d
    <3>5. Q \in Nat /\ T \in Nat
      BY <2>1, <3>2, <3>3, Weights
    <3> QED
      BY <3>2, <3>3, <3>4, <3>5
  <2>3. DialogueLeft = P + x + R + l + u /\ DialogueLeft' = Q + y + T + m + v
    BY DEF DialogueLeft
  <2>4. /\ mode = "send" => x = MaxLines + 2
        /\ mode' = "read" => y = 0
        /\ mode' = mode => y = x
        /\ server' = server => v = u
        /\ server = "up" => u = 2
        /\ server' # "up" => v = 0
        /\ pc' = pc => Q = P
        /\ commands' = commands => T = R
    BY DEF SendLeft, ServerLeft
  <2>5. /\ t < s => Q + (MaxLines + 3) <= P
        /\ d = c + 1 => T = R + (MaxLines + 1)
        /\ c = d + 1 => R = T + (MaxLines + 1)
        /\ d = c => T = R
    <3> HIDE DEF t, s, c, d
    <3> QED
      BY <2>1, <2>2, Weights
  <2>6. \/ t < s /\ (T = R \/ (mode = "send" /\ mode' = "read" /\ d = c + 1))
             /\ m <= l /\ server' = server
        \/ pc' = pc /\ mode = "send" /\ mode' = "read" /\ d \in {c, c + 1}
             /\ m = l /\ server' = server
        \/ pc' = pc /\ mode' = mode /\ commands' = commands /\ m < l
             /\ server' = server
        \/ pc' = pc /\ mode' = mode /\ c = d + 1 /\ m <= l + MaxLines
             /\ server' = server
        \/ pc' = pc /\ mode' = mode /\ commands' = commands /\ m <= l + 1
             /\ server = "up" /\ server' # "up"
    BY StepsEnd
    DEF StageEnds, CommandSent, LinesRead, CommandAnswered, ServerLost
  <2> HIDE DEF s, t, c, d, P, Q, R, T, x, y, u, v, l, m
  <2> QED
    BY <2>1, <2>2, <2>3, <2>4, <2>5, <2>6
<1> QED
  BY <1>1, <1>2, InitSmtp, StepSmtp, PTL DEF Spec
=============================================================================
