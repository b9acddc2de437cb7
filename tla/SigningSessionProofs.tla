------------------------ MODULE SigningSessionProofs ------------------------
(***************************************************************************)
(* Proofs about SigningSession, for any slots, shards, directories and     *)
(* bounds.                                                                 *)
(***************************************************************************)
EXTENDS SigningSession, TLAPS

USE DEF ALICE, BOB, Party

\* There is an input to start from: the sets of arguments are not empty.
LEMMA AnyInputIsInput == AnyInput \in Input
<1>1. Shards # {} /\ Epochs # {} /\ PassFiles # {}
  BY ConstantsAssumption
<1>2. PICK a \in Shards, b \in PassFiles, c \in Epochs : TRUE
  BY <1>1
<1>3. [shard |-> a, pass |-> b, epoch |-> c] \in Input
  BY <1>2 DEF Input
<1> QED
  BY <1>3 DEF AnyInput

\* A process goes where Goto takes it, and no other process moves.
LEMMA GotoFacts ==
    ASSUME TypeOK, NEW s \in Slots, NEW p \in Party,
           NEW from, NEW to, Goto(s, p, from, to)
    PROVE  /\ pc[s][p] = from /\ pc'[s][p] = to
           /\ \A t \in Slots, q \in Party :
                 t # s \/ q # p => pc'[t][q] = pc[t][q]
           /\ to \in Phase => pc' \in [Slots -> [Party -> Phase]]
BY DEF Goto, TypeOK

\* A process that ends forgets its copy and moves to idle.
LEMMA ExitFacts ==
    ASSUME TypeOK, NEW s \in Slots, NEW p \in Party, Exit(s, p)
    PROVE  /\ pc'[s][p] = "idle"
           /\ \A t \in Slots, q \in Party :
                 t # s \/ q # p => /\ pc'[t][q] = pc[t][q]
                                  /\ mem'[t][q] = mem[t][q]
BY DEF Exit, TypeOK

\* What a party sends on its connection is a message.
LEMMA SendType ==
    ASSUME TypeOK, NEW s \in Slots, NEW p \in Party,
           NEW tags, Send(s, p, tags),
           \A g \in tags : g \in {"epoch", "setup", "reveal", "final"}
    PROVE  wire' \in [Slots -> SUBSET Message]
<1>1. {p} \X tags \subseteq Message
  BY DEF Message
<1> QED
  BY <1>1 DEF Send, TypeOK

\* The type invariant holds: every action of the session keeps each variable
\* in its range, the bounds on launches and crashes included.
THEOREM TypeCorrect == Spec => []TypeOK
<1>1. Init => TypeOK
  <2> SUFFICES ASSUME Init PROVE TypeOK
    OBVIOUS
  <2>1. /\ AnyInput \in Input /\ AnyInput.epoch \in Epochs
        /\ Sha[AnyInput.shard] \in Nullifiers
    BY AnyInputIsInput, ConstantsAssumption DEF Input
  <2> QED
    BY <2>1, ConstantsAssumption DEF Init, TypeOK, Phase, Verdict
<1>2. TypeOK /\ [Next]_vars => TypeOK'
  <2> SUFFICES ASSUME TypeOK, [Next]_vars PROVE TypeOK'
    OBVIOUS
  <2>g. ASSUME NEW s \in Slots, NEW p \in Party,
               NEW from \in Phase, NEW to \in Phase, Goto(s, p, from, to)
        PROVE  pc' \in [Slots -> [Party -> Phase]]
    BY <2>g, GotoFacts
  <2> USE DEF TypeOK
  <2>1. CASE UNCHANGED vars
    BY <2>1 DEF vars
  <2>2. ASSUME NEW s \in Slots, Connect(s) PROVE TypeOK'
    BY <2>2 DEF Connect, Phase, Verdict
  <2>a. ASSUME NEW s \in Slots, NEW p \in Party, Exit(s, p),
               crashes' \in 0..MaxCrashes
        PROVE TypeOK'
    BY <2>a, AnyInputIsInput DEF Exit, Phase
  <2>3. ASSUME NEW s \in Slots, NEW p \in Party,
               Stopped(s, p) \/ Crash(s, p)
        PROVE TypeOK'
    BY <2>3, <2>a, ConstantsAssumption DEF Stopped, Crash
  <2>4. ASSUME NEW s \in Slots, NEW p \in Party, NEW i \in Input,
               Launch(s, p, i)
        PROVE TypeOK'
    BY <2>4, ConstantsAssumption DEF Launch, Goto, Phase
  <2>5. ASSUME NEW s \in Slots, NEW p \in Party, Step(s, p) PROVE TypeOK'
    <3>1. CASE LoadDatabase(s, p)
      BY <3>1, ConstantsAssumption DEF LoadDatabase, Goto, Phase
    <3>2. CASE EpochSync(s, p)
      <4>1. wire' \in [Slots -> SUBSET Message]
        <5>1. Send(s, p, {"epoch", "setup"}) \/ Send(s, p, {"setup"})
          BY <3>2 DEF EpochSync
        <5>2. CASE Send(s, p, {"epoch", "setup"})
          BY <5>2, SendType
        <5>3. CASE Send(s, p, {"setup"})
          BY <5>3, SendType
        <5> QED
          BY <5>1, <5>2, <5>3
      <4>2. request' \in [Slots -> Epochs]
        <5>1. input[s][ALICE].epoch \in Epochs
          BY DEF Input
        <5>2. \/ request' = request
              \/ request' = [request EXCEPT ![s] = input[s][ALICE].epoch]
          BY <3>2 DEF EpochSync
        <5> QED
          BY <5>1, <5>2
      <4> QED
        BY <3>2, <2>g, <4>1, <4>2 DEF EpochSync, Phase
    <3>3. CASE SetupZK(s, p) \/ Gate(s, p) \/ Shutdown(s, p)
      BY <3>3, <2>g DEF SetupZK, Gate, Shutdown, Phase
    <3>4. CASE EvaluateThrows(s, p)
      <4>1. missed' \in SUBSET Nullifiers
        BY <3>4 DEF EvaluateThrows
      <4>2. pc' \in [Slots -> [Party -> Phase]]
        BY <3>4, <2>g DEF EvaluateThrows, Phase
      <4>3. verdict' \in [Slots -> [Party -> Verdict]]
        BY <3>4 DEF EvaluateThrows, Verdict
      <4> QED
        BY <3>4, <4>1, <4>2, <4>3 DEF EvaluateThrows
    <3>5. CASE Evaluate(s, p)
      <4>1. Sha[input[s][ALICE].shard] \in Nullifiers
        BY ConstantsAssumption DEF Input
      <4>2. wire' \in [Slots -> SUBSET Message]
        BY <3>5, SendType DEF Evaluate
      <4>3. pc' \in [Slots -> [Party -> Phase]]
        BY <3>5, <2>g DEF Evaluate, Phase
      <4>4. revealed' \in [Slots -> Nullifiers]
        BY <3>5, <4>1 DEF Evaluate
      <4> QED
        BY <3>5, <4>2, <4>3, <4>4 DEF Evaluate
    <3>6. CASE p = BOB /\ Reveal(s)
      BY <3>6, <2>g DEF Reveal, Phase
    <3>7. CASE CheckNullifier(s, p)
      <4>1. wire' \in [Slots -> SUBSET Message]
        BY <3>7, SendType DEF CheckNullifier, Decide
      <4>2. revealed[s] \in Nullifiers /\ Dir[p] \in Dirs
        BY ConstantsAssumption
      <4>3. /\ verdict' \in [Slots -> [Party -> Verdict]]
            /\ missed' \in SUBSET Nullifiers
        BY <3>7, <4>2 DEF CheckNullifier, Decide, Verdict
      <4>4. /\ mem' \in [Slots -> [Party -> SUBSET Nullifiers]]
            /\ file' \in [Dirs -> SUBSET Nullifiers]
        <5>1. CASE UNCHANGED <<mem, file>>
          BY <5>1
        <5>2. CASE
              /\ mem' = [mem EXCEPT ![s][p] = @ \cup {revealed[s]}]
              /\ file' = [file EXCEPT ![Dir[p]] = @ \cup {revealed[s]}]
          BY <5>2, <4>2
        <5> QED
          BY <3>7, <5>1, <5>2 DEF CheckNullifier
      <4> QED
        BY <3>7, <2>g, <4>1, <4>3, <4>4 DEF CheckNullifier, Decide, Phase
    <3>8. ASSUME NEW c \in BOOLEAN, Finalize(s, p, c) PROVE TypeOK'
      <4>1. pc' \in [Slots -> [Party -> Phase]]
        BY <3>8, <2>g DEF Finalize, Phase
      <4>2. verdict' \in [Slots -> [Party -> Verdict]]
        <5>1. CASE verdict' = verdict
          BY <5>1
        <5>2. CASE verdict' = [verdict EXCEPT ![s][p] = "cheated"]
          BY <5>2 DEF Verdict
        <5> QED
          BY <3>8, <5>1, <5>2 DEF Finalize
      <4>3. unsent' \in SUBSET Nullifiers
        BY <3>8 DEF Finalize
      <4> QED
        BY <3>8, <4>1, <4>2, <4>3 DEF Finalize
    <3>9. ASSUME NEW b \in BOOLEAN, SendEmail(s, b) PROVE TypeOK'
      <4>1. pc' \in [Slots -> [Party -> Phase]]
        BY <3>9, <2>g DEF SendEmail, Phase
      <4>2. unsent' \in SUBSET Nullifiers
        BY <3>9 DEF SendEmail
      <4>3. emails' \in [Nullifiers -> Nat]
        <5>1. CASE emails' = emails
          BY <5>1
        <5>2. CASE emails' = [emails EXCEPT ![revealed[s]] = @ + 1]
          BY <5>2
        <5> QED
          BY <3>9, <5>1, <5>2 DEF SendEmail
      <4> QED
        BY <3>9, <4>1, <4>2, <4>3 DEF SendEmail
    <3>10. CASE NetError(s, p)
      BY <3>10, <2>a DEF NetError
    <3> QED
      BY <2>5, <3>1, <3>2, <3>3, <3>4, <3>5, <3>6, <3>7, <3>8, <3>9, <3>10
         DEF Step
  <2> QED
    BY <2>1, <2>2, <2>3, <2>4, <2>5 DEF Next
<1> QED
  BY <1>1, <1>2, PTL DEF Spec

-----------------------------------------------------------------------------
\* The nullifier check, the only step that writes a file, appends to it.
LEMMA CheckGrows ==
    ASSUME TypeOK, NEW s \in Slots, NEW p \in Party, CheckNullifier(s, p)
    PROVE  \A d \in Dirs : file[d] \subseteq file'[d]
<1>1. CASE UNCHANGED file
  BY <1>1
<1>2. CASE file' = [file EXCEPT ![Dir[p]] = @ \cup {revealed[s]}]
  BY <1>2 DEF TypeOK
<1> QED
  BY <1>1, <1>2 DEF CheckNullifier

-----------------------------------------------------------------------------
(* What an e-mail rests on.  Neither part is inductive alone.              *)

\* ALICE past an accepting check has the nullifier on disk; she is at the
\* e-mail only after such a check.
AcceptedIsPersisted ==
    \A s \in Slots :
        /\ pc[s][ALICE] = "email" => verdict[s][ALICE] = "accepted"
        /\ /\ pc[s][ALICE] \in {"finalize", "email"}
           /\ verdict[s][ALICE] = "accepted"
           => revealed[s] \in file[Dir[ALICE]]

PersistInv == TypeOK /\ EmailedIsPersisted /\ AcceptedIsPersisted

\* An action that leaves ALICE's part of the state alone, or only lets the
\* files grow, keeps the invariant.
LEMMA PersistFrame ==
    ASSUME PersistInv, TypeOK',
           UNCHANGED <<emails, revealed>>,
           file[Dir[ALICE]] \subseteq file'[Dir[ALICE]],
           \A s \in Slots :
              \/ pc'[s][ALICE] \notin {"finalize", "email"}
              \/ /\ pc'[s][ALICE] = pc[s][ALICE]
                 /\ verdict'[s][ALICE] = verdict[s][ALICE]
    PROVE  PersistInv'
<1>1. EmailedIsPersisted'
  BY DEF PersistInv, EmailedIsPersisted
<1>2. AcceptedIsPersisted'
  BY DEF PersistInv, AcceptedIsPersisted
<1> QED
  BY <1>1, <1>2 DEF PersistInv

\* Every step keeps the invariant behind EmailsPersisted: what ALICE accepted
\* is on disk from execute_mpc_logic's save until main's e-mail.
LEMMA PersistStep == PersistInv /\ [Next]_vars /\ TypeOK' => PersistInv'
<1> SUFFICES ASSUME PersistInv, [Next]_vars, TypeOK' PROVE PersistInv'
  OBVIOUS
<1> USE DEF PersistInv
<1>a. Dir[ALICE] \in Dirs
  BY ConstantsAssumption
<1>1. CASE UNCHANGED vars
  BY <1>1, PersistFrame DEF vars
<1>b. ASSUME NEW s \in Slots, NEW p \in Party, Exit(s, p) PROVE PersistInv'
  BY <1>b, PersistFrame DEF Exit, TypeOK
<1>2. ASSUME NEW s \in Slots, Connect(s) PROVE PersistInv'
  BY <1>2, PersistFrame DEF Connect, TypeOK
<1>3. ASSUME NEW s \in Slots, NEW p \in Party, Stopped(s, p) \/ Crash(s, p)
      PROVE PersistInv'
  BY <1>3, <1>b DEF Stopped, Crash
<1>4. ASSUME NEW s \in Slots, NEW p \in Party, NEW i \in Input,
             Launch(s, p, i)
      PROVE PersistInv'
  BY <1>4, PersistFrame DEF Launch, Goto, TypeOK
<1>5. ASSUME NEW s \in Slots, NEW p \in Party, Step(s, p) PROVE PersistInv'
  <2>1. CASE LoadDatabase(s, p)
    BY <2>1, PersistFrame DEF LoadDatabase, Goto, TypeOK
  <2>2. CASE EpochSync(s, p) \/ SetupZK(s, p) \/ Gate(s, p)
    <3>1. pc'[s][p] \notin {"finalize", "email"}
      BY <2>2, GotoFacts DEF EpochSync, SetupZK, Gate
    <3>2. \A t \in Slots, q \in Party : t # s \/ q # p => pc'[t][q] = pc[t][q]
      BY <2>2, GotoFacts DEF EpochSync, SetupZK, Gate
    <3> QED
      BY <2>2, <3>1, <3>2, PersistFrame DEF EpochSync, SetupZK, Gate
  <2>3. CASE EvaluateThrows(s, p)
    BY <2>3, PersistFrame DEF EvaluateThrows, Goto, TypeOK
  <2>4. CASE Evaluate(s, p)
    <3>1. EmailedIsPersisted'
      BY <2>4 DEF Evaluate, EmailedIsPersisted
    <3>2. /\ UNCHANGED <<file, verdict>>
          /\ pc'[s][p] \in {"check", "reveal"}
          /\ \A t \in Slots, q \in Party :
                t # s \/ q # p => pc'[t][q] = pc[t][q]
          /\ \A t \in Slots : t # s \/ p # ALICE => revealed'[t] = revealed[t]
      BY <2>4, GotoFacts DEF Evaluate, TypeOK
    <3>3. \A t \in Slots :
             pc'[t][ALICE] \in {"finalize", "email"}
               => pc'[t][ALICE] = pc[t][ALICE] /\ revealed'[t] = revealed[t]
      BY <3>2 DEF Party
    <3>4. AcceptedIsPersisted'
      BY <3>2, <3>3 DEF AcceptedIsPersisted
    <3> QED
      BY <3>1, <3>4
  <2>5. CASE p = BOB /\ Reveal(s)
    BY <2>5, PersistFrame DEF Reveal, Goto, TypeOK
  <2>6. CASE CheckNullifier(s, p)
    <3>1. file[Dir[ALICE]] \subseteq file'[Dir[ALICE]]
      BY <2>6, <1>a, CheckGrows
    <3>2. EmailedIsPersisted'
      BY <2>6, <3>1 DEF CheckNullifier, Decide, EmailedIsPersisted
    <3>3. AcceptedIsPersisted'
      <4>1. ASSUME NEW t \in Slots, pc'[t][ALICE] \in {"finalize", "email"},
                   verdict'[t][ALICE] = "accepted"
            PROVE  revealed'[t] \in file'[Dir[ALICE]]
        <5>1. CASE t = s /\ p = ALICE
          BY <2>6, <4>1, <5>1, <1>a DEF CheckNullifier, Decide, Known, TypeOK
        <5>2. CASE ~(t = s /\ p = ALICE)
          <6>1. /\ pc'[t][ALICE] = pc[t][ALICE]
                /\ verdict'[t][ALICE] = verdict[t][ALICE]
                /\ revealed'[t] = revealed[t]
            BY <2>6, <5>2 DEF CheckNullifier, Decide, Goto, TypeOK
          <6> QED
            BY <4>1, <6>1, <3>1 DEF AcceptedIsPersisted
        <5> QED
          BY <5>1, <5>2
      <4>2. ASSUME NEW t \in Slots, pc'[t][ALICE] = "email"
            PROVE  verdict'[t][ALICE] = "accepted"
        BY <2>6, <4>2 DEF CheckNullifier, Decide, Goto, AcceptedIsPersisted,
                        TypeOK
      <4> QED
        BY <4>1, <4>2 DEF AcceptedIsPersisted
    <3> QED
      BY <3>2, <3>3
  <2>7. ASSUME NEW c \in BOOLEAN, Finalize(s, p, c) PROVE PersistInv'
    <3>1. EmailedIsPersisted'
      BY <2>7 DEF Finalize, EmailedIsPersisted
    <3>2. AcceptedIsPersisted'
      BY <2>7 DEF Finalize, Goto, AcceptedIsPersisted, TypeOK
    <3> QED
      BY <3>1, <3>2
  <2>8. ASSUME NEW b \in BOOLEAN, SendEmail(s, b) PROVE PersistInv'
    <3>1. revealed[s] \in file[Dir[ALICE]]
      BY <2>8 DEF SendEmail, Goto, AcceptedIsPersisted
    <3>2. EmailedIsPersisted'
      BY <2>8, <3>1 DEF SendEmail, EmailedIsPersisted, TypeOK
    <3>3. AcceptedIsPersisted'
      BY <2>8 DEF SendEmail, Goto, AcceptedIsPersisted, TypeOK
    <3> QED
      BY <3>2, <3>3
  <2>9. CASE Shutdown(s, p)
    BY <2>9, PersistFrame DEF Shutdown, Goto, TypeOK
  <2>10. CASE NetError(s, p)
    BY <2>10, <1>b DEF NetError
  <2> QED
    BY <1>5, <2>1, <2>2, <2>3, <2>4, <2>5, <2>6, <2>7, <2>8, <2>9, <2>10
       DEF Step
<1> QED
  BY <1>1, <1>2, <1>3, <1>4, <1>5 DEF Next

\* That invariant holds throughout.
LEMMA PersistInvariant == Spec => []PersistInv
<1>1. Init /\ TypeOK => PersistInv
  BY DEF Init, PersistInv, EmailedIsPersisted, AcceptedIsPersisted
<1> QED
  BY <1>1, PersistStep, TypeCorrect, PTL DEF Spec

\* Whatever overlaps and crashes, an e-mailed nullifier is on disk: main sends
\* the e-mail only after execute_mpc_logic has saved the nullifier.
THEOREM EmailsPersisted == Spec => []EmailedIsPersisted
BY PersistInvariant, PTL DEF PersistInv

-----------------------------------------------------------------------------
(* At most one e-mail, when no party runs two processes at a time.         *)

\* The rule of operation: one ALICE at a time.
OneAlice ==
    \A s, t \in Slots :
        pc[s][ALICE] # "idle" /\ pc[t][ALICE] # "idle" => s = t

\* Where ALICE holds a copy that she has not checked yet.
LoadedAlice == {"loaded", "epoch", "setup", "gate", "evaluate", "check"}

\* The copy loaded at start-up still knows every e-mailed nullifier when it
\* is checked.
CopyKnowsMailed ==
    \A s \in Slots, n \in Nullifiers :
        /\ pc[s][ALICE] \in LoadedAlice
        /\ emails[n] > 0
        => n \in mem[s][ALICE]

\* A nullifier that was accepted and is not yet e-mailed never was.
AcceptedIsUnmailed ==
    \A s \in Slots :
        /\ pc[s][ALICE] \in {"finalize", "email"}
        /\ verdict[s][ALICE] = "accepted"
        => emails[revealed[s]] = 0

SerialInv == /\ PersistInv
             /\ OneAlice
             /\ CopyKnowsMailed
             /\ AcceptedIsUnmailed
             /\ AtMostOneEmail

\* Steps that send no e-mail and take no ALICE into or past the check.
LEMMA SerialFrame ==
    ASSUME SerialInv, PersistInv',
           UNCHANGED <<emails, revealed>>,
           \A s \in Slots :
              \/ pc'[s][ALICE] = "idle"
              \/ /\ pc'[s][ALICE] \in {"shutdown", "stopping"}
                 /\ pc[s][ALICE] # "idle"
              \/ /\ pc'[s][ALICE] \in LoadedAlice
                 /\ pc[s][ALICE] \in LoadedAlice
                 /\ mem'[s][ALICE] = mem[s][ALICE]
              \/ /\ pc'[s][ALICE] = pc[s][ALICE]
                 /\ verdict'[s][ALICE] = verdict[s][ALICE]
                 /\ mem'[s][ALICE] = mem[s][ALICE]
    PROVE  SerialInv'
<1>1. OneAlice'
  BY DEF SerialInv, OneAlice, LoadedAlice
<1>2. CopyKnowsMailed'
  BY DEF SerialInv, CopyKnowsMailed, LoadedAlice
<1>3. AcceptedIsUnmailed'
  BY DEF SerialInv, AcceptedIsUnmailed, LoadedAlice
<1>4. AtMostOneEmail'
  BY DEF SerialInv, AtMostOneEmail
<1> QED
  BY <1>1, <1>2, <1>3, <1>4 DEF SerialInv

\* Every step of sessions that do not overlap keeps the invariant behind
\* OneEmailPerNullifier: the copy ALICE loaded knows every e-mailed nullifier.
LEMMA SerialStep ==
    ASSUME ~Overlap
    PROVE  SerialInv /\ [Next]_vars /\ PersistInv' => SerialInv'
<1> SUFFICES ASSUME SerialInv, [Next]_vars, PersistInv' PROVE SerialInv'
  OBVIOUS
<1>t. TypeOK
  BY DEF SerialInv, PersistInv
<1>1. CASE UNCHANGED vars
  BY <1>1, SerialFrame DEF vars
<1>e. ASSUME NEW s \in Slots, NEW p \in Party, Exit(s, p) PROVE SerialInv'
  BY <1>e, <1>t, SerialFrame DEF Exit, TypeOK
<1>2. ASSUME NEW s \in Slots, Connect(s) PROVE SerialInv'
  BY <1>2, <1>t, SerialFrame DEF Connect, LoadedAlice, TypeOK
<1>3. ASSUME NEW s \in Slots, NEW p \in Party, Stopped(s, p) \/ Crash(s, p)
      PROVE SerialInv'
  BY <1>3, <1>e DEF Stopped, Crash
<1>4. ASSUME NEW s \in Slots, NEW p \in Party, NEW i \in Input,
             Launch(s, p, i)
      PROVE SerialInv'
  <2>1. CASE p = BOB
    BY <1>4, <2>1, <1>t, SerialFrame DEF Launch, Goto, TypeOK
  <2>2. CASE p = ALICE
    <3>1. \A t \in Slots : pc[t][ALICE] = "idle"
      BY <1>4, <2>2 DEF Launch
    <3>2. \A t \in Slots : t # s => pc'[t][ALICE] = "idle"
      BY <1>4, <2>2, <3>1, <1>t DEF Launch, Goto, TypeOK
    <3>3. pc'[s][ALICE] = "init" /\ emails' = emails
      BY <1>4, <2>2, <1>t DEF Launch, Goto, TypeOK
    <3>4. OneAlice'
      BY <3>2 DEF OneAlice
    <3>5. CopyKnowsMailed' /\ AcceptedIsUnmailed'
      BY <3>2, <3>3 DEF CopyKnowsMailed, AcceptedIsUnmailed, LoadedAlice
    <3>6. AtMostOneEmail'
      BY <3>3 DEF SerialInv, AtMostOneEmail
    <3> QED
      BY <3>4, <3>5, <3>6 DEF SerialInv
  <2> QED
    BY <2>1, <2>2
<1>5. ASSUME NEW s \in Slots, NEW p \in Party, Step(s, p) PROVE SerialInv'
  <2>1. CASE LoadDatabase(s, p)
    <3>1. CASE p = BOB
      BY <2>1, <3>1, <1>t, SerialFrame DEF LoadDatabase, Goto, TypeOK
    <3>2. CASE p = ALICE
      <4>1. mem'[s][ALICE] = file[Dir[ALICE]] /\ emails' = emails
        BY <2>1, <3>2, <1>t DEF LoadDatabase, TypeOK
      <4>2. \A t \in Slots : t # s => /\ pc'[t][ALICE] = pc[t][ALICE]
                                      /\ mem'[t][ALICE] = mem[t][ALICE]
        BY <2>1, <1>t DEF LoadDatabase, Goto, TypeOK
      <4>3. pc[s][ALICE] = "init" /\ pc'[s][ALICE] = "loaded"
        BY <2>1, <3>2, <1>t DEF LoadDatabase, Goto, TypeOK
      <4>4. OneAlice'
        BY <4>2, <4>3 DEF SerialInv, OneAlice
      <4>5. CopyKnowsMailed'
        BY <4>1, <4>2
           DEF SerialInv, PersistInv, EmailedIsPersisted, CopyKnowsMailed,
               LoadedAlice
      <4>6. AcceptedIsUnmailed'
        BY <2>1, <4>2, <4>3
           DEF LoadDatabase, SerialInv, AcceptedIsUnmailed
      <4>7. AtMostOneEmail'
        BY <4>1 DEF SerialInv, AtMostOneEmail
      <4> QED
        BY <4>4, <4>5, <4>6, <4>7 DEF SerialInv
    <3> QED
      BY <3>1, <3>2
  <2>2. CASE EpochSync(s, p) \/ SetupZK(s, p) \/ Gate(s, p)
    <3>1. /\ pc[s][p] \in LoadedAlice /\ pc'[s][p] \in LoadedAlice
          /\ \A t \in Slots, q \in Party :
                t # s \/ q # p => pc'[t][q] = pc[t][q]
      BY <2>2, <1>t, GotoFacts DEF EpochSync, SetupZK, Gate, LoadedAlice
    <3> QED
      BY <2>2, <3>1, SerialFrame DEF EpochSync, SetupZK, Gate
  <2>3. CASE EvaluateThrows(s, p)
    BY <2>3, <1>t, SerialFrame DEF EvaluateThrows, Goto, TypeOK
  <2>4. CASE Evaluate(s, p)
    <3>1. /\ pc[s][p] = "evaluate" /\ pc'[s][p] \in {"check", "reveal"}
          /\ p = ALICE => pc'[s][p] = "check"
          /\ \A t \in Slots, q \in Party :
                t # s \/ q # p => pc'[t][q] = pc[t][q]
      BY <2>4, <1>t, GotoFacts DEF Evaluate
    <3>2. /\ UNCHANGED <<emails, mem, verdict>>
          /\ \A t \in Slots : t # s \/ p # ALICE => revealed'[t] = revealed[t]
      BY <2>4, <1>t DEF Evaluate, TypeOK
    <3>3. OneAlice'
      BY <3>1 DEF SerialInv, OneAlice
    <3>4. CopyKnowsMailed'
      BY <3>1, <3>2 DEF SerialInv, CopyKnowsMailed, LoadedAlice
    <3>5. AcceptedIsUnmailed'
      BY <3>1, <3>2 DEF SerialInv, AcceptedIsUnmailed
    <3>6. AtMostOneEmail'
      BY <3>2 DEF SerialInv, AtMostOneEmail
    <3> QED
      BY <3>3, <3>4, <3>5, <3>6 DEF SerialInv
  <2>5. CASE p = BOB /\ Reveal(s)
    BY <2>5, <1>t, SerialFrame DEF Reveal, Goto, TypeOK
  <2>6. CASE CheckNullifier(s, p)
    <3>1. CASE p = BOB
      <4>1. \A t \in Slots : /\ pc'[t][ALICE] = pc[t][ALICE]
                             /\ verdict'[t][ALICE] = verdict[t][ALICE]
                             /\ mem'[t][ALICE] = mem[t][ALICE]
        BY <2>6, <3>1, <1>t DEF CheckNullifier, Decide, Goto, TypeOK
      <4> QED
        BY <2>6, <4>1, SerialFrame DEF CheckNullifier, Decide
    <3>2. CASE p = ALICE
      <4>1. /\ pc[s][ALICE] = "check"
            /\ pc'[s][ALICE] = "finalize"
            /\ UNCHANGED <<emails, revealed>>
        BY <2>6, <3>2, <1>t DEF CheckNullifier, Decide, Goto, TypeOK
      <4>2. \A t \in Slots : t # s => pc[t][ALICE] = "idle"
        BY <4>1 DEF SerialInv, OneAlice
      <4>3. \A t \in Slots : t # s => pc'[t][ALICE] = "idle"
        BY <2>6, <4>2, <1>t DEF CheckNullifier, Decide, Goto, TypeOK
      <4>4. verdict'[s][ALICE] = "accepted" => revealed[s] \notin mem[s][ALICE]
        BY <2>6, <3>2, <1>t DEF CheckNullifier, Decide, Known, TypeOK
      <4>5. revealed[s] \notin mem[s][ALICE] => emails[revealed[s]] = 0
        BY <4>1, <1>t DEF SerialInv, CopyKnowsMailed, LoadedAlice, TypeOK
      <4>6. OneAlice' /\ CopyKnowsMailed'
        BY <4>1, <4>3 DEF OneAlice, CopyKnowsMailed, LoadedAlice
      <4>7. AcceptedIsUnmailed'
        BY <4>1, <4>3, <4>4, <4>5 DEF AcceptedIsUnmailed
      <4>8. AtMostOneEmail'
        BY <4>1 DEF SerialInv, AtMostOneEmail
      <4> QED
        BY <4>6, <4>7, <4>8 DEF SerialInv
    <3> QED
      BY <3>1, <3>2
  <2>7. ASSUME NEW c \in BOOLEAN, Finalize(s, p, c) PROVE SerialInv'
    <3>1. OneAlice'
      BY <2>7, <1>t DEF Finalize, Goto, SerialInv, OneAlice, TypeOK
    <3>2. CopyKnowsMailed'
      BY <2>7, <1>t DEF Finalize, Goto, SerialInv, CopyKnowsMailed,
                         LoadedAlice, TypeOK
    <3>3. AcceptedIsUnmailed'
      BY <2>7, <1>t DEF Finalize, Goto, SerialInv, AcceptedIsUnmailed, TypeOK
    <3>4. AtMostOneEmail'
      BY <2>7 DEF Finalize, SerialInv, AtMostOneEmail
    <3> QED
      BY <3>1, <3>2, <3>3, <3>4 DEF SerialInv
  <2>8. ASSUME NEW b \in BOOLEAN, SendEmail(s, b) PROVE SerialInv'
    <3>1. pc[s][ALICE] = "email" /\ pc'[s][ALICE] = "shutdown"
      BY <2>8, <1>t DEF SendEmail, Goto, TypeOK
    <3>2. \A t \in Slots : t # s => pc[t][ALICE] = "idle"
      BY <3>1 DEF SerialInv, OneAlice
    <3>3. \A t \in Slots : t # s => pc'[t][ALICE] = "idle"
      BY <2>8, <3>2, <1>t DEF SendEmail, Goto, TypeOK
    <3>4. emails[revealed[s]] = 0
      BY <3>1 DEF SerialInv, PersistInv, AcceptedIsPersisted, AcceptedIsUnmailed
    <3>5. OneAlice' /\ CopyKnowsMailed' /\ AcceptedIsUnmailed'
      BY <3>1, <3>3 DEF OneAlice, CopyKnowsMailed, AcceptedIsUnmailed,
                          LoadedAlice
    <3>6. AtMostOneEmail'
      <4>1. /\ emails' \in [Nullifiers -> Nat]
            /\ \A n \in Nullifiers : emails'[n] = emails[n] \/ emails'[n] = 1
        BY <2>8, <3>4, <1>t DEF SendEmail, TypeOK
      <4> QED
        BY <4>1 DEF SerialInv, AtMostOneEmail
    <3> QED
      BY <3>5, <3>6 DEF SerialInv
  <2>9. CASE Shutdown(s, p)
    BY <2>9, <1>t, SerialFrame DEF Shutdown, Goto, TypeOK
  <2>10. CASE NetError(s, p)
    BY <2>10, <1>e DEF NetError
  <2> QED
    BY <1>5, <2>1, <2>2, <2>3, <2>4, <2>5, <2>6, <2>7, <2>8, <2>9, <2>10
       DEF Step
<1> QED
  BY <1>1, <1>2, <1>3, <1>4, <1>5 DEF Next

\* That invariant holds throughout.
LEMMA SerialInvariant ==
    ASSUME ~Overlap
    PROVE  Spec => []SerialInv
<1>1. Init /\ PersistInv => SerialInv
  BY DEF Init, SerialInv, OneAlice, CopyKnowsMailed, AcceptedIsUnmailed,
         AtMostOneEmail, LoadedAlice
<1>2. SerialInv /\ [Next]_vars /\ PersistInv' => SerialInv'
  BY SerialStep
<1> QED
  BY <1>1, <1>2, PersistInvariant, PTL DEF Spec

\* With one process per party at a time, crashes and restarts included, no
\* nullifier is e-mailed twice: the copy of the database that ALICE checks
\* was read after the previous ALICE ended.
THEOREM OneEmailPerNullifier ==
    ASSUME ~Overlap
    PROVE  Spec => []AtMostOneEmail
BY SerialInvariant, PTL DEF SerialInv

-----------------------------------------------------------------------------
(* The parties agree, and what is saved is e-mailed, as long as nobody      *)
(* crashed.                                                                 *)

\* The rule of operation, for both parties.
OneEach ==
    \A p \in Party : \A s, t \in Slots :
        pc[s][p] # "idle" /\ pc[t][p] # "idle" => s = t

\* The copy in memory is the party's file, from its loading to the end.
CopyIsFile ==
    \A s \in Slots, p \in Party :
        pc[s][p] \notin {"idle", "init"} => mem[s][p] = file[Dir[p]]

Checked == {"accepted", "rejected", "cheated"}

Before == {"epoch", "setup", "gate", "evaluate"}

Undecided == {"epoch", "setup", "gate", "evaluate", "reveal", "check"}

Tag == {"epoch", "setup", "reveal", "final"}

\* What a party has sent on the slot's connection.
Sent(s, p, tag) == <<p, tag>> \in wire[s]

\* The tags on the wire belong to the connection: until it checks, a party has
\* no verdict and has sent no final, until she has evaluated the circuits,
\* ALICE has sent no reveal; nobody checks before that.
Tags ==
    \A s \in Slots :
        /\ pc[s][ALICE] \in Before => ~Sent(s, ALICE, "reveal")
        /\ pc[s][ALICE] # "reveal"
        /\ \A p \in Party :
              /\ pc[s][p] \in Undecided => /\ verdict[s][p] = "none"
                                           /\ ~Sent(s, p, "final")
              /\ pc[s][p] = "finalize" =>
                    /\ verdict[s][p] \in {"accepted", "rejected"}
                    /\ Sent(s, p, "final")
              /\ pc[s][p] = "check" \/ verdict[s][p] \in Checked =>
                    Sent(s, ALICE, "reveal")

\* Who leaves early has thrown.  BOB, until he has checked, finds an ALICE who
\* has revealed, and in finalize_zk_bool one who has not checked, where they
\* were; the same holds for ALICE and BOB, but he may have thrown.
Waits ==
    \A s \in Slots :
        /\ pc[s][BOB] \in Undecided /\ Sent(s, ALICE, "reveal") =>
              pc[s][ALICE] \in {"check", "finalize"}
        /\ pc[s][BOB] = "finalize" /\ ~Sent(s, ALICE, "final") =>
              pc[s][ALICE] = "check"
        /\ pc[s][ALICE] \in Undecided =>
              pc[s][BOB] \in Undecided \cup {"finalize"}
                 \/ verdict[s][BOB] = "threw"
        /\ pc[s][ALICE] = "finalize" /\ ~Sent(s, BOB, "final") =>
              pc[s][BOB] \in Undecided \/ verdict[s][BOB] = "threw"

\* What ALICE accepted in a session in which BOB threw is on record as missed.
Remembered ==
    \A s \in Slots :
        verdict[s][ALICE] = "accepted" /\ verdict[s][BOB] = "threw" =>
            revealed[s] \in missed

\* One party has checked, the other one is still to.
Ahead(s, p) == pc[s][p] = "finalize" /\ pc[s][Peer(p)] \in Undecided

\* The files differ by what BOB missed and, between the two checks of a
\* session, by what the first one accepted.
FilesAgree ==
    /\ \A n \in file[Dir[ALICE]] :
          \/ n \in file[Dir[BOB]] \cup missed
          \/ \E s \in Slots : Ahead(s, ALICE) /\ n = revealed[s]
                                 /\ verdict[s][ALICE] = "accepted"
    /\ \A n \in file[Dir[BOB]] :
          \/ n \in file[Dir[ALICE]]
          \/ \E s \in Slots : Ahead(s, BOB) /\ n = revealed[s]
    /\ \A s \in Slots : Ahead(s, ALICE) =>
          /\ revealed[s] \in file[Dir[ALICE]]
          /\ IF verdict[s][ALICE] = "accepted"
               THEN revealed[s] \notin file[Dir[BOB]]
               ELSE revealed[s] \in file[Dir[BOB]] \cup missed
    /\ \A s \in Slots : Ahead(s, BOB) =>
          IF verdict[s][BOB] = "accepted"
            THEN /\ revealed[s] \in file[Dir[BOB]]
                 /\ revealed[s] \in file[Dir[ALICE]] => revealed[s] \in missed
            ELSE revealed[s] \in file[Dir[ALICE]]

Agreed == FilesAgree /\ VerdictsAgree

\* The exchange is sound whatever the directories and however many processes.
LinkInv == /\ TypeOK
           /\ crashes = 0 => Tags /\ Waits

\* Every nullifier ALICE saved was e-mailed or is known to have been refused.
Accounted == Remembered /\ SavedIsEmailed

SaveInv == /\ LinkInv
           /\ crashes = 0 => Accounted

AgreeInv == /\ LinkInv
            /\ OneEach
            /\ CopyIsFile
            /\ crashes = 0 => Agreed

\* What a step keeps.
Kept == Tags' /\ Waits' /\ (Agreed => Agreed') /\ (Accounted => Accounted')

\* The other party of a session.
LEMMA PeerFacts ==
    ASSUME NEW p \in Party
    PROVE  /\ Peer(p) \in Party /\ Peer(p) # p /\ Peer(Peer(p)) = p
           /\ \A q \in Party : q = p \/ q = Peer(p)
           /\ Peer(ALICE) = BOB /\ Peer(BOB) = ALICE /\ ALICE # BOB
  BY DEF Peer

\* A message goes to the connection it is sent on.
LEMMA SendFacts ==
    ASSUME TypeOK, NEW s \in Slots, NEW p \in Party, NEW tags,
           Send(s, p, tags)
    PROVE  \A t \in Slots, q \in Party, g \in Tag :
              Sent(t, q, g)' <=> Sent(t, q, g) \/ (t = s /\ q = p /\ g \in tags)
  BY DEF TypeOK, Send, Sent, Tag

\* The decided process has its verdict, no other one gets any.
LEMMA VerdictFacts ==
    ASSUME TypeOK, NEW s \in Slots, NEW p \in Party, NEW v,
           verdict' = [verdict EXCEPT ![s][p] = v]
    PROVE  /\ verdict'[s][p] = v
           /\ \A t \in Slots, q \in Party :
                 t # s \/ q # p => verdict'[t][q] = verdict[t][q]
  BY DEF TypeOK

\* Two processes meet: nothing is sent and nobody has a verdict.
LEMMA ConnectKeeps ==
    ASSUME LinkInv, crashes = 0, NEW s \in Slots, Connect(s)
    PROVE  Kept
<1>a. Tags /\ Waits /\ TypeOK
  BY DEF LinkInv
<1>b. \A t \in Slots, q \in Party, g \in Tag :
         Sent(t, q, g)' <=> t # s /\ Sent(t, q, g)
  BY <1>a DEF Connect, Sent, TypeOK
<1>c. /\ \A q \in Party : /\ pc[s][q] = "loaded" /\ pc'[s][q] = "epoch"
                          /\ verdict'[s][q] = "none"
      /\ \A t \in Slots, q \in Party :
            t # s => pc'[t][q] = pc[t][q] /\ verdict'[t][q] = verdict[t][q]
      /\ UNCHANGED <<file, revealed, emails, missed, unsent>>
  BY <1>a DEF Connect, TypeOK
<1> USE <1>a, <1>b, <1>c, PeerFacts DEF Tag, Checked, Before, Undecided
<1>1. Tags'
  BY DEF Tags
<1>2. Waits'
  BY DEF Waits
<1>3. FilesAgree => FilesAgree'
  BY DEF FilesAgree, Ahead
<1>4. VerdictsAgree => VerdictsAgree'
  BY DEF VerdictsAgree
<1>5. Accounted => Accounted'
  BY DEF Accounted, Remembered, SavedIsEmailed
<1> QED
  BY <1>1, <1>2, <1>3, <1>4, <1>5 DEF Agreed, Kept

\* A process that moves outside the exchange, or towards the evaluation, and
\* sends neither a reveal nor a final.
LEMMA MoveKeeps ==
    ASSUME LinkInv, crashes = 0, NEW s \in Slots, NEW p \in Party,
           \/ /\ pc[s][p] \notin Undecided \cup {"finalize", "email"}
              /\ pc'[s][p] \notin Undecided \cup {"finalize", "email"}
           \/ pc[s][p] \in Before /\ pc'[s][p] \in Before,
           \A t \in Slots, q \in Party :
              t # s \/ q # p => pc'[t][q] = pc[t][q],
           \A t \in Slots, q \in Party, g \in {"reveal", "final"} :
              Sent(t, q, g)' <=> Sent(t, q, g),
           UNCHANGED <<file, revealed, verdict, emails, missed, unsent>>
    PROVE  Kept
<1>a. Tags /\ Waits
  BY DEF LinkInv
<1> USE <1>a, PeerFacts DEF Checked, Before, Undecided
<1>1. Tags'
  BY DEF Tags
<1>2. Waits'
  BY DEF Waits
<1>3. FilesAgree => FilesAgree'
  BY DEF FilesAgree, Ahead
<1>4. VerdictsAgree => VerdictsAgree'
  BY DEF VerdictsAgree
<1>5. Accounted => Accounted'
  BY DEF Accounted, Remembered, SavedIsEmailed
<1> QED
  BY <1>1, <1>2, <1>3, <1>4, <1>5 DEF Agreed, Kept

\* Who throws has not checked; if it is BOB, what ALICE accepted is on record.
LEMMA ThrowsKeeps ==
    ASSUME LinkInv, crashes = 0, NEW s \in Slots, NEW p \in Party,
           EvaluateThrows(s, p)
    PROVE  Kept
<1>a. Tags /\ Waits /\ TypeOK
  BY DEF LinkInv
<1>b. \A t \in Slots, q \in Party, g \in Tag :
         Sent(t, q, g)' <=> Sent(t, q, g)
  BY DEF EvaluateThrows, Sent
<1>c. /\ pc[s][p] \in {"gate", "evaluate"} /\ pc'[s][p] = "shutdown"
      /\ \A t \in Slots, q \in Party :
            t # s \/ q # p => pc'[t][q] = pc[t][q]
  BY <1>a, GotoFacts DEF EvaluateThrows
<1>d. /\ verdict'[s][p] = "threw"
      /\ \A t \in Slots, q \in Party :
            t # s \/ q # p => verdict'[t][q] = verdict[t][q]
  BY <1>a, VerdictFacts DEF EvaluateThrows
<1>e. /\ UNCHANGED <<file, revealed, emails, unsent>>
      /\ missed \subseteq missed'
      /\ p = BOB /\ verdict[s][ALICE] = "accepted" => revealed[s] \in missed'
  BY DEF EvaluateThrows
<1> USE <1>a, <1>b, <1>c, <1>d, <1>e, PeerFacts
    DEF Tag, Checked, Before, Undecided
<1>1. Tags'
  BY DEF Tags
<1>2. Waits'
  BY DEF Waits, Tags
<1>3. FilesAgree => FilesAgree'
  BY DEF FilesAgree, Ahead, Tags
<1>4. VerdictsAgree => VerdictsAgree'
  BY DEF VerdictsAgree, Tags
<1>5. Accounted => Accounted'
  BY DEF Accounted, Remembered, SavedIsEmailed, Tags
<1> QED
  BY <1>1, <1>2, <1>3, <1>4, <1>5 DEF Agreed, Kept

\* When ALICE evaluates, BOB has not checked: the hash is free to change.
LEMMA EvaluateKeeps ==
    ASSUME LinkInv, crashes = 0, NEW s \in Slots, NEW p \in Party,
           Evaluate(s, p)
    PROVE  Kept
<1>a. Tags /\ Waits /\ TypeOK
  BY DEF LinkInv
<1>b. \A t \in Slots, q \in Party, g \in Tag :
         Sent(t, q, g)' <=> \/ Sent(t, q, g)
                            \/ p = ALICE /\ t = s /\ q = p /\ g = "reveal"
  <2>1. CASE p = ALICE
    BY <2>1, <1>a, SendFacts, PeerFacts DEF Evaluate
  <2>2. CASE p = BOB
    BY <2>2, PeerFacts DEF Evaluate, Sent
  <2> QED
    BY <2>1, <2>2
<1>c. /\ pc[s][p] = "evaluate"
      /\ pc'[s][p] = IF p = ALICE THEN "check" ELSE "reveal"
      /\ \A t \in Slots, q \in Party :
            t # s \/ q # p => pc'[t][q] = pc[t][q]
  BY <1>a, GotoFacts, PeerFacts DEF Evaluate
<1>d. /\ UNCHANGED <<file, verdict, emails, missed, unsent>>
      /\ \A t \in Slots : t # s \/ p = BOB => revealed'[t] = revealed[t]
  BY <1>a, PeerFacts DEF Evaluate, TypeOK
<1> USE <1>a, <1>b, <1>c, <1>d, PeerFacts
    DEF Tag, Checked, Before, Undecided
<1>1. Tags'
  BY DEF Tags
<1>2. Waits'
  BY DEF Waits, Tags
<1>3. FilesAgree => FilesAgree'
  BY DEF FilesAgree, Ahead, Tags
<1>4. VerdictsAgree => VerdictsAgree'
  BY DEF VerdictsAgree, Tags
<1>5. Accounted => Accounted'
  BY DEF Accounted, Remembered, SavedIsEmailed, Tags
<1> QED
  BY <1>1, <1>2, <1>3, <1>4, <1>5 DEF Agreed, Kept

\* BOB receives what ALICE has revealed.
LEMMA RevealKeeps ==
    ASSUME LinkInv, crashes = 0, NEW s \in Slots, Reveal(s)
    PROVE  Kept
<1>a. Tags /\ Waits /\ TypeOK
  BY DEF LinkInv
<1>b. \A t \in Slots, q \in Party, g \in Tag :
         Sent(t, q, g)' <=> Sent(t, q, g)
  BY DEF Reveal, Sent
<1>c. /\ pc[s][BOB] = "reveal" /\ pc'[s][BOB] = "check"
      /\ \A t \in Slots, q \in Party :
            t # s \/ q # BOB => pc'[t][q] = pc[t][q]
  BY <1>a, GotoFacts DEF Reveal
<1>d. Sent(s, ALICE, "reveal")
  BY PeerFacts DEF Reveal, Got, Sent
<1>e. UNCHANGED <<file, revealed, verdict, emails, missed, unsent>>
  BY DEF Reveal
<1> USE <1>a, <1>b, <1>c, <1>d, <1>e, PeerFacts
    DEF Tag, Checked, Before, Undecided
<1>1. Tags'
  BY DEF Tags
<1>2. Waits'
  BY DEF Waits
<1>3. FilesAgree => FilesAgree'
  BY DEF FilesAgree, Ahead
<1>4. VerdictsAgree => VerdictsAgree'
  BY DEF VerdictsAgree
<1>5. Accounted => Accounted'
  BY DEF Accounted, Remembered, SavedIsEmailed
<1> QED
  BY <1>1, <1>2, <1>3, <1>4, <1>5 DEF Agreed, Kept

\* Who gets through finalize_zk_bool has a peer that has checked.
LEMMA FinalizeKeeps ==
    ASSUME LinkInv, crashes = 0, NEW s \in Slots, NEW p \in Party,
           NEW c \in BOOLEAN, Finalize(s, p, c)
    PROVE  Kept
<1>a. Tags /\ Waits /\ TypeOK
  BY DEF LinkInv
<1>b. \A t \in Slots, q \in Party, g \in Tag :
         Sent(t, q, g)' <=> Sent(t, q, g)
  BY DEF Finalize, Sent
<1>c. /\ pc[s][p] = "finalize"
      /\ pc'[s][p] = IF verdict[s][p] = "accepted" /\ ~c /\ p = ALICE
                       THEN "email" ELSE "shutdown"
      /\ \A t \in Slots, q \in Party :
            t # s \/ q # p => pc'[t][q] = pc[t][q]
  BY <1>a, GotoFacts DEF Finalize
<1>d. Sent(s, Peer(p), "final")
  BY DEF Finalize, Got, Sent
<1>e. /\ verdict'[s][p] = IF verdict[s][p] = "accepted" /\ c
                            THEN "cheated" ELSE verdict[s][p]
      /\ \A t \in Slots, q \in Party :
            t # s \/ q # p => verdict'[t][q] = verdict[t][q]
  <2>1. CASE verdict[s][p] = "accepted" /\ c
    BY <2>1, <1>a, VerdictFacts DEF Finalize
  <2>2. CASE ~(verdict[s][p] = "accepted" /\ c)
    BY <2>2 DEF Finalize
  <2> QED
    BY <2>1, <2>2
<1>f. /\ UNCHANGED <<file, revealed, emails, missed>>
      /\ unsent \subseteq unsent'
      /\ p = ALICE /\ verdict[s][p] = "accepted" /\ c =>
            revealed[s] \in unsent'
  BY DEF Finalize
<1>g. pc[s][Peer(p)] \notin Undecided
  BY <1>a, <1>d, PeerFacts DEF Tags
<1> USE <1>a, <1>b, <1>c, <1>e, <1>f, <1>g, PeerFacts
    DEF Tag, Checked, Before, Undecided
<1>1. Tags'
  BY DEF Tags
<1>2. Waits'
  BY <1>d DEF Waits
<1>3. FilesAgree => FilesAgree'
  BY DEF FilesAgree, Ahead
<1>4. VerdictsAgree => VerdictsAgree'
  BY DEF VerdictsAgree
<1>5. Accounted => Accounted'
  BY DEF Accounted, Remembered, SavedIsEmailed
<1> QED
  BY <1>1, <1>2, <1>3, <1>4, <1>5 DEF Agreed, Kept

\* The e-mail comes after the exchange.
LEMMA EmailKeeps ==
    ASSUME LinkInv, crashes = 0, NEW s \in Slots,
           NEW b \in BOOLEAN, SendEmail(s, b)
    PROVE  Kept
<1>a. Tags /\ Waits /\ TypeOK
  BY DEF LinkInv
<1>b. \A t \in Slots, q \in Party, g \in Tag :
         Sent(t, q, g)' <=> Sent(t, q, g)
  BY DEF SendEmail, Sent
<1>c. /\ pc[s][ALICE] = "email" /\ pc'[s][ALICE] = "shutdown"
      /\ \A t \in Slots, q \in Party :
            t # s \/ q # ALICE => pc'[t][q] = pc[t][q]
  BY <1>a, GotoFacts DEF SendEmail
<1>d. UNCHANGED <<file, revealed, verdict, missed>>
  BY DEF SendEmail
<1>e. /\ unsent \subseteq unsent'
      /\ \A n \in Nullifiers : emails[n] > 0 => emails'[n] > 0
      /\ revealed[s] \in unsent' \/ emails'[revealed[s]] > 0
  <2>1. CASE UNCHANGED emails /\ unsent' = unsent \cup {revealed[s]}
    BY <2>1
  <2>2. CASE /\ emails' = [emails EXCEPT ![revealed[s]] = @ + 1]
             /\ UNCHANGED unsent
    BY <2>2, <1>a DEF TypeOK
  <2> QED
    BY <2>1, <2>2 DEF SendEmail
<1>f. \A n \in file[Dir[ALICE]] : n \in Nullifiers
  BY <1>a, ConstantsAssumption DEF TypeOK
<1> USE <1>a, <1>b, <1>c, <1>d, PeerFacts
    DEF Tag, Checked, Before, Undecided
<1>1. Tags'
  BY DEF Tags
<1>2. Waits'
  BY DEF Waits
<1>3. FilesAgree => FilesAgree'
  BY DEF FilesAgree, Ahead
<1>4. VerdictsAgree => VerdictsAgree'
  BY DEF VerdictsAgree
<1>5. Accounted => Accounted'
  BY <1>e, <1>f DEF Accounted, Remembered, SavedIsEmailed
<1> QED
  BY <1>1, <1>2, <1>3, <1>4, <1>5 DEF Agreed, Kept

\* Who is cut off had not checked, or is an ALICE whose BOB threw.
LEMMA NetErrorKeeps ==
    ASSUME LinkInv, crashes = 0, NEW s \in Slots, NEW p \in Party,
           NetError(s, p)
    PROVE  Kept
<1>a. Tags /\ Waits /\ TypeOK
  BY DEF LinkInv
<1>b. \A t \in Slots, q \in Party, g \in Tag :
         Sent(t, q, g)' <=> Sent(t, q, g)
  BY DEF NetError, Sent, Exit
<1>c. /\ pc'[s][p] = "idle"
      /\ \A t \in Slots, q \in Party :
            t # s \/ q # p => pc'[t][q] = pc[t][q]
  BY <1>a, ExitFacts DEF NetError
<1>d. UNCHANGED <<file, revealed, verdict, emails, missed, unsent>>
  BY DEF NetError, Exit
<1>e. /\ pc[s][Peer(p)] \notin Undecided \cup {"finalize", "email"}
      /\ pc[s][p] \in Undecided \cup {"finalize"}
      /\ pc[s][p] # "check"
      /\ pc[s][p] = "finalize" => ~Sent(s, Peer(p), "final")
  BY DEF NetError, Disconnected, Waiting, Undecided, Got, Sent
<1> USE <1>a, <1>b, <1>c, <1>d, <1>e, PeerFacts
    DEF Tag, Checked, Before, Undecided
<1>1. Tags'
  BY DEF Tags
<1>2. Waits'
  BY DEF Waits
<1>3. FilesAgree => FilesAgree'
  BY DEF FilesAgree, Ahead
<1>4. VerdictsAgree => VerdictsAgree'
  BY DEF VerdictsAgree
<1>5. Accounted => Accounted'
  <2>1. pc[s][ALICE] = "finalize" /\ p = ALICE => verdict[s][BOB] = "threw"
    BY DEF Waits
  <2> QED
    BY <2>1 DEF Accounted, Remembered, SavedIsEmailed
<1> QED
  BY <1>1, <1>2, <1>3, <1>4, <1>5 DEF Agreed, Kept

\* What the check does to its party's process, apart from the database.
LEMMA CheckFacts ==
    ASSUME TypeOK, NEW s \in Slots, NEW p \in Party, CheckNullifier(s, p)
    PROVE  /\ pc[s][p] = "check" /\ pc'[s][p] = "finalize"
           /\ \A t \in Slots, q \in Party :
                 t # s \/ q # p => /\ pc'[t][q] = pc[t][q]
                                  /\ verdict'[t][q] = verdict[t][q]
           /\ verdict'[s][p] = IF Known(s, p) THEN "rejected" ELSE "accepted"
           /\ \A t \in Slots, q \in Party, g \in Tag :
                 Sent(t, q, g)' <=> \/ Sent(t, q, g)
                                    \/ t = s /\ q = p /\ g = "final"
           /\ UNCHANGED <<revealed, emails, unsent>>
           /\ missed \subseteq missed'
           /\ p = ALICE /\ verdict[s][BOB] = "threw" /\ ~Known(s, p) =>
                 revealed[s] \in missed'
<1>1. Goto(s, p, "check", "finalize") /\ Send(s, p, {"final"})
  BY DEF CheckNullifier, Decide
<1>2. verdict' = [verdict EXCEPT
                    ![s][p] = IF Known(s, p) THEN "rejected" ELSE "accepted"]
  BY DEF CheckNullifier, Decide
<1>3. /\ UNCHANGED <<revealed, emails, unsent>>
      /\ missed \subseteq missed'
      /\ p = ALICE /\ verdict[s][BOB] = "threw" /\ ~Known(s, p) =>
            revealed[s] \in missed'
  BY DEF CheckNullifier, Decide
<1>4. /\ verdict'[s][p] = IF Known(s, p) THEN "rejected" ELSE "accepted"
      /\ \A t \in Slots, q \in Party :
            t # s \/ q # p => verdict'[t][q] = verdict[t][q]
  <2> DEFINE v == IF Known(s, p) THEN "rejected" ELSE "accepted"
  <2>1. verdict' = [verdict EXCEPT ![s][p] = v]
    BY <1>2
  <2> HIDE DEF v
  <2>2. /\ verdict'[s][p] = v
        /\ \A t \in Slots, q \in Party :
              t # s \/ q # p => verdict'[t][q] = verdict[t][q]
    BY <2>1, VerdictFacts
  <2> QED
    BY <2>2 DEF v
<1>5. \A t \in Slots, q \in Party, g \in Tag :
         Sent(t, q, g)' <=> \/ Sent(t, q, g)
                            \/ t = s /\ q = p /\ g = "final"
  BY <1>1, SendFacts
<1> QED
  BY <1>1, <1>3, <1>4, <1>5, GotoFacts

\* What the check does to the database files.
LEMMA CheckFile ==
    ASSUME TypeOK, NEW s \in Slots, NEW p \in Party, CheckNullifier(s, p),
           Dir[ALICE] # Dir[BOB]
    PROVE  /\ file'[Dir[p]] = IF Known(s, p) THEN file[Dir[p]]
                                ELSE file[Dir[p]] \cup {revealed[s]}
           /\ file'[Dir[Peer(p)]] = file[Dir[Peer(p)]]
<1>1. /\ Dir[p] \in Dirs /\ Dir[Peer(p)] \in Dirs
      /\ Dir[p] # Dir[Peer(p)]
  BY PeerFacts, ConstantsAssumption
<1>2. CASE Known(s, p)
  BY <1>2 DEF CheckNullifier
<1>3. CASE ~Known(s, p)
  <2>1. file' = [file EXCEPT ![Dir[p]] = @ \cup {revealed[s]}]
    BY <1>3 DEF CheckNullifier
  <2> QED
    BY <2>1, <1>1, <1>3 DEF TypeOK
<1> QED
  BY <1>2, <1>3

\* A check is announced to a peer that is still there or has thrown.
LEMMA CheckLinked ==
    ASSUME LinkInv, crashes = 0, NEW s \in Slots, NEW p \in Party,
           CheckNullifier(s, p)
    PROVE  Tags' /\ Waits'
<1>a. Tags /\ Waits /\ TypeOK
  BY DEF LinkInv
<1>1. Tags'
  BY <1>a, CheckFacts, PeerFacts DEF Tags, Tag, Checked, Before, Undecided
<1>2. Waits'
  BY <1>a, CheckFacts, PeerFacts DEF Waits, Tags, Tag, Before, Undecided
<1> QED
  BY <1>1, <1>2

\* What ALICE saves she is about to e-mail; if BOB has thrown, it is on record.
LEMMA CheckAccounts ==
    ASSUME LinkInv, crashes = 0, Dir[ALICE] # Dir[BOB],
           NEW s \in Slots, NEW p \in Party, CheckNullifier(s, p), Accounted
    PROVE  Accounted'
<1>a. Tags /\ Waits /\ TypeOK
  BY DEF LinkInv
<1>b. \A n \in file'[Dir[ALICE]] :
         n \in file[Dir[ALICE]] \/ (p = ALICE /\ n = revealed[s] /\ ~Known(s, p))
  BY <1>a, CheckFile, PeerFacts
<1>1. Remembered'
  BY <1>a, CheckFacts, PeerFacts DEF Accounted, Remembered
<1>2. SavedIsEmailed'
  <2>1. ASSUME NEW n \in file[Dir[ALICE]]
        PROVE  \/ emails'[n] > 0
               \/ n \in unsent' \cup missed'
               \/ \E t \in Slots : /\ revealed'[t] = n
                                   /\ verdict'[t][ALICE] = "accepted"
                                   /\ pc'[t][ALICE] \in {"finalize", "email"}
    BY <2>1, <1>a, CheckFacts DEF Accounted, SavedIsEmailed
  <2>2. CASE p = ALICE /\ ~Known(s, p)
    <3>1. /\ revealed'[s] = revealed[s]
          /\ verdict'[s][ALICE] = "accepted"
          /\ pc'[s][ALICE] \in {"finalize", "email"}
      BY <2>2, <1>a, CheckFacts
    <3> QED
      BY <3>1, <2>1, <1>b DEF SavedIsEmailed
  <2>3. CASE ~(p = ALICE /\ ~Known(s, p))
    BY <2>1, <2>3, <1>b DEF SavedIsEmailed
  <2> QED
    BY <2>2, <2>3
<1> QED
  BY <1>1, <1>2 DEF Accounted

\* ALICE checks.  If BOB has checked before, he found what she finds, but for
\* what he missed; if he has thrown, she alone saves, and that is on record.
LEMMA AliceCheckAgrees ==
    ASSUME AgreeInv, crashes = 0, Dir[ALICE] # Dir[BOB],
           NEW s \in Slots, CheckNullifier(s, ALICE)
    PROVE  Agreed'
<1>a. Tags /\ Waits /\ FilesAgree /\ VerdictsAgree /\ TypeOK
  BY DEF AgreeInv, LinkInv, Agreed
<1> DEFINE A == file[Dir[ALICE]]
           B == file[Dir[BOB]]
           known == revealed[s] \in A
<1>b. Known(s, ALICE) <=> known
  BY <1>a, CheckFacts DEF AgreeInv, CopyIsFile, Known
<1>c. /\ pc[s][ALICE] = "check" /\ pc'[s][ALICE] = "finalize"
      /\ \A t \in Slots, q \in Party :
            t # s \/ q # ALICE => /\ pc'[t][q] = pc[t][q]
                                 /\ verdict'[t][q] = verdict[t][q]
      /\ verdict'[s][ALICE] = IF known THEN "rejected" ELSE "accepted"
      /\ revealed' = revealed
      /\ missed \subseteq missed'
      /\ verdict[s][BOB] = "threw" /\ ~known => revealed[s] \in missed'
  BY <1>a, <1>b, CheckFacts
<1>d. file'[Dir[ALICE]] = A \cup {revealed[s]} /\ file'[Dir[BOB]] = B
  BY <1>a, <1>b, CheckFile, PeerFacts
<1>e. \A t \in Slots : t # s => pc[t][ALICE] = "idle"
  BY <1>c DEF AgreeInv, OneEach
<1>f. \A t \in Slots : ~Ahead(t, ALICE)
  BY <1>c, <1>e DEF Ahead
<1>g. \A t \in Slots : t # s => ~Ahead(t, BOB) /\ ~Ahead(t, ALICE)'
                                /\ ~Ahead(t, BOB)'
  BY <1>c, <1>e, PeerFacts DEF Ahead, Undecided
<1>h. ~Ahead(s, BOB)'
  BY <1>c, PeerFacts DEF Ahead, Undecided
<1>i. \A n \in A : n \in B \cup missed
  BY <1>a, <1>f DEF FilesAgree
<1>j. \A n \in B : n \in A \/ (Ahead(s, BOB) /\ n = revealed[s])
  BY <1>a, <1>g DEF FilesAgree
<1>k. Ahead(s, BOB) =>
        IF verdict[s][BOB] = "accepted"
          THEN revealed[s] \in B /\ (known => revealed[s] \in missed)
          ELSE known
  BY <1>a DEF FilesAgree
<1>l. Ahead(s, BOB) <=> pc[s][BOB] = "finalize"
  BY <1>c, PeerFacts DEF Ahead, Undecided
<1>m. pc[s][BOB] \in Undecided \cup {"finalize"} \/ verdict[s][BOB] = "threw"
  BY <1>a, <1>c DEF Waits, Undecided
<1>n. /\ pc[s][BOB] \in Undecided => verdict[s][BOB] = "none"
      /\ pc[s][BOB] = "finalize" => verdict[s][BOB] \in {"accepted", "rejected"}
  BY <1>a, PeerFacts DEF Tags
<1>o. Ahead(s, ALICE)' <=> pc[s][BOB] \in Undecided
  BY <1>c, PeerFacts DEF Ahead
<1> HIDE DEF A, B, known
<1>1. FilesAgree'
  <2>1. \A n \in file'[Dir[ALICE]] :
          \/ n \in file'[Dir[BOB]] \cup missed'
          \/ Ahead(s, ALICE)' /\ n = revealed'[s]
                /\ verdict'[s][ALICE] = "accepted"
    <3>1. CASE known
      BY <3>1, <1>c, <1>d, <1>i DEF known, A
    <3>2. CASE ~known
      <4>1. \/ revealed[s] \in B \/ revealed[s] \in missed'
            \/ pc[s][BOB] \in Undecided
        BY <3>2, <1>c, <1>k, <1>l, <1>m
      <4> QED
        BY <4>1, <3>2, <1>c, <1>d, <1>i, <1>o
    <3> QED
      BY <3>1, <3>2
  <2>2. \A n \in file'[Dir[BOB]] : n \in file'[Dir[ALICE]]
    BY <1>d, <1>j
  <2>3. Ahead(s, ALICE)' =>
          /\ revealed'[s] \in file'[Dir[ALICE]]
          /\ IF verdict'[s][ALICE] = "accepted"
               THEN revealed'[s] \notin file'[Dir[BOB]]
               ELSE revealed'[s] \in file'[Dir[BOB]] \cup missed'
    <3>1. Ahead(s, ALICE)' => ~Ahead(s, BOB)
      BY <1>l, <1>o DEF Undecided
    <3>2. CASE known
      BY <3>2, <1>c, <1>d, <1>i DEF known, A
    <3>3. CASE ~known
      BY <3>1, <3>3, <1>c, <1>d, <1>j DEF known
    <3> QED
      BY <3>2, <3>3
  <2> QED
    BY <2>1, <2>2, <2>3, <1>g, <1>h DEF FilesAgree
<1>2. VerdictsAgree'
  <2>1. verdict'[s][BOB] = "rejected" => verdict'[s][ALICE] = "rejected"
    <3>1. verdict[s][BOB] = "rejected" => pc[s][BOB] = "finalize"
      BY <1>m, <1>n
    <3> QED
      BY <3>1, <1>c, <1>k, <1>l, PeerFacts
  <2>2. verdict'[s][ALICE] = "rejected" =>
           \/ verdict'[s][BOB] \in {"none", "threw", "rejected"}
           \/ revealed'[s] \in missed'
    <3>1. verdict'[s][BOB] = verdict[s][BOB]
      BY <1>c, PeerFacts
    <3> QED
      BY <3>1, <1>c, <1>k, <1>l, <1>m, <1>n
  <2>3. ASSUME NEW t \in Slots, t # s
        PROVE  /\ verdict'[t][ALICE] = verdict[t][ALICE]
               /\ verdict'[t][BOB] = verdict[t][BOB]
               /\ revealed'[t] = revealed[t]
    BY <2>3, <1>c
  <2> QED
    BY <2>1, <2>2, <2>3, <1>a, <1>c DEF VerdictsAgree
<1> QED
  BY <1>1, <1>2 DEF Agreed

\* BOB checks.  ALICE has revealed and waits for him: she has checked, or is
\* about to.
LEMMA BobCheckAgrees ==
    ASSUME AgreeInv, crashes = 0, Dir[ALICE] # Dir[BOB],
           NEW s \in Slots, CheckNullifier(s, BOB)
    PROVE  Agreed'
<1>a. Tags /\ Waits /\ FilesAgree /\ VerdictsAgree /\ TypeOK
  BY DEF AgreeInv, LinkInv, Agreed
<1> DEFINE A == file[Dir[ALICE]]
           B == file[Dir[BOB]]
           known == revealed[s] \in B
<1>b. Known(s, BOB) <=> known
  BY <1>a, CheckFacts DEF AgreeInv, CopyIsFile, Known
<1>c. /\ pc[s][BOB] = "check" /\ pc'[s][BOB] = "finalize"
      /\ \A t \in Slots, q \in Party :
            t # s \/ q # BOB => /\ pc'[t][q] = pc[t][q]
                                /\ verdict'[t][q] = verdict[t][q]
      /\ verdict'[s][BOB] = IF known THEN "rejected" ELSE "accepted"
      /\ revealed' = revealed
      /\ missed \subseteq missed'
  BY <1>a, <1>b, CheckFacts
<1>d. file'[Dir[BOB]] = B \cup {revealed[s]} /\ file'[Dir[ALICE]] = A
  BY <1>a, <1>b, CheckFile, PeerFacts
<1>e. pc[s][ALICE] \in {"check", "finalize"}
  BY <1>a, <1>c, PeerFacts DEF Tags, Waits, Undecided
<1>f. \A t \in Slots, q \in Party : t # s => pc[t][q] = "idle"
  BY <1>c, <1>e DEF AgreeInv, OneEach
<1>g. \A t \in Slots, q \in Party : t # s => ~Ahead(t, q) /\ ~Ahead(t, q)'
  BY <1>c, <1>f DEF Ahead
<1>h. ~Ahead(s, BOB) /\ ~Ahead(s, ALICE)'
  BY <1>c, PeerFacts DEF Ahead, Undecided
<1>i. /\ Ahead(s, ALICE) <=> pc[s][ALICE] = "finalize"
      /\ Ahead(s, BOB)' <=> pc[s][ALICE] = "check"
  BY <1>c, <1>e, PeerFacts DEF Ahead, Undecided
<1>j. \A n \in A : \/ n \in B \cup missed
                   \/ /\ Ahead(s, ALICE) /\ n = revealed[s]
                      /\ verdict[s][ALICE] = "accepted"
  BY <1>a, <1>g DEF FilesAgree
<1>k. \A n \in B : n \in A
  BY <1>a, <1>g, <1>h DEF FilesAgree
<1>l. Ahead(s, ALICE) =>
        /\ revealed[s] \in A
        /\ IF verdict[s][ALICE] = "accepted"
             THEN ~known ELSE revealed[s] \in B \cup missed
  BY <1>a DEF FilesAgree
<1>m. /\ pc[s][ALICE] = "check" => verdict[s][ALICE] = "none"
      /\ pc[s][ALICE] = "finalize" =>
            verdict[s][ALICE] \in {"accepted", "rejected"}
  BY <1>a, PeerFacts DEF Tags, Undecided
<1> HIDE DEF A, B, known
<1>1. FilesAgree'
  <2>1. \A n \in file'[Dir[ALICE]] : n \in file'[Dir[BOB]] \cup missed'
    BY <1>c, <1>d, <1>j
  <2>2. \A n \in file'[Dir[BOB]] :
          n \in file'[Dir[ALICE]] \/ (Ahead(s, BOB)' /\ n = revealed'[s])
    BY <1>c, <1>d, <1>e, <1>i, <1>k, <1>l
  <2>3. Ahead(s, BOB)' =>
          IF verdict'[s][BOB] = "accepted"
            THEN /\ revealed'[s] \in file'[Dir[BOB]]
                 /\ revealed'[s] \in file'[Dir[ALICE]] => revealed'[s] \in missed'
            ELSE revealed'[s] \in file'[Dir[ALICE]]
    BY <1>c, <1>d, <1>i, <1>j, <1>k DEF known, Undecided
  <2> QED
    BY <2>1, <2>2, <2>3, <1>g, <1>h DEF FilesAgree
<1>2. VerdictsAgree'
  <2>1. verdict'[s][ALICE] = verdict[s][ALICE]
    BY <1>c, PeerFacts
  <2>2. verdict'[s][BOB] = "rejected" =>
           verdict'[s][ALICE] \in {"none", "rejected"}
    BY <2>1, <1>c, <1>e, <1>i, <1>l, <1>m
  <2>3. verdict'[s][ALICE] = "rejected" =>
           \/ verdict'[s][BOB] \in {"none", "threw", "rejected"}
           \/ revealed'[s] \in missed'
    BY <2>1, <1>c, <1>e, <1>i, <1>l, <1>m DEF known
  <2>4. ASSUME NEW t \in Slots, t # s
        PROVE  /\ verdict'[t][ALICE] = verdict[t][ALICE]
               /\ verdict'[t][BOB] = verdict[t][BOB]
               /\ revealed'[t] = revealed[t]
    BY <2>4, <1>c
  <2> QED
    BY <2>2, <2>3, <2>4, <1>a, <1>c DEF VerdictsAgree
<1> QED
  BY <1>1, <1>2 DEF Agreed

\* One process of a party at a time: a launch waits for the last one's end.
LEMMA OneEachStep ==
    ASSUME ~Overlap, TypeOK, OneEach, [Next]_vars PROVE OneEach'
<1>1. ASSUME NEW s \in Slots, NEW p \in Party, NEW i \in Input,
             Launch(s, p, i)
      PROVE  OneEach'
  <2>1. \A t \in Slots : pc[t][p] = "idle"
    BY <1>1 DEF Launch
  <2>2. /\ \A t \in Slots : t # s => pc'[t][p] = "idle"
        /\ \A t \in Slots, q \in Party : q # p => pc'[t][q] = pc[t][q]
    BY <1>1, <2>1, TypeOK DEF Launch, Goto, TypeOK
  <2> QED
    BY <2>2 DEF OneEach
<1>2. ASSUME \A t \in Slots, q \in Party :
                pc'[t][q] # "idle" => pc[t][q] # "idle"
      PROVE  OneEach'
  BY <1>2 DEF OneEach
<1>3. ASSUME NEW s \in Slots, NEW p \in Party,
             Step(s, p) \/ Stopped(s, p) \/ Crash(s, p)
      PROVE  OneEach'
  <2>1. ASSUME Exit(s, p) PROVE OneEach'
    BY <2>1, <1>2 DEF Exit, TypeOK
  <2>2. CASE \E from, to : from # "idle" /\ Goto(s, p, from, to)
    <3>1. PICK from, to : from # "idle" /\ Goto(s, p, from, to)
      BY <2>2
    <3>2. /\ pc[s][p] # "idle"
          /\ \A t \in Slots, q \in Party :
                t # s \/ q # p => pc'[t][q] = pc[t][q]
      BY <3>1, GotoFacts
    <3> QED
      BY <3>2, <1>2
  <2>3. Exit(s, p) \/ \E from, to : from # "idle" /\ Goto(s, p, from, to)
    BY <1>3 DEF Step, Stopped, Crash, LoadDatabase, EpochSync, SetupZK, Gate,
       EvaluateThrows, Evaluate, Reveal, CheckNullifier, Decide, Finalize,
       SendEmail, Shutdown, NetError
  <2> QED
    BY <2>1, <2>2, <2>3
<1>4. ASSUME NEW s \in Slots, Connect(s) PROVE OneEach'
  BY <1>4, <1>2 DEF Connect, TypeOK
<1>5. CASE UNCHANGED vars
  BY <1>5, <1>2 DEF vars
<1> QED
  BY <1>1, <1>3, <1>4, <1>5 DEF Next

\* What a process has loaded stays equal to its file: nobody else writes it.
LEMMA CopyStep ==
    ASSUME Dir[ALICE] # Dir[BOB], TypeOK, OneEach, CopyIsFile, [Next]_vars
    PROVE  CopyIsFile'
<1>1. ASSUME UNCHANGED file,
             \A t \in Slots, q \in Party :
                \/ pc'[t][q] \in {"idle", "init"}
                \/ pc[t][q] \notin {"idle", "init"} /\ mem'[t][q] = mem[t][q]
      PROVE  CopyIsFile'
  BY <1>1 DEF CopyIsFile
<1>2. ASSUME NEW s \in Slots, NEW p \in Party, LoadDatabase(s, p)
      PROVE  CopyIsFile'
  <2>1. /\ mem'[s][p] = file[Dir[p]] /\ file' = file
        /\ \A t \in Slots, q \in Party :
              t # s \/ q # p => mem'[t][q] = mem[t][q] /\ pc'[t][q] = pc[t][q]
    BY <1>2 DEF LoadDatabase, Goto, TypeOK
  <2> QED
    BY <2>1 DEF CopyIsFile
<1>3. ASSUME NEW s \in Slots, NEW p \in Party, CheckNullifier(s, p)
      PROVE  CopyIsFile'
  <2> DEFINE o == Peer(p)
  <2>1. o \in Party /\ o # p /\ \A q \in Party : q = p \/ q = o
    BY PeerFacts
  <2> HIDE DEF o
  <2>2. Dir[p] \in Dirs /\ Dir[o] \in Dirs /\ Dir[p] # Dir[o]
    BY <2>1, ConstantsAssumption
  <2>3. /\ pc[s][p] = "check"
        /\ \A t \in Slots, q \in Party : t # s \/ q # p => pc'[t][q] = pc[t][q]
    BY <1>3, CheckFacts
  <2>4. /\ \A t \in Slots, q \in Party :
              t # s \/ q # p => mem'[t][q] = mem[t][q]
        /\ file'[Dir[o]] = file[Dir[o]]
        /\ mem[s][p] = file[Dir[p]] => mem'[s][p] = file'[Dir[p]]
    <3>1. CASE UNCHANGED <<mem, file>>
      BY <3>1
    <3>2. CASE /\ mem' = [mem EXCEPT ![s][p] = @ \cup {revealed[s]}]
               /\ file' = [file EXCEPT ![Dir[p]] = @ \cup {revealed[s]}]
      <4>1. /\ \A t \in Slots, q \in Party :
                  t # s \/ q # p => mem'[t][q] = mem[t][q]
            /\ mem'[s][p] = mem[s][p] \cup {revealed[s]}
        BY <3>2 DEF TypeOK
      <4>2. /\ file'[Dir[o]] = file[Dir[o]]
            /\ file'[Dir[p]] = file[Dir[p]] \cup {revealed[s]}
        BY <3>2, <2>2 DEF TypeOK
      <4> QED
        BY <4>1, <4>2
    <3> QED
      BY <1>3, <3>1, <3>2 DEF CheckNullifier
  <2>5. mem[s][p] = file[Dir[p]]
    BY <2>3 DEF CopyIsFile
  <2>6. \A t \in Slots : t # s => pc[t][p] = "idle"
    BY <2>3 DEF OneEach
  <2> QED
    BY <2>1, <2>3, <2>4, <2>5, <2>6 DEF CopyIsFile
<1>4. ASSUME NEW s \in Slots, NEW p \in Party,
             \/ EpochSync(s, p) \/ SetupZK(s, p) \/ Gate(s, p)
             \/ EvaluateThrows(s, p) \/ Evaluate(s, p)
             \/ p = BOB /\ Reveal(s)
             \/ \E c \in BOOLEAN : Finalize(s, p, c)
             \/ p = ALICE /\ \E b \in BOOLEAN : SendEmail(s, b)
             \/ Shutdown(s, p)
      PROVE  CopyIsFile'
  <2>1. /\ UNCHANGED <<mem, file>>
        /\ \E from, to : from \notin {"idle", "init"} /\ Goto(s, p, from, to)
    BY <1>4 DEF EpochSync, SetupZK, Gate, EvaluateThrows, Evaluate, Reveal,
                Finalize, SendEmail, Shutdown
  <2>2. PICK from, to : from \notin {"idle", "init"} /\ Goto(s, p, from, to)
    BY <2>1
  <2>3. /\ pc[s][p] \notin {"idle", "init"}
        /\ \A t \in Slots, q \in Party : t # s \/ q # p => pc'[t][q] = pc[t][q]
    BY <2>2, GotoFacts
  <2> QED
    BY <2>1, <2>3, <1>1
<1>5. ASSUME NEW s \in Slots, NEW p \in Party,
             Stopped(s, p) \/ NetError(s, p) \/ Crash(s, p)
      PROVE  CopyIsFile'
  <2>1. /\ pc'[s][p] = "idle" /\ file' = file
        /\ \A t \in Slots, q \in Party :
              t # s \/ q # p => mem'[t][q] = mem[t][q] /\ pc'[t][q] = pc[t][q]
    BY <1>5, ExitFacts DEF Stopped, NetError, Crash, Exit
  <2> QED
    BY <2>1, <1>1
<1>6. ASSUME NEW s \in Slots, NEW p \in Party, NEW i \in Input,
             Launch(s, p, i)
      PROVE  CopyIsFile'
  BY <1>6, <1>1 DEF Launch, Goto, TypeOK
<1>7. ASSUME NEW s \in Slots, Connect(s) PROVE CopyIsFile'
  BY <1>7, <1>1 DEF Connect, TypeOK
<1>8. CASE UNCHANGED vars
  BY <1>8, <1>1 DEF vars
<1> QED
  BY <1>2, <1>3, <1>4, <1>5, <1>6, <1>7, <1>8 DEF Next, Step

\* Without crashes there were none before.
LEMMA NoCrashBefore ==
    ASSUME TypeOK, [Next]_vars, crashes' = 0
    PROVE  /\ crashes = 0
           /\ \A s \in Slots, p \in Party : ~Crash(s, p)
<1>1. ASSUME NEW s \in Slots, NEW p \in Party, Crash(s, p) PROVE FALSE
  BY <1>1, ConstantsAssumption DEF Crash, TypeOK
<1>2. crashes = 0
  BY <1>1 DEF Next, vars, Step, Stopped, Connect, Launch, LoadDatabase,
     EpochSync, SetupZK, Gate, EvaluateThrows, Evaluate, Reveal,
     CheckNullifier, Decide, Finalize, SendEmail, Shutdown, NetError
<1> QED
  BY <1>1, <1>2

\* The steps that only move a process keep the exchange.
LEMMA MovingKeeps ==
    ASSUME LinkInv, crashes = 0, NEW s \in Slots, NEW p \in Party,
           \/ \E i \in Input : Launch(s, p, i)
           \/ LoadDatabase(s, p) \/ EpochSync(s, p) \/ SetupZK(s, p)
           \/ Gate(s, p) \/ Shutdown(s, p) \/ Stopped(s, p)
    PROVE  Kept
<1>a. TypeOK
  BY DEF LinkInv
<1>1. CASE Stopped(s, p)
  <2>1. /\ pc[s][p] = "stopping" /\ pc'[s][p] = "idle"
        /\ \A t \in Slots, q \in Party :
              t # s \/ q # p => pc'[t][q] = pc[t][q]
    BY <1>1, <1>a, ExitFacts DEF Stopped
  <2> QED
    BY <1>1, <2>1, MoveKeeps DEF Stopped, Exit, Sent, Undecided
<1>2. CASE EpochSync(s, p)
  <2>1. \A t \in Slots, q \in Party, g \in {"reveal", "final"} :
           Sent(t, q, g)' <=> Sent(t, q, g)
    <3>1. CASE Send(s, p, {"epoch", "setup"})
      BY <1>a, <3>1, SendFacts DEF Tag
    <3>2. CASE Send(s, p, {"setup"})
      BY <1>a, <3>2, SendFacts DEF Tag
    <3> QED
      BY <1>2, <3>1, <3>2 DEF EpochSync
  <2>2. /\ pc[s][p] = "epoch" /\ pc'[s][p] = "setup"
        /\ \A t \in Slots, q \in Party :
              t # s \/ q # p => pc'[t][q] = pc[t][q]
    BY <1>2, <1>a, GotoFacts DEF EpochSync
  <2> QED
    BY <1>2, <2>1, <2>2, MoveKeeps DEF EpochSync, Before
<1>3. CASE \/ \E i \in Input : Launch(s, p, i)
           \/ LoadDatabase(s, p) \/ SetupZK(s, p) \/ Gate(s, p)
           \/ Shutdown(s, p)
  <2>1. /\ UNCHANGED <<wire, file, revealed, verdict, emails, missed, unsent>>
        /\ \E from, to :
              /\ Goto(s, p, from, to)
              /\ \/ /\ from \in {"idle", "init", "shutdown"}
                    /\ to \in {"init", "loaded", "stopping"}
                 \/ from \in {"setup", "gate"} /\ to \in {"gate", "evaluate"}
    BY <1>3 DEF Launch, LoadDatabase, SetupZK, Gate, Shutdown
  <2>2. PICK from, to :
              /\ Goto(s, p, from, to)
              /\ \/ /\ from \in {"idle", "init", "shutdown"}
                    /\ to \in {"init", "loaded", "stopping"}
                 \/ from \in {"setup", "gate"} /\ to \in {"gate", "evaluate"}
    BY <2>1
  <2>3. /\ pc[s][p] = from /\ pc'[s][p] = to
        /\ \A t \in Slots, q \in Party :
              t # s \/ q # p => pc'[t][q] = pc[t][q]
    BY <2>2, <1>a, GotoFacts
  <2>4. \A t \in Slots, q \in Party, g \in {"reveal", "final"} :
           Sent(t, q, g)' <=> Sent(t, q, g)
    BY <2>1 DEF Sent
  <2>5. \/ /\ pc[s][p] \notin Undecided \cup {"finalize", "email"}
           /\ pc'[s][p] \notin Undecided \cup {"finalize", "email"}
        \/ pc[s][p] \in Before /\ pc'[s][p] \in Before
    BY <2>2, <2>3 DEF Undecided, Before
  <2> QED
    BY <2>1, <2>3, <2>4, <2>5, MoveKeeps
<1> QED
  BY <1>1, <1>2, <1>3

\* Every step but a check keeps the exchange, and the agreement if it is one.
LEMMA QuietStep ==
    ASSUME LinkInv, [Next]_vars, crashes' = 0,
           \A s \in Slots, p \in Party : ~CheckNullifier(s, p)
    PROVE  Kept
<1>1. crashes = 0 /\ \A s \in Slots, p \in Party : ~Crash(s, p)
  BY NoCrashBefore DEF LinkInv
<1>2. ASSUME NEW s \in Slots, NEW p \in Party, Step(s, p) PROVE Kept
  BY <1>1, <1>2, MovingKeeps, ThrowsKeeps, EvaluateKeeps, RevealKeeps,
     FinalizeKeeps, EmailKeeps, NetErrorKeeps DEF Step
<1>3. ASSUME NEW s \in Slots, Connect(s) PROVE Kept
  BY <1>1, <1>3, ConnectKeeps
<1>4. ASSUME NEW s \in Slots, NEW p \in Party,
             Stopped(s, p) \/ \E i \in Input : Launch(s, p, i)
      PROVE  Kept
  BY <1>1, <1>4, MovingKeeps
<1>5. CASE UNCHANGED vars
  <2>1. Tags' /\ Waits'
    BY <1>1, <1>5 DEF vars, LinkInv, Tags, Waits, Sent
  <2>2. Agreed => Agreed'
    BY <1>5 DEF vars, Agreed, FilesAgree, Ahead, VerdictsAgree
  <2>3. Accounted => Accounted'
    BY <1>5 DEF vars, Accounted, Remembered, SavedIsEmailed
  <2> QED
    BY <2>1, <2>2, <2>3 DEF Kept
<1> QED
  BY <1>1, <1>2, <1>3, <1>4, <1>5 DEF Next

\* The exchange is sound throughout.
LEMMA LinkInvariant == Spec => []LinkInv
<1>1. Init /\ TypeOK => LinkInv
  <2> SUFFICES ASSUME Init, TypeOK PROVE LinkInv
    OBVIOUS
  <2>1. \A s \in Slots, p \in Party :
           pc[s][p] = "idle" /\ verdict[s][p] = "none"
    BY DEF Init
  <2> QED
    BY <2>1 DEF LinkInv, Tags, Waits, Checked, Before, Undecided
<1>2. LinkInv /\ [Next]_vars /\ TypeOK' => LinkInv'
  <2> SUFFICES ASSUME LinkInv, [Next]_vars, TypeOK', crashes' = 0
               PROVE  Tags' /\ Waits'
    BY DEF LinkInv
  <2>1. crashes = 0
    BY NoCrashBefore DEF LinkInv
  <2>2. CASE \E s \in Slots, p \in Party : CheckNullifier(s, p)
    BY <2>1, <2>2, CheckLinked
  <2>3. CASE \A s \in Slots, p \in Party : ~CheckNullifier(s, p)
    BY <2>3, QuietStep DEF Kept
  <2> QED
    BY <2>2, <2>3
<1> QED
  BY <1>1, <1>2, TypeCorrect, PTL DEF Spec

\* With separate directories, so is the account of what ALICE saved.
LEMMA SaveInvariant ==
    ASSUME Dir[ALICE] # Dir[BOB]
    PROVE  Spec => []SaveInv
<1>1. Init /\ LinkInv => SaveInv
  <2> SUFFICES ASSUME Init, LinkInv PROVE SaveInv
    OBVIOUS
  <2>1. /\ \A s \in Slots : verdict[s][ALICE] = "none"
        /\ file[Dir[ALICE]] = {}
    BY ConstantsAssumption DEF Init
  <2> QED
    BY <2>1 DEF SaveInv, Accounted, Remembered, SavedIsEmailed
<1>2. SaveInv /\ [Next]_vars /\ LinkInv' => SaveInv'
  <2> SUFFICES ASSUME SaveInv, [Next]_vars, LinkInv', crashes' = 0
               PROVE  Accounted'
    BY DEF SaveInv
  <2>1. crashes = 0
    BY NoCrashBefore DEF SaveInv, LinkInv
  <2>2. LinkInv /\ Accounted
    BY <2>1 DEF SaveInv
  <2>3. CASE \E s \in Slots, p \in Party : CheckNullifier(s, p)
    BY <2>1, <2>2, <2>3, CheckAccounts
  <2>4. CASE \A s \in Slots, p \in Party : ~CheckNullifier(s, p)
    BY <2>2, <2>4, QuietStep DEF Kept
  <2> QED
    BY <2>3, <2>4
<1> QED
  BY <1>1, <1>2, LinkInvariant, PTL DEF Spec

\* With separate directories and one process per party at a time, so is the
\* agreement.
LEMMA AgreeInvariant ==
    ASSUME ~Overlap, Dir[ALICE] # Dir[BOB]
    PROVE  Spec => []AgreeInv
<1>1. Init /\ LinkInv => AgreeInv
  <2> SUFFICES ASSUME Init, LinkInv PROVE AgreeInv
    OBVIOUS
  <2>1. /\ \A s \in Slots, p \in Party : pc[s][p] = "idle"
        /\ \A s \in Slots, p \in Party : verdict[s][p] = "none"
        /\ file[Dir[ALICE]] = {} /\ file[Dir[BOB]] = {}
    BY ConstantsAssumption DEF Init
  <2>2. FilesAgree /\ VerdictsAgree /\ OneEach /\ CopyIsFile
    BY <2>1 DEF FilesAgree, VerdictsAgree, Ahead, OneEach, CopyIsFile
  <2> QED
    BY <2>2 DEF AgreeInv, Agreed
<1>2. AgreeInv /\ [Next]_vars /\ LinkInv' => AgreeInv'
  <2> SUFFICES ASSUME AgreeInv, [Next]_vars, LinkInv' PROVE AgreeInv'
    OBVIOUS
  <2>1. OneEach' /\ CopyIsFile'
    BY OneEachStep, CopyStep DEF AgreeInv, LinkInv
  <2>2. ASSUME crashes' = 0 PROVE Agreed'
    <3>1. crashes = 0
      BY <2>2, NoCrashBefore DEF AgreeInv, LinkInv
    <3>2. CASE \E s \in Slots, p \in Party : CheckNullifier(s, p)
      BY <3>1, <3>2, AliceCheckAgrees, BobCheckAgrees
    <3>3. CASE \A s \in Slots, p \in Party : ~CheckNullifier(s, p)
      BY <2>2, <3>1, <3>3, QuietStep DEF AgreeInv, Kept
    <3> QED
      BY <3>2, <3>3
  <2> QED
    BY <2>1, <2>2 DEF AgreeInv
<1> QED
  BY <1>1, <1>2, LinkInvariant, PTL DEF Spec

\* Without crashes a saved nullifier is e-mailed, unless the mail server or the
\* ZK check refuses it or BOB threw: finalize_zk_bool cannot cut ALICE off
\* otherwise.  Sessions may overlap.
THEOREM SavedAreEmailed ==
    ASSUME Dir[ALICE] # Dir[BOB]
    PROVE  Spec => []SavedIsEmailed
<1>1. SaveInv => SavedIsEmailed
  BY DEF SaveInv, Accounted, SavedIsEmailed
<1> QED
  BY <1>1, SaveInvariant, PTL

\* The parties agree as long as nobody crashed, but for what BOB missed, when
\* each party has its own directory and runs one process at a time: of two
\* databases that are never compared, BOB writes his only with an ALICE who
\* writes hers, and she hers without him only if he threw.
THEOREM PartiesAgree ==
    ASSUME ~Overlap, Dir[ALICE] # Dir[BOB]
    PROVE  Spec => []VerdictsAgree
<1>1. AgreeInv => VerdictsAgree
  BY DEF AgreeInv, Agreed, VerdictsAgree
<1> QED
  BY <1>1, AgreeInvariant, PTL

\* A process that has begun the nullifier check.
Deciding == {"check", "finalize", "email"}

\* From the check on nobody is killed by the network layer, unless a process
\* crashes or BOB has thrown: finalize_zk_bool waits for a peer that is still
\* there or has already answered, whatever the peer found.  BOB, whose check
\* needs ALICE's, is never cut off.  This is the safety part of
\* CheckedReachesShutdown.
THEOREM NobodyIsCutOff ==
    Spec => [][\A s \in Slots, p \in Party :
                  pc[s][p] \in Deciding /\ crashes' = 0 =>
                     \/ pc'[s][p] \in Deciding \cup {"shutdown"}
                     \/ p = ALICE /\ verdict[s][BOB] = "threw"]_vars
<1> DEFINE Stays == \A s \in Slots, p \in Party :
                       pc[s][p] \in Deciding /\ crashes' = 0 =>
                          \/ pc'[s][p] \in Deciding \cup {"shutdown"}
                          \/ p = ALICE /\ verdict[s][BOB] = "threw"
<1>1. LinkInv /\ [Next]_vars => [Stays]_vars
  <2> SUFFICES ASSUME LinkInv, Next PROVE Stays
    BY DEF vars
  <2>t. TypeOK
    BY DEF LinkInv
  <2>1. ASSUME NEW s \in Slots, NEW p \in Party, NetError(s, p)
        PROVE  Stays
    <3>1. /\ pc'[s][p] = "idle" /\ crashes' = crashes
          /\ \A t \in Slots, q \in Party :
                t # s \/ q # p => pc'[t][q] = pc[t][q]
      BY <2>1, <2>t, ExitFacts DEF NetError
    <3>2. ASSUME pc[s][p] \in Deciding, crashes = 0
          PROVE  p = ALICE /\ verdict[s][BOB] = "threw"
      <4>1. /\ pc[s][p] = "finalize"
            /\ pc[s][Peer(p)] \notin Undecided
            /\ ~Sent(s, Peer(p), "final")
        BY <2>1, <3>2
           DEF NetError, Waiting, Disconnected, Deciding, Got, Sent, Undecided
      <4>2. Waits
        BY <3>2 DEF LinkInv
      <4> QED
        BY <4>1, <4>2, PeerFacts DEF Waits, Undecided
    <3> QED
      BY <3>1, <3>2 DEF Deciding
  <2>2. ASSUME NEW s \in Slots, NEW p \in Party, Crash(s, p)
        PROVE  Stays
    BY <2>2, <2>t, ConstantsAssumption DEF Crash, TypeOK
  <2>3. ASSUME NEW s \in Slots, NEW p \in Party, Stopped(s, p)
        PROVE  Stays
    BY <2>3, <2>t, ExitFacts DEF Stopped, Deciding
  <2>4. ASSUME NEW s \in Slots, Connect(s) PROVE Stays
    BY <2>4, <2>t DEF Connect, Deciding, TypeOK
  <2>5. ASSUME NEW s \in Slots, NEW p \in Party,
               NEW from, NEW to, Goto(s, p, from, to),
               from \in Deciding => to \in Deciding \cup {"shutdown"}
        PROVE  Stays
    BY <2>5, <2>t, GotoFacts
  <2>6. ASSUME NEW s \in Slots, NEW p \in Party,
               \/ \E i \in Input : Launch(s, p, i)
               \/ Step(s, p) /\ ~NetError(s, p)
        PROVE  Stays
    <3>1. \E from, to :
             /\ Goto(s, p, from, to)
             /\ from \in Deciding => to \in Deciding \cup {"shutdown"}
      BY <2>6 DEF Launch, Step, LoadDatabase, EpochSync, SetupZK, Gate,
                  EvaluateThrows, Evaluate, Reveal, CheckNullifier, Decide,
                  Finalize, SendEmail, Shutdown, Deciding
    <3> QED
      BY <3>1, <2>5
  <2> QED
    BY <2>1, <2>2, <2>3, <2>4, <2>6 DEF Next
<1> QED
  BY <1>1, LinkInvariant, PTL DEF Spec

-----------------------------------------------------------------------------
(* Nobody waits for a peer that waits, whatever crashes and overlaps.      *)

\* A process of a connection has sent what it sends on the way to where it
\* is, on this connection and not on an earlier one of the slot.
HasSent ==
    \A s \in Slots, p \in Party :
        /\ pc[s][p] \in (Undecided \ {"epoch"}) \cup {"finalize"} =>
              /\ p = ALICE => Sent(s, p, "epoch")
              /\ Sent(s, p, "setup")
        /\ p = ALICE /\ pc[s][p] \in {"check", "finalize"} =>
              Sent(s, p, "reveal")
        /\ p = ALICE => pc[s][p] # "reveal"
        /\ pc[s][p] = "finalize" => Sent(s, p, "final")

\* A step that sends nothing new keeps HasSent when it takes processes only to
\* phases in which nothing more must have been sent.
LEMMA HasSentFrame ==
    ASSUME HasSent,
           \A s \in Slots, p \in Party :
              \/ pc'[s][p] \in {"idle", "init", "loaded", "epoch", "email",
                                "shutdown", "stopping"}
              \/ /\ wire[s] \subseteq wire'[s]
                 /\ \/ pc'[s][p] = pc[s][p]
                    \/ /\ pc[s][p] \in {"setup", "gate"}
                       /\ pc'[s][p] \in {"gate", "evaluate"}
                    \/ /\ p = BOB
                       /\ pc[s][p] \in {"evaluate", "reveal"}
                       /\ pc'[s][p] \in {"reveal", "check"}
    PROVE  HasSent'
  BY PeerFacts DEF HasSent, Sent, Undecided

\* Every step keeps HasSent, a crash and a new connection included.
LEMMA HasSentStep == TypeOK /\ HasSent /\ [Next]_vars => HasSent'
<1> SUFFICES ASSUME TypeOK, HasSent, [Next]_vars PROVE HasSent'
  OBVIOUS
<1>1. CASE UNCHANGED vars
  BY <1>1, HasSentFrame DEF vars
<1>2. ASSUME NEW s \in Slots, Connect(s) PROVE HasSent'
  BY <1>2, HasSentFrame DEF Connect, TypeOK
<1>3. ASSUME NEW s \in Slots, NEW p \in Party, Exit(s, p) PROVE HasSent'
  BY <1>3, ExitFacts, HasSentFrame DEF Exit
<1>4. ASSUME NEW s \in Slots, NEW p \in Party, UNCHANGED wire,
             NEW from, NEW to, Goto(s, p, from, to),
             \/ to \in {"init", "loaded", "email", "shutdown", "stopping"}
             \/ from = "setup" /\ to = "gate"
             \/ from = "gate" /\ to = "evaluate"
             \/ p = BOB /\ from = "evaluate" /\ to = "reveal"
             \/ p = BOB /\ from = "reveal" /\ to = "check"
      PROVE  HasSent'
  <2>1. /\ pc[s][p] = from /\ pc'[s][p] = to
        /\ \A t \in Slots, q \in Party :
              (t = s /\ q = p) \/ pc'[t][q] = pc[t][q]
    BY <1>4, GotoFacts
  <2>2. \A t \in Slots : wire[t] \subseteq wire'[t]
    BY <1>4
  <2> QED
    BY <1>4, <2>1, <2>2, HasSentFrame
<1>5. ASSUME NEW s \in Slots, NEW p \in Party,
             \/ \E i \in Input : Launch(s, p, i)
             \/ LoadDatabase(s, p) \/ SetupZK(s, p) \/ Gate(s, p)
             \/ EvaluateThrows(s, p) \/ (p = BOB /\ Evaluate(s, p))
             \/ p = BOB /\ Reveal(s)
             \/ \E c \in BOOLEAN : Finalize(s, p, c)
             \/ p = ALICE /\ \E b \in BOOLEAN : SendEmail(s, b)
             \/ Shutdown(s, p)
      PROVE  HasSent'
  BY <1>5, <1>4, PeerFacts DEF Launch, LoadDatabase, SetupZK, Gate,
     EvaluateThrows, Evaluate, Reveal, Finalize, SendEmail, Shutdown
<1>6. ASSUME NEW s \in Slots, NEW p \in Party, NEW tags, NEW from, NEW to,
             Goto(s, p, from, to), Send(s, p, tags),
             \/ from = "epoch" /\ to = "setup" /\ "setup" \in tags
                   /\ (p = ALICE => "epoch" \in tags)
             \/ from = "evaluate" /\ to = "check" /\ "reveal" \in tags
             \/ from = "check" /\ to = "finalize" /\ "final" \in tags
      PROVE  HasSent'
  <2>1. /\ pc[s][p] = from /\ pc'[s][p] = to
        /\ \A t \in Slots, q \in Party :
              (t = s /\ q = p) \/ pc'[t][q] = pc[t][q]
    BY <1>6, GotoFacts
  <2>2. \A t \in Slots, q \in Party, g \in Tag :
           /\ Sent(t, q, g) => Sent(t, q, g)'
           /\ t = s /\ q = p /\ g \in tags => Sent(t, q, g)'
    BY <1>6, SendFacts
  <2> SUFFICES ASSUME NEW t \in Slots, NEW q \in Party
               PROVE  /\ pc'[t][q] \in (Undecided \ {"epoch"})
                                            \cup {"finalize"} =>
                            /\ q = ALICE => Sent(t, q, "epoch")'
                            /\ Sent(t, q, "setup")'
                      /\ q = ALICE /\ pc'[t][q] \in {"check", "finalize"} =>
                            Sent(t, q, "reveal")'
                      /\ q = ALICE => pc'[t][q] # "reveal"
                      /\ pc'[t][q] = "finalize" => Sent(t, q, "final")'
    BY DEF HasSent
  <2>3. CASE t = s /\ q = p
    BY <1>6, <2>1, <2>2, <2>3 DEF HasSent, Tag, Undecided
  <2>4. CASE ~(t = s /\ q = p)
    BY <2>1, <2>2, <2>4 DEF HasSent, Tag
  <2> QED
    BY <2>3, <2>4
<1>7. ASSUME NEW s \in Slots, NEW p \in Party,
             \/ EpochSync(s, p) \/ (p = ALICE /\ Evaluate(s, p))
             \/ CheckNullifier(s, p)
      PROVE  HasSent'
  <2>1. CASE EpochSync(s, p)
    BY <2>1, <1>6, PeerFacts DEF EpochSync
  <2>2. CASE p = ALICE /\ Evaluate(s, p)
    BY <2>2, <1>6, PeerFacts DEF Evaluate
  <2>3. CASE CheckNullifier(s, p)
    BY <2>3, <1>6 DEF CheckNullifier, Decide
  <2> QED
    BY <1>7, <2>1, <2>2, <2>3
<1> QED
  BY <1>1, <1>2, <1>3, <1>5, <1>7
     DEF Next, Step, Stopped, Crash, NetError

\* Of the two ends of a connection never both wait for the other, for any
\* number of crashes, restarts and overlapping processes, unless BOB's gate
\* took bits that ALICE does not send twice: whoever waits is about to be sent
\* what it waits for, or sees the connection closed.  This is the safety part
\* of ConnectedTerminates.
THEOREM NeverBothBlocked ==
    Spec => [](\A s \in Slots :
                   Waiting(s, ALICE) /\ Waiting(s, BOB) => GateRuns(s, BOB))
<1> DEFINE OneMoves ==
        \A s \in Slots :
            Waiting(s, ALICE) /\ Waiting(s, BOB) => GateRuns(s, BOB)
<1>1. Init => HasSent
  BY DEF Init, HasSent, Undecided
<1>2. TypeOK /\ HasSent => OneMoves
  <2> SUFFICES ASSUME HasSent, NEW s \in Slots,
                      Waiting(s, ALICE), Waiting(s, BOB), ~GateRuns(s, BOB)
               PROVE  FALSE
    OBVIOUS
  <2>1. \/ pc[s][ALICE] = "setup" /\ ~Sent(s, BOB, "setup")
        \/ pc[s][ALICE] = "reveal" /\ ~Sent(s, BOB, "reveal")
        \/ pc[s][ALICE] = "finalize" /\ ~Sent(s, BOB, "final")
    BY PeerFacts DEF Waiting, GateRuns, Got, Sent
  <2>2. \/ pc[s][BOB] = "epoch" /\ ~Sent(s, ALICE, "epoch")
        \/ pc[s][BOB] = "setup" /\ ~Sent(s, ALICE, "setup")
        \/ pc[s][BOB] = "reveal" /\ ~Sent(s, ALICE, "reveal")
        \/ pc[s][BOB] = "finalize" /\ ~Sent(s, ALICE, "final")
    BY PeerFacts DEF Waiting, Got, Sent
  <2> QED
    BY <2>1, <2>2, PeerFacts DEF HasSent, Undecided
<1> QED
  BY <1>1, <1>2, HasSentStep, TypeCorrect, PTL DEF Spec

-----------------------------------------------------------------------------
(* The session implements the ledger.                                      *)

\* Every step of sessions that do not overlap is a commit of save_nullifier,
\* an attestation by e-mail, or a stutter of the ledger.
LEMMA LedgerStep ==
    ASSUME SerialInv, [Next]_vars
    PROVE  [Ledger!LedgerNext]_(Ledger!ledger)
<1> USE DEF Ledger!LedgerNext, Ledger!ledger, Ledger!Commit, Ledger!Attest
<1>t. TypeOK /\ Dir[ALICE] \in Dirs
  BY ConstantsAssumption DEF SerialInv, PersistInv
<1>1. ASSUME NEW s \in Slots, NEW p \in Party, CheckNullifier(s, p)
      PROVE  [Ledger!LedgerNext]_(Ledger!ledger)
  <2>1. revealed[s] \in Nullifiers /\ emails' = emails
    BY <1>1, <1>t DEF CheckNullifier, Decide, TypeOK
  <2>2. \/ file'[Dir[ALICE]] = file[Dir[ALICE]]
        \/ file'[Dir[ALICE]] = file[Dir[ALICE]] \cup {revealed[s]}
    <3>1. CASE UNCHANGED file
      BY <3>1
    <3>2. CASE file' = [file EXCEPT ![Dir[p]] = @ \cup {revealed[s]}]
      BY <3>2, <1>t DEF TypeOK
    <3> QED
      BY <1>1, <3>1, <3>2 DEF CheckNullifier
  <2>3. CASE revealed[s] \in file[Dir[ALICE]]
    BY <2>1, <2>2, <2>3
  <2>4. CASE revealed[s] \notin file[Dir[ALICE]]
    BY <2>1, <2>2, <2>4
  <2> QED
    BY <2>3, <2>4
<1>2. ASSUME NEW s \in Slots, NEW b \in BOOLEAN, SendEmail(s, b)
      PROVE  [Ledger!LedgerNext]_(Ledger!ledger)
  <2>1. /\ revealed[s] \in Nullifiers
        /\ revealed[s] \in file[Dir[ALICE]]
        /\ emails[revealed[s]] = 0
    BY <1>2, <1>t DEF SendEmail, Goto, SerialInv, PersistInv,
                      AcceptedIsPersisted, AcceptedIsUnmailed, TypeOK
  <2>2. file' = file
    BY <1>2 DEF SendEmail
  <2>3. CASE emails' = emails
    BY <2>2, <2>3
  <2>4. CASE emails' = [emails EXCEPT ![revealed[s]] = @ + 1]
    <3>1. emails' = [emails EXCEPT ![revealed[s]] = 1]
      BY <2>1, <2>4, <1>t DEF TypeOK
    <3> QED
      BY <2>1, <2>2, <3>1
  <2> QED
    BY <1>2, <2>3, <2>4 DEF SendEmail
<1>3. ASSUME ~ \E s \in Slots, p \in Party : CheckNullifier(s, p),
             ~ \E s \in Slots, b \in BOOLEAN : SendEmail(s, b)
      PROVE  file' = file /\ emails' = emails
  BY <1>3 DEF Next, Step, vars, Connect, Crash, Launch, LoadDatabase,
              EpochSync, SetupZK, Gate, EvaluateThrows, Evaluate, Reveal,
              Finalize, Shutdown, Stopped, NetError, Exit
<1> QED
  BY <1>1, <1>2, <1>3

\* With one process per party at a time, the session implements the ledger:
\* committing is ALICE's directory gaining a line, attesting is the one
\* accepted e-mail, and every other step leaves both alone.
THEOREM SessionImplementsLedger ==
    ASSUME ~Overlap
    PROVE  Spec => ImplementsLedger
<1>1. Init => Ledger!LedgerInit
  BY ConstantsAssumption DEF Init, Ledger!LedgerInit
<1>2. SerialInv /\ [Next]_vars => [Ledger!LedgerNext]_(Ledger!ledger)
  BY LedgerStep
<1> QED
  BY <1>1, <1>2, SerialInvariant, PTL
     DEF Spec, ImplementsLedger, Ledger!LedgerSpec
=============================================================================
