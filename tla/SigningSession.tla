--------------------------- MODULE SigningSession ---------------------------
(***************************************************************************)
(* One signing session of the MPC node: two operating-system processes,    *)
(* the prover ALICE (party 1, listens) and the verifier BOB (party 2,      *)
(* connects), both running mpcauth_server.  A process loads the nullifier  *)
(* database once at start-up, meets its peer over one TCP connection,      *)
(* evaluates the circuits, learns the public nullifier, checks it against  *)
(* the copy it loaded, appends it to the database file, finalizes the ZK   *)
(* protocol and, if it is ALICE, sends the verification e-mail.            *)
(*                                                                         *)
(* A slot is a port on which the two processes of a session are launched;  *)
(* it is used again for later sessions.  Processes may crash at any point  *)
(* and be launched again: only the database file survives.                 *)
(***************************************************************************)
EXTENDS Naturals

CONSTANTS
    Slots,        \* ports on which sessions run
    Shards,       \* identity shards a process can be given with --shard
    Nullifiers,   \* values of the revealed hash
    Sha,          \* the SHA-256 circuit, a function of ALICE's shard
    Dirs,         \* working directories, each with its own database file
    Dir,          \* the directory each party is started in
    Epochs,       \* values of CLUSTER_BFT_EPOCH
    PassFiles,    \* what a process finds of its shard_<party>_pass.bin and of
                  \* the AES circuit file
    Overlap,      \* may one party have processes in two slots at a time
    EnableLLSS,   \* the ENABLE_LLSS build option
    MaxLaunches,  \* bound on the number of processes started
    MaxCrashes    \* bound on the number of crashes

ALICE == 1
BOB == 2
Party == {ALICE, BOB}
Peer(p) == 3 - p

ASSUME ConstantsAssumption ==
    /\ Shards # {} /\ Epochs # {} /\ PassFiles # {}
    /\ Sha \in [Shards -> Nullifiers]
    /\ Dir \in [Party -> Dirs]
    /\ PassFiles \subseteq {"ok", "missing", "empty", "long", "noAES"}
    /\ Overlap \in BOOLEAN
    /\ EnableLLSS \in BOOLEAN
    /\ MaxLaunches \in Nat
    /\ MaxCrashes \in Nat

VARIABLES
    pc,        \* where each process is in main / execute_mpc_logic
    input,     \* the arguments and environment of each process
    mem,       \* nullifier_database, the in-memory set of each process
    file,      \* nullifier_database.txt of each directory, as a set of lines
    wire,      \* what each party has sent on the slot's current connection
    request,   \* request_epoch, as ALICE sent it on the current connection
    revealed,  \* the hash made PUBLIC on the slot's current connection
    verdict,   \* how execute_mpc_logic went, for each process
    emails,    \* deliveries accepted by the mail server, per nullifier
    missed,    \* history: what ALICE saved in a session in which BOB threw
    unsent,    \* history: what ALICE saved and could not e-mail, because the
               \* mail server did not take it or the ZK check failed
    launches, crashes

vars == <<pc, input, mem, file, wire, request, revealed, verdict, emails,
          missed, unsent, launches, crashes>>

Phase == {"idle", "init", "loaded", "epoch", "setup", "gate", "evaluate",
          "reveal", "check", "finalize", "email", "shutdown", "stopping"}
Verdict == {"none", "threw", "rejected", "accepted", "cheated"}
Input == [shard : Shards, pass : PassFiles, epoch : Epochs]
AnyInput == CHOOSE i \in Input : TRUE
Message == Party \X {"epoch", "setup", "reveal", "final"}

TypeOK ==
    /\ pc \in [Slots -> [Party -> Phase]]
    /\ input \in [Slots -> [Party -> Input]]
    /\ mem \in [Slots -> [Party -> SUBSET Nullifiers]]
    /\ file \in [Dirs -> SUBSET Nullifiers]
    /\ wire \in [Slots -> SUBSET Message]
    /\ request \in [Slots -> Epochs]
    /\ revealed \in [Slots -> Nullifiers]
    /\ verdict \in [Slots -> [Party -> Verdict]]
    /\ emails \in [Nullifiers -> Nat]
    /\ missed \in SUBSET Nullifiers
    /\ unsent \in SUBSET Nullifiers
    /\ launches \in 0..MaxLaunches
    /\ crashes \in 0..MaxCrashes

Init ==
    /\ pc = [s \in Slots |-> [p \in Party |-> "idle"]]
    /\ input = [s \in Slots |-> [p \in Party |-> AnyInput]]
    /\ mem = [s \in Slots |-> [p \in Party |-> {}]]
    /\ file = [d \in Dirs |-> {}]
    /\ wire = [s \in Slots |-> {}]
    /\ request = [s \in Slots |-> AnyInput.epoch]
    /\ revealed = [s \in Slots |-> Sha[AnyInput.shard]]
    /\ verdict = [s \in Slots |-> [p \in Party |-> "none"]]
    /\ emails = [n \in Nullifiers |-> 0]
    /\ missed = {}
    /\ unsent = {}
    /\ launches = 0
    /\ crashes = 0

-----------------------------------------------------------------------------
Goto(s, p, from, to) ==
    /\ pc[s][p] = from
    /\ pc' = [pc EXCEPT ![s][p] = to]

Send(s, p, tags) == wire' = [wire EXCEPT ![s] = @ \cup ({p} \X tags)]

Got(s, p, tag) == <<Peer(p), tag>> \in wire[s]

\* The operator starts a process: parse_args and validate_args succeed, the
\* hex shard parses.  The guard on Overlap is a rule of operation, not code.
\* BOB's shard only goes into the keys of a record that is thrown away, so one
\* value of it is enough.
Launch(s, p, i) ==
    /\ launches < MaxLaunches
    /\ p = BOB => i.shard = AnyInput.shard
    /\ Overlap \/ \A t \in Slots : pc[t][p] = "idle"
    /\ Goto(s, p, "idle", "init")
    /\ input' = [input EXCEPT ![s][p] = i]
    /\ launches' = launches + 1
    /\ UNCHANGED <<mem, file, wire, request, revealed, verdict, emails,
                   missed, unsent, crashes>>

\* A bug: the database is never read back.
LoadDatabaseSkipped(s, p) ==
    /\ Goto(s, p, "init", "loaded")
    /\ UNCHANGED <<input, mem, file, wire, request, revealed, verdict, emails,
                   missed, unsent, launches, crashes>>

\* load_nullifier_database: the only time the file is ever read.
LoadDatabase(s, p) ==
    /\ Goto(s, p, "init", "loaded")
    /\ mem' = [mem EXCEPT ![s][p] = file[Dir[p]]]
    /\ UNCHANGED <<input, file, wire, request, revealed, verdict, emails,
                   missed, unsent, launches, crashes>>

\* The NetIO constructors meet: ALICE accepts BOB's connection on the port.
Connect(s) ==
    /\ \A p \in Party : pc[s][p] = "loaded"
    /\ pc' = [pc EXCEPT ![s] = [p \in Party |-> "epoch"]]
    /\ wire' = [wire EXCEPT ![s] = {}]
    /\ verdict' = [verdict EXCEPT ![s] = [p \in Party |-> "none"]]
    /\ UNCHANGED <<input, mem, file, request, revealed, emails, missed, unsent,
                   launches, crashes>>

\* A bug: both parties receive before they send.
EpochSyncBothReceive(s, p) ==
    /\ Got(s, p, "epoch")
    /\ Goto(s, p, "epoch", "setup")
    /\ Send(s, p, {"epoch", "setup"})
    /\ request' = [request EXCEPT ![s] = input[s][p].epoch]
    /\ UNCHANGED <<input, mem, file, revealed, verdict, emails, missed, unsent,
                   launches, crashes>>

\* Epoch synchronization: ALICE sends her epoch, BOB receives it.  Either goes
\* on to setup_zk_bool, whose oblivious transfers begin with a message each
\* way.
EpochSync(s, p) ==
    /\ Goto(s, p, "epoch", "setup")
    /\ \/ /\ p = ALICE
          /\ Send(s, p, {"epoch", "setup"})
          /\ request' = [request EXCEPT ![s] = input[s][ALICE].epoch]
       \/ /\ p = BOB
          /\ Got(s, p, "epoch")
          /\ Send(s, p, {"setup"})
          /\ UNCHANGED request
    /\ UNCHANGED <<input, mem, file, revealed, verdict, emails, missed, unsent,
                   launches, crashes>>

\* setup_zk_bool: each end needs what the other sends in it.
SetupZK(s, p) ==
    /\ Got(s, p, "setup")
    /\ Goto(s, p, "setup", "gate")
    /\ UNCHANGED <<input, mem, file, wire, request, revealed, verdict, emails,
                   missed, unsent, launches, crashes>>

\* The transition gate runs at BOB when the epochs differ.  ALICE compares her
\* epoch with itself, so she never runs it.
GateRuns(s, p) ==
    EnableLLSS /\ p = BOB /\ request[s] # input[s][BOB].epoch

\* LLSSContext::apply_transition_gate, skipped when the epochs agree.  BOB's
\* role->feed takes ALICE's bits for it; the first she sends are those of the
\* circuits that follow.
Gate(s, p) ==
    /\ GateRuns(s, p) => Got(s, p, "reveal")
    /\ Goto(s, p, "gate", "evaluate")
    /\ UNCHANGED <<input, mem, file, wire, request, revealed, verdict, emails,
                   missed, unsent, launches, crashes>>

\* JesseQ_TLS_Encrypt finds the AES circuit.  The record it produces goes
\* nowhere.
Encrypts(s, p) == input[s][p].pass # "noAES"

\* Joint_SMTP_Authenticate gets through: the password shard is not empty, and
\* the command that carries it fits into the output buffer.
Authenticates(s, p) ==
    input[s][p].pass \notin {"missing", "empty", "long"} /\ Encrypts(s, p)

\* execute_mpc_logic throws before any hash is revealed to its party: the
\* LLSS protocol cannot be set up or run, or, behind the gate, there is no
\* password shard or Joint_SMTP_Authenticate throws.  main catches it, sends
\* no e-mail and shuts down.
EvaluateThrows(s, p) ==
    /\ \/ EnableLLSS /\ Goto(s, p, "gate", "shutdown")
       \/ ~Authenticates(s, p) /\ Goto(s, p, "evaluate", "shutdown")
    /\ verdict' = [verdict EXCEPT ![s][p] = "threw"]
    /\ missed' = IF p = BOB /\ verdict[s][ALICE] = "accepted"
                   THEN missed \cup {revealed[s]} ELSE missed
    /\ UNCHANGED <<input, mem, file, wire, request, revealed, emails, unsent,
                   launches, crashes>>

\* execute_mpc_logic behind the gate, up to the reveal: password shard, TLS
\* keys, Joint_SMTP_Authenticate, and the SHA-256 circuit on ALICE's shard.
\* ALICE, the prover, knows the hash: the reveal sends what the verifier needs
\* and she goes on without hearing from him.
Evaluate(s, p) ==
    /\ Authenticates(s, p)
    /\ \/ /\ p = ALICE
          /\ Goto(s, p, "evaluate", "check")
          /\ Send(s, p, {"reveal"})
          /\ revealed' = [revealed EXCEPT ![s] = Sha[input[s][ALICE].shard]]
       \/ /\ p = BOB
          /\ Goto(s, p, "evaluate", "reveal")
          /\ UNCHANGED <<wire, revealed>>
    /\ UNCHANGED <<input, mem, file, request, verdict, emails, missed, unsent,
                   launches, crashes>>

\* BOB, the verifier, receives the hash.  If his gate ran it has taken bits
\* that belonged to the circuits, and those he then lacks ALICE never sends.
Reveal(s) ==
    /\ Got(s, BOB, "reveal")
    /\ ~GateRuns(s, BOB)
    /\ Goto(s, BOB, "reveal", "check")
    /\ UNCHANGED <<input, mem, file, wire, request, revealed, verdict, emails,
                   missed, unsent, launches, crashes>>

Known(s, p) == revealed[s] \in mem[s][p]

\* The decision, apart from the database.  Both outcomes go on to
\* finalize_zk_bool, which begins by sending.
Decide(s, p) ==
    /\ Goto(s, p, "check", "finalize")
    /\ Send(s, p, {"final"})
    /\ verdict' = [verdict EXCEPT
                      ![s][p] = IF Known(s, p) THEN "rejected" ELSE "accepted"]
    /\ missed' = IF p = ALICE /\ verdict[s][BOB] = "threw" /\ ~Known(s, p)
                   THEN missed \cup {revealed[s]} ELSE missed
    /\ UNCHANGED <<input, request, revealed, emails, unsent, launches,
                   crashes>>

\* A bug: the new nullifier is inserted in memory only.
CheckNullifierUnsaved(s, p) ==
    /\ Decide(s, p)
    /\ mem' = [mem EXCEPT ![s][p] = @ \cup {revealed[s]}]
    /\ UNCHANGED file

\* A bug: only the prover keeps the database.
CheckNullifierAliceSaves(s, p) ==
    /\ Decide(s, p)
    /\ file' = IF p = ALICE
                 THEN [file EXCEPT ![Dir[p]] = @ \cup {revealed[s]}] ELSE file
    /\ UNCHANGED mem

\* A bug: a line is written without its newline and runs into the next one.
CheckNullifierNoNewline(s, p) ==
    /\ Decide(s, p)
    /\ file' = [file EXCEPT ![Dir[p]] = {<<@, revealed[s]>>}]
    /\ UNCHANGED mem

\* A bug: finalize_zk_bool is taken for the prover's business, the verifier
\* returns without it.
CheckNullifierBobReturns(s, p) ==
    /\ Goto(s, p, "check", IF p = BOB THEN "shutdown" ELSE "finalize")
    /\ IF p = BOB THEN UNCHANGED wire ELSE Send(s, p, {"final"})
    /\ verdict' = [verdict EXCEPT ![s][p] = IF Known(s, p) THEN "rejected"
                                                           ELSE "accepted"]
    /\ mem' = [mem EXCEPT ![s][p] = @ \cup {revealed[s]}]
    /\ file' = [file EXCEPT ![Dir[p]] = @ \cup {revealed[s]}]
    /\ UNCHANGED <<input, request, revealed, emails, missed, unsent, launches,
                   crashes>>

\* The check against the set loaded at start-up; a new nullifier is inserted
\* and appended to the file (save_nullifier) before the ZK check.
CheckNullifier(s, p) ==
    /\ Decide(s, p)
    /\ \/ Known(s, p) /\ UNCHANGED <<mem, file>>
       \/ /\ ~Known(s, p)
          /\ mem' = [mem EXCEPT ![s][p] = @ \cup {revealed[s]}]
          /\ file' = [file EXCEPT ![Dir[p]] = @ \cup {revealed[s]}]

\* A bug: the nullifier is returned after a rejection too.
FinalizeForgetsRejection(s, p, cheated) ==
    /\ Got(s, p, "final")
    /\ Goto(s, p, "finalize",
            IF ~cheated /\ p = ALICE THEN "email" ELSE "shutdown")
    /\ UNCHANGED <<input, mem, file, wire, request, revealed, verdict, emails,
                   missed, unsent, launches, crashes>>

\* finalize_zk_bool returns: its value is ignored after a rejection, and makes
\* execute_mpc_logic throw when it is true after an acceptance.
Finalize(s, p, cheated) ==
    LET accepted == verdict[s][p] = "accepted"
    IN  /\ Got(s, p, "final")
        /\ Goto(s, p, "finalize",
                IF accepted /\ ~cheated /\ p = ALICE THEN "email"
                                                     ELSE "shutdown")
        /\ \/ /\ accepted /\ cheated
              /\ verdict' = [verdict EXCEPT ![s][p] = "cheated"]
              /\ unsent' = IF p = ALICE THEN unsent \cup {revealed[s]}
                                        ELSE unsent
           \/ ~(accepted /\ cheated) /\ UNCHANGED <<verdict, unsent>>
        /\ UNCHANGED <<input, mem, file, wire, request, revealed, emails,
                       missed, launches, crashes>>

\* ALICE's e-mail: accepted by the mail server, or not (it is not configured,
\* or does not take it), which is logged and forgotten.
SendEmail(s, sent) ==
    /\ Goto(s, ALICE, "email", "shutdown")
    /\ \/ /\ sent
          /\ emails' = [emails EXCEPT ![revealed[s]] = @ + 1]
          /\ UNCHANGED unsent
       \/ /\ ~sent
          /\ unsent' = unsent \cup {revealed[s]}
          /\ UNCHANGED emails
    /\ UNCHANGED <<input, mem, file, wire, request, revealed, verdict, missed,
                   launches, crashes>>

\* main has joined the heartbeat thread and closes the connection; the threads
\* of the forwarder and the discovery server are still to be joined.
Shutdown(s, p) ==
    /\ Goto(s, p, "shutdown", "stopping")
    /\ UNCHANGED <<input, mem, file, wire, request, revealed, verdict, emails,
                   missed, unsent, launches, crashes>>

\* The memory of a process that ends is gone, its sockets are closed.
Exit(s, p) ==
    /\ pc' = [pc EXCEPT ![s][p] = "idle"]
    /\ mem' = [mem EXCEPT ![s][p] = {}]
    /\ input' = [input EXCEPT ![s][p] = AnyInput]
    /\ UNCHANGED <<file, wire, request, revealed, verdict, emails, missed,
                   unsent, launches>>

\* The joins in forwarder->stop() and discovery.stop() return: each thread
\* blocked in accept() has had one more client, which need never come.
Stopped(s, p) ==
    /\ pc[s][p] = "stopping"
    /\ Exit(s, p)
    /\ UNCHANGED crashes

\* A receive for which the peer has not sent, or will never send, the message.
Waiting(s, p) ==
    \/ pc[s][p] = "epoch" /\ p = BOB /\ ~Got(s, p, "epoch")
    \/ pc[s][p] = "setup" /\ ~Got(s, p, "setup")
    \/ pc[s][p] = "gate" /\ GateRuns(s, p) /\ ~Got(s, p, "reveal")
    \/ pc[s][p] = "reveal" /\ (GateRuns(s, p) \/ ~Got(s, p, "reveal"))
    \/ pc[s][p] = "finalize" /\ ~Got(s, p, "final")

\* The other end of the connection is closed.
Disconnected(s, p) ==
    pc[s][Peer(p)] \in {"idle", "init", "loaded", "stopping"}

\* A receive on such a connection, or a transfer in the middle of the
\* circuits: the network layer prints an error and exits the process.
NetError(s, p) ==
    /\ Disconnected(s, p)
    /\ Waiting(s, p) \/ pc[s][p] = "evaluate"
    /\ Exit(s, p)
    /\ UNCHANGED crashes

Crash(s, p) ==
    /\ pc[s][p] # "idle"
    /\ crashes < MaxCrashes
    /\ crashes' = crashes + 1
    /\ Exit(s, p)

-----------------------------------------------------------------------------
\* What the process itself does once started.
Step(s, p) ==
    \/ LoadDatabase(s, p)
    \/ EpochSync(s, p)
    \/ SetupZK(s, p)
    \/ Gate(s, p)
    \/ EvaluateThrows(s, p)
    \/ Evaluate(s, p)
    \/ p = BOB /\ Reveal(s)
    \/ CheckNullifier(s, p)
    \/ \E cheated \in BOOLEAN : Finalize(s, p, cheated)
    \/ p = ALICE /\ \E sent \in BOOLEAN : SendEmail(s, sent)
    \/ Shutdown(s, p)
    \/ NetError(s, p)

Next ==
    \E s \in Slots :
        \/ Connect(s)
        \/ \E p \in Party : \/ Step(s, p)
                            \/ Stopped(s, p)
                            \/ Crash(s, p)
                            \/ \E i \in Input : Launch(s, p, i)

Spec == Init /\ [][Next]_vars

\* A running process keeps running, two waiting processes meet; nobody has to
\* launch one, and no client has to connect to one that is stopping.
Fairness == \A s \in Slots : /\ WF_vars(Connect(s))
                             /\ \A p \in Party : WF_vars(Step(s, p))

FairSpec == Spec /\ Fairness

-----------------------------------------------------------------------------
(* Properties *)

\* A verification e-mail goes out only for a nullifier that is on disk in
\* ALICE's directory, so that no crash and restart can forget it
\* (execute_mpc_logic saves before main e-mails).
EmailedIsPersisted ==
    \A n \in Nullifiers : emails[n] > 0 => n \in file[Dir[ALICE]]

\* "REJECTED: Identity already signed": however often ALICE crashes and is
\* started again with the same shard, the mail server accepts one
\* verification e-mail for its nullifier.
AtMostOneEmail == \A n \in Nullifiers : emails[n] <= 1

\* A nullifier on disk stands for a signature that can never be repeated.  If
\* no process has crashed, its e-mail was accepted, or ALICE is still about to
\* send it, or the mail server or the ZK check has refused it, or BOB threw
\* while ALICE saved (main forgets the nullifier in the last three cases, and
\* the next session of that identity is rejected).
SavedIsEmailed ==
    crashes = 0 =>
        \A n \in file[Dir[ALICE]] :
            \/ emails[n] > 0
            \/ n \in unsent \cup missed
            \/ \E s \in Slots : /\ revealed[s] = n
                                /\ verdict[s][ALICE] = "accepted"
                                /\ pc[s][ALICE] \in {"finalize", "email"}

\* The parties keep separate databases and never tell each other what they
\* found, yet as long as no process has crashed they agree on whether an
\* identity has signed: a rejection by BOB means one by ALICE, and BOB accepts
\* what ALICE rejects only if he threw when she saved it.
VerdictsAgree ==
    crashes = 0 =>
        \A s \in Slots :
            /\ verdict[s][BOB] = "rejected" => verdict[s][ALICE] \in
                                                   {"none", "rejected"}
            /\ verdict[s][ALICE] = "rejected" =>
                   \/ verdict[s][BOB] \in {"none", "threw", "rejected"}
                   \/ revealed[s] \in missed

\* A process that got as far as the nullifier check ends through main's
\* shutdown and never through a network error, unless a process crashes, the
\* peer has thrown or his transition gate ran: the party that rejects still
\* runs finalize_zk_bool, on which its peer waits.
CheckedReachesShutdown ==
    \A s \in Slots, p \in Party :
        pc[s][p] = "check" ~> \/ pc[s][p] = "shutdown"
                              \/ crashes > 0
                              \/ verdict[s][Peer(p)] = "threw"
                              \/ GateRuns(s, BOB)

\* A process that has met its peer gets as far as the joins at the end of
\* main, whatever the peer does: no exchange leaves both ends of a connection
\* waiting, unless BOB's gate ran, and a lost peer is noticed.
ConnectedTerminates ==
    \A s \in Slots, p \in Party :
        pc[s][p] \notin {"idle", "init", "loaded"} ~>
            pc[s][p] \in {"stopping", "idle"} \/ GateRuns(s, BOB)

\* The ledger that ALICE's database implements.
Ledger == INSTANCE NullifierLedger
    WITH committed <- file[Dir[ALICE]], attested <- emails

\* The session implements the ledger when no party runs twice at a time:
\* persisting is a commit, delivering the e-mail is the one attestation, and
\* everything else, crashes included, leaves the ledger alone.
ImplementsLedger == Ledger!LedgerSpec
=============================================================================
