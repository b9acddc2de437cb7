# Freehold: TLA+ models and proofs

This directory holds TLA+ specifications of the Freehold petition system, the
TLC configurations that check them on small instances, and theorems about all
the components' modules that TLAPS proves for every instance. `PROJECT.json` lists the
components, runs, mutants and theorems, and maps every definition to the lines
it models. Paths below are relative to the repository.

## 1. The system

Freehold lets an employee sign a petition once without showing who they are.
An e-mail address is cut into shards (`src/client/sharding.py`). Two processes
of `src/server/mpcauth_server.cpp`, the prover ALICE and the verifier BOB,
evaluate circuits over the shards, reveal a SHA-256 *nullifier*, refuse one they
have seen before, and ALICE sends a verification e-mail. Around the session each
node runs a discovery server, a relay client, a forwarder and a heartbeat. A web
page leads through the signing, shows the topology, and draws itself a background
out of company logos.

| Component | State | Operations | Talks to | What is hard | What makes it correct |
|---|---|---|---|---|---|
| Signing session (`mpcauth_server.cpp` `main`, `execute_mpc_logic`) | in-memory nullifier set, `nullifier_database.txt`, epoch, the peer connection | load, connect, epoch exchange, setup, transition gate, evaluate, reveal, check and save, finalize, e-mail, joins, exit | its peer over TCP; the SMTP client | two processes, crashes and restarts, a database read once and written by several | one e-mail per nullifier, none before it is on disk; nobody left waiting |
| Node registry (`discovery.cpp`) | `nodes_` under `nodes_mu_` | `register_node`, `update_relay_status`, `prune_stale`, `topology_json` | called by every thread of the node | TTL against heartbeat | a live node stays listed with its latest fields |
| Discovery server (`discovery.cpp`) | `ws_clients_` under `ws_mu_`, connections | announce, upgrade, broadcast, leave, stop | HTTP and WebSocket clients | snapshot and send under different locks, descriptors closed by two parties | clients see the registry; no write to a closed descriptor |
| Node life cycle (`mpcauth_server.cpp` `main`) | `g_shutdown`, `public_hostname`, threads | announce, heartbeat, relay callbacks, signal, shutdown | registry, relay client, servers | unsynchronised flag and string, joins | stays listed under its subdomain; shutdown ends |
| Relay client (`relay_client.cpp`) | `ServiceState` per service | register, confirm, heartbeat, subdomain callback | the relay over UDP | lost datagrams, leases | registered, and stays so |
| Forwarder (`forwarder.cpp`) | a connection | read header and ciphertext, verify, relay | forwarder clients, the mail server | a stream without lengths, sends whose result is not looked at | only what was verified is forwarded; a relay ends with nothing held back but what a send lost; replies come back |
| SMTP client (`smtp_client.cpp`) | a dialogue | one command and reply at a time | the mail server | replies cut and joined, silence, partial sends | success only if accepted; returns |
| Sharding (`sharding.py`, `validate_resharding.py`) | shards per node and epoch | share, reconstruct, reshard | nodes | a resharding half installed | any threshold of one epoch gives the secret |
| Circuits (`tls_smpc.h`, `smtp_mpc.h`, `llss_mpc.h`) | wires | TLS keys, records, SMTP authentication, share transition | the session | bit-level | abstracted to what the session sees |
| Dashboard (`web-client/src/main.ts`, toggle and split mode of `MpcTerminal.ts`) | current view, classes of views and steps, chosen petition, the terminal's drawing loop | show, dismiss, sign, select, toggle | the user, the browser | timers, view transitions and an awaited animation among clicks | what is on the screen agrees with `currentViewId`; only the debug petition is signed without a code |
| Topology feed (`ws.ts`, `NetworkViz.ts`, `MpcTerminal.ts`) | one WebSocket, a reconnect timer, two listeners and the scenes they build | connect, open, message, close, subscribe, rebuild | discovery server | lost connections, late subscription, stale pushes | always a socket or a timer; both views come to draw the registry and its quorum |
| Background and tab icon (`background.ts`, `favicon.ts`) | current configuration, canvas, page colours, two caches, two cookies | set, setExact, cycle, redraw, clearConfig, resize, scheme change | the server of the logos, the window, the cookies of earlier visits | renders that await logos while others start, failing fetches, reloads | page, text colours and cookie agree with the configuration in use; every render ends

## 2. Modules

| Module | Models | Notes |
|---|---|---|
| `SigningSession` | the session of `main` and `execute_mpc_logic`, both parties | the core |
| `NullifierLedger` | the abstract promise of the database: commit once, attest at most once and only after the commit | implemented by `SigningSession` |
| `SigningSessionProofs`, `DiscoveryProofs`, `NodeLifecycleProofs`, `SmtpClientProofs`, `DashboardProofs`, `BackgroundProofs`, `TopologyFeedProofs` | theorems about the module each is named after | TLAPS |
| `ServiceProofs` | theorems about `Forwarder`, `RelayClient` and `Sharding` | TLAPS |
| `Registry` | `nodes_` and the operations on it as operators | used by the next two |
| `Discovery` | threads, broadcasts and WebSocket connections around the registry | |
| `NodeLifecycle` | one process from start-up to exit around its registry entry | |
| `RelayClient` | the engine thread of one service; the relay is external | |
| `Forwarder` | one forwarded connection; client and mail server are external | |
| `SmtpClient` | `send_verification_email`; the mail server is external | |
| `Sharding` | Shamir sharing on a small prime, and resharding | |
| `TopologyFeed` | the page's shared WebSocket, its listeners and what they draw, and the server's end of it | `Discovery` abstracted to what one client sees |
| `Dashboard` | the page's views, signing steps, terminal split and drawing loop | |
| `Background` | the generated background and the tab icon, with everything they await | the logos' server is external |
| `MC...` | values of constants for TLC | `MCSharding` also has TLC evaluate the hypothesis of a theorem |

Operators whose comment begins "A bug:" are the mutants that `PROJECT.json`
substitutes for the definition after them; nothing else uses them.

### SigningSession

A *slot* is a port on which a session's two processes are launched, again and
again. `pc` is the place of each process in `main`; `mem` is
`nullifier_database`, `file` the database file of each working directory,
`wire` what each party has sent on the current connection, `emails` the
deliveries the mail server accepted, per nullifier. The circuits are one step,
`Evaluate`, whose only lasting effect is the hash made public: a function `Sha`
of ALICE's shard. It throws where the code throws (a password shard that is
missing, empty or too long, no AES circuit, an LLSS context that cannot be set
up). The reveal goes one way: ALICE, the prover, knows the hash, sends what the
verifier needs and goes on to her check without hearing from him, so she may save
while BOB has thrown or is still evaluating; BOB waits for it (`Reveal`). Before
it there is one exchange that goes both ways, `setup_zk_bool` (`SetupZK`). `Gate`
is the transition gate, which runs at BOB alone if the epochs differ (`GateRuns`)
and takes bits that ALICE sends for the circuits.

`CheckNullifier` compares with the copy in memory, inserts, appends to the file,
and begins to finalize, in the code's order: the save comes before
`finalize_zk_bool`. `Finalize` may find the prover cheating. `Shutdown` leads to
`stopping`, where the connection is closed and the process joins threads that are
blocked in `accept()`; `Stopped` is its end, for which clients have to connect. A
process may crash between any two steps and be launched again; a receive from a
peer that is gone ends the process (`NetError`), as the network library does.
Whether one party may have two processes at a time is the constant `Overlap`:
nothing in the code prevents it. Two history variables name what is saved and not
e-mailed: `missed`, what ALICE accepted in a session in which BOB threw, and
`unsent`, what the mail server or the ZK check refused.

### Registry, Discovery, NodeLifecycle

`Registry` keeps, per key "party:port", hostname, status, relay fields and age.
`Discovery` separates what the code does under `nodes_mu_` from what it does
under `ws_mu_`: a call changes the registry and owes 0, 1 or 2 broadcasts; a
broadcast takes its JSON in one step and sends it in a later one; a joining
client is listed, then a JSON is taken for it, then sent. `overtaken` and `late`
are history variables: the topology changed after a JSON was taken, and what a
client last received was such a JSON or a known node has re-registered with
something new since, which the code does not broadcast. `NodeLifecycle` has main,
the heartbeat thread, the relay callbacks, the pruning thread and the two listen
threads. Every sleep is a lower bound, a due thread is at most `Slack` ticks
late. The unlocked write of `public_hostname` is two steps, and a read in between
returns `Torn`, which stands for any garbage. The history variable `late` says
that a thread was past its test of `g_shutdown` when main announced the node
offline, and `OfflineLast` that only such a thread lists it online again. BOB's
loop that resolves ALICE through discovery only reads and is left out.

### RelayClient

A round of the engine receives a datagram or times out, handles it, and then
tests the heartbeat and the re-registration, as one action, since nothing else
touches the service's state. A datagram arrives or is lost within a tick (2.5 s).
The relay answers a Register with a Challenge and a Confirm or Heartbeat with a
Neighbors message, keeps a port for 270 s, and may restart.

### Forwarder, SmtpClient

Streams are counted in units (forwarder) or lines (SMTP) that TCP delivers in any
grouping. In the forwarder the request says what the header's proof is worth and
how much ciphertext was signed. Its `send()` calls may write less than they are
given and nothing notices: `Connect` and `RelayRound` choose how much, all of it is
lost on a mail server that has closed, and `lost` remembers to whom something is
missing. A write to a closed mail server after one that was lost raises SIGPIPE,
which no file under `src/src` handles or blocks: `BrokenPipe` ends the process. In the SMTP client a plain `send` may fail or
write only a part; replies have up to three lines; the server may refuse any
command, give up with an unasked-for 421, or fall silent; a read with nothing to
read may time out at any moment.

### Sharding

The arithmetic of the class on a field of 7 elements, with every choice of the
random coefficients, and with secrets on both sides of the prime: `shard_secret`
does not compare, so a secret that is not below the prime comes back as its
remainder, which is what happens to an e-mail address of more than 65 bytes. The
stages are those of `validate_resharding.py`: enrolled, two nodes gone, reshared,
installed node by node.

### TopologyFeed

The server's side is one handler (`srv`: answered, listed, JSON taken, sent,
reading) and broadcasts that take and send their JSON in separate steps, in any
order, or are missing altogether, as `register_node` of a known node leaves them
out. The browser's side is `ready` (the socket's `readyState`), the reconnect
timer and the two listeners. The server closes a connection that is silent for 5
seconds, and the page is silent unless somebody types `mpc:` commands. So the
topology is re-read every few seconds, and that is what `Converges` rests on.
`viz.drawn` is the scene `rebuildTopology` built last: the nodes online, whether
their lines are lit, and the status line. The first scene is built before
`wsConnected` is read, so it always says that it is connecting, and `wsConnected`
never falls again, so nothing tells the drawing of a lost connection. The
terminal draws the same nodes by itself; `ViewsAgree` compares the two.

### Dashboard

Handlers are atomic; what they leave for later is counted or queued: `switching`
(view transitions, if the browser has them), `closing` (350 ms), `selecting` (50
ms), `leaving` (800 ms or 2 s), `animations` (awaited), `splitting` (600 ms).
Timers of different lengths may fire in any order, those of one kind in theirs.
`frames` counts the drawing loops of the terminal that have a frame pending: a
loop ends at a frame that finds the terminal closed, so a terminal closed and
opened again within a frame has two loops. They draw the same things until it is
closed for a whole frame, and `LoopFollows` says that they all end then.
`page.controls` says which controls can be used: `index.html` hides the carousel
and the tab and disables the button that requests the code, and the run covers a
page with that button and a page with all three. `strays` is a history variable:
which kinds of late step have met a page that had changed under them. Every
property about what is shown is stated up to the strays that break it, so it says
both what holds and what exactly can break it.

### Background

`render` covers the canvas with a gradient and sets the page's colours, starts a
load for every logo that is not cached, and awaits them all. `Resume` is the rest
of it: it draws the pattern if the loads succeeded and there is a renderer, and
measures the canvas for the text colours. In between anything may happen, other
renders included, so the canvas is kept as the render that covered it last (with
the size and scheme of then) and the sequence of patterns drawn since. A load is a
fetch, unless the template is cached, and an image; the first of a render's loads
that fails ends its wait, and the others go on. The server may answer with
something that is no image (`bad`), which is cached all the same, a good template's
image may fail as well, as the page's policy lets no blob be one, and an empty
answer is cached but counts as no entry. A continuation is a microtask: while one
can run nothing else does (`Settled`). A resize starts its timer anew, and a window
may have no pixels, where the measurement throws. `Reload` forgets everything but
the cookies, which may be blocked and may come from another version of the page:
a pattern that has no renderer any more, a palette number that is too large.

Three history variables make the properties exact: `broken` and `unmeasured` are
the renders whose logos failed and those without pixels, `overtaken` the renders
that were loading when the newest began. Patterns, palettes, logos, sizes and old
cookies are constants. Pixels, luminance and the pattern renderers are left out:
each renderer is one drawing that reads the logos and the seed.

## 3. Runs

| Run | Bounds | What it shows |
|---|---|---|
| `Session` | 1 slot, 2 identities, 2 epochs, a password shard that may be missing, separate databases, 5 launches (2 sessions and a retry of one party), 2 crashes | `EmailedIsPersisted`, `AtMostOneEmail`: through crashes and restarts an e-mail is sent once and only for a nullifier on disk. `SavedIsEmailed`: without crashes a saved nullifier is e-mailed or lost in a named way. `VerdictsAgree`: without crashes the separate databases agree but for what was saved while BOB had thrown. `ImplementsLedger`: the session implements the ledger. `CheckedReachesShutdown`: nobody past the check is killed by the network layer, since a rejecting party still finalizes, unless the peer threw. `ConnectedTerminates`: no exchange leaves both ends waiting but behind a one-sided gate |
| `SessionDouble` | 2 slots, overlapping | **violation** of `AtMostOneEmail` |
| `Discovery` | own node and a peer, 3 calls, pruning, 2 connections in turn | `ListedAreOpen`: a listed descriptor is open. `StaleOnlyIfOvertaken`: no broadcast is forgotten; a client is behind only because of an overtaken snapshot or a silent re-registration |
| `Node` | ticks of 5 s, threads up to 10 s late, 2 subdomains | `SelfStaysListed`: 15 s heartbeats and a 30 s TTL suffice. `SubdomainIsShown`: no interleaving with heartbeat or announcement loses the subdomain or keeps a torn name. `OfflineLast`: the offline announcement is undone only by a thread that was already past the flag. `ShutdownReachesStop`: neither heartbeat nor relay thread misses the flag |
| `Relay` | the code's intervals at 2.5 s per tick, any message but Confirm lost, 1 restart | `LeaseHeld`: a port expires only after two heartbeats lost in a row. `ComesBound`: registration has no dead end |
| `RelayConfirm` | a Confirm may be lost, no restart | **violation** of `ComesBound` |
| `Forward` | `Full` = 3 units for 4096 bytes, ciphertexts of 0 to 5 units, every combination of good, bad and missing proof parts, 2 replies, any send cut short | `OnlyVerifiedForwarded`; `RelayIsComplete`: however the relay ends, nothing is held back but what a send lost; `AnswerReachesClient` for full-size requests |
| `Smtp` | all 16 settings, replies of up to 3 lines | `TrueMeansAccepted`, `AuthUnderTls`, `DialogueEnds` |
| `Shard` | prime 7, 3-of-5 to 3-of-3, secrets 0, 1, 6 and 12, all coefficients | `ThresholdReconstructs` before, during and after a resharding, up to the remainder. TLC also evaluates `Interpolates`, the hypothesis under which the same is proved |
| `Dashboard` | 2 nav targets, 1 petition besides the debug one, 5 clicks, 2 things pending at a time | `SheetIsCurrent`, `OneStep`, `SplitWithSheet`: the screen agrees with the state up to the named strays. `UnprovedIsWip`: with the carousel hidden only the debug petition is cast without a code. `LeavingReturns`: a commit or cast returns to the landing view. `LoopFollows`: the terminal comes to be drawn by a loop if and only if it is open |
| `Feed` | 3 topologies with 0, 1 and 2 nodes online, threshold 2, 2 changes or restarts, 2 failures | `ReconnectArmed`: exactly one of a live socket and a timer. `ViewsAgree`: the drawing and the terminal show the same nodes. `Converges`: both come to draw the registry, with its quorum |
| `Background` | a pattern of each type, 2 palettes, 2 logos, window sizes 0 and 1, 2 events after the page was loaded, 1 network fault, cookies absent, current, old or blocked | `PageIsCurrent`: colours, gradient, scheme and size are those in use however renders overlap. `PatternsExplained`: a stray pattern is that of an overtaken render, and the newest draws its own. `TextIsMeasured`: text colours were measured on what is shown. `SavedIsCurrent`, `ColorIsKept`: a reload brings back configuration and icon colour. `Settles`: every render ends, at the window's size |

**Why the bounds are enough.** The session's hazards need two sessions of one
identity and a crash between them; the run has two, the retry of a party and two
crashes, and the theorems below need no bound. The discovery hazards need two calls and a joining
client. The node and relay runs use the code's own intervals, so that edges (95 s
between heartbeats, a TTL missed by one round) are real ones. Lengths in the
forwarder go from below to above the 4096 bytes it waits for. A field of 7 has
room for five distinct points and for every polynomial of degree two. The
dashboard's hazards are two late steps in the wrong order after at most four
clicks; a feed needs one overtaken broadcast and one failed reconnection. The
background's need two renders that overlap, one of them with a fault; the resize
timer makes a third. `MCSpec` fixes the scheme and the icon's colour at the start:
the two values of each are interchangeable.

Each module but `Sharding` defines a type invariant. The runs check those of `SigningSession`,
`Dashboard` and `Background`; those and the ones of `TopologyFeed`, `Discovery`,
`NodeLifecycle`, `Forwarder`, `SmtpClient` and `RelayClient` are proved. `ShardInv`
of `ServiceProofs` has what the proofs about `Sharding` need of the types.

**Deadlock checking is off** because every system here may stop: launches and
calls are bounded, and a dialogue or a process that has ended does nothing more.
Only `Feed` checks it: the page never stops reconnecting.

**Fairness.** A running process or thread keeps taking steps (weak fairness on
each thread's steps) and time passes: the operating system's scheduling justifies
both. No client, mail server or relay has to answer, and nobody has to launch a
process. In `RelayClient`, of the messages of a type that are sent again and again
one arrives (strong fairness): UDP that loses everything would refute any
registration. In `SigningSession` a process that joins its threads need never end
(`Stopped` has no fairness), since no client has to connect. In `Forwarder` the
client writes its request. In `Dashboard` timers,
view transitions and animations end, and no click has to happen. In `TopologyFeed`
the browser delivers events and the server's receive timeout expires; network
failures and changes are finitely many, as convergence is about what comes after
them. In `Background` continuations run, the resize timer fires, images end, and a
fetch is answered or fails in the end; nobody has to resize or to call anything.

## 4. What the runs found

Each is a run that ends in a violation, with the line it contradicts under
"findings" in `PROJECT.json`:

- `SessionDouble`: two overlapping sessions of one identity are both e-mailed,
  because the database is loaded once (`mpcauth_server.cpp:431`) and the check
  (`:339`) only looks at that copy.
- `RelayConfirm`: `registered` is set when the Confirm is sent; if it is lost
  the service never registers again.

The models also contain the following, which the properties above are stated
around, so that they hold of the code as it is:

- The nullifier is saved (`mpcauth_server.cpp:345`) before `finalize_zk_bool`
  reports cheating, where `src/server/README.md:177` says none is committed.
- ALICE's save does not wait for BOB. If he throws before his check, for want of
  his password shard say (`mpcauth_server.cpp:295`), the nullifier is on her disk,
  her process is ended in `finalize_zk_bool`, no e-mail is sent, and the next
  session of that identity is rejected by her and accepted by him (`missed`).
- With differing epochs only BOB, who receives the other's, runs the transition
  gate (`src/server/README.md:192` has it fire before the computation begins). Its
  `feed` (`llss_mpc.h:73`) takes bits that ALICE sends for the circuits; in the end
  he waits for bits and she for his `finalize_zk_bool`, for ever. The properties
  that promise an end except such sessions (`GateRuns`).
- `stop()` joins a thread blocked in `accept()` (`discovery.cpp:188`); closing the
  descriptor does not wake it, so the process stays until a client connects.
  `ShutdownReachesStop` goes up to that point.
- After a crash of ALICE between the reveal and her save, BOB rejects the retry
  and ALICE accepts and e-mails it (`VerdictsAgree` is stated up to a crash).
- `broadcast_topology` takes its JSON before `ws_mu_`, so two broadcasts can be
  sent in the wrong order, and a known node that registers with a new status,
  such as "offline" at shutdown, is not broadcast (`late` in `Discovery`).
- The heartbeat thread can register the node online after main announced it
  offline, as it tests `g_shutdown` before it registers.
- The forwarder does not look at what `send()` returns (`forwarder.cpp:315`, `337`,
  `342`): a block that is cut short leaves a hole in the stream, and a client that
  goes on writing to a mail server that has closed may end the whole process by
  SIGPIPE (`BrokenPipe`).
- The forwarder reads until it has 4096 bytes of ciphertext or the end of the
  stream. A shorter ciphertext whose client waits for the reply is never
  verified; a client that shuts down its side ends the relay loop before the
  reply is relayed; of a longer one only a part may be verified.
- A sheet opened within the 350 ms of a dismissal stays on the screen while
  `currentViewId` is `discover`: nothing dismisses it. The animation's end shows
  two signing steps at once if its step was left meanwhile. A terminal toggled or
  a sheet dismissed within the 600 ms of `enterSplitMode` leaves the split on.
- Choosing the debug petition and then another leaves the signature step open:
  only the hidden carousel keeps `UnprovedIsWip`.
- `index.html:945` disables the button that requests the code, while
  `e2e.test.ts:129` waits for the step after it.
- While disconnected the drawing keeps the last nodes, where `NetworkViz.ts:11`
  says it "only renders nodes that are actually online".
- A render that was overtaken draws its pattern over the newer one's
  (`background.ts:471`), and measures over the size it began with; a background
  of an unknown pattern is a gradient alone, and an empty answer of the server is
  fetched anew every time. Recoloured logos are images read from a blob
  (`background.ts:128`), which the policy of `index.html:5` does not allow: where it
  is enforced every logo fails and no pattern is drawn.
- A secret not below the prime is shared unchecked and comes back reduced
  (`Sharding`), and `reconstruct_email` numbers shards by position, so it only works for the
  shards of nodes 1, 2 and 3 (not modelled).

## 5. What is proved

`SigningSessionProofs` proves, for any sets of slots, shards, nullifiers and
directories, any `Sha`, any bounds and both settings of `EnableLLSS`:

- `TypeCorrect`: `Spec => []TypeOK`.
- `EmailsPersisted`: `Spec => []EmailedIsPersisted`, overlapping sessions
  included. The property is not inductive: the step that e-mails knows nothing of
  the file. `PersistInv` adds `AcceptedIsPersisted`: ALICE is at the e-mail only
  after an accepting check, and from that check on the revealed nullifier is in
  her file.
- `OneEmailPerNullifier`: if sessions do not overlap, `Spec => []AtMostOneEmail`.
  `SerialInv` adds three facts: one ALICE runs at a time; the copy she loaded
  contains every e-mailed nullifier as long as it may still be checked (nobody
  else can have e-mailed since the load); and a nullifier accepted and not yet
  e-mailed has never been e-mailed.
- `SessionImplementsLedger`: if sessions do not overlap, the session implements
  `NullifierLedger` with `committed` as ALICE's file and `attested` as the
  e-mails: `CheckNullifier` is a commit or a stutter, `SendEmail` an attestation
  or a stutter, and every other step, crashes included, a stutter.

- `SavedAreEmailed`: with separate directories, `Spec => []SavedIsEmailed`. What is
  on ALICE's disk and neither e-mailed nor refused must be on its way, which a
  network error in her finalize would make false; so `SaveInv` needs that she is
  cut off there only by a BOB who threw.
- `PartiesAgree`: with separate directories and sessions that do not overlap,
  `Spec => []VerdictsAgree`. The property relates two databases that are never
  compared, so `AgreeInv` has to say how they follow each other: each party's copy
  is its file (`CopyIsFile`), and the two files differ only by what BOB missed and,
  between the two checks of a session, by what the first of them accepted
  (`FilesAgree`). That nobody else checks in between rests on `Tags` (what a party
  has sent tells where it is and is remembered while its peer needs it) and `Waits`
  (who is ahead stays until the other has checked or thrown).
- `NobodyIsCutOff`: until a process crashes, no step ends a process that has begun
  the check other than through main's shutdown, unless it is ALICE and BOB has
  thrown. This is the safety part of `CheckedReachesShutdown`. It needs `Tags` and
  `Waits` only (`LinkInv`), so it holds with shared directories and overlapping
  sessions as well.
- `NeverBothBlocked`: of the two ends of a connection at most one waits to be sent
  something that the other has not sent, through any crashes, throws, restarts and
  overlapping processes, unless BOB's gate ran. This is the safety part of
  `ConnectedTerminates`. `HasSent` says that a process has sent, on this connection
  and not on an earlier one of the slot, what it sends on the way to where it is.

The assumptions are `ConstantsAssumption` of `SigningSession`, which TLC evaluates
in every session run, `~Overlap` where sessions must not overlap, and
`Dir[ALICE] # Dir[BOB]` where the directories are separate. `SessionDouble` shows
that the second cannot be dropped.

`DiscoveryProofs` proves `BroadcastsToOpenOnly` (`ListedAreOpen`),
`ViewsCurrentAtRest` (`StaleOnlyIfOvertaken`), `SnapshotsCurrent` and
`DiscoveryTypes`, for any threads, connections, keys and calls
(`DiscoveryAssumption`: a thread is no connection, and `NoView` is no topology).
Neither property is inductive. `Listed` says that a listed connection is being
served and that one being upgraded has an open descriptor, so that nobody lists a
closed one. `Held` says that a thread holds a JSON only while it owes a broadcast,
and that a JSON that was not overtaken is the registry's: without it a send could
leave every client behind with nothing owed. `Changes` is what all calls of the
registry have in common: a change that shows owes a broadcast or marks every
client late.

`NodeLifecycleProofs` proves `HeartbeatKeepsListed` (`SelfStaysListed`),
`SubdomainShown` (`SubdomainIsShown`), `OfflineIsLast` (`OfflineLast`) and
`NodeTypes`, for any intervals, slack and number of subdomains. The assumption
that matters in `LifecycleAssumption` is `HbEvery + Slack <= NodeTtl`: with the
code's 15 and 30 seconds a heartbeat may be up to 15 seconds late. `Young` bounds
the entry's age by the time the heartbeat thread has slept; `Naming` says that
outside the relay thread's write `public_hostname` is the name assigned, so that
no heartbeat can register an older or a torn one after it; `Shows` is the property
extended over the callback's two steps; `NoRegistration` says that after the
offline announcement nobody is left who would register, unless `late`; `Flags` ties
the places of the threads to `g_shutdown`.

`ServiceProofs` has the theorems about three components that are small enough to
share a module.

*Forwarder*, for any buffer size and requests (`ForwarderAssumption`):
`ForwardsOnlyVerified` (`OnlyVerifiedForwarded`), `RelaysToTheEnd`
(`RelayIsComplete`), `FirstWriteIsSigned` and `ForwarderTypes`. `ProofSeen` carries
the verdict of `VerifyProof` over the connect to the mail server into the relay, and
`Progress` that nothing is counted as ciphertext before the header or written
before the relay; `PassedOn` that, of what was read, only what a send lost has not
gone out, and that an end of the relay finds nothing more to be read of the end it
is for. `FullRequestKept` is the safety part of `AnswerReachesClient`: a
full-size request is never dropped as unverified or for want of a header, since it
is verified exactly when all of it has been read (`FullInv`), and is killed only
after a write was lost. `ConnectionsComeToRest` says that every step lowers `WorkLeft`, a natural number: no
loop goes round for nothing at the end of either stream.

*Relay client*, for all intervals and any loss of datagrams (`RelayAssumption`):
`ServiceTypes`, and `PortKept` (`LeaseHeld`) under the hypothesis
`2 * (HbEvery + RecvTimeout - 1) <= Ttl`. The code's 90 s, 5 s and 270 s satisfy it,
and TLC finds `LeaseHeld` violated as soon as it is missed by one tick. The invariant
has to bound the relay's clock by the client's: `LeaseAge` says how old the lease can
be, from the time since the last heartbeat, or with one on its way, with no and with
one heartbeat lost since the renewal; `OneExchange` and `OneCookie`, that only one
exchange is under way and that the relay holds the port under the client's cookie
only. `RestartUnbinds` and `LostPortStaysLost` say in general what `RelayConfirm`
shows in an instance: a registered service that the relay has forgotten, after a
restart, a lost Confirm or an expired lease, stays without a port as long as its
process lives.

*Sharding*, for any prime, numbers of nodes, secrets and coefficients
(`ShardingAssumption`, and `NoShardAssumption`, that no shard is the value for none):
`ThresholdSuffices` is `ThresholdReconstructs` under the hypothesis `Interpolates`,
a formula of constants which says that `Threshold` points of a polynomial give its
value at 0. It is Lagrange's theorem for this code's arithmetic; it needs induction
over data, so it is not proved here, and TLC evaluates it for the run's instance.
What is proved is all the rest: that through a resharding the shards of an epoch are
always points of one and the same polynomial with the secret (`Dealt`, `Underway`),
so that no mixture of installed and uninstalled shards is taken for an epoch.
A resharding such as the 3-of-5 to 3-of-3 one of `validate_resharding.py` has moments
with too few holders of either epoch, so nothing is claimed of the secret's being there
at every moment. `OldSharesGone`: when the last shard is installed none of epoch 1 is left.

`SmtpClientProofs` proves `TrueOnlyIfAccepted` (`TrueMeansAccepted`),
`CredentialsUnderTls` (`AuthUnderTls`), `OneCommandAtATime` and `SmtpTypes`, for all
settings and replies of any number of lines (`SmtpAssumption`). The danger is a 250
that answers another command. `Dialogue` excludes it: at most one command is on its
way, before its answer there is nothing to read but the 421 of a server that is
gone, and behind the last line of a reply nothing but that. `Accepting` then says
that a 250 read at the body means acceptance, `Advertising` that the offer of
STARTTLS has been read when the reply to EHLO ends, in whichever segment it came,
and `Secured` that the dialogue goes on under TLS. `DialogueShrinks` is the safety
part of `DialogueEnds`: every step lowers `DialogueLeft`, in which a stage weighs
more than the command it sends and a command more than the lines that answer it.

`DashboardProofs` proves the run's invariants, for any sheets, petitions and bounds
(`DashboardAssumption`): `SheetStaysCurrent`, `OneStepShown`,
`TerminalSharesWithSheet`, `OnlyWipUnproved`, `DashboardTypes`, and `OpenIsDrawn`,
the safety part of `LoopFollows`. Here the properties talk of the page at rest or of
one thing on it, while timers and selections are pending, so each is strengthened by
what is pending: every running dismissal is of the current sheet (`Screen`), a
terminal that is moving aside is open over a sheet (`Split`), every pending selection
is of the petition under construction if the carousel is hidden (`Proved`).

`BackgroundProofs` proves every safety property of `Background`, for any patterns,
palettes, logos, sizes and old cookies, and for any number of overlapping renders
(`BackgroundAssumption`): `TypeCorrect`, `ConfigIsSaved` (`SavedIsCurrent`),
`PageFollows` (`PageIsCurrent`), `PatternsAreExplained`, `TextFollows`
(`TextIsMeasured`) and `ColorStays` (`ColorIsKept`). `StepKinds` first sorts the
steps into five kinds: a configuration is chosen, rendered again or forgotten, the
page is kept, or a render goes on. The invariant they rest on is `RenderInv`: a
render that is awaiting its logos is the newest, with the configuration and size
the canvas was covered with, or it is in `overtaken`. Without it nothing is known
of the pattern and the measurement that a render adds after its wait. `ColorStays`
needs that the cookie has the colour shown (`ColorSaved`).

`TopologyFeedProofs` proves `AlwaysArmed` (`ReconnectArmed`), `ViewsStayTogether`
(`ViewsAgree`) and `TypeCorrect`, for any topologies, threshold and bounds
(`FeedAssumption`). `ReconnectArmed` alone is not inductive, since a late answer
could open a closed socket and a late end could close a new one. `SocketInv` says
why neither happens: the answer comes first and to a socket that is connecting, the
end comes last and after its handler has returned, a connecting socket hears
nothing before the answer, and one that is gone has no handler and hears nothing.
`FeedInv` adds to the types that no more broadcasts are owed than there were
changes.

All safety properties of the runs are proved, `LeaseHeld` and
`ThresholdReconstructs` under the hypotheses named above. Only model-checked are
Lagrange's theorem (`Interpolates`), which needs induction over data, and the
liveness properties (`CheckedReachesShutdown`, `ConnectedTerminates`,
`ShutdownReachesStop`, `ComesBound`, `AnswerReachesClient`, `DialogueEnds`,
`LeavingReturns`, `LoopFollows`, `Converges`, `Settles`): the prover does not reach
liveness under fairness, nor `ENABLED`, which the arguments from `WorkLeft` and
`DialogueLeft` to an end would need. The inductive invariants were checked with TLC
on the runs' instances before they were proved.

## 6. Not modelled

- The circuits of `tls_smpc.h` and `smtp_mpc.h` bit by bit: a TLS key schedule or
  SHA-256 has too many states for TLC and no control flow of its own.
- `h3_proxy.cpp`: it is compiled, but no program of the repository creates an
  `H3Proxy`, and what it does is mostly the QUIC and HTTP/3 libraries'.
- `logging.h`, argument parsing, HTTP and WebSocket framing, JSON text.
- Of the web client: the shaders, meshes, `SignaturePen` and galaxy loops, which
  draw without end and hold no state a property could be about; `companies.ts` and
  `palettes.ts`, which are data; `Presence`, `AudioControl`, `stealth_wizard`,
  `counter` and `mpc_util`, which the page does not load, and `fh-spinner`, which
  has a demonstration page of its own; the terminal's console capture and
  commands, which print.
- Build, demo and test scripts, read only for what they say of the program.
- A crash of the host: the database is flushed, not synced.

## 7. Plan

Done, in this order: session and ledger with their proofs, registry, discovery,
node life cycle, relay, forwarder, sharding, SMTP client, topology feed with its
two views, dashboard, background and tab icon, and the proofs about all of them.
Next:

1. `TopologyFeed` shown to be what one client sees of `Discovery` (refinement).
2. Descriptor reuse in `Discovery`, for the second close after `stop`.
3. The control flow of the TLS and SMTP gadgets (`tls_smpc.h`, `smtp_mpc.h`).
