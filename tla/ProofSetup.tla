----------------------------- MODULE ProofSetup -----------------------------
(***************************************************************************)
(* The proof setup of the ZK program (service/src/internal/runner.rs): a   *)
(* large value every proof needs, slow to generate, kept in config_db      *)
(* under the SHA-256 of the program and in the process-wide OnceCell       *)
(* CHACHA_SETUP, which get_proof_setup_local and get_proof_setup_remote    *)
(* share. The task main spawns at start, every prove task and every HTTP   *)
(* request that decrypts a blob (main.rs) ask for it.                      *)
(*                                                                         *)
(* OnceCell::get_or_try_init lets one caller at a time run the             *)
(* initializer; when that fails, or its task is dropped, the cell stays    *)
(* empty and the next one in line runs its own.                            *)
(***************************************************************************)
EXTENDS Naturals, Sequences

CONSTANTS
  Provers,   \* prove tasks that need a setup
  Requests,  \* HTTP requests that need one to verify a proof before decrypting
  Prewarm,   \* the task main spawns to have the clients and the setup ready
  Programs,  \* ZK programs the binary may embed, by the hash of their ELF
  Faults,    \* what may fail: "client" (building one panics), "generate", "store" (sled)
  NoOne      \* holder of a free permit

ASSUME SetupAssumption ==
  /\ Prewarm \notin Provers \cup Requests
  /\ NoOne \notin Provers \cup Requests \cup {Prewarm} \cup Programs
  /\ Faults \subseteq {"client", "generate", "store"}

Everyone == Provers \cup Requests \cup {Prewarm}
Kinds    == {"local", "remote"}

VARIABLES
  program,  \* the program embedded in the running binary
  cell,     \* CHACHA_SETUP: the program its setup is of, NoOne while empty
  permit,   \* who runs the cell's initializer
  clients,  \* the ZK clients built so far
  config,   \* config_db: the program whose setup is stored under each hash
  disk,     \* what of config_db is durable
  caller    \* where each caller is

vars == <<program, cell, permit, clients, config, disk, caller>>

(* A caller has clients to build and setups to ask for; one is enough for  *)
(* a proof, the task that prewarms gets two of each.                       *)
Idle          == [pc |-> "idle"]
Asks(kinds)   == [pc |-> "client", build |-> kinds, left |-> Len(kinds)]
Answer(setup) == [pc |-> "done", setup |-> setup]
Setups        == Programs \cup {NoOne}

(* Where a caller is once it has its client.                               *)
WithClient == {"cell", "load", "generate", "store"}

CallerStates ==
  {Idle} \cup [pc : {"done"}, setup : Setups]
         \cup [pc : {"client"}, build : Seq(Kinds) \ {<< >>}, left : Nat]
         \cup [pc : WithClient, left : Nat]

(* The state has its types, and whoever waits for the cell or initializes  *)
(* it does so with a client that was built by this process.                *)
TypeOK ==
  /\ program \in Programs
  /\ cell \in Setups
  /\ permit \in Everyone \cup {NoOne}
  /\ clients \subseteq Kinds
  /\ config \in [Programs -> Setups]
  /\ disk \in [Programs -> Setups]
  /\ caller \in [Everyone -> CallerStates]
  /\ \A c \in Everyone : caller[c].pc \in WithClient => clients # {}

AtStart == [c \in Everyone |-> IF c = Prewarm THEN Asks(<<"local", "remote">>) ELSE Idle]

Init ==
  /\ program \in Programs
  /\ cell = NoOne /\ permit = NoOne /\ clients = {}
  /\ config = [p \in Programs |-> NoOne] /\ disk = config
  /\ caller = AtStart

-----------------------------------------------------------------------------
Set(c, state) == caller' = [caller EXCEPT ![c] = state]

(* A prove task needs a setup for a local or a remote proof, an HTTP       *)
(* request needs one to verify with the local client.                      *)
Ask(c, kind) ==
  /\ c \in Requests => kind = "local"
  /\ caller[c] = Idle
  /\ Set(c, Asks(<<kind>>))
  /\ UNCHANGED <<program, cell, permit, clients, config, disk>>

(* Mutant: the client is not put in its cell.                              *)
BuildClientUnkept(c) ==
  LET rest == Tail(caller[c].build) IN
  /\ caller[c].pc = "client"
  /\ Set(c, IF rest = << >> THEN [pc |-> "cell", left |-> caller[c].left]
                            ELSE [pc |-> "client", build |-> rest, left |-> caller[c].left])
  /\ UNCHANGED <<program, cell, permit, clients, config, disk>>

(* get_zk_client_*: the client is built once and kept.                     *)
BuildClient(c) ==
  LET rest == Tail(caller[c].build) IN
  /\ caller[c].pc = "client"
  /\ clients' = clients \cup {Head(caller[c].build)}
  /\ Set(c, IF rest = << >> THEN [pc |-> "cell", left |-> caller[c].left]
                            ELSE [pc |-> "client", build |-> rest, left |-> caller[c].left])
  /\ UNCHANGED <<program, cell, permit, config, disk>>

(* Building it panics, which ends the task: main ignores that of its own,  *)
(* and a prove task's job stays queued.                                    *)
ClientPanics(c) ==
  /\ "client" \in Faults /\ caller[c].pc = "client"
  /\ Head(caller[c].build) \notin clients
  /\ Set(c, Answer(NoOne))
  /\ UNCHANGED <<program, cell, permit, clients, config, disk>>

(* One call of get_proof_setup_* is over; the prewarming task ignores the  *)
(* result of its first and makes the second.                               *)
Finish(c, setup) ==
  Set(c, IF caller[c].left > 1 THEN [pc |-> "cell", left |-> caller[c].left - 1]
                               ELSE Answer(setup))

(* Mutant: two callers may find the cell empty and both initialize it.     *)
EnterFreely(c) ==
  /\ caller[c].pc = "cell"
  /\ IF cell # NoOne
       THEN Finish(c, cell) /\ UNCHANGED permit
       ELSE permit' = c /\ Set(c, [caller[c] EXCEPT !.pc = "load"])
  /\ UNCHANGED <<program, cell, clients, config, disk>>

(* get_or_try_init: a cell that is set is the answer; else one caller      *)
(* enters the initializer and the others wait.                             *)
Enter(c) ==
  /\ caller[c].pc = "cell"
  /\ IF cell # NoOne
       THEN Finish(c, cell) /\ UNCHANGED permit
       ELSE permit = NoOne /\ permit' = c /\ Set(c, [caller[c] EXCEPT !.pc = "load"])
  /\ UNCHANGED <<program, cell, clients, config, disk>>

(* The initializer succeeds: the cell is set for good.                     *)
Fill(c, setup) == cell' = setup /\ permit' = NoOne /\ Finish(c, setup)

(* Mutant: the setup of any program will do.                               *)
LoadAny(c) ==
  /\ caller[c].pc = "load"
  /\ IF \A p \in Programs : config[p] = NoOne
       THEN Set(c, [caller[c] EXCEPT !.pc = "generate"]) /\ UNCHANGED <<cell, permit>>
       ELSE \E p \in Programs : config[p] # NoOne /\ Fill(c, config[p])
  /\ UNCHANGED <<program, clients, config, disk>>

(* The initializer looks the setup up under the program's hash ...         *)
Load(c) ==
  /\ caller[c].pc = "load"
  /\ IF config[program] # NoOne
       THEN Fill(c, config[program])
       ELSE Set(c, [caller[c] EXCEPT !.pc = "generate"]) /\ UNCHANGED <<cell, permit>>
  /\ UNCHANGED <<program, clients, config, disk>>

(* ... or generates it on a blocking thread ...                            *)
Generate(c) ==
  /\ caller[c].pc = "generate"
  /\ Set(c, [caller[c] EXCEPT !.pc = "store"])
  /\ UNCHANGED <<program, cell, permit, clients, config, disk>>

(* Mutant: the generated setup is not stored.                              *)
StoreNothing(c) ==
  /\ caller[c].pc = "store"
  /\ Fill(c, program)
  /\ UNCHANGED <<program, clients, config, disk>>

(* ... and stores it.                                                      *)
Store(c) ==
  /\ caller[c].pc = "store"
  /\ config' = [config EXCEPT ![program] = program]
  /\ Fill(c, program)
  /\ UNCHANGED <<program, clients, disk>>

(* Mutant: a failed initializer keeps the cell locked.                     *)
FailLocked(c) ==
  /\ \/ "store" \in Faults /\ caller[c].pc \in {"load", "store"}
     \/ "generate" \in Faults /\ caller[c].pc = "generate"
  /\ Finish(c, NoOne)
  /\ UNCHANGED <<program, cell, permit, clients, config, disk>>

(* A step of the initializer fails: a sled error, an entry that does not   *)
(* decode, a panic of the blocking thread. The cell stays empty.           *)
Fail(c) ==
  /\ \/ "store" \in Faults /\ caller[c].pc \in {"load", "store"}
     \/ "generate" \in Faults /\ caller[c].pc = "generate"
  /\ permit' = NoOne
  /\ Finish(c, NoOne)
  /\ UNCHANGED <<program, cell, clients, config, disk>>

(* The client of an HTTP request goes away while it waits for the cell or  *)
(* for the blocking thread: hyper drops the request, and with it the       *)
(* permit. The thread goes on, and what it generates is thrown away.       *)
Cancel(c) ==
  /\ caller[c].pc \in {"cell", "generate"}
  /\ permit' = IF permit = c THEN NoOne ELSE permit
  /\ Set(c, Idle)
  /\ UNCHANGED <<program, cell, clients, config, disk>>

(* The task goes on with its answer.                                       *)
Use(c) ==
  /\ c # Prewarm /\ caller[c].pc = "done"
  /\ Set(c, Idle)
  /\ UNCHANGED <<program, cell, permit, clients, config, disk>>

Flush ==
  /\ disk' = config
  /\ UNCHANGED <<program, cell, permit, clients, config, caller>>

(* The process stops, at any point, and a binary that embeds the same or   *)
(* another program starts on the same database.                            *)
Restart ==
  /\ program' \in Programs
  /\ cell' = NoOne /\ permit' = NoOne /\ clients' = {}
  /\ config' = disk
  /\ caller' = AtStart
  /\ UNCHANGED disk

Step(c) ==
  \/ BuildClient(c) \/ ClientPanics(c) \/ Enter(c) \/ Load(c)
  \/ Generate(c) \/ Store(c) \/ Fail(c) \/ Use(c)

Next ==
  \/ \E c \in Provers \cup Requests, kind \in Kinds : Ask(c, kind)
  \/ \E c \in Everyone : Step(c)
  \/ \E c \in Requests : Cancel(c)
  \/ Flush \/ Restart

Spec == Init /\ [][Next]_vars

(* tokio polls every ready task, and a cell's waiters queue in order, so   *)
(* none of them is passed over for ever.                                   *)
FairSpec ==
  Spec /\ \A c \in Everyone :
            WF_vars(Step(c) /\ caller[c].pc # "cell") /\ SF_vars(Enter(c))

-----------------------------------------------------------------------------
(* Properties.                                                             *)

Initializing(c) == caller[c].pc \in {"load", "generate", "store"}

(* However many tasks ask at once, fail or are cancelled, one at a time    *)
(* initializes the cell, and nobody does once it is set.                   *)
OneInitializer ==
  \A c \in Everyone : Initializing(c) => permit = c /\ cell = NoOne

(* Across upgrades of the binary on the same database, the setup in the    *)
(* cell and the setup a caller is given are those of the running program.  *)
SetupIsOfTheProgram ==
  /\ cell \in {NoOne, program}
  /\ \A c \in Everyone :
       caller[c].pc = "done" => caller[c].setup \in {NoOne, program}

(* A setup in use is in the database, so the next process is spared the    *)
(* work once sled has flushed it.                                          *)
FilledCellIsStored == cell # NoOne => config[cell] = cell

(* Nobody waits for ever: a failed, panicking or cancelled initializer     *)
(* lets the next caller in, so everyone who asks gets a setup or an error, *)
(* unless the process restarts (then prewarming starts anew).              *)
EveryoneIsAnswered ==
  \A c \in Everyone : caller[c].pc = "cell" ~> caller[c].pc \in {"done", "idle", "client"}
=============================================================================
