-------------------------- MODULE ProofSetupProofs --------------------------
(***************************************************************************)
(* Proofs about ProofSetup, for any number of callers and programs.        *)
(***************************************************************************)
EXTENDS ProofSetup, TLAPS

(* The fields a caller has at each position.                               *)
LEMMA CallerFacts ==
  ASSUME NEW s \in CallerStates
  PROVE  /\ s.pc \in {"idle", "client", "cell", "load", "generate", "store", "done"}
         /\ s.pc = "client" => s.build \in Seq(Kinds) \ {<< >>} /\ s.left \in Nat
         /\ s.pc \in {"cell", "load", "generate", "store"} =>
              s.left \in Nat /\ s = [pc |-> s.pc, left |-> s.left]
         /\ s.pc = "done" => s.setup \in Setups
BY DEF CallerStates, WithClient, Idle

LEMMA CallerTypes ==
  /\ Idle \in CallerStates
  /\ \A p \in {"cell", "load", "generate", "store"}, n \in Nat : [pc |-> p, left |-> n] \in CallerStates
  /\ \A b \in Seq(Kinds) \ {<< >>}, n \in Nat :
       [pc |-> "client", build |-> b, left |-> n] \in CallerStates
  /\ \A x \in Setups : Answer(x) \in CallerStates
  /\ \A k \in Kinds : Asks(<<k>>) \in CallerStates
  /\ Asks(<<"local", "remote">>) \in CallerStates
<1>1. \A k \in Kinds : <<k>> \in Seq(Kinds) \ {<< >>} /\ Len(<<k>>) \in Nat
  BY DEF Kinds
<1>2. <<"local", "remote">> \in Seq(Kinds) \ {<< >>} /\ Len(<<"local", "remote">>) \in Nat
  BY DEF Kinds
<1> QED
  BY <1>1, <1>2 DEF CallerStates, WithClient, Answer, Asks

(* The inductive invariant: with the mutual exclusion of the initializer   *)
(* goes what the database holds, in memory and on disk, and whose setups   *)
(* are in circulation.                                                     *)
StoresAreRight == \A p \in Programs : config[p] \in {NoOne, p} /\ disk[p] \in {NoOne, p}

SetupInv == TypeOK /\ OneInitializer /\ SetupIsOfTheProgram /\ FilledCellIsStored /\ StoresAreRight

LEMMA InitSetup == Init => SetupInv
<1> SUFFICES ASSUME Init PROVE SetupInv
  OBVIOUS
<1>1. \A c \in Everyone : caller[c].pc \in {"idle", "client"}
  BY DEF Init, AtStart, Asks, Idle
<1>2. TypeOK
  BY <1>1, CallerTypes DEF Init, TypeOK, AtStart, Setups, Kinds, WithClient
<1> QED
  BY <1>1, <1>2 DEF Init, SetupInv, OneInitializer, Initializing, SetupIsOfTheProgram,
     FilledCellIsStored, StoresAreRight

(* A caller's step keeps the invariant.                                    *)
LEMMA StepSetup ==
  ASSUME SetupInv, NEW c \in Everyone, Step(c)
  PROVE  SetupInv'
<1> USE DEF SetupInv
<1> DEFINE s == caller[c]
<1>1. s \in CallerStates /\ (s.pc \in WithClient => clients # {})
  BY DEF TypeOK
<1>2. \A d \in Everyone : Initializing(d) => permit = d /\ cell = NoOne
  BY DEF OneInitializer
<1>3. NoOne \notin Everyone /\ NoOne \notin Programs
  BY SetupAssumption DEF Everyone
(* Only c moves. It may hand out a setup of the program, or take the       *)
(* permit when nobody else has it.                                         *)
<1>4. ASSUME NEW n \in CallerStates, Set(c, n),
             n.pc = "done" => n.setup \in {NoOne, program},
             UNCHANGED <<program, disk>>,
             permit' \in {permit, c, NoOne}, clients' \subseteq Kinds, clients \subseteq clients',
             n.pc \in WithClient => clients' # {},
             cell' \in {cell, program}, cell' # NoOne => config'[cell'] = cell',
             config' \in [Programs -> Setups], \A p \in Programs : config'[p] \in {NoOne, p},
             n.pc \in {"load", "generate", "store"} => permit' = c /\ cell' = NoOne,
             \A d \in Everyone : d # c /\ Initializing(d) => permit' = d /\ cell' = NoOne
      PROVE  SetupInv'
  <2>1. caller' \in [Everyone -> CallerStates]
    BY <1>4 DEF Set, TypeOK
  <2>2. caller'[c] = n /\ \A d \in Everyone : d # c => caller'[d] = caller[d]
    BY <1>4 DEF Set, TypeOK
  <2>3. TypeOK'
    BY <1>4, <2>1, <2>2 DEF TypeOK, Setups
  <2>4. OneInitializer'
    BY <1>4, <2>2 DEF OneInitializer, Initializing
  <2>5. SetupIsOfTheProgram'
    BY <1>4, <2>2 DEF SetupIsOfTheProgram
  <2>6. FilledCellIsStored' /\ StoresAreRight'
    BY <1>4 DEF FilledCellIsStored, StoresAreRight
  <2> QED
    BY <2>3, <2>4, <2>5, <2>6
<1>5. ASSUME NEW n \in CallerStates, Set(c, n),
             n.pc = "done" => n.setup \in {NoOne, program},
             UNCHANGED <<program, cell, config, disk>>,
             permit' \in {permit, c, NoOne}, clients' \subseteq Kinds, clients \subseteq clients',
             n.pc \in WithClient => clients' # {},
             n.pc \in {"load", "generate", "store"} => permit' = c /\ cell = NoOne,
             \A d \in Everyone : d # c /\ Initializing(d) => permit' = d
      PROVE  SetupInv'
  <2>1. cell # NoOne => config[cell] = cell
    BY DEF FilledCellIsStored
  <2>2. config \in [Programs -> Setups] /\ \A p \in Programs : config[p] \in {NoOne, p}
    BY DEF TypeOK, StoresAreRight
  <2> QED
    BY <1>2, <1>4, <1>5, <2>1, <2>2
(* What Finish puts c in.                                                  *)
<1>6. ASSUME NEW x \in {NoOne, program}, Finish(c, x),
             s.pc \in {"cell", "load", "generate", "store"}
      PROVE  \E n \in CallerStates :
               /\ Set(c, n) /\ n.pc \in {"cell", "done"}
               /\ n.pc = "done" => n.setup \in {NoOne, program}
  <2>1. s.left \in Nat /\ x \in Setups
    BY <1>1, <1>6, CallerFacts DEF TypeOK, Setups
  <2>2. CASE s.left > 1
    <3>1. [pc |-> "cell", left |-> s.left - 1] \in CallerStates
      BY <2>1, <2>2, CallerTypes
    <3> QED
      BY <1>6, <2>2, <3>1 DEF Finish
  <2>3. CASE ~(s.left > 1)
    <3>1. Answer(x) \in CallerStates /\ Answer(x).pc = "done" /\ Answer(x).setup = x
      BY <2>1, CallerTypes DEF Answer
    <3> QED
      BY <1>6, <2>3, <3>1 DEF Finish
  <2> QED
    BY <2>2, <2>3
(* While c initializes nobody else does.                                   *)
<1>7. ASSUME Initializing(c), NEW d \in Everyone, d # c
      PROVE  ~Initializing(d)
  BY <1>2, <1>7
<1>8. CASE BuildClient(c)
  <2>1. s.build \in Seq(Kinds) \ {<< >>} /\ s.left \in Nat
    BY <1>1, <1>8, CallerFacts DEF BuildClient
  <2>2. Head(s.build) \in Kinds /\ Tail(s.build) \in Seq(Kinds)
    BY <2>1
  <2>3. CASE Tail(s.build) = << >>
    BY <1>2, <1>5, <1>8, <2>1, <2>2, <2>3, CallerTypes DEF BuildClient, TypeOK
  <2>4. CASE Tail(s.build) # << >>
    BY <1>2, <1>5, <1>8, <2>1, <2>2, <2>4, CallerTypes DEF BuildClient, TypeOK
  <2> QED
    BY <2>3, <2>4
<1>9. CASE ClientPanics(c)
  <2>1. Answer(NoOne) \in CallerStates /\ Answer(NoOne).pc = "done" /\ Answer(NoOne).setup = NoOne
    BY CallerTypes DEF Answer, Setups
  <2> QED
    BY <1>1, <1>2, <1>5, <1>9, <2>1 DEF ClientPanics, TypeOK, WithClient
<1>10. CASE Enter(c)
  <2>1. CASE cell # NoOne
    <3>1. cell \in {NoOne, program} /\ Finish(c, cell) /\ s.pc = "cell"
      BY <1>10, <2>1 DEF Enter, SetupIsOfTheProgram
    <3>2. PICK n \in CallerStates :
            /\ Set(c, n) /\ n.pc \in {"cell", "done"}
            /\ n.pc = "done" => n.setup \in {NoOne, program}
      BY <1>6, <3>1
    <3> QED
      BY <1>1, <1>2, <1>5, <1>10, <2>1, <3>2 DEF Enter, TypeOK, WithClient
  <2>2. CASE cell = NoOne
    <3>1. [s EXCEPT !.pc = "load"] = [pc |-> "load", left |-> s.left] /\ s.left \in Nat
      BY <1>1, <1>10, CallerFacts DEF Enter
    <3>2. \A d \in Everyone : ~Initializing(d)
      BY <1>2, <1>3, <1>10, <2>2 DEF Enter
    <3> QED
      BY <1>1, <1>5, <1>10, <2>2, <3>1, <3>2, CallerTypes DEF Enter, TypeOK, WithClient
  <2> QED
    BY <2>1, <2>2
<1>11. CASE Load(c)
  <2>1. Initializing(c) /\ s.left \in Nat /\ s = [pc |-> "load", left |-> s.left]
    BY <1>1, <1>11, CallerFacts DEF Load, Initializing
  <2>2. program \in Programs /\ config[program] \in {NoOne, program} /\ clients \subseteq Kinds
    BY DEF TypeOK, StoresAreRight
  <2>3. CASE config[program] # NoOne
    <3>1. /\ cell' = program /\ permit' = NoOne /\ Finish(c, program)
          /\ UNCHANGED <<program, clients, config, disk>>
      BY <1>11, <2>2, <2>3 DEF Load, Fill
    <3>2. config \in [Programs -> Setups] /\ \A p \in Programs : config[p] \in {NoOne, p}
      BY DEF TypeOK, StoresAreRight
    <3>3. PICK n \in CallerStates :
            /\ Set(c, n) /\ n.pc \in {"cell", "done"}
            /\ n.pc = "done" => n.setup \in {NoOne, program}
      BY <1>6, <2>1, <3>1 DEF Initializing
    <3> QED
      BY <1>1, <1>4, <1>7, <2>1, <2>2, <2>3, <3>1, <3>2, <3>3 DEF WithClient
  <2>4. CASE config[program] = NoOne
    <3>1. [s EXCEPT !.pc = "generate"] = [pc |-> "generate", left |-> s.left]
      BY <2>1
    <3> QED
      BY <1>1, <1>2, <1>5, <1>7, <1>11, <2>1, <2>2, <2>4, <3>1, CallerTypes DEF Load, TypeOK, WithClient
  <2> QED
    BY <2>3, <2>4
<1>12. CASE Generate(c)
  <2>1. Initializing(c) /\ s.left \in Nat /\ [s EXCEPT !.pc = "store"] = [pc |-> "store", left |-> s.left]
    BY <1>1, <1>12, CallerFacts DEF Generate, Initializing
  <2> QED
    BY <1>1, <1>2, <1>5, <1>7, <1>12, <2>1, CallerTypes DEF Generate, TypeOK, WithClient
<1>13. CASE Store(c)
  <2>1. Initializing(c) /\ program \in Programs /\ clients \subseteq Kinds
    BY <1>13 DEF Store, Initializing, TypeOK
  <2>2. /\ cell' = program /\ permit' = NoOne /\ Finish(c, program)
        /\ UNCHANGED <<program, clients, disk>>
    BY <1>13 DEF Store, Fill
  <2>3. /\ config' \in [Programs -> Setups] /\ config'[program] = program
        /\ \A p \in Programs : config'[p] \in {NoOne, p}
    BY <1>13, <2>1 DEF Store, TypeOK, StoresAreRight, Setups
  <2>4. PICK n \in CallerStates :
          /\ Set(c, n) /\ n.pc \in {"cell", "done"}
          /\ n.pc = "done" => n.setup \in {NoOne, program}
    BY <1>6, <2>1, <2>2 DEF Initializing
  <2> QED
    <3>1. clients # {} /\ clients' = clients
      BY <1>1, <2>1, <2>2 DEF Initializing, WithClient
    <3> QED
      BY <1>4, <1>7, <2>1, <2>2, <2>3, <2>4, <3>1
<1>14. CASE Fail(c)
  <2>1. Initializing(c)
    BY <1>14 DEF Fail, Initializing
  <2>2. PICK n \in CallerStates :
          /\ Set(c, n) /\ n.pc \in {"cell", "done"}
          /\ n.pc = "done" => n.setup \in {NoOne, program}
    BY <1>6, <1>14, <2>1 DEF Fail, Initializing
  <2> QED
    BY <1>1, <1>5, <1>7, <1>14, <2>1, <2>2 DEF Fail, TypeOK, WithClient
<1>15. CASE Use(c)
  BY <1>1, <1>2, <1>5, <1>15, CallerTypes DEF Use, Idle, TypeOK, WithClient
<1> QED
  BY <1>8, <1>9, <1>10, <1>11, <1>12, <1>13, <1>14, <1>15 DEF Step

(* A new call, a cancelled one, a flush and a restart keep it.             *)
LEMMA OtherSetup ==
  ASSUME SetupInv,
         \/ \E c \in Provers \cup Requests, kind \in Kinds : Ask(c, kind)
         \/ \E c \in Requests : Cancel(c)
         \/ Flush \/ Restart
  PROVE  SetupInv'
<1>1. ASSUME NEW c \in Provers \cup Requests, NEW kind \in Kinds, Ask(c, kind)
      PROVE  SetupInv'
  <2>1. /\ Asks(<<kind>>) \in CallerStates /\ Asks(<<kind>>).pc = "client"
        /\ c \in Everyone
    BY CallerTypes DEF Asks, Everyone
  <2>2. /\ caller' \in [Everyone -> CallerStates] /\ caller'[c].pc = "client"
        /\ \A d \in Everyone : d # c => caller'[d] = caller[d]
        /\ UNCHANGED <<program, cell, permit, clients, config, disk>>
    BY <1>1, <2>1 DEF Ask, Set, SetupInv, TypeOK
  <2>3. TypeOK'
    BY <2>2 DEF SetupInv, TypeOK, WithClient
  <2> QED
    BY <2>1, <2>2, <2>3 DEF SetupInv, OneInitializer, Initializing, SetupIsOfTheProgram,
       FilledCellIsStored, StoresAreRight
<1>2. CASE Flush
  <2>1. UNCHANGED <<program, cell, permit, clients, config, caller>> /\ disk' = config
    BY <1>2 DEF Flush
  <2>2. TypeOK'
    BY <2>1 DEF SetupInv, TypeOK
  <2>3. OneInitializer' /\ SetupIsOfTheProgram'
    BY <2>1 DEF SetupInv, OneInitializer, Initializing, SetupIsOfTheProgram
  <2>4. FilledCellIsStored' /\ StoresAreRight'
    BY <2>1 DEF SetupInv, FilledCellIsStored, StoresAreRight
  <2> QED
    BY <2>2, <2>3, <2>4 DEF SetupInv
<1>3. CASE Restart
  <2>1. \A c \in Everyone : caller'[c].pc \in {"idle", "client"}
    BY <1>3 DEF Restart, AtStart, Asks, Idle
  <2>2. TypeOK'
    BY <1>3, <2>1, CallerTypes DEF Restart, AtStart, SetupInv, TypeOK, Setups, WithClient
  <2> QED
    BY <1>3, <2>1, <2>2 DEF Restart, SetupInv, OneInitializer, Initializing,
       SetupIsOfTheProgram, FilledCellIsStored, StoresAreRight
<1>4. ASSUME NEW c \in Requests, Cancel(c)
      PROVE  SetupInv'
  <2>1. c \in Everyone /\ NoOne \notin Everyone
    BY SetupAssumption DEF Everyone
  <2>2. /\ caller' \in [Everyone -> CallerStates] /\ caller'[c].pc = "idle"
        /\ \A d \in Everyone : d # c => caller'[d] = caller[d]
        /\ permit' = IF permit = c THEN NoOne ELSE permit
        /\ UNCHANGED <<program, cell, clients, config, disk>>
    BY <1>4, <2>1, CallerTypes DEF Cancel, Set, Idle, SetupInv, TypeOK
  <2>3. TypeOK'
    BY <2>2 DEF SetupInv, TypeOK, WithClient
  <2>4. OneInitializer'
    BY <2>1, <2>2 DEF SetupInv, OneInitializer, Initializing
  <2> QED
    BY <2>1, <2>2, <2>3, <2>4 DEF SetupInv, SetupIsOfTheProgram, FilledCellIsStored,
       StoresAreRight
<1> QED
  BY <1>1, <1>2, <1>3, <1>4

(* The cell, the database and the callers stay consistent for ever.        *)
LEMMA SetupInvariant == Spec => []SetupInv
<1>1. SetupInv /\ [Next]_vars => SetupInv'
  <2>1. ASSUME SetupInv, UNCHANGED vars
        PROVE  SetupInv'
    BY <2>1 DEF vars, SetupInv, TypeOK, OneInitializer, Initializing, SetupIsOfTheProgram,
       FilledCellIsStored, StoresAreRight
  <2> QED
    BY <2>1, StepSetup, OtherSetup DEF Next
<1> QED
  BY <1>1, InitSetup, PTL DEF Spec

(* However many tasks ask for the setup at once, and however their         *)
(* attempts fail or are cancelled, at most one of them initializes the     *)
(* cell at a time, and none does once it is set.                           *)
THEOREM SingleInitializer == Spec => []OneInitializer
<1>1. SetupInv => OneInitializer
  BY DEF SetupInv
<1> QED
  BY <1>1, SetupInvariant, PTL

(* No upgrade, crash or lost write makes a proof use the setup of another  *)
(* program: the cell and every answer are of the running one.              *)
THEOREM RightSetup == Spec => []SetupIsOfTheProgram
<1>1. SetupInv => SetupIsOfTheProgram
  BY DEF SetupInv
<1> QED
  BY <1>1, SetupInvariant, PTL

(* A setup that is handed out is in config_db by then, however many        *)
(* initializers failed or were dropped before, so the next process finds   *)
(* it once sled has flushed it.                                            *)
THEOREM StoredSetup == Spec => []FilledCellIsStored
<1>1. SetupInv => FilledCellIsStored
  BY DEF SetupInv
<1> QED
  BY <1>1, SetupInvariant, PTL

(* The state of the setup cell, of config_db and of the callers has its    *)
(* type, and through failures, cancellations and restarts nobody comes to  *)
(* the cell before this process has built a client to set up with.         *)
THEOREM SetupTypes == Spec => []TypeOK
<1>1. SetupInv => TypeOK
  BY DEF SetupInv
<1> QED
  BY <1>1, SetupInvariant, PTL
=============================================================================
