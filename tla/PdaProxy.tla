------------------------------ MODULE PdaProxy ------------------------------
(***************************************************************************)
(* The HTTP layer of the proxy (service/src/main.rs) composed with the job *)
(* engine. Every request task is one of PdaRunner's Handlers: blob.Submit  *)
(* asks the engine for a verifiable encryption of each blob in turn and is *)
(* forwarded when it has them all; every other call is forwarded as it is; *)
(* what blob.Get and blob.GetAll bring back is verified and decrypted.     *)
(*                                                                         *)
(* A blob is a namespace and a text. On the node it also has a seal: the   *)
(* ENCRYPTION_KEY and the ZK program it was encrypted with, or Clear when  *)
(* its data is not a proof. Each step below is a step of the engine, of    *)
(* the request around it, or of both.                                      *)
(***************************************************************************)
EXTENDS PdaRunner

CONSTANTS
  Namespaces,
  Methods,      \* the kinds of requests clients make
  Submissions,  \* the blob.Submit calls clients make, each a sequence of blobs
  Secrets,      \* encryption keys, this proxy's and others'
  Programs,     \* ZK programs, this proxy's and others'
  Configs,      \* the ENCRYPTION_KEY and program a process may start with
  Elsewhere,    \* the blocks that may be on the node before
  Outages,      \* what may fail around the proxy: "node", "client", "setup", "encode"
  Clear,        \* the seal of data that is not a proof
  Noise,        \* what decryption with another key yields
  MaxRequests   \* bound on the requests clients make (TLC only)

Blobs  == [ns : Namespaces, text : Keys]
Seals  == [secret : Secrets, program : Programs]
Stored == [ns : Namespaces, text : Keys, seal : Seals \cup {Clear}]

ASSUME ProxyAssumption ==
  /\ \A s \in Submissions : s \in Seq(Blobs) /\ MaxRequests * Len(s) <= MaxCalls
  /\ \A e \in Elsewhere : e \in Seq(Seq(Stored))
  /\ Configs \subseteq Seals
  /\ Outages \subseteq {"node", "client", "setup", "encode"}
  /\ Clear \notin Seals /\ Noise \notin Keys
  /\ MaxRequests \in Nat

VARIABLES
  request,  \* the request each HTTP task is serving
  node,     \* the blocks of the Celestia node: node[h] has the blobs at height h
  config,   \* ENCRYPTION_KEY and ZK program of the running process
  sealed,   \* sealed[n]: the configuration of attempt n (history)
  made      \* number of requests made so far

proxy == <<request, node, config, sealed, made>>
all   == <<vars, proxy>>

-----------------------------------------------------------------------------
(* What clients ask: the calls the proxy looks into, "other" for every     *)
(* call it does not, and the requests it turns down before it forwards.    *)
TurnedDown == {"no token", "no json", "bad params"}
Asked == [method : {"blob.Submit"}, blobs : Submissions]
           \cup [method : {"blob.GetAll"}, height : Nat]
           \cup [method : {"blob.Get"}, height : Nat, index : Nat]
           \cup [method : {"other"} \cup TurnedDown]

IsSubmit(r) == r.asked.method = "blob.Submit"
IsRead(r)   == r.asked.method \in {"blob.Get", "blob.GetAll"}

(* What the node replies and what the client is sent, None before that.    *)
Served            == [tag |-> "served"]
Unreachable       == [tag |-> "unreachable"]   \* or the reply was lost
Unauthorized      == [tag |-> "unauthorized"]
NotJson           == [tag |-> "not json"]
NoResult          == [tag |-> "no result"]
pending_response  == [tag |-> "pending"]
bad_auth_response == [tag |-> "bad auth"]
internal_error_response == [tag |-> "internal error"]
Verbatim(reply)   == [tag |-> "verbatim", reply |-> reply]
Decrypted(blobs)  == [tag |-> "decrypted", blobs |-> blobs]

Failures == {Unreachable, Unauthorized, NotJson, NoResult}

Quiet == [pc |-> "idle", asked |-> None, out |-> << >>, got |-> None]

ProxyInit ==
  /\ Init
  /\ request = [h \in Handlers |-> Quiet]
  /\ node \in Elsewhere
  /\ config \in Configs
  /\ sealed = << >>
  /\ made = 0

-----------------------------------------------------------------------------
(* A step of the engine alone, which does not end a call. An attempt uses  *)
(* the key and the program of the process, a new process may have others,  *)
(* and requests end with the process that serves them.                     *)
CallStep(h) == HandlerStep(h) /\ handler'[h] # Idle

EngineNext ==
  \/ \E h \in Handlers : CallStep(h)
  \/ \E t \in Tasks : ProveStep(t)
  \/ WorkerStep
  \/ Flush \/ Shutdown \/ Crash \/ Start \/ StartPanics

Around ==
  /\ sealed' = IF attempts' = attempts THEN sealed ELSE Append(sealed, config)
  /\ IF phase # "up" /\ phase' = "up" THEN config' \in Configs ELSE UNCHANGED config
  /\ request' = IF phase' = "down" THEN [h \in Handlers |-> Quiet] ELSE request
  /\ UNCHANGED <<node, made>>

-----------------------------------------------------------------------------
(* inbound_handler.                                                        *)

Become(h, state)     == request' = [request EXCEPT ![h] = state]
Answer(h, response)  == Become(h, [request[h] EXCEPT !.pc = "respond", !.got = response])

(* A request arrives. Without a bearer token, or when it does not parse,   *)
(* it is answered at once.                                                 *)
Receive(h, r) ==
  /\ Running /\ request[h].pc = "idle" /\ made < MaxRequests
  /\ made' = made + 1
  /\ Become(h, [pc    |-> IF r.method \in TurnedDown THEN "respond" ELSE "inbound",
                asked |-> r, out |-> << >>,
                got   |-> CASE r.method = "no token" -> bad_auth_response
                            [] r.method \in {"no json", "bad params"} -> internal_error_response
                            [] OTHER -> None])
  /\ UNCHANGED <<vars, node, config, sealed>>

NextBlob(r)    == r.asked.blobs[Len(r.out) + 1]
Unsealed(r)    == r.pc = "inbound" /\ IsSubmit(r) /\ Len(r.out) < Len(r.asked.blobs)
Forwardable(r) == r.pc = "inbound" /\ (IsSubmit(r) => Len(r.out) = Len(r.asked.blobs))

(* Mutant: the loop asks for the first blob each time.                     *)
EncryptFirst(h) ==
  /\ Unsealed(request[h])
  /\ Call(h, request[h].asked.blobs[1].text)
  /\ UNCHANGED proxy

(* The next blob of a submission goes to the engine ...                    *)
Encrypt(h) ==
  /\ Unsealed(request[h])
  /\ Call(h, NextBlob(request[h]).text)
  /\ UNCHANGED proxy

(* Mutant: a pending blob is skipped and the others are forwarded.         *)
EncryptedSkip(h) ==
  LET r == request[h]
      a == handler[h].answer
  IN
  /\ Return(h)
  /\ \/ /\ a.tag \in {"ZkProofFinished", "Pending"}
        /\ Become(h, [r EXCEPT !.out = Append(@, [ns |-> NextBlob(r).ns, proof |-> a])])
     \/ a = Error /\ Answer(h, internal_error_response)
  /\ UNCHANGED <<node, config, sealed, made>>

(* Mutant: a pending blob is asked for again, until its proof is there.    *)
EncryptedPolls(h) ==
  LET r == request[h]
      a == handler[h].answer
  IN
  \/ /\ Running /\ handler[h].pc = "reply" /\ a = Pending
     /\ Goto(h, [pc |-> "finished", key |-> handler[h].key])
     /\ UNCHANGED <<trees, stranded, HandlerOnly, proxy>>
  \/ /\ Return(h)
     /\ \/ /\ a.tag = "ZkProofFinished"
           /\ Become(h, [r EXCEPT !.out = Append(@, [ns |-> NextBlob(r).ns, proof |-> a])])
        \/ a = Error /\ Answer(h, internal_error_response)
     /\ UNCHANGED <<node, config, sealed, made>>

(* ... and comes back encrypted, or ends the whole request: pending, or    *)
(* failed, in the engine or in building the new blob.                      *)
Encrypted(h) ==
  LET r == request[h]
      a == handler[h].answer
  IN
  /\ Return(h)
  /\ \/ /\ a.tag = "ZkProofFinished"
        /\ Become(h, [r EXCEPT !.out = Append(@, [ns |-> NextBlob(r).ns, proof |-> a])])
     \/ a = Pending /\ Answer(h, pending_response)
     \/ a = Error /\ Answer(h, internal_error_response)
     \/ "encode" \in Outages /\ a.tag = "ZkProofFinished" /\ Answer(h, internal_error_response)
  /\ UNCHANGED <<node, config, sealed, made>>

(* The engine panicked: so does the request around it, without a response. *)
Panicked(h) ==
  /\ NewJobPanics(h)
  /\ Become(h, Quiet)
  /\ UNCHANGED <<node, config, sealed, made>>

-----------------------------------------------------------------------------
(* The Celestia node, and outbound_handler on its reply.                   *)

(* A proof as the node stores it.                                          *)
Posted(out) ==
  [i \in 1 .. Len(out) |-> [ns   |-> out[i].ns, text |-> out[i].proof.key,
                            seal |-> sealed[out[i].proof.nonce]]]

(* The blobs a read asks for, if the node has them.                        *)
Exists(r) ==
  /\ r.asked.height \in DOMAIN node
  /\ r.asked.method = "blob.Get" => r.asked.index \in DOMAIN node[r.asked.height]
Found(r) ==
  IF r.asked.method = "blob.Get"
    THEN <<node[r.asked.height][r.asked.index]>> ELSE node[r.asked.height]

(* The node serves the forwarded request: a submission becomes a block,    *)
(* all of it or nothing. The reply may be lost.                            *)
NodeServes(h) ==
  LET r == request[h] IN
  /\ Running /\ Forwardable(r)
  /\ IsRead(r) => Exists(r)
  /\ node' = IF IsSubmit(r) THEN Append(node, Posted(r.out)) ELSE node
  /\ \E reply \in {Served} \cup (IF "node" \in Outages THEN {Unreachable} ELSE {}) :
       Become(h, [r EXCEPT !.pc = "outbound", !.got = reply])
  /\ UNCHANGED <<vars, config, sealed, made>>

(* The node is not reached, rejects the token, or returns an error.        *)
NodeFails(h) ==
  LET r == request[h] IN
  /\ Running /\ Forwardable(r)
  /\ \E reply \in Failures :
       /\ "node" \in Outages \/ (reply = NoResult /\ IsRead(r) /\ ~Exists(r))
       /\ Become(h, [r EXCEPT !.pc = "outbound", !.got = reply])
  /\ UNCHANGED <<vars, node, config, sealed, made>>

(* verify_decrypt_blob: the data must be a proof that the running program  *)
(* verifies; it is decrypted with the running key, whichever key it was    *)
(* encrypted with.                                                         *)
Verifies(b)            == b.seal # Clear /\ b.seal.program = config.program
verify_decrypt_blob(b) ==
  [ns |-> b.ns, text |-> IF b.seal.secret = config.secret THEN b.text ELSE Noise]

Opened(blobs) == [i \in 1 .. Len(blobs) |-> verify_decrypt_blob(blobs[i])]

(* Mutant: what cannot be decrypted is left out of the answer.             *)
TryDecryptSome(r) == Decrypted(Opened(SelectSeq(Found(r), Verifies)))

(* All blobs of a read are decrypted, or none is and the client gets the   *)
(* node's reply.                                                           *)
TryDecrypt(r) ==
  IF \A i \in DOMAIN Found(r) : Verifies(Found(r)[i])
    THEN Decrypted(Opened(Found(r))) ELSE Verbatim(Served)

(* Each reply of the node, and its loss, has its response; the last case   *)
(* is a call that is not looked into, and a read whose proof setup fails.  *)

outbound_handler(h) ==
  LET r == request[h] IN
  /\ Running /\ r.pc = "outbound"
  /\ \/ r.got \in {Unreachable, NotJson} /\ Answer(h, internal_error_response)
     \/ r.got = Unauthorized /\ Answer(h, bad_auth_response)
     \/ r.got = NoResult /\ Answer(h, Verbatim(NoResult))
     \/ r.got = Served /\ IsRead(r) /\ Answer(h, TryDecrypt(r))
     \/ r.got = Served /\ (IsRead(r) => "setup" \in Outages) /\ Answer(h, Verbatim(Served))
  /\ UNCHANGED <<vars, node, config, sealed, made>>

(* The response is sent.                                                   *)
Respond(h) ==
  /\ Running /\ request[h].pc = "respond"
  /\ Become(h, Quiet)
  /\ UNCHANGED <<vars, node, config, sealed, made>>

(* The client goes away while its request waits for the node or for the    *)
(* proof setup: hyper drops it, whatever the node did or will do.          *)
Disconnect(h) ==
  /\ Running /\ "client" \in Outages
  /\ Forwardable(request[h]) \/ request[h].pc = "outbound"
  /\ Become(h, Quiet)
  /\ UNCHANGED <<vars, node, config, sealed, made>>

-----------------------------------------------------------------------------
(* What clients may ask now: reads up to one past what the node has.       *)
Offered ==
  {r \in [method : {"blob.Submit"}, blobs : Submissions]
           \cup [method : {"blob.GetAll"}, height : 1 .. Len(node) + 1]
           \cup [method : {"blob.Get"}, height : DOMAIN node,
                 index : UNION {1 .. Len(node[i]) + 1 : i \in DOMAIN node}]
           \cup [method : {"other"} \cup TurnedDown] : r.method \in Methods}

(* The steps of a request that wait for nobody, and those of the node.     *)
RequestStep(h) ==
  Encrypt(h) \/ Encrypted(h) \/ Panicked(h) \/ outbound_handler(h) \/ Respond(h)

NodeStep(h) == NodeServes(h) \/ NodeFails(h)

ProxyNext ==
  \/ EngineNext /\ Around
  \/ \E h \in Handlers : \E r \in Offered : Receive(h, r)
  \/ \E h \in Handlers : RequestStep(h) \/ NodeStep(h) \/ Disconnect(h)

ProxySpec == ProxyInit /\ [][ProxyNext]_all

(* As for the engine. Nothing makes the node answer: the HTTP client has   *)
(* no timeout, so a forwarded request may wait for ever.                   *)
ProxyFairness ==
  /\ \A h \in Handlers : WF_all(RequestStep(h) \/ (CallStep(h) /\ Around))
  /\ \A t \in Tasks : WF_all(ProveStep(t) /\ Around)
  /\ WF_all(WorkerStep /\ Around)
  /\ WF_all((Start \/ StartPanics) /\ Around)

ProxyFairSpec == ProxySpec /\ ProxyFairness

-----------------------------------------------------------------------------
(* Properties.                                                             *)

Replies   == {None, Served} \cup Failures
Responses == {pending_response, bad_auth_response, internal_error_response,
              Verbatim(Served), Verbatim(NoResult)}
               \cup [tag : {"decrypted"}, blobs : Seq([ns : Namespaces, text : Keys \cup {Noise}])]
Sealed    == [ns : Namespaces, proof : ProofStatus]

RequestStates ==
  [pc : {"idle", "inbound", "outbound", "respond"}, asked : Asked \cup {None},
   out : Seq(Sealed), got : Replies \cup Responses]

(* The HTTP layer's state has its types; a request is at a blob of its     *)
(* submission exactly while the engine is called for it, and every attempt *)
(* of the engine has its seal.                                             *)
ProxyTypeOK ==
  /\ request \in [Handlers -> RequestStates]
  /\ node \in Seq(Seq(Stored)) /\ config \in Configs /\ made \in Nat
  /\ sealed \in Seq(Configs) /\ Len(sealed) = Len(attempts)
  /\ \A h \in Handlers :
       handler[h] # Idle => Unsealed(request[h]) /\ handler[h].key = NextBlob(request[h]).text

(* Whatever the engine, other requests and restarts do in between, the     *)
(* encryptions a request has gathered are those of its own first blobs, in *)
(* order, each in the namespace the client chose; and nothing is forwarded *)
(* before there is one for every blob.                                     *)
SubmissionsAreWhole ==
  \A h \in Handlers : LET r == request[h] IN
    r.pc # "idle" /\ IsSubmit(r) =>
      /\ Len(r.out) <= Len(r.asked.blobs)
      /\ \A i \in 1 .. Len(r.out) : /\ r.out[i].ns = r.asked.blobs[i].ns
                                    /\ r.out[i].proof.tag = "ZkProofFinished"
                                    /\ Genuine(r.out[i].proof, r.asked.blobs[i].text)
      /\ r.pc = "outbound" => Len(r.out) = Len(r.asked.blobs)

(* A block has blob b at position i, encrypted by an attempt at b.         *)
Holds(block, i, b) ==
  /\ block[i].ns = b.ns /\ block[i].text = b.text
  /\ \E m \in DOMAIN attempts : attempts[m] = b.text /\ block[i].seal = sealed[m]

(* What a client is told of its submission is true when it is told: one    *)
(* that was accepted is on the node, every blob encrypted, in order and in *)
(* one block; one that is pending waits for a job the engine knows.        *)
ResponsesAreTrue ==
  \A h \in Handlers : LET r == request[h] IN
    r.pc = "respond" /\ IsSubmit(r) =>
      /\ r.got = Verbatim(Served) =>
           \E n \in DOMAIN node :
             /\ Len(node[n]) = Len(r.asked.blobs)
             /\ \A i \in 1 .. Len(node[n]) : Holds(node[n], i, r.asked.blobs[i])
      /\ r.got = pending_response =>
           Len(r.out) < Len(r.asked.blobs) /\ Known(NextBlob(r).text)

(* A read that is answered with decrypted blobs has one for each blob that *)
(* was asked for, in order, and each that was encrypted with the running   *)
(* key is what its author submitted.                                       *)
ReadsAreComplete ==
  \A h \in Handlers : LET r == request[h] IN
    r.pc = "respond" /\ r.got.tag = "decrypted" =>
      /\ Len(r.got.blobs) = Len(Found(r))
      /\ \A i \in 1 .. Len(Found(r)) :
           Found(r)[i].seal.secret = config.secret =>
             r.got.blobs[i] = [ns |-> Found(r)[i].ns, text |-> Found(r)[i].text]

(* No request waits for a proof: however the engine's jobs fare, it is     *)
(* answered in the end, or ends with its task or the process, or waits for *)
(* the node, which alone may keep it; and the node's reply is passed on.   *)
RequestsAreAnswered ==
  \A h \in Handlers :
    request[h].pc # "idle" ~> (request[h].pc = "idle" \/ Forwardable(request[h]))

(* README.md: "*Success* -> Response{...,decrypted bytes,...}, *Failure*   *)
(* -> <Passthrough>": what is returned as decrypted is the plaintext.      *)
DecryptedIsPlaintext ==
  \A h \in Handlers : LET r == request[h] IN
    r.pc = "respond" /\ r.got.tag = "decrypted" =>
      \A i \in 1 .. Len(Found(r)) : r.got.blobs[i].text = Found(r)[i].text
=============================================================================
