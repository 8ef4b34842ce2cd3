------------------------ MODULE VerifiableEncryption ------------------------
(***************************************************************************)
(* The ZK program, those who run it and those who read what it commits.    *)
(*                                                                         *)
(* The service (runner.rs) and the developer command (cli.rs) write the    *)
(* key, a nonce and the plaintext as three slices; the program             *)
(* (program-chacha) reads them in that order and commits a header and the  *)
(* ciphertext; ZkvmOutput::from_bytes (zkVM/common) takes the committed    *)
(* bytes apart again. The program is public: anyone may run it, on         *)
(* anything, and post a proof that the service will read.                  *)
(*                                                                         *)
(* SHA-256 and ChaCha20's keystream are parameters; bytes, lengths,        *)
(* offsets and the order of writes and reads are those of the code.        *)
(***************************************************************************)
EXTENDS JobKey

CONSTANTS
  KEY_LEN, NONCE_LEN, HASH_LEN,
  Sha256(_),           \* digest of a byte string
  Keystream(_, _, _),  \* byte i of the keystream of a key and a nonce
  Xor(_, _),
  Slices,              \* byte strings given as keys and as nonces
  Texts                \* plaintexts

Bytes(n) == {s \in Slices : Len(s) = n}

ASSUME CipherAssumption ==
  /\ KEY_LEN \in Nat /\ NONCE_LEN \in Nat /\ HASH_LEN \in Lengths
  /\ \A s \in Slices \cup Texts : s \in ByteString
  /\ \A s \in Slices \cup Texts : Sha256(s) \in Seq(Byte) /\ Len(Sha256(s)) = HASH_LEN
  /\ \A k \in Bytes(KEY_LEN), n \in Bytes(NONCE_LEN), t \in Texts :
       \A i \in 1 .. Len(t) : Keystream(k, n, i) \in Byte
  /\ \A a, b \in Byte : Xor(a, b) \in Byte /\ Xor(Xor(a, b), b) = a

VARIABLES
  run,     \* the run: who runs the program and on which key, nonce and text
  stdin,   \* the slices the program reads
  pc,      \* where the run is
  public,  \* the bytes committed so far
  result   \* what a reader made of them

vars == <<run, stdin, pc, public, result>>

None == [tag |-> "none"]

(* "usage" is the command given both of --execute and --prove, or neither; *)
(* "anyone" runs the program with code of their own.                       *)
Hosts == {"service", "execute", "prove", "usage", "anyone"}

Init ==
  /\ run = None
  /\ stdin = << >>
  /\ pc = "idle"
  /\ public = << >>
  /\ result = None

-----------------------------------------------------------------------------
(* Those who run it.                                                       *)

(* What random_nonce may draw.                                             *)
random_nonce == Bytes(NONCE_LEN)

Fresh == pc \in {"idle", "ended"}

(* The command is not told what to do, or ENCRYPTION_KEY is not a key.     *)
Refuse(host, env) ==
  /\ Fresh
  /\ host = "usage" \/ (host # "anyone" /\ Len(env) # KEY_LEN)
  /\ run' = None /\ stdin' = << >> /\ public' = << >>
  /\ pc' = "ended"
  /\ result' = [tag |-> "refused"]

(* Mutant: the nonce is written before the key.                            *)
WriteNonceFirst(host, env, nonce, text) ==
  /\ Fresh
  /\ host = "anyone" \/ (host # "usage" /\ Len(env) = KEY_LEN /\ nonce \in random_nonce)
  /\ run' = [tag |-> "run", host |-> host, key |-> env, nonce |-> nonce, text |-> text]
  /\ stdin' = <<nonce, env, text>>
  /\ public' = << >> /\ result' = None
  /\ pc' = "key_hash"

(* The three slices are written. The nonce is random_nonce's, except for   *)
(* strangers, who may write anything.                                      *)
Write(host, env, nonce, text) ==
  /\ Fresh
  /\ host = "anyone" \/ (host # "usage" /\ Len(env) = KEY_LEN /\ nonce \in random_nonce)
  /\ run' = [tag |-> "run", host |-> host, key |-> env, nonce |-> nonce, text |-> text]
  /\ stdin' = <<env, nonce, text>>
  /\ public' = << >> /\ result' = None
  /\ pc' = "key_hash"

-----------------------------------------------------------------------------
(* The program.                                                            *)

chacha(key, nonce, buffer) == [i \in 1 .. Len(buffer) |-> Xor(buffer[i], Keystream(key, nonce, i))]

commit_slice(bytes, next) ==
  /\ public' = public \o bytes
  /\ pc' = next
  /\ UNCHANGED <<run, stdin, result>>

Panic ==
  /\ pc' = "panicked"
  /\ UNCHANGED <<run, stdin, public, result>>

CommitKeyHash == pc = "key_hash" /\ commit_slice(Sha256(stdin[1]), "nonce")

CommitNonce ==
  /\ pc = "nonce"
  /\ \/ Len(stdin[2]) = NONCE_LEN /\ commit_slice(stdin[2], "plaintext_hash")
     \/ Len(stdin[2]) # NONCE_LEN /\ Panic

CommitPlaintextHash == pc = "plaintext_hash" /\ commit_slice(Sha256(stdin[3]), "ciphertext")

(* Mutant: the plaintext is committed before it is encrypted.              *)
CommitPlaintext ==
  /\ pc = "ciphertext"
  /\ \/ Len(stdin[1]) = KEY_LEN /\ commit_slice(stdin[3], "committed")
     \/ Len(stdin[1]) # KEY_LEN /\ Panic

CommitCiphertext ==
  /\ pc = "ciphertext"
  /\ \/ Len(stdin[1]) = KEY_LEN
        /\ commit_slice(chacha(stdin[1], stdin[2], stdin[3]), "committed")
     \/ Len(stdin[1]) # KEY_LEN /\ Panic

-----------------------------------------------------------------------------
(* Those who read what it committed.                                       *)

HEADER_LEN == HASH_LEN + NONCE_LEN + HASH_LEN

(* Mutant: the header is taken to be longer than its ciphertext.           *)
from_bytes_strict(data) ==
  IF Len(data) <= HEADER_LEN THEN [tag |-> "error"]
  ELSE [tag            |-> "output",
        privkey_hash   |-> SubSeq(data, 1, HASH_LEN),
        nonce          |-> SubSeq(data, HASH_LEN + 1, HASH_LEN + NONCE_LEN),
        plaintext_hash |-> SubSeq(data, HASH_LEN + NONCE_LEN + 1, HEADER_LEN),
        ciphertext     |-> SubSeq(data, HEADER_LEN + 1, Len(data))]

from_bytes(data) ==
  IF Len(data) < HEADER_LEN THEN [tag |-> "error"]
  ELSE [tag            |-> "output",
        privkey_hash   |-> SubSeq(data, 1, HASH_LEN),
        nonce          |-> SubSeq(data, HASH_LEN + 1, HASH_LEN + NONCE_LEN),
        plaintext_hash |-> SubSeq(data, HASH_LEN + NONCE_LEN + 1, HEADER_LEN),
        ciphertext     |-> SubSeq(data, HEADER_LEN + 1, Len(data))]

End(outcome) ==
  /\ pc' = "ended"
  /\ result' = outcome
  /\ UNCHANGED <<run, stdin, public>>

(* A proof that verifies is read with the key of the process that reads    *)
(* it, whoever made it. Otherwise the error passes the blob through.       *)
verify_decrypt_blob(key) ==
  LET output == from_bytes(public) IN
  /\ pc = "committed" /\ run.host \in {"service", "anyone"}
  /\ End(IF output.tag = "error" THEN [tag |-> "passed through"]
         ELSE [tag |-> "decrypted", key |-> key, output |-> output,
               text |-> chacha(key, output.nonce, output.ciphertext)])

(* --execute: the output is checked against the input, in the order of the *)
(* asserts. `expect` panics if it cannot be read.                          *)
CheckOutput ==
  LET output == from_bytes(public) IN
  /\ pc = "committed" /\ run.host = "execute"
  /\ End([tag |-> IF /\ output.tag = "output"
                     /\ output.nonce = run.nonce
                     /\ chacha(run.key, output.nonce, output.ciphertext) = run.text
                     /\ output.privkey_hash = Sha256(run.key)
                  THEN "checked" ELSE "assertion failed"])

(* --prove: the proof is verified and its output is not read.              *)
VerifyProof ==
  /\ pc = "committed" /\ run.host = "prove"
  /\ End([tag |-> "verified"])

(* A run that panicked has no proof.                                       *)
NoProof == pc = "panicked" /\ End([tag |-> "no proof"])

-----------------------------------------------------------------------------
Next ==
  \/ \E host \in Hosts, env \in Slices : Refuse(host, env)
  \/ \E host \in Hosts, env, nonce \in Slices, text \in Texts : Write(host, env, nonce, text)
  \/ CommitKeyHash \/ CommitNonce \/ CommitPlaintextHash \/ CommitCiphertext
  \/ \E key \in Bytes(KEY_LEN) : verify_decrypt_blob(key)
  \/ CheckOutput \/ VerifyProof \/ NoProof

Spec == Init /\ [][Next]_vars

-----------------------------------------------------------------------------
(* Properties.                                                             *)

(* What a reader must find in the output of a run on key, nonce and text.  *)
Output(key, nonce, text) ==
  [tag |-> "output", privkey_hash |-> Sha256(key), nonce |-> nonce,
   plaintext_hash |-> Sha256(text), ciphertext |-> chacha(key, nonce, text)]

(* What the service and the command write is what the program expects: it  *)
(* never panics on their inputs and the command's assertions never fail.   *)
OwnRunsSucceed ==
  /\ pc = "panicked" => run.host = "anyone"
  /\ result.tag # "assertion failed"

(* Whoever ran the program and on whatever, down to an empty plaintext,    *)
(* output that was committed in full is read back field by field.          *)
OutputIsReadBack ==
  pc = "committed" => from_bytes(public) = Output(run.key, run.nonce, run.text)

(* A blob that is passed on as decrypted is the plaintext when the reader  *)
(* has the key it was encrypted with, and the header then names that key.  *)
DecryptionInverts ==
  result.tag = "decrypted" /\ result.key = run.key =>
    result.text = run.text /\ result.output.privkey_hash = Sha256(result.key)
=============================================================================
