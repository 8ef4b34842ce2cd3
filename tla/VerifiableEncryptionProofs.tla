--------------------- MODULE VerifiableEncryptionProofs ---------------------
(***************************************************************************)
(* Proofs about the encodings and the ZK program, for any lengths, any     *)
(* digest and keystream functions, and any byte strings.                   *)
(***************************************************************************)
EXTENDS VerifiableEncryption, TLAPS

-----------------------------------------------------------------------------
(* Byte strings.                                                           *)

(* What concatenation keeps of its parts.                                  *)
LEMMA ConcatType ==
  ASSUME NEW s \in Seq(Byte), NEW t \in Seq(Byte)
  PROVE  /\ s \o t \in Seq(Byte)
         /\ Len(s \o t) = Len(s) + Len(t)
         /\ \A i \in 1 .. Len(s) : (s \o t)[i] = s[i]
         /\ \A i \in 1 .. Len(t) : (s \o t)[Len(s) + i] = t[i]
  OBVIOUS

(* Two byte strings with the same bytes are equal.                         *)
LEMMA SameBytes ==
  ASSUME NEW s \in Seq(Byte), NEW t \in Seq(Byte), Len(s) = Len(t),
         \A i \in 1 .. Len(s) : s[i] = t[i]
  PROVE  s = t
  OBVIOUS

(* Cutting a concatenation at its seam gives back the part in front ...    *)
LEMMA TakeFront ==
  ASSUME NEW s \in Seq(Byte), NEW t \in Seq(Byte)
  PROVE  SubSeq(s \o t, 1, Len(s)) = s
<1>1. /\ SubSeq(s \o t, 1, Len(s)) \in Seq(Byte)
      /\ Len(SubSeq(s \o t, 1, Len(s))) = Len(s)
      /\ \A i \in 1 .. Len(s) : SubSeq(s \o t, 1, Len(s))[i] = s[i]
  BY ConcatType
<1> QED BY <1>1, SameBytes

(* ... and the part behind.                                                *)
LEMMA TakeBack ==
  ASSUME NEW s \in Seq(Byte), NEW t \in Seq(Byte)
  PROVE  SubSeq(s \o t, Len(s) + 1, Len(s) + Len(t)) = t
<1>1. /\ SubSeq(s \o t, Len(s) + 1, Len(s) + Len(t)) \in Seq(Byte)
      /\ Len(SubSeq(s \o t, Len(s) + 1, Len(s) + Len(t))) = Len(t)
      /\ \A i \in 1 .. Len(t) : SubSeq(s \o t, Len(s) + 1, Len(s) + Len(t))[i] = t[i]
  BY ConcatType
<1> QED BY <1>1, SameBytes

(* How a concatenation is parenthesized does not matter.                   *)
LEMMA ConcatAssociates ==
  ASSUME NEW s \in Seq(Byte), NEW t \in Seq(Byte), NEW u \in Seq(Byte)
  PROVE  (s \o t) \o u = s \o (t \o u)
<1>1. /\ s \o t \in Seq(Byte) /\ t \o u \in Seq(Byte)
      /\ Len(s \o t) = Len(s) + Len(t) /\ Len(t \o u) = Len(t) + Len(u)
      /\ Len(s) \in Nat /\ Len(t) \in Nat /\ Len(u) \in Nat
  BY ConcatType
<1>2. /\ (s \o t) \o u \in Seq(Byte) /\ s \o (t \o u) \in Seq(Byte)
      /\ Len((s \o t) \o u) = Len(s) + Len(t) + Len(u)
      /\ Len(s \o (t \o u)) = Len(s) + Len(t) + Len(u)
  BY <1>1, ConcatType
<1>3. ASSUME NEW i \in 1 .. Len(s) + Len(t) + Len(u)
      PROVE  ((s \o t) \o u)[i] = (s \o (t \o u))[i]
  <2>1. CASE i \in 1 .. Len(s)
    BY <1>1, <2>1, ConcatType
  <2>2. CASE i - Len(s) \in 1 .. Len(t)
    BY <1>1, <2>2, ConcatType
  <2>3. CASE i - Len(s) - Len(t) \in 1 .. Len(u)
    BY <1>1, <2>3, ConcatType
  <2> QED BY <1>1, <2>1, <2>2, <2>3
<1> QED BY <1>2, <1>3, SameBytes

(* Cutting at two seams gives back the part between them.                  *)
LEMMA TakeMiddle ==
  ASSUME NEW s \in Seq(Byte), NEW t \in Seq(Byte), NEW u \in Seq(Byte)
  PROVE  SubSeq(s \o t \o u, Len(s) + 1, Len(s) + Len(t)) = t
<1> DEFINE whole == s \o t \o u
           slice == SubSeq(whole, Len(s) + 1, Len(s) + Len(t))
<1>1. /\ s \o t \in Seq(Byte) /\ Len(s \o t) = Len(s) + Len(t)
      /\ Len(s) \in Nat /\ Len(t) \in Nat /\ Len(u) \in Nat
  BY ConcatType
<1>2. whole \in Seq(Byte) /\ Len(whole) = Len(s) + Len(t) + Len(u)
  BY <1>1, ConcatType
<1>3. \A i \in 1 .. Len(t) : whole[Len(s) + i] = t[i]
  BY <1>1, ConcatType
<1> HIDE DEF whole
<1>4. /\ slice \in Seq(Byte) /\ Len(slice) = Len(t)
      /\ \A i \in 1 .. Len(t) : slice[i] = whole[Len(s) + i]
  BY <1>1, <1>2
<1>5. slice = t
  BY <1>3, <1>4, SameBytes
<1> QED BY <1>5 DEF whole

-----------------------------------------------------------------------------
(* Database keys.                                                          *)

(* Reading an encoded byte string gives it back and leaves what follows.   *)
LEMMA ReadBytes ==
  ASSUME NEW s \in ByteString, NEW t \in Seq(Byte)
  PROVE  deserialize_bytes(serialize_bytes(s) \o t) = [tag |-> "read", data |-> s, rest |-> t]
<1> DEFINE head == U64(Len(s))
           all  == serialize_bytes(s) \o t
<1>1. /\ s \in Seq(Byte) /\ Len(s) \in Lengths /\ Len(s) \in Nat /\ PREFIX_LEN \in Nat
      /\ head \in Seq(Byte) /\ Len(head) = PREFIX_LEN
  BY PrefixAssumption DEF ByteString
<1>2. all = head \o s \o t
  BY DEF serialize_bytes
<1> HIDE DEF head, all
<1>3. /\ s \o t \in Seq(Byte) /\ head \o s \in Seq(Byte)
      /\ Len(head \o s) = PREFIX_LEN + Len(s) /\ Len(t) \in Nat
  BY <1>1
<1>4. all = head \o (s \o t)
  BY <1>1, <1>2, ConcatAssociates
<1>5. SubSeq(all, 1, PREFIX_LEN) = head
  BY <1>1, <1>3, <1>4, TakeFront
<1>6. /\ Len(all) = PREFIX_LEN + Len(s) + Len(t)
      /\ SubSeq(all, PREFIX_LEN + 1, PREFIX_LEN + Len(s)) = s
      /\ SubSeq(all, PREFIX_LEN + Len(s) + 1, Len(all)) = t
  <2>1. Len(all) = PREFIX_LEN + Len(s) + Len(t)
    BY <1>2, <1>3, ConcatType
  <2>2. SubSeq(all, PREFIX_LEN + 1, PREFIX_LEN + Len(s)) = s
    <3>1. SubSeq(head \o s \o t, Len(head) + 1, Len(head) + Len(s)) = s
      BY <1>1, TakeMiddle
    <3> QED BY <1>1, <1>2, <3>1
  <2>3. SubSeq(all, PREFIX_LEN + Len(s) + 1, Len(all)) = t
    <3>1. SubSeq((head \o s) \o t, Len(head \o s) + 1, Len(head \o s) + Len(t)) = t
      BY <1>3, TakeBack
    <3> QED BY <1>2, <1>3, <2>1, <3>1
  <2> QED BY <2>1, <2>2, <2>3
<1>7. Prefixes(all, Len(s))
  BY <1>1, <1>3, <1>5, <1>6 DEF Prefixes, head
<1>8. \A n \in Lengths : Prefixes(all, n) => n = Len(s)
  BY <1>1, <1>5, PrefixAssumption DEF Prefixes, head
<1>9. (CHOOSE n \in Lengths : Prefixes(all, n)) = Len(s)
  BY <1>1, <1>7, <1>8
<1>10. deserialize_bytes(all) = [tag |-> "read", data |-> s, rest |-> t]
  BY <1>1, <1>6, <1>7, <1>9 DEF deserialize_bytes
<1> QED BY <1>10 DEF all

(* The encoding of an anchor alone never decodes as a Job, whatever the    *)
(* anchor: after the anchor nothing is left to read an input's length      *)
(* from. This is why main panics on the first key of a queue it resumes.   *)
THEOREM KeyNeverDecodes ==
  \A anchor \in ByteString : deserialize_job(job_key(anchor)) = Eof
<1> TAKE anchor \in ByteString
<1>1. anchor \in Seq(Byte) /\ Len(anchor) \in Lengths
  BY DEF ByteString
<1>2. serialize_bytes(anchor) \in Seq(Byte)
  BY <1>1, ConcatType, PrefixAssumption DEF serialize_bytes
<1>3. serialize_bytes(anchor) \o << >> = serialize_bytes(anchor) /\ << >> \in Seq(Byte)
  BY <1>2
<1>4. deserialize_bytes(job_key(anchor)) = [tag |-> "read", data |-> anchor, rest |-> << >>]
  BY <1>3, ReadBytes DEF job_key
<1>5. deserialize_bytes(<< >>) = Eof
  <2>1. \A n \in Lengths : ~Prefixes(<< >>, n)
    BY PrefixAssumption DEF Prefixes
  <2> QED BY <2>1 DEF deserialize_bytes
<1>6. [tag |-> "read", data |-> anchor, rest |-> << >>] # Eof
  BY DEF Eof
<1> QED BY <1>4, <1>5, <1>6 DEF deserialize_job

(* Jobs do not share a key: the anchor can be read back from it.           *)
THEOREM KeysTellAnchorsApart ==
  \A a, b \in ByteString : job_key(a) = job_key(b) => a = b
<1> SUFFICES ASSUME NEW a \in ByteString, NEW b \in ByteString, job_key(a) = job_key(b)
             PROVE  a = b
  OBVIOUS
<1>1. << >> \in Seq(Byte)
  OBVIOUS
<1>2. [tag |-> "read", data |-> a, rest |-> << >>] = [tag |-> "read", data |-> b, rest |-> << >>]
  BY <1>1, ReadBytes DEF job_key
<1> QED BY <1>2

-----------------------------------------------------------------------------
(* The header and the cipher.                                              *)

(* from_bytes takes apart what was committed piece by piece, for every     *)
(* length of the ciphertext, zero included.                                *)
LEMMA ReadOutput ==
  ASSUME NEW a \in Seq(Byte), NEW b \in Seq(Byte), NEW c \in Seq(Byte), NEW d \in Seq(Byte),
         Len(a) = HASH_LEN, Len(b) = NONCE_LEN, Len(c) = HASH_LEN
  PROVE  from_bytes(a \o b \o c \o d) =
           [tag |-> "output", privkey_hash |-> a, nonce |-> b, plaintext_hash |-> c, ciphertext |-> d]
<1> DEFINE ab   == a \o b
           cd   == c \o d
           abc  == ab \o c
           data == abc \o d
<1>1. /\ ab \in Seq(Byte) /\ cd \in Seq(Byte)
      /\ Len(ab) = HASH_LEN + NONCE_LEN
      /\ HASH_LEN \in Nat /\ NONCE_LEN \in Nat /\ Len(d) \in Nat
  OBVIOUS
<1> HIDE DEF ab, cd
<1>2. data = ab \o cd
  <2>1. ab \in Seq(Byte)
    BY <1>1
  <2> QED BY <2>1, ConcatAssociates DEF cd
<1>3. ab \o cd = a \o (b \o cd) /\ b \o cd \in Seq(Byte)
  <2>1. cd \in Seq(Byte)
    BY <1>1
  <2> QED BY <2>1, ConcatAssociates, ConcatType DEF ab
<1>4. abc \in Seq(Byte) /\ Len(abc) = HEADER_LEN /\ HEADER_LEN \in Nat
  <2>1. ab \in Seq(Byte)
    BY <1>1
  <2>2. abc \in Seq(Byte) /\ Len(abc) = Len(ab) + Len(c)
    BY <2>1, ConcatType
  <2> HIDE DEF abc
  <2> QED BY <1>1, <2>2 DEF HEADER_LEN
<1>5. Len(data) = HEADER_LEN + Len(d)
  <2> HIDE DEF abc
  <2>1. abc \in Seq(Byte)
    BY <1>4
  <2>2. Len(data) = Len(abc) + Len(d)
    BY <2>1, ConcatType
  <2> QED BY <1>4, <2>2
<1>6. SubSeq(data, 1, HASH_LEN) = a
  <2>1. SubSeq(a \o (b \o cd), 1, Len(a)) = a
    BY <1>3, TakeFront
  <2> QED BY <1>2, <1>3, <2>1
<1>7. SubSeq(data, HASH_LEN + 1, HASH_LEN + NONCE_LEN) = b
  <2>1. SubSeq(a \o b \o cd, Len(a) + 1, Len(a) + Len(b)) = b
    BY <1>1, TakeMiddle
  <2> QED BY <1>2, <2>1 DEF ab
<1>8. SubSeq(data, HASH_LEN + NONCE_LEN + 1, HEADER_LEN) = c
  <2>1. SubSeq(ab \o c \o d, Len(ab) + 1, Len(ab) + Len(c)) = c
    BY <1>1, TakeMiddle
  <2>2. Len(ab) + Len(c) = HEADER_LEN
    BY <1>1 DEF HEADER_LEN
  <2> QED BY <1>1, <2>1, <2>2
<1> HIDE DEF abc
<1>9. SubSeq(data, HEADER_LEN + 1, Len(data)) = d
  <2>1. SubSeq(abc \o d, Len(abc) + 1, Len(abc) + Len(d)) = d
    BY <1>4, TakeBack
  <2> QED BY <1>4, <1>5, <2>1
<1>10. ~(Len(data) < HEADER_LEN)
  BY <1>1, <1>4, <1>5
<1> HIDE DEF data
<1>11. from_bytes(data) =
         [tag |-> "output", privkey_hash |-> a, nonce |-> b, plaintext_hash |-> c, ciphertext |-> d]
  BY <1>6, <1>7, <1>8, <1>9, <1>10 DEF from_bytes
<1> QED BY <1>11 DEF data, abc, ab

(* Encrypting keeps the length, and encrypting again with the same key and *)
(* nonce gives the plaintext back.                                         *)
LEMMA ChachaInverts ==
  ASSUME NEW k \in Bytes(KEY_LEN), NEW n \in Bytes(NONCE_LEN), NEW t \in Texts
  PROVE  /\ chacha(k, n, t) \in Seq(Byte)
         /\ Len(chacha(k, n, t)) = Len(t)
         /\ chacha(k, n, chacha(k, n, t)) = t
<1>1. /\ t \in Seq(Byte) /\ Len(t) \in Nat
      /\ \A i \in 1 .. Len(t) : t[i] \in Byte /\ Keystream(k, n, i) \in Byte
  BY CipherAssumption DEF ByteString
<1> DEFINE c == chacha(k, n, t)
<1>2. /\ c \in Seq(Byte) /\ Len(c) = Len(t)
      /\ \A i \in 1 .. Len(t) : c[i] = Xor(t[i], Keystream(k, n, i))
  BY <1>1, CipherAssumption DEF chacha
<1> HIDE DEF c
<1>3. \A i \in 1 .. Len(t) : Xor(c[i], Keystream(k, n, i)) = t[i]
  BY <1>1, <1>2, CipherAssumption
<1>4. chacha(k, n, c) = [i \in 1 .. Len(t) |-> t[i]]
  BY <1>2, <1>3 DEF chacha
<1>5. [i \in 1 .. Len(t) |-> t[i]] = t
  BY <1>1
<1> QED BY <1>2, <1>4, <1>5 DEF c

-----------------------------------------------------------------------------
(* Every run of the program.                                               *)

Runs == [tag : {"run"}, host : Hosts, key : Slices, nonce : Slices, text : Texts]

Active == pc \in {"key_hash", "nonce", "plaintext_hash", "ciphertext", "committed", "panicked"}

(* A run keeps its inputs, and those of the service and the command have   *)
(* the lengths the program asks for.                                       *)
RunInv ==
  /\ run = None \/ run \in Runs
  /\ run # None /\ run.host # "anyone" =>
       run.key \in Bytes(KEY_LEN) /\ run.nonce \in Bytes(NONCE_LEN)
  /\ Active => run # None /\ stdin = <<run.key, run.nonce, run.text>>

(* What has been committed at each point of the program. The nonce is      *)
(* committed only if it has its length, the ciphertext only if the key has. *)
CommitInv ==
  /\ pc = "key_hash" => public = << >>
  /\ pc = "nonce" => public = << >> \o Sha256(run.key)
  /\ pc = "plaintext_hash" =>
       run.nonce \in Bytes(NONCE_LEN) /\ public = << >> \o Sha256(run.key) \o run.nonce
  /\ pc = "ciphertext" =>
       /\ run.nonce \in Bytes(NONCE_LEN)
       /\ public = << >> \o Sha256(run.key) \o run.nonce \o Sha256(run.text)
  /\ pc = "committed" =>
       /\ run.key \in Bytes(KEY_LEN) /\ run.nonce \in Bytes(NONCE_LEN)
       /\ public = << >> \o Sha256(run.key) \o run.nonce \o Sha256(run.text)
                     \o chacha(run.key, run.nonce, run.text)

(* What a reader was given.                                                *)
ReadInv ==
  result.tag = "decrypted" =>
    /\ run # None /\ run.key \in Bytes(KEY_LEN) /\ run.nonce \in Bytes(NONCE_LEN)
    /\ result.output = Output(run.key, run.nonce, run.text)
    /\ result.text = chacha(result.key, result.output.nonce, result.output.ciphertext)

EncryptionInv == RunInv /\ CommitInv /\ ReadInv /\ OwnRunsSucceed

(* Bytes of a given length are slices of that length.                      *)
LEMMA SliceLength ==
  ASSUME NEW s \in Slices, NEW n
  PROVE  s \in Bytes(n) <=> Len(s) = n
  BY DEF Bytes

(* Output that was committed in full reads back.                           *)
LEMMA CommittedReadsBack ==
  RunInv /\ CommitInv => OutputIsReadBack
<1> SUFFICES ASSUME RunInv, CommitInv, pc = "committed"
             PROVE  from_bytes(public) = Output(run.key, run.nonce, run.text)
  BY DEF OutputIsReadBack
<1>1. run \in Runs
  BY DEF RunInv, Active
<1>2. /\ run.key \in Bytes(KEY_LEN) /\ run.nonce \in Bytes(NONCE_LEN) /\ run.text \in Texts
      /\ public = << >> \o Sha256(run.key) \o run.nonce \o Sha256(run.text)
                    \o chacha(run.key, run.nonce, run.text)
  BY <1>1 DEF CommitInv, Runs
<1> DEFINE a == Sha256(run.key)
           b == run.nonce
           c == Sha256(run.text)
           d == chacha(run.key, run.nonce, run.text)
<1>3. a \in Seq(Byte) /\ Len(a) = HASH_LEN /\ c \in Seq(Byte) /\ Len(c) = HASH_LEN
  BY <1>1, CipherAssumption DEF Runs
<1>4. b \in Seq(Byte) /\ Len(b) = NONCE_LEN
  BY <1>2, CipherAssumption DEF Bytes, ByteString
<1>5. d \in Seq(Byte)
  BY <1>2, ChachaInverts
<1>6. public = << >> \o a \o b \o c \o d
  BY <1>2
<1>7. Output(run.key, run.nonce, run.text) =
        [tag |-> "output", privkey_hash |-> a, nonce |-> b, plaintext_hash |-> c, ciphertext |-> d]
  BY DEF Output
<1> HIDE DEF a, b, c, d
<1>8. << >> \o a = a
  BY <1>3
<1>9. from_bytes(a \o b \o c \o d) =
        [tag |-> "output", privkey_hash |-> a, nonce |-> b, plaintext_hash |-> c, ciphertext |-> d]
  BY <1>3, <1>4, <1>5, ReadOutput
<1> QED BY <1>6, <1>7, <1>8, <1>9

(* A run begins with nothing committed.                                    *)
LEMMA WriteKeeps ==
  ASSUME EncryptionInv,
         NEW host \in Hosts, NEW env \in Slices, NEW nonce \in Slices, NEW text \in Texts,
         Write(host, env, nonce, text)
  PROVE  EncryptionInv'
<1>1. run' \in Runs /\ run'.host = host /\ run'.key = env /\ run'.nonce = nonce /\ run'.text = text
  BY DEF Write, Runs
<1>2. run' # None
  BY DEF Write, None
<1>3. RunInv'
  BY <1>1, <1>2, SliceLength DEF Write, random_nonce, RunInv, Active
<1>4. CommitInv' /\ ReadInv' /\ OwnRunsSucceed'
  BY DEF Write, CommitInv, ReadInv, OwnRunsSucceed, None
<1> QED BY <1>3, <1>4 DEF EncryptionInv

(* A step of the program leaves the run and its inputs alone, and commits. *)
LEMMA ProgramKeeps ==
  ASSUME EncryptionInv,
         CommitKeyHash \/ CommitNonce \/ CommitPlaintextHash \/ CommitCiphertext
  PROVE  EncryptionInv'
<1> USE DEF commit_slice, Panic
<1>1. UNCHANGED <<run, stdin, result>>
  BY DEF CommitKeyHash, CommitNonce, CommitPlaintextHash, CommitCiphertext
<1>2. Active
  BY DEF Active, CommitKeyHash, CommitNonce, CommitPlaintextHash, CommitCiphertext
<1>3. /\ run \in Runs /\ stdin[1] = run.key /\ stdin[2] = run.nonce /\ stdin[3] = run.text
      /\ run.key \in Slices /\ run.nonce \in Slices
  BY <1>2 DEF EncryptionInv, RunInv, Runs
<1>4. RunInv'
  BY <1>1, <1>2 DEF EncryptionInv, RunInv
<1>5. ReadInv'
  BY <1>1 DEF EncryptionInv, ReadInv
<1>6. CommitInv'
  <2>1. CASE CommitKeyHash
    BY <1>1, <1>3, <2>1 DEF EncryptionInv, CommitInv, CommitKeyHash
  <2>2. CASE CommitNonce
    BY <1>1, <1>3, <2>2, SliceLength DEF EncryptionInv, CommitInv, CommitNonce
  <2>3. CASE CommitPlaintextHash
    BY <1>1, <1>3, <2>3 DEF EncryptionInv, CommitInv, CommitPlaintextHash
  <2>4. CASE CommitCiphertext
    BY <1>1, <1>3, <2>4, SliceLength DEF EncryptionInv, CommitInv, CommitCiphertext
  <2> QED BY <2>1, <2>2, <2>3, <2>4
<1>7. OwnRunsSucceed'
  <2>1. pc' = "panicked" => run.host = "anyone"
    <3>1. CASE CommitNonce
      BY <1>2, <1>3, <3>1, SliceLength DEF EncryptionInv, RunInv, CommitNonce
    <3>2. CASE CommitCiphertext
      BY <1>2, <1>3, <3>2, SliceLength DEF EncryptionInv, RunInv, CommitCiphertext
    <3> QED BY <3>1, <3>2 DEF CommitKeyHash, CommitPlaintextHash
  <2> QED BY <1>1, <2>1 DEF EncryptionInv, OwnRunsSucceed
<1> QED BY <1>4, <1>5, <1>6, <1>7 DEF EncryptionInv

(* Reading leaves the run alone and finds what the program committed.      *)
LEMMA ReaderKeeps ==
  ASSUME EncryptionInv,
         \/ \E key \in Bytes(KEY_LEN) : verify_decrypt_blob(key)
         \/ CheckOutput \/ VerifyProof \/ NoProof
  PROVE  EncryptionInv'
<1> USE DEF End
<1>1. UNCHANGED <<run, stdin, public>> /\ pc' = "ended"
  BY DEF verify_decrypt_blob, CheckOutput, VerifyProof, NoProof
<1>2. RunInv' /\ CommitInv'
  BY <1>1 DEF EncryptionInv, RunInv, CommitInv, Active
<1>3. ASSUME pc = "committed"
      PROVE  /\ run \in Runs /\ run # None
             /\ run.key \in Bytes(KEY_LEN) /\ run.nonce \in Bytes(NONCE_LEN) /\ run.text \in Texts
             /\ from_bytes(public) = Output(run.key, run.nonce, run.text)
  <2>1. run \in Runs /\ run # None
    BY <1>3 DEF EncryptionInv, RunInv, Active
  <2> QED BY <1>3, <2>1, CommittedReadsBack DEF EncryptionInv, CommitInv, Runs, OutputIsReadBack
<1>4. Output(run.key, run.nonce, run.text).tag = "output"
  BY DEF Output
<1>5. ReadInv' /\ OwnRunsSucceed'
  <2>1. CASE \E key \in Bytes(KEY_LEN) : verify_decrypt_blob(key)
    <3>1. PICK key \in Bytes(KEY_LEN) : verify_decrypt_blob(key)
      BY <2>1
    <3>2. pc = "committed"
      BY <3>1 DEF verify_decrypt_blob
    <3> DEFINE output == Output(run.key, run.nonce, run.text)
    <3>3. result' = [tag |-> "decrypted", key |-> key, output |-> output,
                     text |-> chacha(key, output.nonce, output.ciphertext)]
      BY <1>3, <1>4, <3>1, <3>2 DEF verify_decrypt_blob
    <3> HIDE DEF output
    <3>4. /\ result'.tag = "decrypted" /\ result'.key = key /\ result'.output = output
          /\ result'.text = chacha(key, output.nonce, output.ciphertext)
      BY <3>3
    <3>5. output = Output(run.key, run.nonce, run.text)
      BY DEF output
    <3> QED BY <1>1, <1>3, <3>2, <3>4, <3>5 DEF ReadInv, OwnRunsSucceed
  <2>2. CASE CheckOutput
    <3>1. pc = "committed"
      BY <2>2 DEF CheckOutput
    <3>2. /\ Output(run.key, run.nonce, run.text).nonce = run.nonce
          /\ Output(run.key, run.nonce, run.text).privkey_hash = Sha256(run.key)
          /\ Output(run.key, run.nonce, run.text).ciphertext = chacha(run.key, run.nonce, run.text)
      BY DEF Output
    <3>3. chacha(run.key, run.nonce, chacha(run.key, run.nonce, run.text)) = run.text
      BY <1>3, <3>1, ChachaInverts
    <3>4. result' = [tag |-> "checked"]
      BY <1>3, <1>4, <2>2, <3>1, <3>2, <3>3 DEF CheckOutput
    <3> QED BY <1>1, <3>4 DEF ReadInv, OwnRunsSucceed
  <2>3. CASE VerifyProof
    <3>1. result' = [tag |-> "verified"]
      BY <2>3 DEF VerifyProof
    <3> QED BY <1>1, <3>1 DEF ReadInv, OwnRunsSucceed
  <2>4. CASE NoProof
    <3>1. result' = [tag |-> "no proof"]
      BY <2>4 DEF NoProof
    <3> QED BY <1>1, <3>1 DEF ReadInv, OwnRunsSucceed
  <2> QED BY <2>1, <2>2, <2>3, <2>4
<1> QED BY <1>2, <1>5 DEF EncryptionInv

(* The invariant is inductive.                                             *)
LEMMA EncryptionInvHolds == Spec => []EncryptionInv
<1>1. Init => EncryptionInv
  BY DEF Init, None, EncryptionInv, RunInv, CommitInv, ReadInv, OwnRunsSucceed, Active
<1>2. EncryptionInv /\ [Next]_vars => EncryptionInv'
  <2> SUFFICES ASSUME EncryptionInv, [Next]_vars
               PROVE  EncryptionInv'
    OBVIOUS
  <2>1. ASSUME NEW host \in Hosts, NEW env \in Slices, Refuse(host, env)
        PROVE  EncryptionInv'
    <3>1. run' = None /\ pc' = "ended" /\ result' = [tag |-> "refused"]
      BY <2>1 DEF Refuse
    <3>2. RunInv' /\ CommitInv'
      BY <3>1 DEF RunInv, CommitInv, Active
    <3>3. ReadInv' /\ OwnRunsSucceed'
      BY <3>1 DEF ReadInv, OwnRunsSucceed
    <3> QED BY <3>2, <3>3 DEF EncryptionInv
  <2>2. ASSUME NEW host \in Hosts, NEW env \in Slices, NEW nonce \in Slices, NEW text \in Texts,
               Write(host, env, nonce, text)
        PROVE  EncryptionInv'
    BY <2>2, WriteKeeps
  <2>3. CASE CommitKeyHash \/ CommitNonce \/ CommitPlaintextHash \/ CommitCiphertext
    BY <2>3, ProgramKeeps
  <2>4. CASE \/ \E key \in Bytes(KEY_LEN) : verify_decrypt_blob(key)
             \/ CheckOutput \/ VerifyProof \/ NoProof
    BY <2>4, ReaderKeeps
  <2>5. CASE UNCHANGED vars
    BY <2>5 DEF vars, EncryptionInv, RunInv, CommitInv, ReadInv, OwnRunsSucceed, Active
  <2> QED BY <2>1, <2>2, <2>3, <2>4, <2>5 DEF Next
<1> QED BY <1>1, <1>2, PTL DEF Spec

(* The inputs the service and the command write make the program run to    *)
(* its end, and the command's assertions hold.                             *)
THEOREM OwnRunsAlwaysSucceed == Spec => []OwnRunsSucceed
<1>1. EncryptionInv => OwnRunsSucceed
  BY DEF EncryptionInv
<1> QED BY <1>1, EncryptionInvHolds, PTL

(* What the program commits is what from_bytes reads, whoever ran it, for  *)
(* every length of key, nonce, digest and plaintext.                       *)
THEOREM OutputReadsBack == Spec => []OutputIsReadBack
<1>1. EncryptionInv => OutputIsReadBack
  BY CommittedReadsBack DEF EncryptionInv
<1> QED BY <1>1, EncryptionInvHolds, PTL

(* Decrypting with the key of the encryption gives the plaintext.          *)
THEOREM DecryptionAlwaysInverts == Spec => []DecryptionInverts
<1>1. EncryptionInv => DecryptionInverts
  <2> SUFFICES ASSUME EncryptionInv, result.tag = "decrypted", result.key = run.key
               PROVE  result.text = run.text /\ result.output.privkey_hash = Sha256(result.key)
    BY DEF DecryptionInverts
  <2>1. run \in Runs /\ run.key \in Bytes(KEY_LEN) /\ run.nonce \in Bytes(NONCE_LEN)
    BY DEF EncryptionInv, RunInv, ReadInv
  <2>2. /\ result.output = Output(run.key, run.nonce, run.text)
        /\ result.text = chacha(run.key, result.output.nonce, result.output.ciphertext)
    BY DEF EncryptionInv, ReadInv
  <2>3. /\ result.output.nonce = run.nonce /\ result.output.privkey_hash = Sha256(run.key)
        /\ result.output.ciphertext = chacha(run.key, run.nonce, run.text)
    BY <2>2 DEF Output
  <2>4. run.text \in Texts
    BY <2>1 DEF Runs
  <2> QED BY <2>1, <2>2, <2>3, <2>4, ChachaInverts
<1> QED BY <1>1, EncryptionInvHolds, PTL
=============================================================================
