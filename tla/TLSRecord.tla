----------------------------- MODULE TLSRecord -----------------------------
(* The record layer and the key derivation of src/TLS/tls, with the          *)
(* cryptography as algebra: a key is named by what it is derived from, and   *)
(* only the cipher that sealed a payload opens it.  Sizes are bytes.         *)
EXTENDS Integers, Sequences

BlockSize == 16

Uint16(n) == n % 65536

(* The plaintext is padded to whole blocks (by a whole block when it already *)
(* fits) and preceded by the initialisation vector.                          *)
CipherLength(n) == BlockSize + n + (BlockSize - (n % BlockSize))

(* What is on the wire: the header carries the low 16 bits of the size.      *)
Record(type, data) == [type |-> type, data |-> data]

HeaderLength(rec) == Uint16(rec.data.size)

encryptContent(cipher, plain, n) ==
  [msg |-> "sealed", cipher |-> cipher, plain |-> plain, size |-> CipherLength(n)]

(* Less than one block: "bad length".  Another cipher: what comes out does   *)
(* not end in valid padding.                                                 *)
DecryptError(cipher, rec) ==
  HeaderLength(rec) < BlockSize \/ rec.data.cipher # cipher

(* A record of exactly one block holds no ciphertext: its last byte is       *)
(* indexed all the same and the process panics.                              *)
DecryptPanics(rec) == HeaderLength(rec) = BlockSize

(* Bytes of the record that the header did not announce stay unread.         *)
Overhang(rec) == rec.data.msg = "sealed" /\ rec.data.size > HeaderLength(rec)

prf(secret, seed) == <<secret, seed>>

generateMasterSecret(clientRandom, serverRandom, preMasterSecret) ==
  prf(preMasterSecret, <<"master secret", clientRandom, serverRandom>>)

(* p: the SecurityParameters of an end.                                      *)
KeyBlock(p) == prf(p.MasterSecret, <<"key expansion", p.ServerRandom, p.ClientRandom>>)

ClientWriteKey(p) == <<KeyBlock(p), "40:56">>

ServerWriteKey(p) == <<KeyBlock(p), "56:72">>

ClientGenerateKeys(p) ==
  [EncryptCipher |-> ClientWriteKey(p), DecryptCipher |-> ServerWriteKey(p)]

MutantServerGenerateKeys(p) ==
  [EncryptCipher |-> ClientWriteKey(p), DecryptCipher |-> ClientWriteKey(p)]

ServerGenerateKeys(p) ==
  [EncryptCipher |-> ServerWriteKey(p), DecryptCipher |-> ClientWriteKey(p)]

(* The handshake payloads.                                                   *)
Payload(msg, body) == [msg |-> msg, body |-> body]

ClientHelloPayload(random) == Payload("ClientHello", <<random>>)

ServerHelloPayload(random) == Payload("ServerHello", <<random>>)

CertificatePayload(owner) == Payload("Certificate", <<owner>>)

ServerHelloCertificateRequestPayload == Payload("CertificateRequest", <<>>)

ServerHelloDonePayload == Payload("ServerHelloDone", <<>>)

(* The premaster secret, for the owner of the certificate.                   *)
ClientHelloKeyExchangePayload(owner, preMasterSecret) ==
  Payload("ClientKeyExchange", <<owner, preMasterSecret>>)

(* A signature by the owner's key over the hash of a message history.        *)
ClientHelloCertificateVerifyPayload(owner, history) ==
  Payload("CertificateVerify", <<owner, history>>)

FinishedPayload(masterSecret, history) ==
  Payload("Finished", <<masterSecret, history>>)

FinishedSize == 16
=============================================================================
