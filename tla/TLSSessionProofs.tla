-------------------------- MODULE TLSSessionProofs --------------------------
(* Proofs about the TLS handshake and the echo session, for every source of  *)
(* random values, every set of message sizes and every number of messages.   *)
EXTENDS TLSSession, TLAPS

IsSeq(s) == s \in Seq({s[i] : i \in DOMAIN s})

-----------------------------------------------------------------------------
(* The inductive invariant.                                                  *)

Nonces == Random \cup {<<>>}

Names == Ends \cup {<<>>}

Secrets == {<<>>} \cup {generateMasterSecret(a, b, c) : a \in Nonces, b \in Nonces, c \in Nonces}

Params == [ClientRandom : Nonces, ServerRandom : Nonces, RemoteCertificate : Names,
           PreMasterSecret : Nonces, MasterSecret : Secrets]

Memory ==
  /\ DOMAIN msgHistory = Ends /\ IsSeq(msgHistory["client"]) /\ IsSeq(msgHistory["server"])
  /\ secParam \in [Ends -> Params]
  /\ DOMAIN matBlock = Ends

Shape ==
  /\ DOMAIN pc = Ends
  /\ pc["client"] \in Points("client") /\ pc["server"] \in Points("server")
  /\ broken \in BOOLEAN
  /\ DOMAIN wire = Ends /\ IsSeq(wire["client"]) /\ IsSeq(wire["server"])
  /\ Memory
  /\ sent \in Seq(Lengths) /\ Len(sent) <= MaxMessages
  /\ IsSeq(replies)

(* How much of the handshake an end that is still running has in its history. *)
ClientPlace(p, k) ==
  /\ p \in {"new", "ClientHello"} => k = 0
  /\ p = "ServerMessages" => k \in 1..4
  /\ p = "Certificate" => k = 5
  /\ p = "KeyExchange" => k = 6
  /\ p = "Verify" => k = 7
  /\ p \in {"ChangeCipher", "Finished", "PeerCipher", "PeerFinished", "ready", "reply"} => k = 8

ServerPlace(p, k) ==
  /\ p \in {"new", "ClientHello"} => k = 0
  /\ p = "ServerHello" => k = 1
  /\ p = "Certificate" => k = 2
  /\ p = "Request" => k = 3
  /\ p = "HelloDone" => k = 4
  /\ p = "PeerCertificate" => k = 5
  /\ p = "PeerKeyExchange" => k = 6
  /\ p = "PeerVerify" => k = 7
  /\ p \in {"PeerCipher", "PeerFinished", "ChangeCipher", "Finished", "ready", "echo"} => k = 8

(* The handshake messages, in the order of both histories.                   *)
Message(i, cr, sr, pm) ==
  IF i = 1 THEN ClientHelloPayload(cr)
  ELSE IF i = 2 THEN ServerHelloPayload(sr)
  ELSE IF i = 3 THEN CertificatePayload("server")
  ELSE IF i = 4 THEN ServerHelloCertificateRequestPayload
  ELSE IF i = 5 THEN ServerHelloDonePayload
  ELSE IF i = 6 THEN CertificatePayload("client")
  ELSE IF i = 7 THEN ClientHelloKeyExchangePayload("server", pm)
  ELSE ClientHelloCertificateVerifyPayload("client",
         <<ClientHelloPayload(cr), ServerHelloPayload(sr), CertificatePayload("server"),
           ServerHelloCertificateRequestPayload, ServerHelloDonePayload,
           CertificatePayload("client"), ClientHelloKeyExchangePayload("server", pm)>>)

Script(i) == Message(i, secParam["client"].ClientRandom, secParam["server"].ServerRandom,
                     secParam["client"].PreMasterSecret)

Kc == Len(msgHistory["client"])

Ks == Len(msgHistory["server"])

HistoryInv ==
  /\ Kc \in 0..8 /\ Ks \in 0..8
  /\ ClientPlace(pc["client"], Kc) /\ ServerPlace(pc["server"], Ks)
  /\ Ks >= 1 => Kc >= 1
  /\ Kc >= 2 => Ks >= 2 /\ (Kc <= 5 => Ks >= Kc) /\ (Kc >= 5 => Ks >= 5)
  /\ Ks >= 6 => Kc >= Ks
  /\ \A i \in 1..Kc : msgHistory["client"][i] = Script(i)
  /\ \A i \in 1..Ks : msgHistory["server"][i] = Script(i)

OwnSecret(p) == p.MasterSecret = generateMasterSecret(p.ClientRandom, p.ServerRandom, p.PreMasterSecret)

(* What each end has learnt, by the length of its history.                   *)
ParamInv ==
  /\ Kc >= 2 => secParam["client"].ServerRandom = secParam["server"].ServerRandom
  /\ Kc >= 3 => secParam["client"].RemoteCertificate = "server"
  /\ Kc = 8 => /\ OwnSecret(secParam["client"])
               /\ matBlock["client"] = ClientGenerateKeys(secParam["client"])
  /\ Ks >= 1 => secParam["server"].ClientRandom = secParam["client"].ClientRandom
  /\ Ks >= 6 => secParam["server"].RemoteCertificate = "client"
  /\ Ks >= 7 => secParam["server"].PreMasterSecret = secParam["client"].PreMasterSecret
  /\ Ks = 8 => /\ OwnSecret(secParam["server"])
               /\ matBlock["server"] = ServerGenerateKeys(secParam["server"])

(* How many records of the handshake an end has written and read.            *)
ClientSent(p) ==
  IF p \in {"new", "ClientHello"} THEN 0
  ELSE IF p \in {"ServerMessages", "Certificate"} THEN 1
  ELSE IF p = "KeyExchange" THEN 2
  ELSE IF p = "Verify" THEN 3
  ELSE IF p = "ChangeCipher" THEN 4
  ELSE IF p = "Finished" THEN 5
  ELSE 6

ServerGot(p) ==
  IF p \in {"new", "ClientHello"} THEN 0
  ELSE IF p \in {"ServerHello", "Certificate", "Request", "HelloDone", "PeerCertificate"} THEN 1
  ELSE IF p = "PeerKeyExchange" THEN 2
  ELSE IF p = "PeerVerify" THEN 3
  ELSE IF p = "PeerCipher" THEN 4
  ELSE IF p = "PeerFinished" THEN 5
  ELSE 6

ServerSent(p) ==
  IF p \in {"new", "ClientHello", "ServerHello"} THEN 0
  ELSE IF p = "Certificate" THEN 1
  ELSE IF p = "Request" THEN 2
  ELSE IF p = "HelloDone" THEN 3
  ELSE IF p = "Finished" THEN 5
  ELSE IF p \in {"ready", "echo"} THEN 6
  ELSE 4

ClientGot(p, k) ==
  IF p \in {"new", "ClientHello"} THEN 0
  ELSE IF p = "ServerMessages" THEN k - 1
  ELSE IF p = "PeerFinished" THEN 5
  ELSE IF p \in {"ready", "reply"} THEN 6
  ELSE 4

IsFinished(rec, key) ==
  /\ rec.type = "Handshake"
  /\ rec.data.msg = "sealed"
  /\ rec.data.cipher = key
  /\ rec.data.size = CipherLength(FinishedSize)
  /\ rec.data.plain.msg = "Finished"

(* The n-th record of an end's handshake.                                    *)
FromClient(rec, n) ==
  /\ n = 1 => rec = Record("Handshake", Script(1))
  /\ n \in 2..4 => rec = Record("Handshake", Script(n + 4))
  /\ n = 5 => rec.type = "ChangeCipherSpec"
  /\ n = 6 => IsFinished(rec, ClientWriteKey(secParam["client"]))

FromServer(rec, n) ==
  /\ n \in 1..4 => rec = Record("Handshake", Script(n + 1))
  /\ n = 5 => rec.type = "ChangeCipherSpec"
  /\ n = 6 => IsFinished(rec, ServerWriteKey(secParam["server"]))

(* An end that has written n records has a history of this length.           *)
ClientWrote(n) == (n = 1 => Kc >= 1) /\ (n >= 2 => Kc >= n + 4 \/ Kc = 8)

ServerWrote(n) == (n \in 1..4 => Ks >= n + 1) /\ (n >= 5 => Ks = 8)

(* Handshake records on the way to a reader that still runs.                 *)
ToServer ==
  pc["server"] \notin Endings \cup {"ready", "echo"} =>
    LET w == wire["server"]
        n == ServerGot(pc["server"]) + Len(w)
    IN  /\ n <= 6
        /\ ~Ended("client") => n <= ClientSent(pc["client"])
        /\ ~Ended("client") /\ ~broken => n = ClientSent(pc["client"])
        /\ ClientWrote(n)
        /\ \A i \in 1..Len(w) : FromClient(w[i], ServerGot(pc["server"]) + i)

ToClient ==
  pc["client"] \notin Endings \cup {"ready", "reply"} =>
    LET w == wire["client"]
        n == ClientGot(pc["client"], Kc) + Len(w)
    IN  /\ n <= 6
        /\ ~Ended("server") => n <= ServerSent(pc["server"])
        /\ ~Ended("server") /\ ~broken => n = ServerSent(pc["server"])
        /\ ServerWrote(n)
        /\ \A i \in 1..Len(w) : FromServer(w[i], ClientGot(pc["client"], Kc) + i)

(* Application records and what the server keeps of one.                     *)
Cut(i) ==
  [of |-> i, text |-> IF sent[i] < BufferSize THEN sent[i] ELSE BufferSize, size |-> BufferSize]

Question(i) ==
  Record("ApplicationData",
         encryptContent(ClientWriteKey(secParam["client"]),
                        [of |-> i, text |-> sent[i], size |-> sent[i]], sent[i]))

Answer(i) ==
  Record("ApplicationData",
         encryptContent(ServerWriteKey(secParam["server"]), Cut(i), BufferSize))

(* The message the client waits for is the last one, and in one place.       *)
Pending ==
  /\ Len(sent) = Len(replies) + 1
  /\ pc["client"] \in {"reply"} \cup Endings
  /\ pc["client"] = "reply" => wire["client"] = <<>>

SessionInv ==
  /\ pc["client"] \notin {"ready", "reply"} \cup Endings => Len(sent) = 0 /\ Len(replies) = 0
  /\ pc["client"] \in {"ready", "reply"} => Ks = 8
  /\ pc["client"] = "ready" => Len(sent) = Len(replies) /\ wire["client"] = <<>>
  /\ pc["client"] = "reply" =>
       /\ Len(sent) = Len(replies) + 1
       /\ Len(wire["client"]) <= 1
       /\ wire["client"] # <<>> =>
            /\ wire["client"][1] = Answer(Len(sent))
            /\ ~TooLong(sent[Len(sent)])
  /\ pc["server"] \notin {"ready", "echo"} \cup Endings => Len(sent) = 0
  /\ pc["server"] \in {"ready", "echo"} /\ ~Ended("client") => ClientSent(pc["client"]) = 6
  /\ pc["server"] = "ready" =>
       /\ Len(wire["server"]) <= 1
       /\ wire["server"] # <<>> => Pending /\ wire["server"][1] = Question(Len(sent))
  /\ pc["server"] = "echo" =>
       /\ wire["server"] = <<>>
       /\ Pending
       /\ ~TooLong(sent[Len(sent)])
       /\ buffer = Cut(Len(sent))
  /\ Len(replies) <= Len(sent)

TLSInv ==
  /\ Shape
  /\ HistoryInv
  /\ ParamInv
  /\ ToServer
  /\ ToClient
  /\ SessionInv
  /\ ClientNotAlone
  /\ EndsForCause
  /\ EchoesPadded
-----------------------------------------------------------------------------
(* Sequences of anything.                                                    *)

LEMMA SeqBasic ==
  ASSUME NEW s, IsSeq(s)
  PROVE  /\ Len(s) \in Nat
         /\ DOMAIN s = 1..Len(s)
         /\ s = <<>> <=> Len(s) = 0
<1> DEFINE S == {s[i] : i \in DOMAIN s}
<1>1. s \in Seq(S)
  BY DEF IsSeq
<1> HIDE DEF S
<1> QED
  BY <1>1

LEMMA SeqShort ==
  ASSUME NEW s, IsSeq(s), Len(s) < 1
  PROVE  s = <<>>
<1>1. Len(s) \in Nat /\ (s = <<>> <=> Len(s) = 0)
  BY SeqBasic
<1>2. Len(s) <= 0 /\ Len(s) >= 0
  BY <1>1
<1> QED
  BY <1>1, <1>2

(* A sequence over any set is one over its own elements.                     *)
LEMMA SeqOf ==
  ASSUME NEW S, NEW s \in Seq(S)
  PROVE  IsSeq(s)
<1> DEFINE T == {s[i] : i \in DOMAIN s}
<1>1. Len(s) \in Nat /\ DOMAIN s = 1..Len(s) /\ s = [i \in 1..Len(s) |-> s[i]]
  OBVIOUS
<1>2. \A i \in 1..Len(s) : s[i] \in T
  BY <1>1
<1> HIDE DEF T
<1>3. [i \in 1..Len(s) |-> s[i]] \in Seq(T)
  BY <1>1, <1>2
<1> QED
  BY <1>1, <1>3 DEF IsSeq, T

LEMMA SeqAppend ==
  ASSUME NEW s, NEW x, IsSeq(s)
  PROVE  /\ IsSeq(Append(s, x))
         /\ Len(Append(s, x)) = Len(s) + 1
         /\ \A i \in 1..Len(s) : Append(s, x)[i] = s[i]
         /\ Append(s, x)[Len(s) + 1] = x
<1> DEFINE S == {s[i] : i \in DOMAIN s}
           T == S \cup {x}
<1>1. s \in Seq(S)
  BY DEF IsSeq
<1> HIDE DEF S
<1>2. s \in Seq(T) /\ x \in T
  BY <1>1
<1> HIDE DEF T
<1>3. Append(s, x) \in Seq(T)
  BY <1>2
<1>4. IsSeq(Append(s, x))
  BY <1>3, SeqOf
<1> QED
  BY <1>2, <1>4

LEMMA SeqTail ==
  ASSUME NEW s, IsSeq(s), s # <<>>
  PROVE  /\ IsSeq(Tail(s))
         /\ Len(s) >= 1
         /\ Len(Tail(s)) = Len(s) - 1
         /\ Head(s) = s[1]
         /\ \A i \in 1..(Len(s) - 1) : Tail(s)[i] = s[i + 1]
<1> DEFINE S == {s[i] : i \in DOMAIN s}
<1>1. s \in Seq(S)
  BY DEF IsSeq
<1> HIDE DEF S
<1>2. Tail(s) \in Seq(S)
  BY <1>1
<1>3. IsSeq(Tail(s))
  BY <1>2, SeqOf
<1> QED
  BY <1>1, <1>3

LEMMA SeqEqual ==
  ASSUME NEW s, NEW t, IsSeq(s), IsSeq(t), Len(s) = Len(t),
         \A i \in 1..Len(s) : s[i] = t[i]
  PROVE  s = t
<1> DEFINE S == {s[i] : i \in DOMAIN s}
           T == {t[i] : i \in DOMAIN t}
<1>1. s \in Seq(S) /\ t \in Seq(T)
  BY DEF IsSeq
<1> HIDE DEF S, T
<1> QED
  BY <1>1

LEMMA SeqEmpty == IsSeq(<<>>) /\ Len(<<>>) = 0
<1>1. <<>> \in Seq({})
  OBVIOUS
<1> QED
  BY <1>1, SeqOf

-----------------------------------------------------------------------------
(* Sizes of records.                                                         *)

LEMMA Unwrapped == ASSUME NEW m \in Nat, m <= 65535 PROVE m % 65536 = m
OBVIOUS

LEMMA Sizes ==
  ASSUME NEW n \in Nat, n <= 65535
  PROVE  /\ CipherLength(n) \in Nat /\ Uint16(CipherLength(n)) \in Int
         /\ CipherLength(n) >= 32
         /\ ~TooLong(n) => Uint16(CipherLength(n)) = CipherLength(n)
         /\ TooLong(n) => Uint16(CipherLength(n)) <= 16
<1> DEFINE q == n \div 16
           t == n % 16
<1>1. q \in Nat /\ t \in Nat /\ n = 16 * q + t /\ t < 16
  OBVIOUS
<1>2. CipherLength(n) = 16 * q + 32 /\ q <= 4095
  BY <1>1 DEF CipherLength, BlockSize
<1> HIDE DEF q, t
<1>3. CASE q <= 4093
  <2>1. CipherLength(n) \in Nat /\ CipherLength(n) <= 65535
    BY <1>1, <1>2, <1>3
  <2>2. CipherLength(n) % 65536 = CipherLength(n)
    BY <2>1, Unwrapped
  <2> QED
    BY <1>1, <1>2, <2>1, <2>2 DEF TooLong, Uint16
<1>4. CASE q = 4094
  BY <1>2, <1>4 DEF TooLong, Uint16
<1>5. CASE q = 4095
  BY <1>2, <1>5 DEF TooLong, Uint16
<1> QED
  BY <1>1, <1>2, <1>3, <1>4, <1>5

LEMMA FixedSizes ==
  /\ Uint16(CipherLength(FinishedSize)) = 48
  /\ CipherLength(FinishedSize) = 48
  /\ Uint16(CipherLength(BufferSize)) = 1056
  /\ CipherLength(BufferSize) = 1056
BY DEF Uint16, CipherLength, BlockSize, FinishedSize, BufferSize

-----------------------------------------------------------------------------
(* Steps.                                                                    *)

LEMMA TwoEnds ==
  /\ Ends = {"client", "server"}
  /\ Peer("client") = "server" /\ Peer("server") = "client"
  /\ \A e \in Ends : Ended(e) <=> pc[e] \in Endings
BY DEF Ends, Peer, Ended

LEMMA InitInv == Init => TLSInv
<1> SUFFICES ASSUME Init PROVE TLSInv
  OBVIOUS
<1> USE DEF Init, Ends
<1>1. /\ pc["client"] = "new" /\ pc["server"] = "new"
      /\ wire["client"] = <<>> /\ wire["server"] = <<>>
      /\ msgHistory["client"] = <<>> /\ msgHistory["server"] = <<>>
      /\ Kc = 0 /\ Ks = 0
  BY DEF Kc, Ks
<1>2. Shape
  <2>0. DOMAIN pc = Ends
    OBVIOUS
  <2>1. pc["client"] \in Points("client") /\ pc["server"] \in Points("server")
    BY <1>1 DEF Points
  <2>2. secParam \in [Ends -> Params]
    BY DEF Params, Nonces, Names, Secrets
  <2>3. sent \in Seq(Lengths) /\ Len(sent) <= MaxMessages
    BY MaxMessagesAssumption
  <2> QED
    BY <1>1, <2>0, <2>1, <2>2, <2>3, SeqEmpty DEF Shape, Memory
<1>3. HistoryInv
  BY <1>1 DEF HistoryInv, ClientPlace, ServerPlace
<1>4. ParamInv
  BY <1>1 DEF ParamInv
<1>5. ToServer /\ ToClient
  BY <1>1 DEF ToServer, ToClient, ServerGot, ClientGot, ClientSent, ServerSent, ClientWrote,
              ServerWrote
<1>6. SessionInv
  BY <1>1 DEF SessionInv
<1>7. ClientNotAlone /\ EndsForCause /\ EchoesPadded
  BY <1>1 DEF ClientNotAlone, Established, Session, EndsForCause, Endings, EchoesPadded
<1> QED
  BY <1>2, <1>3, <1>4, <1>5, <1>6, <1>7 DEF TLSInv

(* An end stops: its own wire is read no more.                               *)
LEMMA Stops ==
  ASSUME TLSInv, NEW e \in Ends, NEW how \in Endings, ~Ended(e), Goto(e, how),
         broken' \in BOOLEAN, broken => broken',
         DOMAIN wire' = Ends, IsSeq(wire'[e]), wire'[Peer(e)] = wire[Peer(e)],
         UNCHANGED <<handshakeVars, echoVars>>,
         EndsForCause'
  PROVE  TLSInv'
<1> USE DEF Ends, handshakeVars, echoVars
<1> DEFINE cl == pc["client"]
           sv == pc["server"]
<1>1. Shape /\ HistoryInv /\ ParamInv /\ ToServer /\ ToClient /\ SessionInv
      /\ ClientNotAlone /\ EchoesPadded
  BY DEF TLSInv
<1>2. DOMAIN pc = Ends /\ pc' = [pc EXCEPT ![e] = how]
  BY <1>1 DEF Shape, Goto
<1>3. /\ pc'[e] = how /\ pc'[Peer(e)] = pc[Peer(e)] /\ DOMAIN pc' = Ends
      /\ pc'[e] \in Endings /\ pc[e] \notin Endings
  BY <1>2 DEF Peer, Ended
<1>4. Shape'
  <2>1. IsSeq(wire'["client"]) /\ IsSeq(wire'["server"])
    BY <1>1 DEF Shape, Peer
  <2>2. pc'["client"] \in Points("client") /\ pc'["server"] \in Points("server")
    BY <1>1, <1>3 DEF Shape, Points, Peer
  <2> QED
    BY <1>1, <1>3, <2>1, <2>2 DEF Shape, Memory
<1>5. Kc' = Kc /\ Ks' = Ks
  BY DEF Kc, Ks
<1>6. HistoryInv'
  <2>1. ClientPlace(pc["client"], Kc)' /\ ServerPlace(pc["server"], Ks)'
    BY <1>1, <1>3, <1>5 DEF HistoryInv, ClientPlace, ServerPlace, Peer, Endings
  <2>2. \A i : Script(i)' = Script(i)
    BY DEF Script
  <2> QED
    BY <1>1, <1>5, <2>1, <2>2 DEF HistoryInv
<1>7. ParamInv'
  BY <1>1, <1>5 DEF ParamInv
<1>8. ToServer'
  <2>1. \A rec, n : FromClient(rec, n)' = FromClient(rec, n)
    BY DEF FromClient, Script
  <2>2. CASE e = "client"
    BY <1>1, <1>3, <1>5, <2>1, <2>2 DEF ToServer, ClientWrote, Peer, Ended
  <2>3. CASE e = "server"
    BY <1>3, <2>3 DEF ToServer
  <2> QED
    BY <2>2, <2>3
<1>9. ToClient'
  <2>1. \A rec, n : FromServer(rec, n)' = FromServer(rec, n)
    BY DEF FromServer, Script
  <2>2. CASE e = "server"
    BY <1>1, <1>3, <1>5, <2>1, <2>2 DEF ToClient, ServerWrote, Peer, Ended
  <2>3. CASE e = "client"
    BY <1>3, <2>3 DEF ToClient
  <2> QED
    BY <2>2, <2>3
<1>10. SessionInv'
  <2>1. \A i : Cut(i)' = Cut(i) /\ Question(i)' = Question(i) /\ Answer(i)' = Answer(i)
    BY DEF Cut, Question, Answer
  <2>2. CASE e = "client"
    <3>1. pc'["client"] \in Endings /\ pc'["server"] = pc["server"] /\ wire'["server"] = wire["server"]
      BY <1>3, <2>2 DEF Peer
    <3>2. Pending => Pending'
      BY <3>1 DEF Pending, Endings
    <3> QED
      BY <1>1, <1>5, <2>1, <3>1, <3>2 DEF SessionInv, Endings, Ended
  <2>3. CASE e = "server"
    <3>1. pc'["server"] \in Endings /\ pc'["client"] = pc["client"] /\ wire'["client"] = wire["client"]
      BY <1>3, <2>3 DEF Peer
    <3> QED
      BY <1>1, <1>5, <2>1, <3>1 DEF SessionInv, Endings, Ended
  <2> QED
    BY <2>2, <2>3
<1>11. ClientNotAlone'
  BY <1>1, <1>3 DEF ClientNotAlone, Established, Session, Ended, Peer, Endings
<1>12. EchoesPadded'
  BY <1>1 DEF EchoesPadded
<1> QED
  BY <1>4, <1>6, <1>7, <1>8, <1>9, <1>10, <1>11, <1>12 DEF TLSInv


(* Why an end stops.                                                         *)
LEMMA StopsForCause ==
  ASSUME TLSInv, NEW e \in Ends, NEW how \in Endings, ~Ended(e), Goto(e, how),
         broken' \in BOOLEAN, broken => broken',
         DOMAIN wire' = Ends, IsSeq(wire'[e]), wire'[Peer(e)] = wire[Peer(e)],
         UNCHANGED <<handshakeVars, echoVars>>,
         \/ broken' \/ Ended(Peer(e))
         \/ e = "server" /\ how = "panicked" /\ msgHistory["server"] = <<>>
         \/ e = "client" /\ how \in {"exited", "panicked"}
         \/ \E i \in DOMAIN sent : TooLong(sent[i])
  PROVE  TLSInv'
<1>1. pc'[e] = how /\ pc'[Peer(e)] = pc[Peer(e)]
  BY DEF TLSInv, Shape, Goto, Peer, Ends
<1>2. EndsForCause
  BY DEF TLSInv
<1>3. sent' = sent /\ msgHistory' = msgHistory
  BY DEF handshakeVars, echoVars
<1>4. EndsForCause'
  <2>1. CASE e = "client"
    BY <1>1, <1>2, <1>3, <2>1 DEF EndsForCause, Ended, Peer, Ends, Endings
  <2>2. CASE e = "server"
    BY <1>1, <1>2, <1>3, <2>2 DEF EndsForCause, Ended, Peer, Ends, Endings
  <2> QED
    BY <2>1, <2>2 DEF Ends
<1> QED
  BY <1>4, Stops

(* Close without a read.                                                     *)
LEMMA Closes ==
  ASSUME TLSInv, NEW e \in Ends, NEW how \in Endings, NEW unread \in BOOLEAN, ~Ended(e),
         Close(e, how, unread), UNCHANGED <<wire, handshakeVars, echoVars>>,
         \/ broken' \/ Ended(Peer(e))
         \/ e = "server" /\ how = "panicked" /\ msgHistory["server"] = <<>>
         \/ e = "client" /\ how \in {"exited", "panicked"}
  PROVE  TLSInv'
<1>1. broken \in BOOLEAN /\ DOMAIN wire = Ends /\ IsSeq(wire[e])
  BY DEF TLSInv, Shape, Ends
<1>2. Goto(e, how) /\ broken' = (broken \/ unread) /\ wire' = wire
  BY DEF Close
<1>3. broken' \in BOOLEAN /\ (broken => broken')
  BY <1>2
<1>4. DOMAIN wire' = Ends /\ IsSeq(wire'[e]) /\ wire'[Peer(e)] = wire[Peer(e)]
  BY <1>1, <1>2
<1>5. UNCHANGED <<handshakeVars, echoVars>>
  OBVIOUS
<1> QED
  BY <1>2, <1>3, <1>4, <1>5, StopsForCause

LEMMA NotEnded ==
  /\ \A p \in WritePoints["client"] \cup ReadPoints["client"] : p \notin Endings
  /\ \A p \in WritePoints["server"] \cup ReadPoints["server"] : p \notin Endings
BY DEF WritePoints, ReadPoints, Endings

LEMMA WriteErrorStep ==
  ASSUME TLSInv, NEW e \in Ends, WriteError(e)
  PROVE  TLSInv'
<1>1. ~Ended(e) /\ "failed" \in Endings
  BY NotEnded DEF WriteError, Ended, Ends, Endings
<1>2. broken \in BOOLEAN
  BY DEF TLSInv, Shape
<1>3. broken \/ Ended(Peer(e))
  BY DEF WriteError
<1>4. Close(e, "failed", wire[e] # <<>>) /\ UNCHANGED <<wire, handshakeVars, echoVars>>
  BY DEF WriteError
<1>5. broken' \/ Ended(Peer(e))
  BY <1>3, <1>4 DEF Close
<1> QED
  BY <1>1, <1>4, <1>5, Closes

LEMMA ReadErrorStep ==
  ASSUME TLSInv, NEW e \in Ends, ReadError(e)
  PROVE  TLSInv'
<1>1. ~Ended(e) /\ "failed" \in Endings
  BY NotEnded DEF ReadError, Ended, Ends, Endings
<1>2. broken \/ Ended(Peer(e))
  BY DEF ReadError
<1>3. Close(e, "failed", FALSE) /\ UNCHANGED <<wire, handshakeVars, echoVars>>
  BY DEF ReadError
<1>4. broken' \/ Ended(Peer(e))
  BY <1>2, <1>3 DEF Close
<1> QED
  BY <1>1, <1>3, <1>4, Closes

LEMMA NewTLSConnFailsStep ==
  ASSUME TLSInv, NEW e \in Ends, NewTLSConnFails(e)
  PROVE  TLSInv'
<1>1. ~Ended(e) /\ "panicked" \in Endings
  BY DEF NewTLSConnFails, Ended, Endings
<1>2. e = "server" => msgHistory["server"] = <<>>
  <2>1. e = "server" => Ks = 0
    BY DEF NewTLSConnFails, TLSInv, HistoryInv, ServerPlace
  <2> QED
    BY <2>1, SeqBasic DEF TLSInv, Shape, Memory, Ks
<1>3. Close(e, "panicked", wire[e] # <<>>) /\ UNCHANGED <<wire, handshakeVars, echoVars>>
  BY DEF NewTLSConnFails
<1>4. \/ e = "server" /\ msgHistory["server"] = <<>>
      \/ e = "client"
  BY <1>2 DEF Ends
<1> QED
  BY <1>1, <1>3, <1>4, Closes

LEMMA ClientStopsStep ==
  ASSUME TLSInv, ClientWriteFails \/ ClientExit
  PROVE  TLSInv'
<1>1. "client" \in Ends /\ ~Ended("client")
  BY DEF ClientWriteFails, ClientExit, Ended, Endings, Ends
<1>2. CASE ClientWriteFails
  <2>1. broken' \/ Ended(Peer("client"))
    BY <1>2 DEF ClientWriteFails, Close, Peer
  <2>2. /\ Close("client", "failed", wire["client"] # <<>>)
        /\ UNCHANGED <<wire, handshakeVars, echoVars>> /\ "failed" \in Endings
    BY <1>2 DEF ClientWriteFails, Endings
  <2> QED
    BY <1>1, <2>1, <2>2, Closes
<1>3. CASE ClientExit
  <2>1. PICK how \in {"exited", "panicked"} : Close("client", how, wire["client"] # <<>>)
    BY <1>3 DEF ClientExit
  <2>2. how \in Endings /\ UNCHANGED <<wire, handshakeVars, echoVars>>
    BY <1>3, <2>1 DEF ClientExit, Endings
  <2> QED
    BY <1>1, <2>1, <2>2, Closes
<1> QED
  BY <1>2, <1>3

(* Nothing but broken or a start.                                            *)
LEMMA BreakStep == TLSInv /\ Break => TLSInv'
<1> SUFFICES ASSUME TLSInv, Break PROVE TLSInv'
  OBVIOUS
<1> USE DEF handshakeVars, echoVars
<1>1. /\ broken' = TRUE /\ pc' = pc /\ wire' = wire /\ secParam' = secParam
      /\ matBlock' = matBlock /\ msgHistory' = msgHistory /\ buffer' = buffer /\ sent' = sent
      /\ replies' = replies
  BY DEF Break
<1>2. Shape' /\ HistoryInv' /\ ParamInv'
  BY <1>1 DEF TLSInv, Shape, Memory, HistoryInv, ParamInv, Kc, Ks, Script
<1>3. ToServer' /\ ToClient'
  <2>1. \A r, n : FromClient(r, n)' = FromClient(r, n) /\ FromServer(r, n)' = FromServer(r, n)
    BY <1>1 DEF FromClient, FromServer, Script
  <2> QED
    BY <1>1, <2>1 DEF TLSInv, ToServer, ToClient, Ended, ClientWrote, ServerWrote, Kc, Ks
<1>4. SessionInv'
  BY <1>1 DEF TLSInv, SessionInv, Ended, Pending, Cut, Question, Answer, Ks
<1>5. ClientNotAlone' /\ EndsForCause' /\ EchoesPadded'
  BY <1>1 DEF TLSInv, ClientNotAlone, EndsForCause, EchoesPadded, Established, Ended
<1> QED
  BY <1>2, <1>3, <1>4, <1>5 DEF TLSInv

LEMMA StutterStep == TLSInv /\ UNCHANGED vars => TLSInv'
BY DEF vars, TLSInv, Shape, Memory, HistoryInv, ParamInv, Kc, Ks, Script, ToServer, ToClient,
       FromClient, FromServer, ClientWrote, ServerWrote, SessionInv, Ended, Pending, Cut, Question,
       Answer, ClientNotAlone, EndsForCause, EchoesPadded, Established


(* A write: the record is appended, or lost on a broken connection.          *)
LEMMA Writes ==
  ASSUME TLSInv, NEW e \in Ends, NEW rec, NEW next, Send(e, rec, next)
  PROVE  /\ DOMAIN pc' = Ends /\ pc'[e] = next /\ pc'[Peer(e)] = pc[Peer(e)]
         /\ DOMAIN wire' = Ends /\ wire'[e] = wire[e]
         /\ broken' \in BOOLEAN /\ (broken => broken')
         /\ \/ wire'[Peer(e)] = wire[Peer(e)] /\ broken'
            \/ /\ wire'[Peer(e)] = Append(wire[Peer(e)], rec)
               /\ ~broken /\ ~broken' /\ ~Ended(Peer(e))
         /\ IsSeq(wire'["client"]) /\ IsSeq(wire'["server"])
<1> USE DEF Ends
<1>1. DOMAIN pc = Ends /\ DOMAIN wire = Ends /\ broken \in BOOLEAN
      /\ IsSeq(wire["client"]) /\ IsSeq(wire["server"])
  BY DEF TLSInv, Shape
<1>2. pc' = [pc EXCEPT ![e] = next]
  BY DEF Send, Goto
<1>3. CASE ~broken /\ ~Ended(Peer(e))
  <2>1. wire' = [wire EXCEPT ![Peer(e)] = Append(@, rec)] /\ broken' = FALSE
    BY <1>3 DEF Send
  <2>2. wire'[Peer(e)] = Append(wire[Peer(e)], rec) /\ wire'[e] = wire[e] /\ DOMAIN wire' = Ends
    BY <1>1, <2>1 DEF Peer
  <2>3. IsSeq(Append(wire[Peer(e)], rec))
    BY <1>1, SeqAppend DEF Peer
  <2> QED
    BY <1>1, <1>2, <1>3, <2>1, <2>2, <2>3 DEF Peer
<1>4. CASE broken \/ Ended(Peer(e))
  <2>1. wire' = wire /\ broken' = TRUE
    BY <1>4 DEF Send
  <2> QED
    BY <1>1, <1>2, <2>1 DEF Peer
<1> QED
  BY <1>3, <1>4

(* A wire that the step leaves alone.                                        *)
LEMMA KeepToServer ==
  ASSUME TLSInv, wire'["server"] = wire["server"], broken => broken',
         pc'["server"] \notin Endings \cup {"ready", "echo"} =>
           /\ pc["server"] \notin Endings \cup {"ready", "echo"}
           /\ ServerGot(pc'["server"]) = ServerGot(pc["server"]),
         pc'["client"] \notin Endings =>
           /\ pc["client"] \notin Endings
           /\ ClientSent(pc'["client"]) = ClientSent(pc["client"]),
         Kc' >= Kc, Kc \in 0..8, Kc' \in 0..8,
         pc["server"] \notin Endings \cup {"ready", "echo"} =>
           \A i \in 1..Len(wire["server"]) :
             FromClient(wire["server"][i], ServerGot(pc["server"]) + i) =>
               FromClient(wire["server"][i], ServerGot(pc["server"]) + i)'
  PROVE  ToServer'
<1>1. ToServer /\ IsSeq(wire["server"])
  BY DEF TLSInv, Shape
<1>2. Len(wire["server"]) \in Nat
  BY <1>1, SeqBasic
<1>3. ServerGot(pc["server"]) \in Nat
  BY DEF ServerGot
<1> SUFFICES ASSUME pc'["server"] \notin Endings \cup {"ready", "echo"} PROVE ToServer'
  BY DEF ToServer
<1> DEFINE n == ServerGot(pc["server"]) + Len(wire["server"])
<1>4. ClientWrote(n)'
  <2>1. ClientWrote(n)
    BY <1>1 DEF ToServer
  <2> QED
    BY <1>2, <1>3, <2>1 DEF ClientWrote
<1> QED
  BY <1>1, <1>2, <1>3, <1>4 DEF ToServer, Ended

LEMMA KeepToClient ==
  ASSUME TLSInv, wire'["client"] = wire["client"], broken => broken',
         pc'["client"] \notin Endings \cup {"ready", "reply"} =>
           /\ pc["client"] \notin Endings \cup {"ready", "reply"}
           /\ ClientGot(pc'["client"], Kc') = ClientGot(pc["client"], Kc),
         pc'["server"] \notin Endings =>
           /\ pc["server"] \notin Endings
           /\ ServerSent(pc'["server"]) = ServerSent(pc["server"]),
         Ks' >= Ks, Ks \in 0..8, Ks' \in 0..8,
         pc["client"] \notin Endings \cup {"ready", "reply"} =>
           \A i \in 1..Len(wire["client"]) :
             FromServer(wire["client"][i], ClientGot(pc["client"], Kc) + i) =>
               FromServer(wire["client"][i], ClientGot(pc["client"], Kc) + i)'
  PROVE  ToClient'
<1>1. ToClient /\ IsSeq(wire["client"]) /\ Kc \in 0..8
  BY DEF TLSInv, Shape, HistoryInv
<1>2. Len(wire["client"]) \in Nat
  BY <1>1, SeqBasic
<1>3. ClientGot(pc["client"], Kc) \in Int
  BY <1>1 DEF ClientGot
<1> SUFFICES ASSUME pc'["client"] \notin Endings \cup {"ready", "reply"} PROVE ToClient'
  BY DEF ToClient
<1> DEFINE n == ClientGot(pc["client"], Kc) + Len(wire["client"])
<1>4. ServerWrote(n)'
  <2>1. ServerWrote(n)
    BY <1>1 DEF ToClient
  <2> QED
    BY <1>2, <1>3, <2>1 DEF ServerWrote
<1> QED
  BY <1>1, <1>2, <1>3, <1>4 DEF ToClient, Ended


(* The handshake parameters do not change.                                   *)
LEMMA SameMemory ==
  ASSUME TLSInv, UNCHANGED handshakeVars
  PROVE  /\ Memory' /\ ParamInv' /\ Kc' = Kc /\ Ks' = Ks
         /\ \A r, n : FromClient(r, n)' = FromClient(r, n) /\ FromServer(r, n)' = FromServer(r, n)
         /\ ClientPlace(pc'["client"], Kc) /\ ServerPlace(pc'["server"], Ks) => HistoryInv'
<1>1. secParam' = secParam /\ matBlock' = matBlock /\ msgHistory' = msgHistory
  BY DEF handshakeVars
<1>2. Kc' = Kc /\ Ks' = Ks /\ \A i : Script(i)' = Script(i)
  BY <1>1 DEF Kc, Ks, Script
<1>3. Memory' /\ ParamInv'
  BY <1>1, <1>2 DEF TLSInv, Shape, Memory, ParamInv
<1>4. \A r, n : FromClient(r, n)' = FromClient(r, n) /\ FromServer(r, n)' = FromServer(r, n)
  BY <1>1, <1>2 DEF FromClient, FromServer
<1>5. ClientPlace(pc'["client"], Kc) /\ ServerPlace(pc'["server"], Ks) => HistoryInv'
  BY <1>1, <1>2 DEF TLSInv, HistoryInv
<1> QED
  BY <1>2, <1>3, <1>4, <1>5

(* The records of the server's handshake owe nothing to the client's         *)
(* parameters.                                                               *)
LEMMA ServerRecordsStable ==
  ASSUME secParam'["server"] = secParam["server"], NEW r, NEW n \in Int
  PROVE  FromServer(r, n)' <=> FromServer(r, n)
<1>1. \A i \in 2..5 : Script(i)' = Script(i)
  BY DEF Script, Message
<1>2. n \in 1..4 => Script(n + 1)' = Script(n + 1)
  BY <1>1
<1> QED
  BY <1>2 DEF FromServer

(* The client writes a record of its handshake.                              *)
LEMMA ClientFlight ==
  ASSUME TLSInv, NEW rec, NEW next, Send("client", rec, next), UNCHANGED echoVars,
         pc["client"] \notin Endings \cup {"ready", "reply"},
         next \in Points("client"), next \notin Endings \cup {"ready", "reply"},
         ClientSent(next) = ClientSent(pc["client"]) + 1,
         ClientGot(next, Kc') = ClientGot(pc["client"], Kc),
         Memory', HistoryInv', ParamInv', Kc' >= Kc, Ks' = Ks,
         msgHistory'["server"] = msgHistory["server"],
         \A r : \A n \in 1..ClientSent(pc["client"]) : FromClient(r, n) => FromClient(r, n)',
         FromClient(rec, ClientSent(next))', ClientWrote(ClientSent(next))',
         secParam'["server"] = secParam["server"]
  PROVE  TLSInv'
<1> USE DEF echoVars
<1>1. /\ Shape /\ HistoryInv /\ ToServer /\ ToClient /\ SessionInv /\ ClientNotAlone
      /\ EndsForCause /\ EchoesPadded
  BY DEF TLSInv
<1>2. "client" \in Ends /\ "server" \in Ends /\ Peer("client") = "server"
  BY DEF Ends, Peer
<1>3. /\ DOMAIN pc' = Ends /\ pc'["client"] = next /\ pc'["server"] = pc["server"]
      /\ DOMAIN wire' = Ends /\ wire'["client"] = wire["client"]
      /\ broken' \in BOOLEAN /\ (broken => broken')
      /\ \/ wire'["server"] = wire["server"] /\ broken'
         \/ /\ wire'["server"] = Append(wire["server"], rec)
            /\ ~broken /\ ~broken' /\ ~Ended("server")
      /\ IsSeq(wire'["client"]) /\ IsSeq(wire'["server"])
  BY <1>2, Writes
<1>4. Shape'
  BY <1>1, <1>3 DEF Shape
<1>5. ClientSent(pc["client"]) # 6 /\ ClientSent(pc["client"]) \in 0..6 /\ ClientSent(next) \in 0..6
  BY DEF ClientSent
<1>6. pc["server"] \notin {"ready", "echo"}
  BY <1>1, <1>5 DEF SessionInv, Ended
<1>7. Kc \in 0..8 /\ Kc' \in 0..8 /\ Ks \in 0..8
  BY <1>1 DEF HistoryInv
<1>8. ToServer'
  <2> SUFFICES ASSUME pc["server"] \notin Endings \cup {"ready", "echo"}
               PROVE  ToServer'
    BY <1>3 DEF ToServer
  <2> DEFINE w == wire["server"]
             g == ServerGot(pc["server"])
  <2>1. Len(w) \in Nat /\ g \in Nat
    BY <1>1, SeqBasic DEF Shape, ServerGot
  <2>2. /\ g + Len(w) <= ClientSent(pc["client"])
        /\ ~broken => g + Len(w) = ClientSent(pc["client"])
        /\ ClientWrote(g + Len(w))
        /\ \A i \in 1..Len(w) : FromClient(w[i], g + i)
    BY <1>1 DEF ToServer, Ended
  <2>3. \A i \in 1..Len(w) : g + i \in 1..ClientSent(pc["client"])
    BY <1>5, <2>1, <2>2
  <2>4. \A r : \A i \in 1..Len(w) : FromClient(r, g + i) => FromClient(r, g + i)'
    BY <1>3, <2>3
  <2>5. CASE wire'["server"] = wire["server"] /\ broken'
    <3>1. ClientWrote(g + Len(w))'
      BY <1>3, <1>7, <2>1, <2>2, <2>5 DEF ClientWrote
    <3>2. \A i \in 1..Len(w) : FromClient(w[i], g + i)'
      BY <1>3, <2>2, <2>4, <2>5
    <3> QED
      BY <1>3, <1>5, <2>1, <2>2, <2>5, <3>1, <3>2 DEF ToServer, Ended
  <2>6. CASE wire'["server"] = Append(w, rec) /\ ~broken
    <3>1. /\ Len(wire'["server"]) = Len(w) + 1
          /\ \A i \in 1..Len(w) : wire'["server"][i] = w[i]
          /\ wire'["server"][Len(w) + 1] = rec
      BY <1>1, <2>6, SeqAppend DEF Shape
    <3>2. g + Len(w) + 1 = ClientSent(next)
      BY <2>2, <2>6
    <3>3. ServerGot(pc["server"])' = g
      BY <1>3
    <3>4. \A i \in 1..(Len(w) + 1) : FromClient(wire["server"][i], ServerGot(pc["server"]) + i)'
      <4> SUFFICES ASSUME NEW i \in 1..(Len(w) + 1)
                   PROVE  FromClient(wire["server"][i], ServerGot(pc["server"]) + i)'
        OBVIOUS
      <4>1. CASE i \in 1..Len(w)
        <5>1. wire'["server"][i] = w[i] /\ FromClient(w[i], g + i)
          BY <2>2, <3>1, <4>1
        <5> QED
          BY <2>3, <3>3, <4>1, <5>1
      <4>2. CASE i = Len(w) + 1
        <5>1. wire'["server"][i] = rec /\ g + i = ClientSent(next)
          BY <2>1, <3>1, <3>2, <4>2
        <5> QED
          BY <3>3, <5>1
      <4> QED
        BY <2>1, <4>1, <4>2
    <3>5. ClientWrote(ServerGot(pc["server"]) + Len(wire["server"]))'
      <4>1. ServerGot(pc["server"])' + Len(wire["server"])' = ClientSent(next)
        BY <2>1, <3>1, <3>2, <3>3
      <4> QED
        BY <4>1
    <3> QED
      BY <1>3, <1>5, <2>1, <3>1, <3>2, <3>3, <3>4, <3>5 DEF ToServer, Ended
  <2> QED
    BY <1>3, <2>5, <2>6
<1>9. ToClient'
  <2>1. \A i \in 1..Len(wire["client"]) :
          FromServer(wire["client"][i], ClientGot(pc["client"], Kc) + i) =>
            FromServer(wire["client"][i], ClientGot(pc["client"], Kc) + i)'
    <3> SUFFICES ASSUME NEW i \in 1..Len(wire["client"]),
                        FromServer(wire["client"][i], ClientGot(pc["client"], Kc) + i)
                 PROVE  FromServer(wire["client"][i], ClientGot(pc["client"], Kc) + i)'
      OBVIOUS
    <3>1. ClientGot(pc["client"], Kc) + i \in Int
      BY <1>7 DEF ClientGot
    <3> QED
      BY <1>3, <3>1, ServerRecordsStable
  <2> QED
    BY <1>3, <1>7, <2>1, KeepToClient
<1>10. SessionInv'
  BY <1>1, <1>3, <1>6 DEF SessionInv, Endings, Ended
<1>11. ClientNotAlone'
  BY <1>3 DEF ClientNotAlone, Established, Session
<1>12. EndsForCause'
  BY <1>1, <1>3 DEF EndsForCause, Ends, Endings
<1>13. EchoesPadded'
  BY <1>1 DEF EchoesPadded
<1> QED
  BY <1>4, <1>8, <1>9, <1>10, <1>11, <1>12, <1>13 DEF TLSInv


LEMMA ClientRecordsStable ==
  ASSUME secParam'["client"] = secParam["client"], NEW r, NEW n \in Int,
         secParam'["server"].ServerRandom = secParam["server"].ServerRandom \/ n <= 3
  PROVE  FromClient(r, n)' <=> FromClient(r, n)
<1>1. Script(1)' = Script(1) /\ Script(6)' = Script(6) /\ Script(7)' = Script(7)
  BY DEF Script, Message
<1>2. n = 4 => Script(8)' = Script(8)
  BY DEF Script
<1>3. n \in 2..4 => Script(n + 4)' = Script(n + 4)
  BY <1>1, <1>2
<1> QED
  BY <1>1, <1>3 DEF FromClient

(* The server moves in its handshake without reading: the client's records   *)
(* on the way stay.                                                          *)
LEMMA ServerMoves ==
  ASSUME TLSInv, wire'["server"] = wire["server"], broken => broken',
         pc'["client"] = pc["client"],
         pc["server"] \notin Endings \cup {"ready", "echo"},
         ServerGot(pc'["server"]) = ServerGot(pc["server"]),
         secParam'["client"] = secParam["client"],
         secParam'["server"].ServerRandom = secParam["server"].ServerRandom \/ Kc <= 1,
         Kc' = Kc
  PROVE  ToServer'
<1>1. IsSeq(wire["server"]) /\ ToServer /\ Kc \in 0..8
  BY DEF TLSInv, Shape, HistoryInv
<1>2. Len(wire["server"]) \in Nat /\ ServerGot(pc["server"]) \in Nat
  BY <1>1, SeqBasic DEF ServerGot
<1>3. ClientWrote(ServerGot(pc["server"]) + Len(wire["server"]))
  BY <1>1 DEF ToServer
<1>4. \A i \in 1..Len(wire["server"]) :
        FromClient(wire["server"][i], ServerGot(pc["server"]) + i) =>
          FromClient(wire["server"][i], ServerGot(pc["server"]) + i)'
  <2> SUFFICES ASSUME NEW i \in 1..Len(wire["server"]),
                      FromClient(wire["server"][i], ServerGot(pc["server"]) + i)
               PROVE  FromClient(wire["server"][i], ServerGot(pc["server"]) + i)'
    OBVIOUS
  <2>1. Kc <= 1 => ServerGot(pc["server"]) + i <= 3
    BY <1>1, <1>2, <1>3 DEF ClientWrote
  <2>2. ServerGot(pc["server"]) + i \in Int
    BY <1>2
  <2> QED
    BY <2>1, <2>2, ClientRecordsStable
<1> QED
  BY <1>1, <1>4, KeepToServer

(* The server writes a record of its handshake.                              *)
LEMMA ServerFlight ==
  ASSUME TLSInv, NEW rec, NEW next, Send("server", rec, next), UNCHANGED echoVars,
         pc["server"] \notin Endings \cup {"ready", "echo"},
         next \in Points("server"), next \notin Endings \cup {"echo"},
         ServerSent(next) = ServerSent(pc["server"]) + 1,
         ServerGot(next) = ServerGot(pc["server"]),
         Memory', HistoryInv', ParamInv', Ks' >= Ks, Kc' = Kc,
         secParam'["client"] = secParam["client"],
         secParam'["server"].ServerRandom = secParam["server"].ServerRandom \/ Kc <= 1,
         \A r : \A n \in 1..ServerSent(pc["server"]) : FromServer(r, n) => FromServer(r, n)',
         FromServer(rec, ServerSent(next))', ServerWrote(ServerSent(next))'
  PROVE  TLSInv'
<1> USE DEF echoVars
<1>1. /\ Shape /\ HistoryInv /\ ToServer /\ ToClient /\ SessionInv /\ ClientNotAlone
      /\ EndsForCause /\ EchoesPadded
  BY DEF TLSInv
<1>2. "client" \in Ends /\ "server" \in Ends /\ Peer("server") = "client"
  BY DEF Ends, Peer
<1>3. /\ DOMAIN pc' = Ends /\ pc'["server"] = next /\ pc'["client"] = pc["client"]
      /\ DOMAIN wire' = Ends /\ wire'["server"] = wire["server"]
      /\ broken' \in BOOLEAN /\ (broken => broken')
      /\ \/ wire'["client"] = wire["client"] /\ broken'
         \/ /\ wire'["client"] = Append(wire["client"], rec)
            /\ ~broken /\ ~broken' /\ ~Ended("client")
      /\ IsSeq(wire'["client"]) /\ IsSeq(wire'["server"])
  BY <1>2, Writes
<1>4. Shape'
  BY <1>1, <1>3 DEF Shape
<1>5. ServerSent(pc["server"]) \in 0..5 /\ ServerSent(next) \in 0..6
  BY DEF ServerSent
<1>6. pc["client"] \notin {"ready", "reply"}
  BY <1>1 DEF ClientNotAlone, Established, Session, Ended
<1>7. Kc \in 0..8 /\ Ks' \in 0..8 /\ Ks \in 0..8
  BY <1>1 DEF HistoryInv
<1>8. ToClient'
  <2> SUFFICES ASSUME pc["client"] \notin Endings \cup {"ready", "reply"}
               PROVE  ToClient'
    BY <1>3 DEF ToClient
  <2> DEFINE w == wire["client"]
             g == ClientGot(pc["client"], Kc)
  <2>1. Len(w) \in Nat /\ g \in Nat
    <3>1. pc["client"] = "ServerMessages" => Kc \in 1..4
      BY <1>1 DEF HistoryInv, ClientPlace
    <3> QED
      BY <1>1, <1>7, <3>1, SeqBasic DEF Shape, ClientGot
  <2>2. /\ g + Len(w) <= ServerSent(pc["server"])
        /\ ~broken => g + Len(w) = ServerSent(pc["server"])
        /\ ServerWrote(g + Len(w))
        /\ \A i \in 1..Len(w) : FromServer(w[i], g + i)
    BY <1>1 DEF ToClient, Ended
  <2>3. \A i \in 1..Len(w) : g + i \in 1..ServerSent(pc["server"])
    BY <1>5, <2>1, <2>2
  <2>4. \A r : \A i \in 1..Len(w) : FromServer(r, g + i) => FromServer(r, g + i)'
    BY <1>3, <2>3
  <2>5. CASE wire'["client"] = wire["client"] /\ broken'
    <3>1. ServerWrote(g + Len(w))'
      BY <1>3, <1>7, <2>1, <2>2, <2>5 DEF ServerWrote
    <3>2. \A i \in 1..Len(w) : FromServer(w[i], g + i)'
      BY <1>3, <2>2, <2>4, <2>5
    <3> QED
      BY <1>3, <1>5, <2>1, <2>2, <2>5, <3>1, <3>2 DEF ToClient, Ended
  <2>6. CASE wire'["client"] = Append(w, rec) /\ ~broken
    <3>1. /\ Len(wire'["client"]) = Len(w) + 1
          /\ \A i \in 1..Len(w) : wire'["client"][i] = w[i]
          /\ wire'["client"][Len(w) + 1] = rec
      BY <1>1, <2>6, SeqAppend DEF Shape
    <3>2. g + Len(w) + 1 = ServerSent(next)
      BY <2>2, <2>6
    <3>3. ClientGot(pc["client"], Kc)' = g
      BY <1>3
    <3>4. \A i \in 1..(Len(w) + 1) : FromServer(wire["client"][i], ClientGot(pc["client"], Kc) + i)'
      <4> SUFFICES ASSUME NEW i \in 1..(Len(w) + 1)
                   PROVE  FromServer(wire["client"][i], ClientGot(pc["client"], Kc) + i)'
        OBVIOUS
      <4>1. CASE i \in 1..Len(w)
        <5>1. wire'["client"][i] = w[i] /\ FromServer(w[i], g + i)
          BY <2>2, <3>1, <4>1
        <5> QED
          BY <2>3, <3>3, <4>1, <5>1
      <4>2. CASE i = Len(w) + 1
        <5>1. wire'["client"][i] = rec /\ g + i = ServerSent(next)
          BY <2>1, <3>1, <3>2, <4>2
        <5> QED
          BY <3>3, <5>1
      <4> QED
        BY <2>1, <4>1, <4>2
    <3>5. ServerWrote(ClientGot(pc["client"], Kc) + Len(wire["client"]))'
      <4>1. ClientGot(pc["client"], Kc)' + Len(wire["client"])' = ServerSent(next)
        BY <2>1, <3>1, <3>2, <3>3
      <4> QED
        BY <4>1
    <3> QED
      BY <1>3, <1>5, <2>1, <3>1, <3>2, <3>3, <3>4, <3>5 DEF ToClient, Ended
  <2> QED
    BY <1>3, <2>5, <2>6
<1>9. ToServer'
  BY <1>3, ServerMoves
<1>10. SessionInv'
  <2>1. next = "ready" => wire["server"] = <<>> /\ (~Ended("client") => ClientSent(pc["client"]) = 6)
    <3> SUFFICES ASSUME next = "ready"
                 PROVE  wire["server"] = <<>> /\ (~Ended("client") => ClientSent(pc["client"]) = 6)
      OBVIOUS
    <3>1. ServerGot(pc["server"]) = 6 /\ ClientSent(pc["client"]) \in 0..6
      BY DEF ServerGot, ClientSent
    <3>2. IsSeq(wire["server"]) /\ Len(wire["server"]) \in Nat
      BY <1>1, SeqBasic DEF Shape
    <3>3. /\ 6 + Len(wire["server"]) <= 6
          /\ ~Ended("client") => 6 + Len(wire["server"]) <= ClientSent(pc["client"])
      BY <1>1, <3>1 DEF ToServer
    <3> QED
      BY <3>1, <3>2, <3>3, SeqBasic
  <2>2. next = "ready" => Len(wire["server"]) = 0
    BY <2>1, SeqEmpty
  <2> QED
    BY <1>1, <1>3, <1>6, <2>1, <2>2 DEF SessionInv, Endings, Ended
<1>11. ClientNotAlone'
  BY <1>3, <1>6 DEF ClientNotAlone, Established, Session
<1>12. EndsForCause'
  BY <1>1, <1>3 DEF EndsForCause, Ends, Endings
<1>13. EchoesPadded'
  BY <1>1 DEF EchoesPadded
<1> QED
  BY <1>4, <1>8, <1>9, <1>10, <1>11, <1>12, <1>13 DEF TLSInv


(* A read of a record that is accepted.                                      *)
LEMMA Reads ==
  ASSUME TLSInv, NEW e \in Ends, NEW ok, NEW next, wire[e] # <<>>, ok, Receive(e, ok, next)
  PROVE  /\ DOMAIN pc' = Ends /\ pc'[e] = next /\ pc'[Peer(e)] = pc[Peer(e)]
         /\ DOMAIN wire' = Ends /\ wire'[e] = Tail(wire[e]) /\ wire'[Peer(e)] = wire[Peer(e)]
         /\ broken' = broken
         /\ IsSeq(wire'["client"]) /\ IsSeq(wire'["server"])
<1> USE DEF Ends
<1>1. DOMAIN pc = Ends /\ DOMAIN wire = Ends /\ IsSeq(wire["client"]) /\ IsSeq(wire["server"])
  BY DEF TLSInv, Shape
<1>2. pc' = [pc EXCEPT ![e] = next] /\ wire' = [wire EXCEPT ![e] = Tail(@)] /\ broken' = broken
  BY DEF Receive, Goto
<1>3. /\ DOMAIN pc' = Ends /\ pc'[e] = next /\ pc'[Peer(e)] = pc[Peer(e)]
      /\ DOMAIN wire' = Ends /\ wire'[e] = Tail(wire[e]) /\ wire'[Peer(e)] = wire[Peer(e)]
  BY <1>1, <1>2 DEF Peer
<1>4. IsSeq(Tail(wire[e]))
  BY <1>1, SeqTail
<1>5. IsSeq(wire'["client"]) /\ IsSeq(wire'["server"])
  BY <1>1, <1>3, <1>4 DEF Peer
<1> QED
  BY <1>2, <1>3, <1>5

(* The server reads a record of the client's handshake.                      *)
LEMMA ServerReceives ==
  ASSUME TLSInv, NEW next, wire["server"] # <<>>, Receive("server", TRUE, next),
         UNCHANGED echoVars,
         pc["server"] \notin Endings \cup {"ready", "echo"},
         next \in Points("server"), next \notin Endings \cup {"ready", "echo"},
         ServerGot(next) = ServerGot(pc["server"]) + 1,
         ServerSent(next) = ServerSent(pc["server"]),
         Memory', HistoryInv', ParamInv', Ks' >= Ks, Kc' = Kc,
         secParam'["client"] = secParam["client"],
         secParam'["server"].ServerRandom = secParam["server"].ServerRandom,
         \A r : \A n \in 1..5 : FromServer(r, n) => FromServer(r, n)',
         ServerSent(pc["server"]) <= 5
  PROVE  TLSInv'
<1> USE DEF echoVars
<1>1. /\ Shape /\ HistoryInv /\ ToServer /\ ToClient /\ SessionInv /\ ClientNotAlone
      /\ EndsForCause /\ EchoesPadded
  BY DEF TLSInv
<1>2. "client" \in Ends /\ "server" \in Ends /\ Peer("server") = "client"
  BY DEF Ends, Peer
<1>3. /\ DOMAIN pc' = Ends /\ pc'["server"] = next /\ pc'["client"] = pc["client"]
      /\ DOMAIN wire' = Ends /\ wire'["server"] = Tail(wire["server"])
      /\ wire'["client"] = wire["client"] /\ broken' = broken
      /\ IsSeq(wire'["client"]) /\ IsSeq(wire'["server"])
  BY <1>2, Reads
<1>4. Shape'
  BY <1>1, <1>3 DEF Shape
<1>5. ServerSent(pc["server"]) \in 0..5 /\ ServerGot(pc["server"]) \in 0..5
  BY DEF ServerSent, ServerGot
<1>6. pc["client"] \notin {"ready", "reply"}
  BY <1>1 DEF ClientNotAlone, Established, Session, Ended
<1>7. Kc \in 0..8 /\ Ks' \in 0..8 /\ Ks \in 0..8
  BY <1>1 DEF HistoryInv
<1>8. ToServer'
  <2> DEFINE w == wire["server"]
             g == ServerGot(pc["server"])
  <2>1. /\ Len(w) \in Nat /\ Len(w) >= 1 /\ Len(wire'["server"]) = Len(w) - 1
        /\ \A i \in 1..(Len(w) - 1) : wire'["server"][i] = w[i + 1]
    BY <1>1, <1>3, SeqTail, SeqBasic DEF Shape
  <2>2. /\ g + Len(w) <= 6
        /\ ~Ended("client") => g + Len(w) <= ClientSent(pc["client"])
        /\ ~Ended("client") /\ ~broken => g + Len(w) = ClientSent(pc["client"])
        /\ ClientWrote(g + Len(w))
        /\ \A i \in 1..Len(w) : FromClient(w[i], g + i)
    BY <1>1 DEF ToServer
  <2>3. /\ ServerGot(pc["server"])' = g + 1
        /\ ServerGot(pc["server"])' + Len(wire["server"])' = g + Len(w)
    BY <1>3, <1>5, <2>1
  <2>4. ClientWrote(ServerGot(pc["server"]) + Len(wire["server"]))'
    BY <2>2, <2>3 DEF ClientWrote
  <2>5. \A i \in 1..Len(wire["server"])' : FromClient(wire["server"][i], ServerGot(pc["server"]) + i)'
    <3> SUFFICES ASSUME NEW i \in 1..(Len(w) - 1)
                 PROVE  FromClient(wire["server"][i], ServerGot(pc["server"]) + i)'
      BY <2>1
    <3>1. i + 1 \in 1..Len(w) /\ wire'["server"][i] = w[i + 1]
      BY <2>1
    <3>2. FromClient(w[i + 1], g + (i + 1))
      BY <2>2, <3>1
    <3>3. ServerGot(pc["server"])' + i = g + (i + 1) /\ g + (i + 1) \in Int
      BY <1>5, <2>3
    <3>4. \A r, n : n \in Int => (FromClient(r, n)' <=> FromClient(r, n))
      BY ClientRecordsStable
    <3> QED
      BY <3>1, <3>2, <3>3, <3>4
  <2> QED
    BY <1>3, <2>2, <2>3, <2>4, <2>5 DEF ToServer, Ended
<1>9. ToClient'
  <2>1. pc["client"] \notin Endings \cup {"ready", "reply"} =>
          \A i \in 1..Len(wire["client"]) :
            FromServer(wire["client"][i], ClientGot(pc["client"], Kc) + i) =>
              FromServer(wire["client"][i], ClientGot(pc["client"], Kc) + i)'
    <3> SUFFICES ASSUME pc["client"] \notin Endings \cup {"ready", "reply"},
                        NEW i \in 1..Len(wire["client"]),
                        FromServer(wire["client"][i], ClientGot(pc["client"], Kc) + i)
                 PROVE  FromServer(wire["client"][i], ClientGot(pc["client"], Kc) + i)'
      OBVIOUS
    <3>1. ClientGot(pc["client"], Kc) \in Nat
      <4>1. pc["client"] = "ServerMessages" => Kc \in 1..4
        BY <1>1 DEF HistoryInv, ClientPlace
      <4> QED
        BY <1>7, <4>1 DEF ClientGot
    <3>2. Len(wire["client"]) \in Nat
      BY <1>1, SeqBasic DEF Shape
    <3>3. ClientGot(pc["client"], Kc) + Len(wire["client"]) <= ServerSent(pc["server"])
      BY <1>1 DEF ToClient, Ended
    <3>4. ClientGot(pc["client"], Kc) + i \in 1..5
      BY <1>5, <3>1, <3>2, <3>3
    <3> QED
      BY <1>3, <3>4
  <2> QED
    BY <1>3, <1>7, <2>1, KeepToClient
<1>10. SessionInv'
  BY <1>1, <1>3, <1>6 DEF SessionInv, Endings, Ended
<1>11. ClientNotAlone'
  BY <1>3, <1>6 DEF ClientNotAlone, Established, Session
<1>12. EndsForCause'
  BY <1>1, <1>3 DEF EndsForCause, Ends, Endings
<1>13. EchoesPadded'
  BY <1>1 DEF EchoesPadded
<1> QED
  BY <1>4, <1>8, <1>9, <1>10, <1>11, <1>12, <1>13 DEF TLSInv

(* The client reads a record of the server's handshake.                      *)
LEMMA ClientReceives ==
  ASSUME TLSInv, NEW ok, NEW next, wire["client"] # <<>>, ok, Receive("client", ok, next),
         UNCHANGED echoVars,
         pc["client"] \notin Endings \cup {"ready", "reply"},
         next \in Points("client"), next \notin Endings \cup {"reply"},
         ClientGot(next, Kc') = ClientGot(pc["client"], Kc) + 1,
         ClientSent(next) = ClientSent(pc["client"]),
         Memory', HistoryInv', ParamInv', Kc' >= Kc, Ks' = Ks,
         msgHistory'["server"] = msgHistory["server"],
         secParam'["server"] = secParam["server"],
         \A r : \A n \in 1..ClientSent(pc["client"]) : FromClient(r, n) => FromClient(r, n)'
  PROVE  TLSInv'
<1> USE DEF echoVars
<1>1. /\ Shape /\ HistoryInv /\ ToServer /\ ToClient /\ SessionInv /\ ClientNotAlone
      /\ EndsForCause /\ EchoesPadded
  BY DEF TLSInv
<1>2. "client" \in Ends /\ "server" \in Ends /\ Peer("client") = "server"
  BY DEF Ends, Peer
<1>3. /\ DOMAIN pc' = Ends /\ pc'["client"] = next /\ pc'["server"] = pc["server"]
      /\ DOMAIN wire' = Ends /\ wire'["client"] = Tail(wire["client"])
      /\ wire'["server"] = wire["server"] /\ broken' = broken
      /\ IsSeq(wire'["client"]) /\ IsSeq(wire'["server"])
  BY <1>2, Reads
<1>4. Shape'
  BY <1>1, <1>3 DEF Shape
<1>5. ClientSent(pc["client"]) \in 0..6
  BY DEF ClientSent
<1>6. Kc \in 0..8 /\ Kc' \in 0..8 /\ Ks \in 0..8
  BY <1>1 DEF HistoryInv
<1> DEFINE w == wire["client"]
           g == ClientGot(pc["client"], Kc)
<1>7. g \in Nat
  <2>1. pc["client"] = "ServerMessages" => Kc \in 1..4
    BY <1>1 DEF HistoryInv, ClientPlace
  <2> QED
    BY <1>6, <2>1 DEF ClientGot
<1>8. /\ Len(w) \in Nat /\ Len(w) >= 1 /\ Len(wire'["client"]) = Len(w) - 1
      /\ \A i \in 1..(Len(w) - 1) : wire'["client"][i] = w[i + 1]
  BY <1>1, <1>3, SeqTail, SeqBasic DEF Shape
<1>9. /\ g + Len(w) <= 6
      /\ ~Ended("server") => g + Len(w) <= ServerSent(pc["server"])
      /\ ~Ended("server") /\ ~broken => g + Len(w) = ServerSent(pc["server"])
      /\ ServerWrote(g + Len(w))
      /\ \A i \in 1..Len(w) : FromServer(w[i], g + i)
  BY <1>1 DEF ToClient
<1>10. ToClient'
  <2>1. /\ ClientGot(pc["client"], Kc)' = g + 1
        /\ ClientGot(pc["client"], Kc)' + Len(wire["client"])' = g + Len(w)
    BY <1>3, <1>7, <1>8
  <2>2. ServerWrote(ClientGot(pc["client"], Kc) + Len(wire["client"]))'
    BY <1>9, <2>1 DEF ServerWrote
  <2>3. \A i \in 1..Len(wire["client"])' :
          FromServer(wire["client"][i], ClientGot(pc["client"], Kc) + i)'
    <3> SUFFICES ASSUME NEW i \in 1..(Len(w) - 1)
                 PROVE  FromServer(wire["client"][i], ClientGot(pc["client"], Kc) + i)'
      BY <1>8
    <3>1. i + 1 \in 1..Len(w) /\ wire'["client"][i] = w[i + 1]
      BY <1>8
    <3>2. FromServer(w[i + 1], g + (i + 1))
      BY <1>9, <3>1
    <3>3. ClientGot(pc["client"], Kc)' + i = g + (i + 1) /\ g + (i + 1) \in Int
      BY <1>7, <2>1
    <3>4. \A r, n : n \in Int => (FromServer(r, n)' <=> FromServer(r, n))
      BY ServerRecordsStable
    <3> QED
      BY <3>1, <3>2, <3>3, <3>4
  <2> QED
    BY <1>3, <1>9, <2>1, <2>2, <2>3 DEF ToClient, Ended
<1>11. ToServer'
  <2>1. pc["server"] \notin Endings \cup {"ready", "echo"} =>
          \A i \in 1..Len(wire["server"]) :
            FromClient(wire["server"][i], ServerGot(pc["server"]) + i) =>
              FromClient(wire["server"][i], ServerGot(pc["server"]) + i)'
    <3> SUFFICES ASSUME pc["server"] \notin Endings \cup {"ready", "echo"},
                        NEW i \in 1..Len(wire["server"]),
                        FromClient(wire["server"][i], ServerGot(pc["server"]) + i)
                 PROVE  FromClient(wire["server"][i], ServerGot(pc["server"]) + i)'
      OBVIOUS
    <3>1. ServerGot(pc["server"]) \in Nat /\ Len(wire["server"]) \in Nat
      BY <1>1, SeqBasic DEF Shape, ServerGot
    <3>2. ServerGot(pc["server"]) + Len(wire["server"]) <= ClientSent(pc["client"])
      BY <1>1 DEF ToServer, Ended
    <3>3. ServerGot(pc["server"]) + i \in 1..ClientSent(pc["client"])
      BY <1>5, <3>1, <3>2
    <3> QED
      BY <1>3, <3>3
  <2> QED
    BY <1>3, <1>6, <2>1, KeepToServer
<1>12. next = "ready" => /\ wire'["client"] = <<>>
                         /\ ~Ended("server") => pc["server"] \in {"ready", "echo"}
                         /\ Ks = 8
  <2> SUFFICES ASSUME next = "ready"
               PROVE  /\ wire'["client"] = <<>>
                      /\ ~Ended("server") => pc["server"] \in {"ready", "echo"}
                      /\ Ks = 8
    OBVIOUS
  <2>1. g + 1 = 6
    BY DEF ClientGot
  <2> HIDE DEF g
  <2>a. Len(w) <= 1
    BY <1>7, <1>8, <1>9, <2>1
  <2>b. Len(w) \in Nat /\ Len(w) >= 1 /\ Len(wire'["client"]) = Len(w) - 1
    BY <1>8
  <2>2. wire'["client"] = <<>>
    <3>1. Len(wire'["client"]) < 1
      BY <2>a, <2>b
    <3> QED
      BY <1>3, <3>1, SeqShort
  <2>3. ~Ended("server") => ServerSent(pc["server"]) >= 6
    BY <1>7, <1>8, <1>9, <2>1 DEF ServerSent
  <2>4. Ks = 8
    BY <1>7, <1>8, <1>9, <2>1 DEF ServerWrote
  <2> QED
    BY <2>2, <2>3, <2>4 DEF ServerSent
<1>13. SessionInv'
  <2>1. ~(Pending /\ pc["client"] \notin {"reply"} \cup Endings)
    BY DEF Pending
  <2> QED
    BY <1>1, <1>3, <1>12, <2>1 DEF SessionInv, Endings, Ended
<1>14. ClientNotAlone'
  BY <1>3, <1>12 DEF ClientNotAlone, Established, Session, Ended
<1>15. EndsForCause'
  BY <1>1, <1>3 DEF EndsForCause, Ends, Endings
<1>16. EchoesPadded'
  BY <1>1 DEF EchoesPadded
<1> QED
  BY <1>4, <1>10, <1>11, <1>13, <1>14, <1>15, <1>16 DEF TLSInv


-----------------------------------------------------------------------------
(* The histories grow by the next message of the script.                     *)

LEMMA Remembers ==
  ASSUME TLSInv, NEW e \in Ends, NEW payload, Remember(e, payload)
  PROVE  /\ DOMAIN msgHistory' = Ends
         /\ IsSeq(msgHistory'["client"]) /\ IsSeq(msgHistory'["server"])
         /\ msgHistory'[Peer(e)] = msgHistory[Peer(e)]
         /\ Len(msgHistory'[e]) = Len(msgHistory[e]) + 1
         /\ \A i \in 1..Len(msgHistory[e]) : msgHistory'[e][i] = msgHistory[e][i]
         /\ msgHistory'[e][Len(msgHistory[e]) + 1] = payload
<1> USE DEF Ends
<1>1. DOMAIN msgHistory = Ends /\ IsSeq(msgHistory["client"]) /\ IsSeq(msgHistory["server"])
  BY DEF TLSInv, Shape, Memory
<1>2. msgHistory' = [msgHistory EXCEPT ![e] = Append(@, payload)]
  BY DEF Remember
<1>3. /\ DOMAIN msgHistory' = Ends /\ msgHistory'[Peer(e)] = msgHistory[Peer(e)]
      /\ msgHistory'[e] = Append(msgHistory[e], payload)
  BY <1>1, <1>2 DEF Peer
<1>4. IsSeq(msgHistory[e])
  BY <1>1
<1>5. /\ IsSeq(Append(msgHistory[e], payload))
      /\ Len(Append(msgHistory[e], payload)) = Len(msgHistory[e]) + 1
      /\ \A i \in 1..Len(msgHistory[e]) : Append(msgHistory[e], payload)[i] = msgHistory[e][i]
      /\ Append(msgHistory[e], payload)[Len(msgHistory[e]) + 1] = payload
  BY <1>4, SeqAppend
<1>6. IsSeq(msgHistory'["client"]) /\ IsSeq(msgHistory'["server"])
  BY <1>1, <1>3, <1>5 DEF Peer
<1> QED
  BY <1>3, <1>5, <1>6

LEMMA ClientHistory ==
  ASSUME TLSInv, NEW payload, Remember("client", payload),
         NEW k \in 0..7, Kc = k, payload = Script(k + 1)',
         \A i \in 1..8 : i <= k \/ i <= Ks => Script(i)' = Script(i),
         k + 1 \in 2..5 => Ks >= k + 1,
         ClientPlace(pc'["client"], k + 1), pc'["server"] = pc["server"]
  PROVE  /\ HistoryInv' /\ Kc' = k + 1 /\ Ks' = Ks /\ Ks \in 0..8
         /\ DOMAIN msgHistory' = Ends
         /\ IsSeq(msgHistory'["client"]) /\ IsSeq(msgHistory'["server"])
         /\ msgHistory'["server"] = msgHistory["server"]
<1>1. HistoryInv
  BY DEF TLSInv
<1>2. "client" \in Ends /\ Peer("client") = "server"
  BY DEF Ends, Peer
<1>3. /\ DOMAIN msgHistory' = Ends
      /\ IsSeq(msgHistory'["client"]) /\ IsSeq(msgHistory'["server"])
      /\ msgHistory'["server"] = msgHistory["server"]
      /\ Len(msgHistory'["client"]) = k + 1
      /\ \A i \in 1..k : msgHistory'["client"][i] = msgHistory["client"][i]
      /\ msgHistory'["client"][k + 1] = payload
  BY <1>2, Remembers DEF Kc
<1>4. Kc' = k + 1 /\ Ks' = Ks /\ Ks \in 0..8
  BY <1>1, <1>3 DEF Kc, Ks, HistoryInv
<1>5. \A i \in 1..(k + 1) : msgHistory'["client"][i] = Script(i)'
  <2> SUFFICES ASSUME NEW i \in 1..(k + 1)
               PROVE  msgHistory'["client"][i] = Script(i)'
    OBVIOUS
  <2>1. CASE i \in 1..k
    BY <1>1, <1>3, <2>1 DEF HistoryInv
  <2>2. CASE i = k + 1
    BY <1>3, <2>2
  <2> QED
    BY <2>1, <2>2
<1>6. \A i \in 1..Ks : msgHistory'["server"][i] = Script(i)'
  BY <1>1, <1>3, <1>4 DEF HistoryInv
<1>7. HistoryInv'
  BY <1>1, <1>4, <1>5, <1>6 DEF HistoryInv
<1> QED
  BY <1>3, <1>4, <1>7

LEMMA ServerHistory ==
  ASSUME TLSInv, NEW payload, Remember("server", payload),
         NEW k \in 0..7, Ks = k, payload = Script(k + 1)',
         \A i \in 1..8 : i <= k \/ i <= Kc => Script(i)' = Script(i),
         Kc >= 1, k + 1 >= 6 => Kc >= k + 1,
         ServerPlace(pc'["server"], k + 1), pc'["client"] = pc["client"]
  PROVE  /\ HistoryInv' /\ Ks' = k + 1 /\ Kc' = Kc /\ Kc \in 0..8
         /\ DOMAIN msgHistory' = Ends
         /\ IsSeq(msgHistory'["client"]) /\ IsSeq(msgHistory'["server"])
<1>1. HistoryInv
  BY DEF TLSInv
<1>2. "server" \in Ends /\ Peer("server") = "client"
  BY DEF Ends, Peer
<1>3. /\ DOMAIN msgHistory' = Ends
      /\ IsSeq(msgHistory'["client"]) /\ IsSeq(msgHistory'["server"])
      /\ msgHistory'["client"] = msgHistory["client"]
      /\ Len(msgHistory'["server"]) = k + 1
      /\ \A i \in 1..k : msgHistory'["server"][i] = msgHistory["server"][i]
      /\ msgHistory'["server"][k + 1] = payload
  BY <1>2, Remembers DEF Ks
<1>4. Ks' = k + 1 /\ Kc' = Kc /\ Kc \in 0..8
  BY <1>1, <1>3 DEF Kc, Ks, HistoryInv
<1>5. \A i \in 1..(k + 1) : msgHistory'["server"][i] = Script(i)'
  <2> SUFFICES ASSUME NEW i \in 1..(k + 1)
               PROVE  msgHistory'["server"][i] = Script(i)'
    OBVIOUS
  <2>1. CASE i \in 1..k
    BY <1>1, <1>3, <2>1 DEF HistoryInv
  <2>2. CASE i = k + 1
    BY <1>3, <2>2
  <2> QED
    BY <2>1, <2>2
<1>6. \A i \in 1..Kc : msgHistory'["client"][i] = Script(i)'
  BY <1>1, <1>3, <1>4 DEF HistoryInv
<1>7. HistoryInv'
  BY <1>1, <1>4, <1>5, <1>6 DEF HistoryInv
<1> QED
  BY <1>3, <1>4, <1>7

-----------------------------------------------------------------------------
(* Parameters, field by field.                                               *)

LEMMA Fields ==
  ASSUME NEW p \in Params
  PROVE  /\ \A v \in Nonces : /\ [p EXCEPT !.ClientRandom = v] \in Params
                              /\ [p EXCEPT !.ServerRandom = v] \in Params
                              /\ [p EXCEPT !.PreMasterSecret = v] \in Params
         /\ \A v \in Names : [p EXCEPT !.RemoteCertificate = v] \in Params
         /\ \A v \in Secrets : [p EXCEPT !.MasterSecret = v] \in Params
BY DEF Params

LEMMA NewParams ==
  ASSUME TLSInv, NEW e \in Ends, NEW p \in Params, secParam' = [secParam EXCEPT ![e] = p]
  PROVE  /\ secParam' \in [Ends -> Params] /\ secParam'[e] = p
         /\ secParam'[Peer(e)] = secParam[Peer(e)]
BY DEF TLSInv, Shape, Memory, Peer, Ends

LEMMA NewMasterSecret ==
  ASSUME NEW p \in Params
  PROVE  /\ WithMasterSecret(p) \in Params
         /\ OwnSecret(WithMasterSecret(p))
         /\ WithMasterSecret(p).ClientRandom = p.ClientRandom
         /\ WithMasterSecret(p).ServerRandom = p.ServerRandom
         /\ WithMasterSecret(p).RemoteCertificate = p.RemoteCertificate
         /\ WithMasterSecret(p).PreMasterSecret = p.PreMasterSecret
<1> DEFINE v == generateMasterSecret(p.ClientRandom, p.ServerRandom, p.PreMasterSecret)
<1>1. v \in Secrets
  BY DEF Secrets, Params
<1> HIDE DEF v
<1>2. [p EXCEPT !.MasterSecret = v] \in Params
  BY <1>1, Fields
<1>3. WithMasterSecret(p) = [p EXCEPT !.MasterSecret = v]
  BY DEF WithMasterSecret, v
<1>4. /\ WithMasterSecret(p).MasterSecret = v
      /\ WithMasterSecret(p).ClientRandom = p.ClientRandom
      /\ WithMasterSecret(p).ServerRandom = p.ServerRandom
      /\ WithMasterSecret(p).RemoteCertificate = p.RemoteCertificate
      /\ WithMasterSecret(p).PreMasterSecret = p.PreMasterSecret
  BY <1>3 DEF Params
<1>5. OwnSecret(WithMasterSecret(p))
  BY <1>4 DEF OwnSecret, v
<1> QED
  BY <1>2, <1>3, <1>4, <1>5

-----------------------------------------------------------------------------
(* The steps of the client's handshake.                                      *)

LEMMA sendClientHelloStep == TLSInv /\ sendClientHello => TLSInv'
<1> SUFFICES ASSUME TLSInv, sendClientHello PROVE TLSInv'
  OBVIOUS
<1>1. PICK random \in Random :
        /\ SendHandshake("client", "ClientHello", ClientHelloPayload(random), "ServerMessages")
        /\ secParam' = [secParam EXCEPT !["client"].ClientRandom = random]
        /\ UNCHANGED <<matBlock, echoVars>>
  BY DEF sendClientHello
<1> DEFINE payload == ClientHelloPayload(random)
<1>2. /\ pc["client"] = "ClientHello" /\ Remember("client", payload)
      /\ Send("client", Record("Handshake", payload), "ServerMessages")
  BY <1>1 DEF SendHandshake
<1>3. pc'["client"] = "ServerMessages" /\ pc'["server"] = pc["server"]
  BY <1>2, Writes DEF Ends, Peer
<1>4. Kc = 0 /\ Ks = 0
  BY <1>2 DEF TLSInv, HistoryInv, ClientPlace
<1>5. /\ secParam' \in [Ends -> Params] /\ secParam'["server"] = secParam["server"]
      /\ secParam'["client"].ClientRandom = random
  <2> DEFINE p == secParam["client"]
             q == [p EXCEPT !.ClientRandom = random]
  <2>1. p \in Params /\ random \in Nonces
    BY DEF TLSInv, Shape, Memory, Ends, Nonces
  <2>2. q \in Params /\ q.ClientRandom = random
    BY <2>1, Fields DEF Params
  <2>3. secParam' = [secParam EXCEPT !["client"] = q]
    BY <1>1
  <2> HIDE DEF q
  <2> QED
    BY <2>2, <2>3, NewParams DEF Ends, Peer
<1>6. payload = Script(1)'
  BY <1>5 DEF Script, Message
<1>7. /\ HistoryInv' /\ Kc' = 1 /\ Ks' = Ks /\ DOMAIN msgHistory' = Ends
      /\ IsSeq(msgHistory'["client"]) /\ IsSeq(msgHistory'["server"])
      /\ msgHistory'["server"] = msgHistory["server"]
  <2>1. ClientPlace(pc'["client"], 0 + 1)
    BY <1>3 DEF ClientPlace
  <2>2. payload = Script(0 + 1)'
    BY <1>6
  <2> HIDE DEF payload
  <2>3. \A i \in 1..8 : i <= 0 \/ i <= Ks => Script(i)' = Script(i)
    BY <1>4
  <2>4. HistoryInv' /\ Kc' = 0 + 1 /\ Ks' = Ks /\ DOMAIN msgHistory' = Ends
      /\ IsSeq(msgHistory'["client"]) /\ IsSeq(msgHistory'["server"])
      /\ msgHistory'["server"] = msgHistory["server"]
    BY <1>2, <1>3, <1>4, <2>1, <2>2, <2>3, ClientHistory
  <2> QED
    BY <2>4
<1>8. Memory'
  BY <1>1, <1>5, <1>7 DEF Memory, TLSInv, Shape
<1>9. ParamInv'
  BY <1>4, <1>7 DEF ParamInv
<1>10. FromClient(Record("Handshake", payload), 1)'
  BY <1>6 DEF FromClient
<1>11. /\ ClientSent("ServerMessages") = 1 /\ ClientSent(pc["client"]) = 0
       /\ ClientGot("ServerMessages", 1) = 0 /\ ClientGot(pc["client"], Kc) = 0
  BY <1>2 DEF ClientSent, ClientGot
<1>12. /\ "ServerMessages" \in Points("client")
       /\ "ServerMessages" \notin Endings \cup {"ready", "reply"}
       /\ pc["client"] \notin Endings \cup {"ready", "reply"}
  BY <1>2 DEF Points, ReadPoints, Endings
<1>13. ClientWrote(1)'
  BY <1>7 DEF ClientWrote
<1> HIDE DEF payload
<1> QED
  BY <1>1, <1>2, <1>4, <1>5, <1>7, <1>8, <1>9, <1>10, <1>11, <1>12, <1>13, ClientFlight


(* The first record on the way to the client is the next of the handshake.   *)
LEMMA NextForClient ==
  ASSUME TLSInv, wire["client"] # <<>>, pc["client"] \notin Endings \cup {"ready", "reply"}
  PROVE  LET g == ClientGot(pc["client"], Kc)
         IN  /\ g \in Nat /\ g + 1 <= 6
             /\ FromServer(Head(wire["client"]), g + 1)
             /\ (g <= 3 => Ks >= g + 2) /\ (g >= 4 => Ks = 8)
<1>1. ToClient /\ IsSeq(wire["client"]) /\ Kc \in 0..8 /\ Ks \in 0..8
      /\ ClientPlace(pc["client"], Kc)
  BY DEF TLSInv, Shape, HistoryInv
<1> DEFINE g == ClientGot(pc["client"], Kc)
           w == wire["client"]
<1>2. g \in Nat
  BY <1>1 DEF ClientGot, ClientPlace
<1>3. Len(w) \in Nat /\ Len(w) >= 1 /\ Head(w) = w[1]
  BY <1>1, SeqBasic, SeqTail
<1>4. g + Len(w) <= 6 /\ ServerWrote(g + Len(w)) /\ \A i \in 1..Len(w) : FromServer(w[i], g + i)
  BY <1>1 DEF ToClient
<1>5. FromServer(w[1], g + 1)
  BY <1>3, <1>4
<1> HIDE DEF g, w
<1>6. (g <= 3 => Ks >= g + 2) /\ (g >= 4 => Ks = 8)
  BY <1>1, <1>2, <1>3, <1>4 DEF ServerWrote
<1>7. g + 1 <= 6
  BY <1>2, <1>3, <1>4
<1> QED
  BY <1>2, <1>3, <1>5, <1>6, <1>7 DEF g, w

LEMMA NextForServer ==
  ASSUME TLSInv, wire["server"] # <<>>, pc["server"] \notin Endings \cup {"ready", "echo"}
  PROVE  LET g == ServerGot(pc["server"])
         IN  /\ g \in Nat /\ g + 1 <= 6
             /\ FromClient(Head(wire["server"]), g + 1)
             /\ Kc >= 1 /\ (g >= 1 => Kc >= g + 5 \/ Kc = 8)
<1>1. ToServer /\ IsSeq(wire["server"]) /\ Kc \in 0..8
  BY DEF TLSInv, Shape, HistoryInv
<1> DEFINE g == ServerGot(pc["server"])
           w == wire["server"]
<1>2. g \in Nat
  BY DEF ServerGot
<1>3. Len(w) \in Nat /\ Len(w) >= 1 /\ Head(w) = w[1]
  BY <1>1, SeqBasic, SeqTail
<1>4. g + Len(w) <= 6 /\ ClientWrote(g + Len(w)) /\ \A i \in 1..Len(w) : FromClient(w[i], g + i)
  BY <1>1 DEF ToServer
<1>5. FromClient(w[1], g + 1)
  BY <1>3, <1>4
<1> HIDE DEF g, w
<1>6. Kc >= 1 /\ (g >= 1 => Kc >= g + 5 \/ Kc = 8)
  BY <1>1, <1>2, <1>3, <1>4 DEF ClientWrote
<1>7. g + 1 <= 6
  BY <1>2, <1>3, <1>4
<1> QED
  BY <1>2, <1>3, <1>5, <1>6, <1>7 DEF g, w

(* The script does not change with a field that it does not use.             *)
LEMMA SameScript ==
  ASSUME secParam'["client"].ClientRandom = secParam["client"].ClientRandom,
         secParam'["server"].ServerRandom = secParam["server"].ServerRandom,
         secParam'["client"].PreMasterSecret = secParam["client"].PreMasterSecret
  PROVE  \A i : Script(i)' = Script(i)
BY DEF Script

LEMMA receiveServerMessagesStep == TLSInv /\ receiveServerMessages => TLSInv'
<1> SUFFICES ASSUME TLSInv, receiveServerMessages PROVE TLSInv'
  OBVIOUS
<1> DEFINE rec == Head(wire["client"])
           p == secParam["client"]
           ok == IsHandshake(rec, {"ServerHello", "Certificate", "CertificateRequest",
                                   "ServerHelloDone"})
           next == IF rec.data.msg = "ServerHelloDone" THEN "Certificate" ELSE "ServerMessages"
           q == onServerMessage(p, rec.data)
<1>1. /\ pc["client"] = "ServerMessages" /\ wire["client"] # <<>>
      /\ Receive("client", ok, next)
      /\ rec.type = "Handshake" => Remember("client", rec.data)
      /\ secParam' = [secParam EXCEPT !["client"] = q]
      /\ UNCHANGED <<matBlock, echoVars>>
  BY DEF receiveServerMessages, Arrived
<1>2. Kc \in 1..4 /\ Ks \in 0..8 /\ p \in Params /\ secParam["server"] \in Params
  BY <1>1 DEF TLSInv, Shape, Memory, HistoryInv, ClientPlace, Ends
<1>3. PICK k \in 1..4 : Kc = k
  BY <1>2
<1>4. ClientGot(pc["client"], Kc) = k - 1 /\ pc["client"] \notin Endings \cup {"ready", "reply"}
  BY <1>1, <1>3 DEF ClientGot, Endings
<1>5. FromServer(rec, k) /\ Ks >= k + 1
  BY <1>1, <1>2, <1>4, NextForClient
<1>6. rec = Record("Handshake", Script(k + 1))
  BY <1>5 DEF FromServer
<1>7. /\ rec.type = "Handshake" /\ rec.data = Script(k + 1)
  BY <1>6 DEF Record
<1>8. /\ k = 1 => rec.data = ServerHelloPayload(secParam["server"].ServerRandom)
      /\ k = 2 => rec.data = CertificatePayload("server")
      /\ k = 3 => rec.data = ServerHelloCertificateRequestPayload
      /\ k = 4 => rec.data = ServerHelloDonePayload
  BY <1>7 DEF Script, Message
<1>9. /\ k = 1 => rec.data.msg = "ServerHello" /\ rec.data.body[1] = secParam["server"].ServerRandom
      /\ k = 2 => rec.data.msg = "Certificate" /\ rec.data.body[1] = "server"
      /\ k = 3 => rec.data.msg = "CertificateRequest"
      /\ k = 4 => rec.data.msg = "ServerHelloDone"
  BY <1>8 DEF ServerHelloPayload, CertificatePayload, ServerHelloCertificateRequestPayload,
              ServerHelloDonePayload, Payload
<1>10. ok /\ next = IF k = 4 THEN "Certificate" ELSE "ServerMessages"
  BY <1>7, <1>9 DEF IsHandshake
<1>11. /\ k = 1 => q = [p EXCEPT !.ServerRandom = secParam["server"].ServerRandom]
       /\ k = 2 => q = [p EXCEPT !.RemoteCertificate = "server"]
       /\ k \in 3..4 => q = p
  BY <1>9 DEF onServerMessage
<1> HIDE DEF q, ok
<1>12. /\ q \in Params /\ q.ClientRandom = p.ClientRandom /\ q.PreMasterSecret = p.PreMasterSecret
       /\ k = 1 => q.ServerRandom = secParam["server"].ServerRandom
       /\ k # 1 => q.ServerRandom = p.ServerRandom
       /\ k = 2 => q.RemoteCertificate = "server"
       /\ k # 2 => q.RemoteCertificate = p.RemoteCertificate
  <2>1. secParam["server"].ServerRandom \in Nonces /\ "server" \in Names
    BY <1>2 DEF Params, Names, Ends
  <2>2. CASE k = 1
    BY <1>2, <1>11, <2>1, <2>2, Fields DEF Params
  <2>3. CASE k = 2
    BY <1>2, <1>11, <2>1, <2>3, Fields DEF Params
  <2>4. CASE k \in 3..4
    BY <1>2, <1>11, <2>4
  <2> QED
    BY <2>2, <2>3, <2>4
<1>13. /\ secParam' \in [Ends -> Params] /\ secParam'["client"] = q
       /\ secParam'["server"] = secParam["server"]
  BY <1>1, <1>12, NewParams DEF Ends, Peer
<1>14. \A i : Script(i)' = Script(i)
  BY <1>12, <1>13, SameScript
<1>15. pc'["client"] = next /\ pc'["server"] = pc["server"]
  BY <1>1, <1>10, Reads DEF Ends, Peer
<1>16. /\ HistoryInv' /\ Kc' = k + 1 /\ Ks' = Ks /\ DOMAIN msgHistory' = Ends
       /\ IsSeq(msgHistory'["client"]) /\ IsSeq(msgHistory'["server"])
       /\ msgHistory'["server"] = msgHistory["server"]
  <2>1. ClientPlace(pc'["client"], k + 1)
    BY <1>10, <1>15 DEF ClientPlace
  <2>2. rec.data = Script(k + 1)' /\ Remember("client", rec.data) /\ k \in 0..7
    BY <1>1, <1>7, <1>14
  <2> HIDE DEF rec
  <2> QED
    BY <1>3, <1>5, <1>14, <1>15, <2>1, <2>2, ClientHistory
<1>17. Memory'
  BY <1>1, <1>13, <1>16 DEF Memory, TLSInv, Shape
<1>18. ParamInv'
  <2>1. ParamInv /\ matBlock' = matBlock
    BY <1>1 DEF TLSInv
  <2> QED
    BY <1>2, <1>3, <1>12, <1>13, <1>16, <2>1 DEF ParamInv
<1>19. \A r : \A n \in 1..ClientSent(pc["client"]) : FromClient(r, n) => FromClient(r, n)'
  <2>1. ClientSent(pc["client"]) = 1
    BY <1>1 DEF ClientSent
  <2> QED
    BY <1>14, <2>1 DEF FromClient
<1>20. /\ ClientSent(next) = ClientSent(pc["client"])
       /\ ClientGot(next, Kc') = ClientGot(pc["client"], Kc) + 1
  BY <1>1, <1>4, <1>10, <1>16 DEF ClientSent, ClientGot
<1>21. /\ next \in Points("client")
       /\ next \notin Endings \cup {"reply"}
  BY <1>10 DEF Points, ReadPoints, WritePoints, Endings
<1> HIDE DEF rec, next
<1>22. Kc' >= Kc
  BY <1>3, <1>16
<1> QED
  BY <1>1, <1>4, <1>10, <1>13, <1>16, <1>17, <1>18, <1>19, <1>20, <1>21, <1>22, ClientReceives


LEMMA sendClientCertificateStep == TLSInv /\ sendClientCertificate => TLSInv'
<1> SUFFICES ASSUME TLSInv, sendClientCertificate PROVE TLSInv'
  OBVIOUS
<1> DEFINE payload == CertificatePayload("client")
<1>1. /\ pc["client"] = "Certificate" /\ Remember("client", payload)
      /\ Send("client", Record("Handshake", payload), "KeyExchange")
      /\ secParam' = secParam /\ matBlock' = matBlock /\ UNCHANGED echoVars
  BY DEF sendClientCertificate, SendHandshake
<1>2. pc'["client"] = "KeyExchange" /\ pc'["server"] = pc["server"]
  BY <1>1, Writes DEF Ends, Peer
<1>3. Kc = 5
  BY <1>1 DEF TLSInv, HistoryInv, ClientPlace
<1>4. payload = Script(6)' /\ \A i : Script(i)' = Script(i)
  BY <1>1 DEF Script, Message
<1>5. /\ HistoryInv' /\ Kc' = 6 /\ Ks' = Ks /\ DOMAIN msgHistory' = Ends
      /\ IsSeq(msgHistory'["client"]) /\ IsSeq(msgHistory'["server"])
      /\ msgHistory'["server"] = msgHistory["server"]
  <2>1. ClientPlace(pc'["client"], 5 + 1)
    BY <1>2 DEF ClientPlace
  <2>2. payload = Script(5 + 1)'
    BY <1>4
  <2> HIDE DEF payload
  <2>3. /\ HistoryInv' /\ Kc' = 5 + 1 /\ Ks' = Ks /\ DOMAIN msgHistory' = Ends
        /\ IsSeq(msgHistory'["client"]) /\ IsSeq(msgHistory'["server"])
        /\ msgHistory'["server"] = msgHistory["server"]
    BY <1>1, <1>2, <1>3, <1>4, <2>1, <2>2, ClientHistory
  <2> QED
    BY <2>3
<1>6. Memory' /\ ParamInv'
  BY <1>1, <1>3, <1>5 DEF Memory, TLSInv, Shape, ParamInv
<1>7. /\ ClientSent("KeyExchange") = 2 /\ ClientSent(pc["client"]) = 1
      /\ ClientGot("KeyExchange", Kc') = 4 /\ ClientGot(pc["client"], Kc) = 4
  BY <1>1 DEF ClientSent, ClientGot
<1>8. /\ "KeyExchange" \in Points("client")
      /\ "KeyExchange" \notin Endings \cup {"ready", "reply"}
      /\ pc["client"] \notin Endings \cup {"ready", "reply"}
  BY <1>1 DEF Points, WritePoints, Endings
<1>9. FromClient(Record("Handshake", payload), 2)' /\ ClientWrote(2)'
  BY <1>4, <1>5 DEF FromClient, ClientWrote
<1>10. \A r : \A n \in 1..1 : FromClient(r, n) => FromClient(r, n)'
  BY <1>4 DEF FromClient
<1> HIDE DEF payload
<1> QED
  BY <1>1, <1>3, <1>5, <1>6, <1>7, <1>8, <1>9, <1>10, ClientFlight

LEMMA sendClientKeyExchangeStep == TLSInv /\ sendClientKeyExchange => TLSInv'
<1> SUFFICES ASSUME TLSInv, sendClientKeyExchange PROVE TLSInv'
  OBVIOUS
<1>1. PICK secret \in Random :
        /\ SendHandshake("client", "KeyExchange",
             ClientHelloKeyExchangePayload(secParam["client"].RemoteCertificate, secret), "Verify")
        /\ secParam' = [secParam EXCEPT !["client"].PreMasterSecret = secret]
        /\ UNCHANGED <<matBlock, echoVars>>
  BY DEF sendClientKeyExchange
<1>0. PICK payload :
        payload = ClientHelloKeyExchangePayload(secParam["client"].RemoteCertificate, secret)
  OBVIOUS
<1> DEFINE p == secParam["client"]
           q == [p EXCEPT !.PreMasterSecret = secret]
<1>2. /\ pc["client"] = "KeyExchange" /\ Remember("client", payload)
      /\ Send("client", Record("Handshake", payload), "Verify")
      /\ matBlock' = matBlock /\ UNCHANGED echoVars
  BY <1>0, <1>1 DEF SendHandshake
<1>3. pc'["client"] = "Verify" /\ pc'["server"] = pc["server"]
  BY <1>2, Writes DEF Ends, Peer
<1>4. Kc = 6 /\ Ks \in 0..6 /\ p.RemoteCertificate = "server" /\ p \in Params
  <2>1. Kc = 6 /\ Ks \in 0..6
    BY <1>2 DEF TLSInv, HistoryInv, ClientPlace
  <2> QED
    BY <2>1 DEF TLSInv, ParamInv, Shape, Memory, Ends
<1>5. /\ q \in Params /\ q.ClientRandom = p.ClientRandom /\ q.ServerRandom = p.ServerRandom
      /\ q.RemoteCertificate = p.RemoteCertificate /\ q.PreMasterSecret = secret
  <2>1. secret \in Nonces
    BY DEF Nonces
  <2>2. q \in Params
    BY <1>4, <2>1, Fields
  <2> QED
    BY <1>4, <2>2 DEF Params
<1>6. secParam' = [secParam EXCEPT !["client"] = q]
  BY <1>1
<1> HIDE DEF q
<1>7. /\ secParam' \in [Ends -> Params] /\ secParam'["client"] = q
      /\ secParam'["server"] = secParam["server"]
  BY <1>5, <1>6, NewParams DEF Ends, Peer
<1>8. payload = Script(7)' /\ \A i \in 1..6 : Script(i)' = Script(i)
  BY <1>0, <1>4, <1>5, <1>7 DEF Script, Message
<1>9. /\ HistoryInv' /\ Kc' = 7 /\ Ks' = Ks /\ DOMAIN msgHistory' = Ends
      /\ IsSeq(msgHistory'["client"]) /\ IsSeq(msgHistory'["server"])
      /\ msgHistory'["server"] = msgHistory["server"]
  <2>1. ClientPlace(pc'["client"], 6 + 1)
    BY <1>3 DEF ClientPlace
  <2>2. payload = Script(6 + 1)' /\ \A i \in 1..8 : i <= 6 \/ i <= Ks => Script(i)' = Script(i)
    BY <1>4, <1>8
  <2>3. /\ HistoryInv' /\ Kc' = 6 + 1 /\ Ks' = Ks /\ DOMAIN msgHistory' = Ends
        /\ IsSeq(msgHistory'["client"]) /\ IsSeq(msgHistory'["server"])
        /\ msgHistory'["server"] = msgHistory["server"]
    BY <1>2, <1>3, <1>4, <2>1, <2>2, ClientHistory
  <2> QED
    BY <2>3
<1>10. Memory' /\ ParamInv'
  BY <1>2, <1>4, <1>5, <1>7, <1>9 DEF Memory, TLSInv, Shape, ParamInv
<1>11. /\ ClientSent("Verify") = 3 /\ ClientSent(pc["client"]) = 2
       /\ ClientGot("Verify", Kc') = 4 /\ ClientGot(pc["client"], Kc) = 4
  BY <1>2 DEF ClientSent, ClientGot
<1>12. /\ "Verify" \in Points("client")
       /\ "Verify" \notin Endings \cup {"ready", "reply"}
       /\ pc["client"] \notin Endings \cup {"ready", "reply"}
  BY <1>2 DEF Points, WritePoints, Endings
<1>13. FromClient(Record("Handshake", payload), 3)' /\ ClientWrote(3)'
  BY <1>8, <1>9 DEF FromClient, ClientWrote
<1>14. \A r : \A n \in 1..2 : FromClient(r, n) => FromClient(r, n)'
  <2>1. Script(1)' = Script(1) /\ Script(6)' = Script(6)
    BY <1>8
  <2> QED
    BY <2>1 DEF FromClient
<1> QED
  BY <1>2, <1>4, <1>7, <1>9, <1>10, <1>11, <1>12, <1>13, <1>14, ClientFlight

(* What the client signs is what the script says, for either end.            *)
LEMMA SevenMessages ==
  ASSUME TLSInv, NEW e \in Ends, Len(msgHistory[e]) = 7
  PROVE  Script(8) = ClientHelloCertificateVerifyPayload("client", msgHistory[e])
<1> DEFINE cr == secParam["client"].ClientRandom
           sr == secParam["server"].ServerRandom
           pm == secParam["client"].PreMasterSecret
           t == <<ClientHelloPayload(cr), ServerHelloPayload(sr), CertificatePayload("server"),
                  ServerHelloCertificateRequestPayload, ServerHelloDonePayload,
                  CertificatePayload("client"), ClientHelloKeyExchangePayload("server", pm)>>
           h == msgHistory[e]
<1>1. IsSeq(h) /\ \A i \in 1..7 : h[i] = Script(i)
  BY DEF TLSInv, Shape, Memory, HistoryInv, Ends, Kc, Ks
<1>2. /\ Script(1) = ClientHelloPayload(cr) /\ Script(2) = ServerHelloPayload(sr)
      /\ Script(3) = CertificatePayload("server")
      /\ Script(4) = ServerHelloCertificateRequestPayload /\ Script(5) = ServerHelloDonePayload
      /\ Script(6) = CertificatePayload("client")
      /\ Script(7) = ClientHelloKeyExchangePayload("server", pm)
  BY DEF Script, Message
<1>3. Len(t) = 7 /\ \A i \in 1..7 : t[i] = h[i]
  BY <1>1, <1>2
<1>4. IsSeq(t)
  <2> DEFINE S == {Script(i) : i \in 1..7}
  <2>1. t \in Seq(S)
    BY <1>2
  <2> QED
    BY <2>1, SeqOf
<1>5. h = t
  BY <1>1, <1>3, <1>4, SeqEqual
<1>6. Script(8) = ClientHelloCertificateVerifyPayload("client", t)
  BY DEF Script, Message
<1> QED
  BY <1>5, <1>6

LEMMA sendCertificateVerifyStep == TLSInv /\ sendCertificateVerify => TLSInv'
<1> SUFFICES ASSUME TLSInv, sendCertificateVerify PROVE TLSInv'
  OBVIOUS
<1>0. PICK payload :
        payload = ClientHelloCertificateVerifyPayload("client", msgHistory["client"])
  OBVIOUS
<1> DEFINE p == secParam["client"]
           q == WithMasterSecret(p)
<1>1. /\ pc["client"] = "Verify" /\ Remember("client", payload)
      /\ Send("client", Record("Handshake", payload), "ChangeCipher")
      /\ secParam' = [secParam EXCEPT !["client"] = q]
      /\ matBlock' = [matBlock EXCEPT !["client"] = ClientGenerateKeys(secParam'["client"])]
      /\ UNCHANGED echoVars
  BY <1>0 DEF sendCertificateVerify, SendHandshake
<1>2. pc'["client"] = "ChangeCipher" /\ pc'["server"] = pc["server"]
  BY <1>1, Writes DEF Ends, Peer
<1>3. Kc = 7 /\ Ks \in 0..7 /\ p \in Params /\ DOMAIN matBlock = Ends
  BY <1>1 DEF TLSInv, HistoryInv, ClientPlace, Shape, Memory, Ends
<1>4. /\ q \in Params /\ q.ClientRandom = p.ClientRandom /\ q.ServerRandom = p.ServerRandom
      /\ q.RemoteCertificate = p.RemoteCertificate /\ q.PreMasterSecret = p.PreMasterSecret
      /\ OwnSecret(q)
  BY <1>3, NewMasterSecret
<1> HIDE DEF q
<1>5. /\ secParam' \in [Ends -> Params] /\ secParam'["client"] = q
      /\ secParam'["server"] = secParam["server"]
  BY <1>1, <1>4, NewParams DEF Ends, Peer
<1>6. /\ matBlock'["client"] = ClientGenerateKeys(q) /\ matBlock'["server"] = matBlock["server"]
      /\ DOMAIN matBlock' = Ends
  BY <1>1, <1>3, <1>5 DEF Ends
<1>7. \A i : Script(i)' = Script(i)
  BY <1>4, <1>5, SameScript
<1>8. payload = Script(8)'
  BY <1>0, <1>3, <1>7, SevenMessages DEF Kc, Ends
<1>9. /\ HistoryInv' /\ Kc' = 8 /\ Ks' = Ks /\ DOMAIN msgHistory' = Ends
      /\ IsSeq(msgHistory'["client"]) /\ IsSeq(msgHistory'["server"])
      /\ msgHistory'["server"] = msgHistory["server"]
  <2>1. ClientPlace(pc'["client"], 7 + 1)
    BY <1>2 DEF ClientPlace
  <2>2. payload = Script(7 + 1)'
    BY <1>8
  <2>3. /\ HistoryInv' /\ Kc' = 7 + 1 /\ Ks' = Ks /\ DOMAIN msgHistory' = Ends
        /\ IsSeq(msgHistory'["client"]) /\ IsSeq(msgHistory'["server"])
        /\ msgHistory'["server"] = msgHistory["server"]
    BY <1>1, <1>2, <1>3, <1>7, <2>1, <2>2, ClientHistory
  <2> QED
    BY <2>3
<1>10. Memory'
  BY <1>5, <1>6, <1>9 DEF Memory
<1>11. ParamInv'
  BY <1>3, <1>4, <1>5, <1>6, <1>9 DEF TLSInv, ParamInv
<1>12. /\ ClientSent("ChangeCipher") = 4 /\ ClientSent(pc["client"]) = 3
       /\ ClientGot("ChangeCipher", Kc') = 4 /\ ClientGot(pc["client"], Kc) = 4
  BY <1>1 DEF ClientSent, ClientGot
<1>13. /\ "ChangeCipher" \in Points("client")
       /\ "ChangeCipher" \notin Endings \cup {"ready", "reply"}
       /\ pc["client"] \notin Endings \cup {"ready", "reply"}
  BY <1>1 DEF Points, WritePoints, Endings
<1>14. FromClient(Record("Handshake", payload), 4)' /\ ClientWrote(4)'
  BY <1>8, <1>9 DEF FromClient, ClientWrote
<1>15. \A r : \A n \in 1..3 : FromClient(r, n) => FromClient(r, n)'
  BY <1>7 DEF FromClient
<1> QED
  BY <1>1, <1>3, <1>5, <1>9, <1>10, <1>11, <1>12, <1>13, <1>14, <1>15, ClientFlight


(* A server with the whole handshake in its history has the client's keys.   *)
LEMMA SameKeys ==
  ASSUME TLSInv, Ks = 8
  PROVE  /\ Kc = 8
         /\ secParam["client"].MasterSecret = secParam["server"].MasterSecret
         /\ secParam["client"].RemoteCertificate = "server"
         /\ secParam["server"].RemoteCertificate = "client"
         /\ ClientWriteKey(secParam["client"]) = ClientWriteKey(secParam["server"])
         /\ ServerWriteKey(secParam["client"]) = ServerWriteKey(secParam["server"])
         /\ matBlock["client"].EncryptCipher = ClientWriteKey(secParam["client"])
         /\ matBlock["client"].DecryptCipher = ServerWriteKey(secParam["client"])
         /\ matBlock["server"].EncryptCipher = ServerWriteKey(secParam["server"])
         /\ matBlock["server"].DecryptCipher = ClientWriteKey(secParam["server"])
<1> DEFINE c == secParam["client"]
           s == secParam["server"]
<1>1. Kc = 8
  BY DEF TLSInv, HistoryInv
<1>2. /\ c.ServerRandom = s.ServerRandom /\ c.RemoteCertificate = "server"
      /\ OwnSecret(c) /\ matBlock["client"] = ClientGenerateKeys(c)
      /\ c.ClientRandom = s.ClientRandom /\ s.RemoteCertificate = "client"
      /\ s.PreMasterSecret = c.PreMasterSecret
      /\ OwnSecret(s) /\ matBlock["server"] = ServerGenerateKeys(s)
  BY <1>1 DEF TLSInv, ParamInv
<1>3. c.MasterSecret = s.MasterSecret
  BY <1>2 DEF OwnSecret
<1>4. KeyBlock(c) = KeyBlock(s)
  BY <1>2, <1>3 DEF KeyBlock
<1>5. ClientWriteKey(c) = ClientWriteKey(s) /\ ServerWriteKey(c) = ServerWriteKey(s)
  BY <1>4 DEF ClientWriteKey, ServerWriteKey
<1>6. /\ matBlock["client"].EncryptCipher = ClientWriteKey(c)
      /\ matBlock["client"].DecryptCipher = ServerWriteKey(c)
      /\ matBlock["server"].EncryptCipher = ServerWriteKey(s)
      /\ matBlock["server"].DecryptCipher = ClientWriteKey(s)
  BY <1>2 DEF ClientGenerateKeys, ServerGenerateKeys
<1> QED
  BY <1>1, <1>2, <1>3, <1>5, <1>6

LEMMA ClientCipherStep == TLSInv /\ sendChangeCipherSpec("client") => TLSInv'
<1> SUFFICES ASSUME TLSInv, sendChangeCipherSpec("client") PROVE TLSInv'
  OBVIOUS
<1> DEFINE rec == Record("ChangeCipherSpec", [msg |-> "01", size |-> 1])
<1>1. /\ pc["client"] = "ChangeCipher" /\ Send("client", rec, "Finished")
      /\ UNCHANGED handshakeVars /\ UNCHANGED echoVars
  BY DEF sendChangeCipherSpec
<1>2. pc'["client"] = "Finished" /\ pc'["server"] = pc["server"]
  BY <1>1, Writes DEF Ends, Peer
<1>3. Kc = 8 /\ ServerPlace(pc["server"], Ks) /\ Ks \in 0..8
  BY <1>1 DEF TLSInv, HistoryInv, ClientPlace
<1>4. ClientPlace(pc'["client"], Kc) /\ ServerPlace(pc'["server"], Ks)
  BY <1>2, <1>3 DEF ClientPlace
<1>5. /\ Memory' /\ ParamInv' /\ HistoryInv' /\ Kc' = Kc /\ Ks' = Ks
      /\ \A r, n : FromClient(r, n)' = FromClient(r, n)
  BY <1>1, <1>4, SameMemory
<1>6. msgHistory' = msgHistory /\ secParam' = secParam
  BY <1>1 DEF handshakeVars
<1>7. /\ ClientSent("Finished") = 5 /\ ClientSent(pc["client"]) = 4
      /\ ClientGot("Finished", Kc') = 4 /\ ClientGot(pc["client"], Kc) = 4
  BY <1>1 DEF ClientSent, ClientGot
<1>8. /\ "Finished" \in Points("client")
      /\ "Finished" \notin Endings \cup {"ready", "reply"}
      /\ pc["client"] \notin Endings \cup {"ready", "reply"}
  BY <1>1 DEF Points, WritePoints, Endings
<1>9. FromClient(rec, 5)' /\ ClientWrote(5)'
  BY <1>3, <1>5 DEF FromClient, ClientWrote, Record
<1> HIDE DEF rec
<1> QED
  BY <1>1, <1>3, <1>5, <1>6, <1>7, <1>8, <1>9, ClientFlight

LEMMA ClientFinishedStep == TLSInv /\ sendFinished("client", "PeerCipher") => TLSInv'
<1> SUFFICES ASSUME TLSInv, sendFinished("client", "PeerCipher") PROVE TLSInv'
  OBVIOUS
<1>0. PICK rec :
        rec = Record("Handshake",
                     encryptContent(matBlock["client"].EncryptCipher,
                                    FinishedPayload(secParam["client"].MasterSecret,
                                                    msgHistory["client"]), FinishedSize))
  OBVIOUS
<1>1. /\ pc["client"] = "Finished" /\ Send("client", rec, "PeerCipher")
      /\ UNCHANGED handshakeVars /\ UNCHANGED echoVars
  BY <1>0 DEF sendFinished
<1>2. pc'["client"] = "PeerCipher" /\ pc'["server"] = pc["server"]
  BY <1>1, Writes DEF Ends, Peer
<1>3. Kc = 8 /\ ServerPlace(pc["server"], Ks) /\ Ks \in 0..8
  BY <1>1 DEF TLSInv, HistoryInv, ClientPlace
<1>4. ClientPlace(pc'["client"], Kc) /\ ServerPlace(pc'["server"], Ks)
  BY <1>2, <1>3 DEF ClientPlace
<1>5. /\ Memory' /\ ParamInv' /\ HistoryInv' /\ Kc' = Kc /\ Ks' = Ks
      /\ \A r, n : FromClient(r, n)' = FromClient(r, n)
  BY <1>1, <1>4, SameMemory
<1>6. msgHistory' = msgHistory /\ secParam' = secParam
  BY <1>1 DEF handshakeVars
<1>7. /\ ClientSent("PeerCipher") = 6 /\ ClientSent(pc["client"]) = 5
      /\ ClientGot("PeerCipher", Kc') = 4 /\ ClientGot(pc["client"], Kc) = 4
  BY <1>1 DEF ClientSent, ClientGot
<1>8. /\ "PeerCipher" \in Points("client")
      /\ "PeerCipher" \notin Endings \cup {"ready", "reply"}
      /\ pc["client"] \notin Endings \cup {"ready", "reply"}
  BY <1>1 DEF Points, ReadPoints, Endings
<1>9. FromClient(rec, 6)' /\ ClientWrote(6)'
  <2>1. matBlock["client"].EncryptCipher = ClientWriteKey(secParam["client"])
    BY <1>3 DEF TLSInv, ParamInv, ClientGenerateKeys
  <2>2. IsFinished(rec, ClientWriteKey(secParam["client"]))
    BY <1>0, <2>1 DEF IsFinished, Record, encryptContent, FinishedPayload, Payload
  <2>3. FromClient(rec, 6)
    BY <2>2 DEF FromClient
  <2> QED
    BY <1>3, <1>5, <2>3 DEF ClientWrote
<1> QED
  BY <1>1, <1>3, <1>5, <1>6, <1>7, <1>8, <1>9, ClientFlight

LEMMA ClientPeerCipherStep == TLSInv /\ receiveChangeCipherSpec("client") => TLSInv'
<1> SUFFICES ASSUME TLSInv, receiveChangeCipherSpec("client") PROVE TLSInv'
  OBVIOUS
<1> DEFINE ok == Head(wire["client"]).type = "ChangeCipherSpec"
<1>1. /\ pc["client"] = "PeerCipher" /\ wire["client"] # <<>> /\ Receive("client", ok, "PeerFinished")
      /\ UNCHANGED handshakeVars /\ UNCHANGED echoVars
  BY DEF receiveChangeCipherSpec, Arrived
<1>2. /\ ClientGot("PeerFinished", Kc') = 5 /\ ClientGot(pc["client"], Kc) = 4
      /\ ClientSent("PeerFinished") = 6 /\ ClientSent(pc["client"]) = 6
  BY <1>1 DEF ClientGot, ClientSent
<1>3. /\ "PeerFinished" \in Points("client")
      /\ "PeerFinished" \notin Endings \cup {"reply"}
      /\ pc["client"] \notin Endings \cup {"ready", "reply"}
  BY <1>1 DEF Points, ReadPoints, Endings
<1>4. ok
  <2>1. FromServer(Head(wire["client"]), 5)
    BY <1>1, <1>2, <1>3, NextForClient
  <2> QED
    BY <2>1 DEF FromServer
<1> HIDE DEF ok
<1>5. pc'["client"] = "PeerFinished" /\ pc'["server"] = pc["server"]
  BY <1>1, <1>4, Reads DEF Ends, Peer
<1>6. Kc = 8 /\ ServerPlace(pc["server"], Ks)
  BY <1>1 DEF TLSInv, HistoryInv, ClientPlace
<1>7. ClientPlace(pc'["client"], Kc) /\ ServerPlace(pc'["server"], Ks)
  BY <1>5, <1>6 DEF ClientPlace
<1>8. /\ Memory' /\ ParamInv' /\ HistoryInv' /\ Kc' = Kc /\ Ks' = Ks
      /\ \A r, n : FromClient(r, n)' = FromClient(r, n)
  BY <1>1, <1>7, SameMemory
<1>9. msgHistory' = msgHistory /\ secParam' = secParam
  BY <1>1 DEF handshakeVars
<1>10. \A r : \A n \in 1..ClientSent(pc["client"]) : FromClient(r, n) => FromClient(r, n)'
  BY <1>8
<1>11. Kc' >= Kc /\ ClientGot("PeerFinished", Kc') = ClientGot(pc["client"], Kc) + 1
  BY <1>2, <1>6, <1>8
<1> QED
  BY <1>1, <1>2, <1>3, <1>4, <1>8, <1>9, <1>10, <1>11, ClientReceives

LEMMA ClientPeerFinishedStep == TLSInv /\ receiveFinished("client", "ready") => TLSInv'
<1> SUFFICES ASSUME TLSInv, receiveFinished("client", "ready") PROVE TLSInv'
  OBVIOUS
<1> DEFINE rec == Head(wire["client"])
           ok == /\ IsHandshake(rec, {"sealed"})
                 /\ ~DecryptError(matBlock["client"].DecryptCipher, rec)
                 /\ rec.data.plain.msg = "Finished"
<1>1. /\ pc["client"] = "PeerFinished" /\ wire["client"] # <<>> /\ Receive("client", ok, "ready")
      /\ UNCHANGED handshakeVars /\ UNCHANGED echoVars
  BY DEF receiveFinished, Arrived
<1>2. /\ ClientGot("ready", Kc') = 6 /\ ClientGot(pc["client"], Kc) = 5
      /\ ClientSent("ready") = 6 /\ ClientSent(pc["client"]) = 6
  BY <1>1 DEF ClientGot, ClientSent
<1>3. /\ "ready" \in Points("client")
      /\ "ready" \notin Endings \cup {"reply"}
      /\ pc["client"] \notin Endings \cup {"ready", "reply"}
  BY <1>1 DEF Points, Session, Endings
<1>4. ok
  <2>1. FromServer(rec, 6) /\ Ks = 8
    <3>1. Ks \in 0..8
      BY DEF TLSInv, HistoryInv
    <3> QED
      BY <1>1, <1>2, <1>3, <3>1, NextForClient
  <2>2. IsFinished(rec, ServerWriteKey(secParam["server"]))
    BY <2>1 DEF FromServer
  <2>3. matBlock["client"].DecryptCipher = ServerWriteKey(secParam["server"])
    BY <2>1, SameKeys
  <2> QED
    BY <2>2, <2>3, FixedSizes DEF IsFinished, IsHandshake, DecryptError, HeaderLength, BlockSize
<1> HIDE DEF ok
<1>5. pc'["client"] = "ready" /\ pc'["server"] = pc["server"]
  BY <1>1, <1>4, Reads DEF Ends, Peer
<1>6. Kc = 8 /\ ServerPlace(pc["server"], Ks)
  BY <1>1 DEF TLSInv, HistoryInv, ClientPlace
<1>7. ClientPlace(pc'["client"], Kc) /\ ServerPlace(pc'["server"], Ks)
  BY <1>5, <1>6 DEF ClientPlace
<1>8. /\ Memory' /\ ParamInv' /\ HistoryInv' /\ Kc' = Kc /\ Ks' = Ks
      /\ \A r, n : FromClient(r, n)' = FromClient(r, n)
  BY <1>1, <1>7, SameMemory
<1>9. msgHistory' = msgHistory /\ secParam' = secParam
  BY <1>1 DEF handshakeVars
<1>10. \A r : \A n \in 1..ClientSent(pc["client"]) : FromClient(r, n) => FromClient(r, n)'
  BY <1>8
<1>11. Kc' >= Kc /\ ClientGot("ready", Kc') = ClientGot(pc["client"], Kc) + 1
  BY <1>2, <1>6, <1>8
<1> QED
  BY <1>1, <1>2, <1>3, <1>4, <1>8, <1>9, <1>10, <1>11, ClientReceives


-----------------------------------------------------------------------------
(* The steps of the server's handshake.                                      *)

LEMMA sendServerHelloStep == TLSInv /\ sendServerHello => TLSInv'
<1> SUFFICES ASSUME TLSInv, sendServerHello PROVE TLSInv'
  OBVIOUS
<1>1. PICK random \in Random :
        /\ SendHandshake("server", "ServerHello", ServerHelloPayload(random), "Certificate")
        /\ secParam' = [secParam EXCEPT !["server"].ServerRandom = random]
        /\ UNCHANGED <<matBlock, echoVars>>
  BY DEF sendServerHello
<1> DEFINE payload == ServerHelloPayload(random)
           p == secParam["server"]
           q == [p EXCEPT !.ServerRandom = random]
<1>2. /\ pc["server"] = "ServerHello" /\ Remember("server", payload)
      /\ Send("server", Record("Handshake", payload), "Certificate")
      /\ matBlock' = matBlock /\ UNCHANGED echoVars
  BY <1>1 DEF SendHandshake
<1>3. pc'["server"] = "Certificate" /\ pc'["client"] = pc["client"]
  BY <1>2, Writes DEF Ends, Peer
<1>4. Ks = 1 /\ Kc = 1
  BY <1>2 DEF TLSInv, HistoryInv, ServerPlace
<1>5. q \in Params /\ q.ServerRandom = random /\ q.ClientRandom = p.ClientRandom
  <2>1. p \in Params /\ random \in Nonces
    BY DEF TLSInv, Shape, Memory, Ends, Nonces
  <2>2. q \in Params
    BY <2>1, Fields
  <2> QED
    BY <2>1, <2>2 DEF Params
<1>6. secParam' = [secParam EXCEPT !["server"] = q]
  BY <1>1
<1> HIDE DEF q
<1>7. /\ secParam' \in [Ends -> Params] /\ secParam'["server"] = q
      /\ secParam'["client"] = secParam["client"]
  BY <1>5, <1>6, NewParams DEF Ends, Peer
<1>8. payload = Script(2)' /\ Script(1)' = Script(1)
  BY <1>5, <1>7 DEF Script, Message
<1>9. /\ HistoryInv' /\ Ks' = 2 /\ Kc' = Kc /\ DOMAIN msgHistory' = Ends
      /\ IsSeq(msgHistory'["client"]) /\ IsSeq(msgHistory'["server"])
  <2>1. ServerPlace(pc'["server"], 1 + 1)
    BY <1>3 DEF ServerPlace
  <2>2. payload = Script(1 + 1)' /\ \A i \in 1..8 : i <= 1 \/ i <= Kc => Script(i)' = Script(i)
    BY <1>4, <1>8
  <2> HIDE DEF payload
  <2>3. /\ HistoryInv' /\ Ks' = 1 + 1 /\ Kc' = Kc /\ DOMAIN msgHistory' = Ends
        /\ IsSeq(msgHistory'["client"]) /\ IsSeq(msgHistory'["server"])
    BY <1>2, <1>3, <1>4, <2>1, <2>2, ServerHistory
  <2> QED
    BY <2>3
<1>10. Memory' /\ ParamInv'
  BY <1>2, <1>4, <1>5, <1>7, <1>9 DEF Memory, TLSInv, Shape, ParamInv
<1>11. /\ ServerSent("Certificate") = 1 /\ ServerSent(pc["server"]) = 0
       /\ ServerGot("Certificate") = 1 /\ ServerGot(pc["server"]) = 1
  BY <1>2 DEF ServerSent, ServerGot
<1>12. /\ "Certificate" \in Points("server")
       /\ "Certificate" \notin Endings \cup {"echo"}
       /\ pc["server"] \notin Endings \cup {"ready", "echo"}
  BY <1>2 DEF Points, WritePoints, Endings
<1>13. FromServer(Record("Handshake", payload), 1)' /\ ServerWrote(1)'
  BY <1>8, <1>9 DEF FromServer, ServerWrote
<1> HIDE DEF payload
<1> QED
  BY <1>2, <1>4, <1>7, <1>9, <1>10, <1>11, <1>12, <1>13, ServerFlight

LEMMA sendServerCertificateStep == TLSInv /\ sendServerCertificate => TLSInv'
<1> SUFFICES ASSUME TLSInv, sendServerCertificate PROVE TLSInv'
  OBVIOUS
<1> DEFINE payload == CertificatePayload("server")
<1>1. /\ pc["server"] = "Certificate" /\ Remember("server", payload)
      /\ Send("server", Record("Handshake", payload), "Request")
      /\ secParam' = secParam /\ matBlock' = matBlock /\ UNCHANGED echoVars
  BY DEF sendServerCertificate, SendHandshake
<1>2. pc'["server"] = "Request" /\ pc'["client"] = pc["client"]
  BY <1>1, Writes DEF Ends, Peer
<1>3. Ks = 2 /\ Kc >= 1
  BY <1>1 DEF TLSInv, HistoryInv, ServerPlace
<1>4. payload = Script(3)' /\ \A i : Script(i)' = Script(i)
  BY <1>1 DEF Script, Message
<1>5. /\ HistoryInv' /\ Ks' = 3 /\ Kc' = Kc /\ DOMAIN msgHistory' = Ends
      /\ IsSeq(msgHistory'["client"]) /\ IsSeq(msgHistory'["server"])
  <2>1. ServerPlace(pc'["server"], 2 + 1)
    BY <1>2 DEF ServerPlace
  <2>2. payload = Script(2 + 1)'
    BY <1>4
  <2> HIDE DEF payload
  <2>3. /\ HistoryInv' /\ Ks' = 2 + 1 /\ Kc' = Kc /\ DOMAIN msgHistory' = Ends
        /\ IsSeq(msgHistory'["client"]) /\ IsSeq(msgHistory'["server"])
    BY <1>1, <1>2, <1>3, <1>4, <2>1, <2>2, ServerHistory
  <2> QED
    BY <2>3
<1>6. Memory' /\ ParamInv'
  BY <1>1, <1>3, <1>5 DEF Memory, TLSInv, Shape, ParamInv
<1>7. /\ ServerSent("Request") = 2 /\ ServerSent(pc["server"]) = 1
      /\ ServerGot("Request") = 1 /\ ServerGot(pc["server"]) = 1
  BY <1>1 DEF ServerSent, ServerGot
<1>8. /\ "Request" \in Points("server")
      /\ "Request" \notin Endings \cup {"echo"}
      /\ pc["server"] \notin Endings \cup {"ready", "echo"}
  BY <1>1 DEF Points, WritePoints, ReadPoints, Endings
<1>9. FromServer(Record("Handshake", payload), 2)' /\ ServerWrote(2)'
  BY <1>4, <1>5 DEF FromServer, ServerWrote
<1>10. \A r : \A n \in 1..1 : FromServer(r, n) => FromServer(r, n)'
  BY <1>1, <1>4 DEF FromServer
<1> HIDE DEF payload
<1> QED
  BY <1>1, <1>3, <1>5, <1>6, <1>7, <1>8, <1>9, <1>10, ServerFlight

LEMMA sendCertificateRequestStep == TLSInv /\ sendCertificateRequest => TLSInv'
<1> SUFFICES ASSUME TLSInv, sendCertificateRequest PROVE TLSInv'
  OBVIOUS
<1> DEFINE payload == ServerHelloCertificateRequestPayload
<1>1. /\ pc["server"] = "Request" /\ Remember("server", payload)
      /\ Send("server", Record("Handshake", payload), "HelloDone")
      /\ secParam' = secParam /\ matBlock' = matBlock /\ UNCHANGED echoVars
  BY DEF sendCertificateRequest, SendHandshake
<1>2. pc'["server"] = "HelloDone" /\ pc'["client"] = pc["client"]
  BY <1>1, Writes DEF Ends, Peer
<1>3. Ks = 3 /\ Kc >= 1
  BY <1>1 DEF TLSInv, HistoryInv, ServerPlace
<1>4. payload = Script(4)' /\ \A i : Script(i)' = Script(i)
  BY <1>1 DEF Script, Message
<1>5. /\ HistoryInv' /\ Ks' = 4 /\ Kc' = Kc /\ DOMAIN msgHistory' = Ends
      /\ IsSeq(msgHistory'["client"]) /\ IsSeq(msgHistory'["server"])
  <2>1. ServerPlace(pc'["server"], 3 + 1)
    BY <1>2 DEF ServerPlace
  <2>2. payload = Script(3 + 1)'
    BY <1>4
  <2> HIDE DEF payload
  <2>3. /\ HistoryInv' /\ Ks' = 3 + 1 /\ Kc' = Kc /\ DOMAIN msgHistory' = Ends
        /\ IsSeq(msgHistory'["client"]) /\ IsSeq(msgHistory'["server"])
    BY <1>1, <1>2, <1>3, <1>4, <2>1, <2>2, ServerHistory
  <2> QED
    BY <2>3
<1>6. Memory' /\ ParamInv'
  BY <1>1, <1>3, <1>5 DEF Memory, TLSInv, Shape, ParamInv
<1>7. /\ ServerSent("HelloDone") = 3 /\ ServerSent(pc["server"]) = 2
      /\ ServerGot("HelloDone") = 1 /\ ServerGot(pc["server"]) = 1
  BY <1>1 DEF ServerSent, ServerGot
<1>8. /\ "HelloDone" \in Points("server")
      /\ "HelloDone" \notin Endings \cup {"echo"}
      /\ pc["server"] \notin Endings \cup {"ready", "echo"}
  BY <1>1 DEF Points, WritePoints, ReadPoints, Endings
<1>9. FromServer(Record("Handshake", payload), 3)' /\ ServerWrote(3)'
  BY <1>4, <1>5 DEF FromServer, ServerWrote
<1>10. \A r : \A n \in 1..2 : FromServer(r, n) => FromServer(r, n)'
  BY <1>1, <1>4 DEF FromServer
<1> HIDE DEF payload
<1> QED
  BY <1>1, <1>3, <1>5, <1>6, <1>7, <1>8, <1>9, <1>10, ServerFlight

LEMMA sendServerHelloDoneStep == TLSInv /\ sendServerHelloDone => TLSInv'
<1> SUFFICES ASSUME TLSInv, sendServerHelloDone PROVE TLSInv'
  OBVIOUS
<1> DEFINE payload == ServerHelloDonePayload
<1>1. /\ pc["server"] = "HelloDone" /\ Remember("server", payload)
      /\ Send("server", Record("Handshake", payload), "PeerCertificate")
      /\ secParam' = secParam /\ matBlock' = matBlock /\ UNCHANGED echoVars
  BY DEF sendServerHelloDone, SendHandshake
<1>2. pc'["server"] = "PeerCertificate" /\ pc'["client"] = pc["client"]
  BY <1>1, Writes DEF Ends, Peer
<1>3. Ks = 4 /\ Kc >= 1
  BY <1>1 DEF TLSInv, HistoryInv, ServerPlace
<1>4. payload = Script(5)' /\ \A i : Script(i)' = Script(i)
  BY <1>1 DEF Script, Message
<1>5. /\ HistoryInv' /\ Ks' = 5 /\ Kc' = Kc /\ DOMAIN msgHistory' = Ends
      /\ IsSeq(msgHistory'["client"]) /\ IsSeq(msgHistory'["server"])
  <2>1. ServerPlace(pc'["server"], 4 + 1)
    BY <1>2 DEF ServerPlace
  <2>2. payload = Script(4 + 1)'
    BY <1>4
  <2> HIDE DEF payload
  <2>3. /\ HistoryInv' /\ Ks' = 4 + 1 /\ Kc' = Kc /\ DOMAIN msgHistory' = Ends
        /\ IsSeq(msgHistory'["client"]) /\ IsSeq(msgHistory'["server"])
    BY <1>1, <1>2, <1>3, <1>4, <2>1, <2>2, ServerHistory
  <2> QED
    BY <2>3
<1>6. Memory' /\ ParamInv'
  BY <1>1, <1>3, <1>5 DEF Memory, TLSInv, Shape, ParamInv
<1>7. /\ ServerSent("PeerCertificate") = 4 /\ ServerSent(pc["server"]) = 3
      /\ ServerGot("PeerCertificate") = 1 /\ ServerGot(pc["server"]) = 1
  BY <1>1 DEF ServerSent, ServerGot
<1>8. /\ "PeerCertificate" \in Points("server")
      /\ "PeerCertificate" \notin Endings \cup {"echo"}
      /\ pc["server"] \notin Endings \cup {"ready", "echo"}
  BY <1>1 DEF Points, WritePoints, ReadPoints, Endings
<1>9. FromServer(Record("Handshake", payload), 4)' /\ ServerWrote(4)'
  BY <1>4, <1>5 DEF FromServer, ServerWrote
<1>10. \A r : \A n \in 1..3 : FromServer(r, n) => FromServer(r, n)'
  BY <1>1, <1>4 DEF FromServer
<1> HIDE DEF payload
<1> QED
  BY <1>1, <1>3, <1>5, <1>6, <1>7, <1>8, <1>9, <1>10, ServerFlight


(* A message that the server takes.                                          *)
LEMMA ServerTakes ==
  ASSUME NEW point, NEW msg, NEW ok, NEW params, NEW next,
         ReceiveHandshake(point, msg, ok, params, next),
         IsHandshake(Head(wire["server"]), {msg}), ok
  PROVE  /\ pc["server"] = point /\ wire["server"] # <<>>
         /\ Receive("server", TRUE, next)
         /\ Remember("server", Head(wire["server"]).data)
         /\ secParam' = [secParam EXCEPT !["server"] = params]
BY DEF ReceiveHandshake, Arrived, Receive

(* Nor do the records of the server's handshake, but the last, owe anything  *)
(* to what it learns of the client.                                          *)
LEMMA ServerLearns ==
  ASSUME secParam'["server"].ServerRandom = secParam["server"].ServerRandom
  PROVE  \A r : \A n \in 1..5 : FromServer(r, n) => FromServer(r, n)'
<1>1. \A i \in 2..5 : Script(i)' = Script(i)
  BY DEF Script, Message
<1> SUFFICES ASSUME NEW r, NEW n \in 1..5, FromServer(r, n) PROVE FromServer(r, n)'
  OBVIOUS
<1>2. n \in 1..4 => Script(n + 1)' = Script(n + 1)
  BY <1>1
<1> QED
  BY <1>2 DEF FromServer

LEMMA receiveClientHelloStep == TLSInv /\ receiveClientHello => TLSInv'
<1> SUFFICES ASSUME TLSInv, receiveClientHello PROVE TLSInv'
  OBVIOUS
<1> DEFINE rec == Head(wire["server"])
           p == secParam["server"]
           q == [p EXCEPT !.ClientRandom = Told(1)]
<1>1. /\ pc["server"] = "ClientHello" /\ wire["server"] # <<>>
      /\ matBlock' = matBlock /\ UNCHANGED echoVars
  BY DEF receiveClientHello, ReceiveHandshake, Arrived
<1>2. /\ ServerGot("ServerHello") = 1 /\ ServerGot(pc["server"]) = 0
      /\ ServerSent("ServerHello") = 0 /\ ServerSent(pc["server"]) = 0
  BY <1>1 DEF ServerGot, ServerSent
<1>3. /\ "ServerHello" \in Points("server")
      /\ "ServerHello" \notin Endings \cup {"ready", "echo"}
      /\ pc["server"] \notin Endings \cup {"ready", "echo"}
  BY <1>1 DEF Points, WritePoints, ReadPoints, Endings
<1>4. Ks = 0 /\ Kc \in 0..8 /\ p \in Params /\ secParam["client"] \in Params
  BY <1>1 DEF TLSInv, Shape, Memory, HistoryInv, ServerPlace, Ends
<1>5. FromClient(rec, 1) /\ Kc >= 1
  BY <1>1, <1>2, <1>3, <1>4, NextForServer
<1>6. rec = Record("Handshake", Script(1))
  BY <1>5 DEF FromClient
<1>7. rec.type = "Handshake" /\ rec.data = Script(1) /\ rec.data = ClientHelloPayload(secParam["client"].ClientRandom)
  BY <1>6 DEF Record, Script, Message
<1>8. rec.data.msg = "ClientHello" /\ Told(1) = secParam["client"].ClientRandom
  BY <1>7 DEF ClientHelloPayload, Payload, Told
<1>9. /\ Receive("server", TRUE, "ServerHello") /\ Remember("server", rec.data)
      /\ secParam' = [secParam EXCEPT !["server"] = q]
  <2>1. IsHandshake(rec, {"ClientHello"})
    BY <1>7, <1>8 DEF IsHandshake
  <2>2. ReceiveHandshake("ClientHello", "ClientHello", TRUE, q, "ServerHello")
    BY DEF receiveClientHello
  <2> HIDE DEF q
  <2> QED
    BY <1>8, <2>1, <2>2, ServerTakes
<1>10. /\ q \in Params /\ q.ClientRandom = secParam["client"].ClientRandom /\ q.ServerRandom = p.ServerRandom
       /\ q.RemoteCertificate = p.RemoteCertificate
  <2>1. secParam["client"].ClientRandom \in Nonces
    BY <1>4 DEF Params, Names, Ends
  <2>2. q = [p EXCEPT !.ClientRandom = secParam["client"].ClientRandom]
    BY <1>8
  <2>3. q \in Params
    BY <1>4, <2>1, <2>2, Fields
  <2> QED
    BY <1>4, <2>1, <2>2, <2>3 DEF Params
<1> HIDE DEF q
<1>11. /\ secParam' \in [Ends -> Params] /\ secParam'["server"] = q
       /\ secParam'["client"] = secParam["client"]
  BY <1>9, <1>10, NewParams DEF Ends, Peer
<1>12. \A i : Script(i)' = Script(i)
  BY <1>10, <1>11, SameScript
<1>13. pc'["server"] = "ServerHello" /\ pc'["client"] = pc["client"]
  BY <1>1, <1>9, Reads DEF Ends, Peer
<1>14. /\ HistoryInv' /\ Ks' = 1 /\ Kc' = Kc /\ DOMAIN msgHistory' = Ends
       /\ IsSeq(msgHistory'["client"]) /\ IsSeq(msgHistory'["server"])
  <2>1. ServerPlace(pc'["server"], 0 + 1)
    BY <1>13 DEF ServerPlace
  <2>2. rec.data = Script(0 + 1)'
    BY <1>7, <1>12
  <2> HIDE DEF rec
  <2>3. /\ HistoryInv' /\ Ks' = 0 + 1 /\ Kc' = Kc /\ DOMAIN msgHistory' = Ends
        /\ IsSeq(msgHistory'["client"]) /\ IsSeq(msgHistory'["server"])
    BY <1>4, <1>5, <1>9, <1>12, <1>13, <2>1, <2>2, ServerHistory
  <2> QED
    BY <2>3
<1>15. Memory'
  BY <1>1, <1>11, <1>14 DEF Memory, TLSInv, Shape
<1>16. ParamInv'
  BY <1>1, <1>4, <1>10, <1>11, <1>14 DEF TLSInv, ParamInv
<1>17. \A r : \A n \in 1..5 : FromServer(r, n) => FromServer(r, n)'
  BY <1>10, <1>11, ServerLearns
<1>18. Ks' >= Ks /\ ServerSent(pc["server"]) <= 5 /\ secParam'["server"].ServerRandom = p.ServerRandom
  BY <1>2, <1>4, <1>10, <1>11, <1>14
<1>19. /\ ServerGot("ServerHello") = ServerGot(pc["server"]) + 1
       /\ ServerSent("ServerHello") = ServerSent(pc["server"])
  BY <1>2
<1> QED
  BY <1>1, <1>3, <1>9, <1>11, <1>14, <1>15, <1>16, <1>17, <1>18, <1>19, ServerReceives

LEMMA receiveClientCertificateStep == TLSInv /\ receiveClientCertificate => TLSInv'
<1> SUFFICES ASSUME TLSInv, receiveClientCertificate PROVE TLSInv'
  OBVIOUS
<1> DEFINE rec == Head(wire["server"])
           p == secParam["server"]
           q == [p EXCEPT !.RemoteCertificate = Told(1)]
<1>1. /\ pc["server"] = "PeerCertificate" /\ wire["server"] # <<>>
      /\ matBlock' = matBlock /\ UNCHANGED echoVars
  BY DEF receiveClientCertificate, ReceiveHandshake, Arrived
<1>2. /\ ServerGot("PeerKeyExchange") = 2 /\ ServerGot(pc["server"]) = 1
      /\ ServerSent("PeerKeyExchange") = 4 /\ ServerSent(pc["server"]) = 4
  BY <1>1 DEF ServerGot, ServerSent
<1>3. /\ "PeerKeyExchange" \in Points("server")
      /\ "PeerKeyExchange" \notin Endings \cup {"ready", "echo"}
      /\ pc["server"] \notin Endings \cup {"ready", "echo"}
  BY <1>1 DEF Points, WritePoints, ReadPoints, Endings
<1>4. Ks = 5 /\ Kc \in 0..8 /\ p \in Params /\ secParam["client"] \in Params
  BY <1>1 DEF TLSInv, Shape, Memory, HistoryInv, ServerPlace, Ends
<1>5. FromClient(rec, 2) /\ Kc >= 6
  BY <1>1, <1>2, <1>3, <1>4, NextForServer
<1>6. rec = Record("Handshake", Script(6))
  BY <1>5 DEF FromClient
<1>7. rec.type = "Handshake" /\ rec.data = Script(6) /\ rec.data = CertificatePayload("client")
  BY <1>6 DEF Record, Script, Message
<1>8. rec.data.msg = "Certificate" /\ Told(1) = "client"
  BY <1>7 DEF CertificatePayload, Payload, Told
<1>9. /\ Receive("server", TRUE, "PeerKeyExchange") /\ Remember("server", rec.data)
      /\ secParam' = [secParam EXCEPT !["server"] = q]
  <2>1. IsHandshake(rec, {"Certificate"})
    BY <1>7, <1>8 DEF IsHandshake
  <2>2. ReceiveHandshake("PeerCertificate", "Certificate", TRUE, q, "PeerKeyExchange")
    BY DEF receiveClientCertificate
  <2> HIDE DEF q
  <2> QED
    BY <1>8, <2>1, <2>2, ServerTakes
<1>10. /\ q \in Params /\ q.RemoteCertificate = "client" /\ q.ServerRandom = p.ServerRandom
       /\ q.ClientRandom = p.ClientRandom
  <2>1. "client" \in Names
    BY <1>4 DEF Params, Names, Ends
  <2>2. q = [p EXCEPT !.RemoteCertificate = "client"]
    BY <1>8
  <2>3. q \in Params
    BY <1>4, <2>1, <2>2, Fields
  <2> QED
    BY <1>4, <2>1, <2>2, <2>3 DEF Params
<1> HIDE DEF q
<1>11. /\ secParam' \in [Ends -> Params] /\ secParam'["server"] = q
       /\ secParam'["client"] = secParam["client"]
  BY <1>9, <1>10, NewParams DEF Ends, Peer
<1>12. \A i : Script(i)' = Script(i)
  BY <1>10, <1>11, SameScript
<1>13. pc'["server"] = "PeerKeyExchange" /\ pc'["client"] = pc["client"]
  BY <1>1, <1>9, Reads DEF Ends, Peer
<1>14. /\ HistoryInv' /\ Ks' = 6 /\ Kc' = Kc /\ DOMAIN msgHistory' = Ends
       /\ IsSeq(msgHistory'["client"]) /\ IsSeq(msgHistory'["server"])
  <2>1. ServerPlace(pc'["server"], 5 + 1)
    BY <1>13 DEF ServerPlace
  <2>2. rec.data = Script(5 + 1)'
    BY <1>7, <1>12
  <2> HIDE DEF rec
  <2>3. /\ HistoryInv' /\ Ks' = 5 + 1 /\ Kc' = Kc /\ DOMAIN msgHistory' = Ends
        /\ IsSeq(msgHistory'["client"]) /\ IsSeq(msgHistory'["server"])
    BY <1>4, <1>5, <1>9, <1>12, <1>13, <2>1, <2>2, ServerHistory
  <2> QED
    BY <2>3
<1>15. Memory'
  BY <1>1, <1>11, <1>14 DEF Memory, TLSInv, Shape
<1>16. ParamInv'
  BY <1>1, <1>4, <1>10, <1>11, <1>14 DEF TLSInv, ParamInv
<1>17. \A r : \A n \in 1..5 : FromServer(r, n) => FromServer(r, n)'
  BY <1>10, <1>11, ServerLearns
<1>18. Ks' >= Ks /\ ServerSent(pc["server"]) <= 5 /\ secParam'["server"].ServerRandom = p.ServerRandom
  BY <1>2, <1>4, <1>10, <1>11, <1>14
<1>19. /\ ServerGot("PeerKeyExchange") = ServerGot(pc["server"]) + 1
       /\ ServerSent("PeerKeyExchange") = ServerSent(pc["server"])
  BY <1>2
<1> QED
  BY <1>1, <1>3, <1>9, <1>11, <1>14, <1>15, <1>16, <1>17, <1>18, <1>19, ServerReceives

LEMMA receiveClientKeyExchangeStep == TLSInv /\ receiveClientKeyExchange => TLSInv'
<1> SUFFICES ASSUME TLSInv, receiveClientKeyExchange PROVE TLSInv'
  OBVIOUS
<1> DEFINE rec == Head(wire["server"])
           p == secParam["server"]
           q == [p EXCEPT !.PreMasterSecret = Told(2)]
<1>1. /\ pc["server"] = "PeerKeyExchange" /\ wire["server"] # <<>>
      /\ matBlock' = matBlock /\ UNCHANGED echoVars
  BY DEF receiveClientKeyExchange, ReceiveHandshake, Arrived
<1>2. /\ ServerGot("PeerVerify") = 3 /\ ServerGot(pc["server"]) = 2
      /\ ServerSent("PeerVerify") = 4 /\ ServerSent(pc["server"]) = 4
  BY <1>1 DEF ServerGot, ServerSent
<1>3. /\ "PeerVerify" \in Points("server")
      /\ "PeerVerify" \notin Endings \cup {"ready", "echo"}
      /\ pc["server"] \notin Endings \cup {"ready", "echo"}
  BY <1>1 DEF Points, WritePoints, ReadPoints, Endings
<1>4. Ks = 6 /\ Kc \in 0..8 /\ p \in Params /\ secParam["client"] \in Params
  BY <1>1 DEF TLSInv, Shape, Memory, HistoryInv, ServerPlace, Ends
<1>5. FromClient(rec, 3) /\ Kc >= 7
  BY <1>1, <1>2, <1>3, <1>4, NextForServer
<1>6. rec = Record("Handshake", Script(7))
  BY <1>5 DEF FromClient
<1>7. rec.type = "Handshake" /\ rec.data = Script(7) /\ rec.data = ClientHelloKeyExchangePayload("server", secParam["client"].PreMasterSecret)
  BY <1>6 DEF Record, Script, Message
<1>8. rec.data.msg = "ClientKeyExchange" /\ Told(1) = "server" /\ Told(2) = secParam["client"].PreMasterSecret
  BY <1>7 DEF ClientHelloKeyExchangePayload, Payload, Told
<1>9. /\ Receive("server", TRUE, "PeerVerify") /\ Remember("server", rec.data)
      /\ secParam' = [secParam EXCEPT !["server"] = q]
  <2>1. IsHandshake(rec, {"ClientKeyExchange"})
    BY <1>7, <1>8 DEF IsHandshake
  <2> DEFINE ok == Told(1) = "server"
  <2>2. ReceiveHandshake("PeerKeyExchange", "ClientKeyExchange", ok, q, "PeerVerify") /\ ok
    BY <1>8 DEF receiveClientKeyExchange
  <2> HIDE DEF q, ok
  <2> QED
    BY <2>1, <2>2, ServerTakes
<1>10. /\ q \in Params /\ q.PreMasterSecret = secParam["client"].PreMasterSecret /\ q.ServerRandom = p.ServerRandom
       /\ q.ClientRandom = p.ClientRandom /\ q.RemoteCertificate = p.RemoteCertificate
  <2>1. secParam["client"].PreMasterSecret \in Nonces
    BY <1>4 DEF Params, Names, Ends
  <2>2. q = [p EXCEPT !.PreMasterSecret = secParam["client"].PreMasterSecret]
    BY <1>8
  <2>3. q \in Params
    BY <1>4, <2>1, <2>2, Fields
  <2> QED
    BY <1>4, <2>1, <2>2, <2>3 DEF Params
<1> HIDE DEF q
<1>11. /\ secParam' \in [Ends -> Params] /\ secParam'["server"] = q
       /\ secParam'["client"] = secParam["client"]
  BY <1>9, <1>10, NewParams DEF Ends, Peer
<1>12. \A i : Script(i)' = Script(i)
  BY <1>10, <1>11, SameScript
<1>13. pc'["server"] = "PeerVerify" /\ pc'["client"] = pc["client"]
  BY <1>1, <1>9, Reads DEF Ends, Peer
<1>14. /\ HistoryInv' /\ Ks' = 7 /\ Kc' = Kc /\ DOMAIN msgHistory' = Ends
       /\ IsSeq(msgHistory'["client"]) /\ IsSeq(msgHistory'["server"])
  <2>1. ServerPlace(pc'["server"], 6 + 1)
    BY <1>13 DEF ServerPlace
  <2>2. rec.data = Script(6 + 1)'
    BY <1>7, <1>12
  <2> HIDE DEF rec
  <2>3. /\ HistoryInv' /\ Ks' = 6 + 1 /\ Kc' = Kc /\ DOMAIN msgHistory' = Ends
        /\ IsSeq(msgHistory'["client"]) /\ IsSeq(msgHistory'["server"])
    BY <1>4, <1>5, <1>9, <1>12, <1>13, <2>1, <2>2, ServerHistory
  <2> QED
    BY <2>3
<1>15. Memory'
  BY <1>1, <1>11, <1>14 DEF Memory, TLSInv, Shape
<1>16. ParamInv'
  BY <1>1, <1>4, <1>10, <1>11, <1>14 DEF TLSInv, ParamInv
<1>17. \A r : \A n \in 1..5 : FromServer(r, n) => FromServer(r, n)'
  BY <1>10, <1>11, ServerLearns
<1>18. Ks' >= Ks /\ ServerSent(pc["server"]) <= 5 /\ secParam'["server"].ServerRandom = p.ServerRandom
  BY <1>2, <1>4, <1>10, <1>11, <1>14
<1>19. /\ ServerGot("PeerVerify") = ServerGot(pc["server"]) + 1
       /\ ServerSent("PeerVerify") = ServerSent(pc["server"])
  BY <1>2
<1> QED
  BY <1>1, <1>3, <1>9, <1>11, <1>14, <1>15, <1>16, <1>17, <1>18, <1>19, ServerReceives


LEMMA receiveCertificateVerifyStep == TLSInv /\ receiveCertificateVerify => TLSInv'
<1> SUFFICES ASSUME TLSInv, receiveCertificateVerify PROVE TLSInv'
  OBVIOUS
<1> DEFINE rec == Head(wire["server"])
           p == secParam["server"]
           q == WithMasterSecret(p)
           ok == onCertificateVerify(rec.data)
<1>1. /\ ReceiveHandshake("PeerVerify", "CertificateVerify", ok, q, "PeerCipher")
      /\ pc'["server"] = "PeerCipher" =>
           matBlock' = [matBlock EXCEPT !["server"] = ServerGenerateKeys(secParam'["server"])]
      /\ UNCHANGED echoVars
  BY DEF receiveCertificateVerify
<1>2. pc["server"] = "PeerVerify" /\ wire["server"] # <<>>
  BY <1>1 DEF ReceiveHandshake, Arrived
<1>3. /\ ServerGot("PeerCipher") = 4 /\ ServerGot(pc["server"]) = 3
      /\ ServerSent("PeerCipher") = 4 /\ ServerSent(pc["server"]) = 4
  BY <1>2 DEF ServerGot, ServerSent
<1>4. /\ "PeerCipher" \in Points("server")
      /\ "PeerCipher" \notin Endings \cup {"ready", "echo"}
      /\ pc["server"] \notin Endings \cup {"ready", "echo"}
  BY <1>2 DEF Points, ReadPoints, Endings
<1>5. Ks = 7 /\ Kc \in 0..8 /\ p \in Params /\ p.RemoteCertificate = "client"
      /\ DOMAIN matBlock = Ends
  <2>1. Ks = 7
    BY <1>2 DEF TLSInv, HistoryInv, ServerPlace
  <2> QED
    BY <2>1 DEF TLSInv, Shape, Memory, HistoryInv, ParamInv, Ends
<1>6. FromClient(rec, 4) /\ Kc = 8
  BY <1>2, <1>3, <1>4, <1>5, NextForServer
<1>7. rec = Record("Handshake", Script(8))
  BY <1>6 DEF FromClient
<1>8. /\ rec.type = "Handshake" /\ rec.data = Script(8)
      /\ rec.data = ClientHelloCertificateVerifyPayload("client", msgHistory["server"])
  <2>1. Script(8) = ClientHelloCertificateVerifyPayload("client", msgHistory["server"])
    BY <1>5, SevenMessages DEF Ks, Ends
  <2> QED
    BY <1>7, <2>1 DEF Record
<1>9. ok /\ IsHandshake(rec, {"CertificateVerify"})
  BY <1>5, <1>8 DEF onCertificateVerify, IsHandshake, ClientHelloCertificateVerifyPayload, Payload
<1> HIDE DEF ok, q
<1>10. /\ Receive("server", TRUE, "PeerCipher") /\ Remember("server", rec.data)
       /\ secParam' = [secParam EXCEPT !["server"] = q]
  <2>1. ReceiveHandshake("PeerVerify", "CertificateVerify", ok, q, "PeerCipher")
    BY <1>1
  <2> QED
    BY <1>9, <2>1 DEF ReceiveHandshake, Receive
<1>11. /\ q \in Params /\ q.ClientRandom = p.ClientRandom /\ q.ServerRandom = p.ServerRandom
       /\ q.RemoteCertificate = p.RemoteCertificate /\ q.PreMasterSecret = p.PreMasterSecret
       /\ OwnSecret(q)
  BY <1>5, NewMasterSecret DEF q
<1>12. /\ secParam' \in [Ends -> Params] /\ secParam'["server"] = q
       /\ secParam'["client"] = secParam["client"]
  BY <1>10, <1>11, NewParams DEF Ends, Peer
<1>13. \A i : Script(i)' = Script(i)
  BY <1>11, <1>12, SameScript
<1>14. pc'["server"] = "PeerCipher" /\ pc'["client"] = pc["client"]
  BY <1>2, <1>10, Reads DEF Ends, Peer
<1>15. /\ matBlock'["server"] = ServerGenerateKeys(q) /\ matBlock'["client"] = matBlock["client"]
       /\ DOMAIN matBlock' = Ends
  BY <1>1, <1>5, <1>12, <1>14 DEF Ends
<1>16. /\ HistoryInv' /\ Ks' = 8 /\ Kc' = Kc /\ DOMAIN msgHistory' = Ends
       /\ IsSeq(msgHistory'["client"]) /\ IsSeq(msgHistory'["server"])
  <2>1. ServerPlace(pc'["server"], 7 + 1)
    BY <1>14 DEF ServerPlace
  <2>2. rec.data = Script(7 + 1)'
    BY <1>8, <1>13
  <2> HIDE DEF rec
  <2>3. /\ HistoryInv' /\ Ks' = 7 + 1 /\ Kc' = Kc /\ DOMAIN msgHistory' = Ends
        /\ IsSeq(msgHistory'["client"]) /\ IsSeq(msgHistory'["server"])
    BY <1>5, <1>6, <1>10, <1>13, <1>14, <2>1, <2>2, ServerHistory
  <2> QED
    BY <2>3
<1>17. Memory'
  BY <1>12, <1>15, <1>16 DEF Memory
<1>18. ParamInv'
  BY <1>5, <1>6, <1>11, <1>12, <1>15, <1>16 DEF TLSInv, ParamInv
<1>19. \A r : \A n \in 1..5 : FromServer(r, n) => FromServer(r, n)'
  BY <1>11, <1>12, ServerLearns
<1>20. Ks' >= Ks /\ ServerSent(pc["server"]) <= 5 /\ secParam'["server"].ServerRandom = p.ServerRandom
  BY <1>3, <1>5, <1>11, <1>12, <1>16
<1>21. /\ ServerGot("PeerCipher") = ServerGot(pc["server"]) + 1
       /\ ServerSent("PeerCipher") = ServerSent(pc["server"])
  BY <1>3
<1> QED
  BY <1>1, <1>2, <1>4, <1>10, <1>12, <1>16, <1>17, <1>18, <1>19, <1>20, <1>21, ServerReceives

LEMMA ServerPeerCipherStep == TLSInv /\ receiveChangeCipherSpec("server") => TLSInv'
<1> SUFFICES ASSUME TLSInv, receiveChangeCipherSpec("server") PROVE TLSInv'
  OBVIOUS
<1> DEFINE ok == Head(wire["server"]).type = "ChangeCipherSpec"
<1>1. /\ pc["server"] = "PeerCipher" /\ wire["server"] # <<>> /\ Receive("server", ok, "PeerFinished")
      /\ UNCHANGED handshakeVars /\ UNCHANGED echoVars
  BY DEF receiveChangeCipherSpec, Arrived
<1>2. /\ ServerGot("PeerFinished") = ServerGot(pc["server"]) + 1 /\ ServerGot(pc["server"]) = 4
      /\ ServerSent("PeerFinished") = ServerSent(pc["server"]) /\ ServerSent(pc["server"]) <= 5
  BY <1>1 DEF ServerGot, ServerSent
<1>3. /\ "PeerFinished" \in Points("server")
      /\ "PeerFinished" \notin Endings \cup {"ready", "echo"}
      /\ pc["server"] \notin Endings \cup {"ready", "echo"}
  BY <1>1 DEF Points, ReadPoints, Endings
<1>4. ok
  <2>1. FromClient(Head(wire["server"]), 5)
    BY <1>1, <1>2, <1>3, NextForServer
  <2> QED
    BY <2>1 DEF FromClient
<1>a. Receive("server", TRUE, "PeerFinished")
  BY <1>1, <1>4 DEF Receive
<1>5. pc'["server"] = "PeerFinished" /\ pc'["client"] = pc["client"]
  BY <1>1, <1>a, Reads DEF Ends, Peer
<1>6. Ks = 8 /\ ClientPlace(pc["client"], Kc)
  BY <1>1 DEF TLSInv, HistoryInv, ServerPlace
<1>7. ClientPlace(pc'["client"], Kc) /\ ServerPlace(pc'["server"], Ks)
  BY <1>5, <1>6 DEF ServerPlace
<1>8. /\ Memory' /\ ParamInv' /\ HistoryInv' /\ Kc' = Kc /\ Ks' = Ks
      /\ \A r, n : FromServer(r, n)' = FromServer(r, n)
  BY <1>1, <1>7, SameMemory
<1>9. msgHistory' = msgHistory /\ secParam' = secParam
  BY <1>1 DEF handshakeVars
<1>10. \A r : \A n \in 1..5 : FromServer(r, n) => FromServer(r, n)'
  BY <1>8
<1>11. Ks' >= Ks
  BY <1>6, <1>8
<1> QED
  BY <1>1, <1>2, <1>3, <1>a, <1>8, <1>9, <1>10, <1>11, ServerReceives

LEMMA ServerPeerFinishedStep == TLSInv /\ receiveFinished("server", "ChangeCipher") => TLSInv'
<1> SUFFICES ASSUME TLSInv, receiveFinished("server", "ChangeCipher") PROVE TLSInv'
  OBVIOUS
<1> DEFINE rec == Head(wire["server"])
           ok == /\ IsHandshake(rec, {"sealed"})
                 /\ ~DecryptError(matBlock["server"].DecryptCipher, rec)
                 /\ rec.data.plain.msg = "Finished"
<1>1. /\ pc["server"] = "PeerFinished" /\ wire["server"] # <<>> /\ Receive("server", ok, "ChangeCipher")
      /\ UNCHANGED handshakeVars /\ UNCHANGED echoVars
  BY DEF receiveFinished, Arrived
<1>2. /\ ServerGot("ChangeCipher") = ServerGot(pc["server"]) + 1 /\ ServerGot(pc["server"]) = 5
      /\ ServerSent("ChangeCipher") = ServerSent(pc["server"]) /\ ServerSent(pc["server"]) <= 5
  BY <1>1 DEF ServerGot, ServerSent
<1>3. /\ "ChangeCipher" \in Points("server")
      /\ "ChangeCipher" \notin Endings \cup {"ready", "echo"}
      /\ pc["server"] \notin Endings \cup {"ready", "echo"}
  BY <1>1 DEF Points, WritePoints, Endings
<1>4. Ks = 8 /\ ClientPlace(pc["client"], Kc)
  BY <1>1 DEF TLSInv, HistoryInv, ServerPlace
<1>5. ok
  <2>1. FromClient(rec, 6)
    BY <1>1, <1>2, <1>3, NextForServer
  <2>2. IsFinished(rec, ClientWriteKey(secParam["client"]))
    BY <2>1 DEF FromClient
  <2>3. matBlock["server"].DecryptCipher = ClientWriteKey(secParam["client"])
    BY <1>4, SameKeys
  <2> QED
    BY <2>2, <2>3, FixedSizes DEF IsFinished, IsHandshake, DecryptError, HeaderLength, BlockSize
<1> HIDE DEF ok
<1>a. Receive("server", TRUE, "ChangeCipher")
  BY <1>1, <1>5 DEF Receive
<1>6. pc'["server"] = "ChangeCipher" /\ pc'["client"] = pc["client"]
  BY <1>1, <1>a, Reads DEF Ends, Peer
<1>7. ClientPlace(pc'["client"], Kc) /\ ServerPlace(pc'["server"], Ks)
  BY <1>4, <1>6 DEF ServerPlace
<1>8. /\ Memory' /\ ParamInv' /\ HistoryInv' /\ Kc' = Kc /\ Ks' = Ks
      /\ \A r, n : FromServer(r, n)' = FromServer(r, n)
  BY <1>1, <1>7, SameMemory
<1>9. msgHistory' = msgHistory /\ secParam' = secParam
  BY <1>1 DEF handshakeVars
<1>10. \A r : \A n \in 1..5 : FromServer(r, n) => FromServer(r, n)'
  BY <1>8
<1>11. Ks' >= Ks
  BY <1>4, <1>8
<1> QED
  BY <1>1, <1>2, <1>3, <1>a, <1>8, <1>9, <1>10, <1>11, ServerReceives

LEMMA ServerCipherStep == TLSInv /\ sendChangeCipherSpec("server") => TLSInv'
<1> SUFFICES ASSUME TLSInv, sendChangeCipherSpec("server") PROVE TLSInv'
  OBVIOUS
<1> DEFINE rec == Record("ChangeCipherSpec", [msg |-> "01", size |-> 1])
<1>1. /\ pc["server"] = "ChangeCipher" /\ Send("server", rec, "Finished")
      /\ UNCHANGED handshakeVars /\ UNCHANGED echoVars
  BY DEF sendChangeCipherSpec
<1>2. pc'["server"] = "Finished" /\ pc'["client"] = pc["client"]
  BY <1>1, Writes DEF Ends, Peer
<1>3. Ks = 8 /\ ClientPlace(pc["client"], Kc)
  BY <1>1 DEF TLSInv, HistoryInv, ServerPlace
<1>4. ClientPlace(pc'["client"], Kc) /\ ServerPlace(pc'["server"], Ks)
  BY <1>2, <1>3 DEF ServerPlace
<1>5. /\ Memory' /\ ParamInv' /\ HistoryInv' /\ Kc' = Kc /\ Ks' = Ks
      /\ \A r, n : FromServer(r, n)' = FromServer(r, n)
  BY <1>1, <1>4, SameMemory
<1>6. msgHistory' = msgHistory /\ secParam' = secParam
  BY <1>1 DEF handshakeVars
<1>7. /\ ServerSent("Finished") = 5 /\ ServerSent(pc["server"]) = 4
      /\ ServerGot("Finished") = 6 /\ ServerGot(pc["server"]) = 6
  BY <1>1 DEF ServerSent, ServerGot
<1>8. /\ "Finished" \in Points("server")
      /\ "Finished" \notin Endings \cup {"echo"}
      /\ pc["server"] \notin Endings \cup {"ready", "echo"}
  BY <1>1 DEF Points, WritePoints, Endings
<1>9. FromServer(rec, 5)' /\ ServerWrote(5)'
  BY <1>3, <1>5 DEF FromServer, ServerWrote, Record
<1> HIDE DEF rec
<1> QED
  BY <1>1, <1>3, <1>5, <1>6, <1>7, <1>8, <1>9, ServerFlight

LEMMA ServerFinishedStep == TLSInv /\ sendFinished("server", "ready") => TLSInv'
<1> SUFFICES ASSUME TLSInv, sendFinished("server", "ready") PROVE TLSInv'
  OBVIOUS
<1>0. PICK rec :
        rec = Record("Handshake",
                     encryptContent(matBlock["server"].EncryptCipher,
                                    FinishedPayload(secParam["server"].MasterSecret,
                                                    msgHistory["server"]), FinishedSize))
  OBVIOUS
<1>1. /\ pc["server"] = "Finished" /\ Send("server", rec, "ready")
      /\ UNCHANGED handshakeVars /\ UNCHANGED echoVars
  BY <1>0 DEF sendFinished
<1>2. pc'["server"] = "ready" /\ pc'["client"] = pc["client"]
  BY <1>1, Writes DEF Ends, Peer
<1>3. Ks = 8 /\ ClientPlace(pc["client"], Kc)
  BY <1>1 DEF TLSInv, HistoryInv, ServerPlace
<1>4. ClientPlace(pc'["client"], Kc) /\ ServerPlace(pc'["server"], Ks)
  BY <1>2, <1>3 DEF ServerPlace
<1>5. /\ Memory' /\ ParamInv' /\ HistoryInv' /\ Kc' = Kc /\ Ks' = Ks
      /\ \A r, n : FromServer(r, n)' = FromServer(r, n)
  BY <1>1, <1>4, SameMemory
<1>6. msgHistory' = msgHistory /\ secParam' = secParam
  BY <1>1 DEF handshakeVars
<1>7. /\ ServerSent("ready") = 6 /\ ServerSent(pc["server"]) = 5
      /\ ServerGot("ready") = 6 /\ ServerGot(pc["server"]) = 6
  BY <1>1 DEF ServerSent, ServerGot
<1>8. /\ "ready" \in Points("server")
      /\ "ready" \notin Endings \cup {"echo"}
      /\ pc["server"] \notin Endings \cup {"ready", "echo"}
  BY <1>1 DEF Points, ReadPoints, Endings
<1>9. FromServer(rec, 6)' /\ ServerWrote(6)'
  <2>1. matBlock["server"].EncryptCipher = ServerWriteKey(secParam["server"])
    BY <1>3, SameKeys
  <2>2. IsFinished(rec, ServerWriteKey(secParam["server"]))
    BY <1>0, <2>1 DEF IsFinished, Record, encryptContent, FinishedPayload, Payload
  <2>3. FromServer(rec, 6)
    BY <2>2 DEF FromServer
  <2> QED
    BY <1>3, <1>5, <2>3 DEF ServerWrote
<1> QED
  BY <1>1, <1>3, <1>5, <1>6, <1>7, <1>8, <1>9, ServerFlight


-----------------------------------------------------------------------------
(* The start of an end, and the steps of the echo session.                   *)

LEMMA NewTLSConnStep ==
  ASSUME TLSInv, NEW e \in Ends, NewTLSConn(e)
  PROVE  TLSInv'
<1> USE DEF echoVars
<1>1. /\ pc[e] = "new" /\ pc' = [pc EXCEPT ![e] = "ClientHello"] /\ wire' = wire
      /\ broken' = broken /\ UNCHANGED handshakeVars /\ UNCHANGED echoVars
  BY DEF NewTLSConn, Goto
<1>2. /\ Shape /\ HistoryInv /\ ToServer /\ ToClient /\ SessionInv /\ ClientNotAlone
      /\ EndsForCause /\ EchoesPadded
  BY DEF TLSInv
<1>3. DOMAIN pc' = Ends /\ pc'[e] = "ClientHello" /\ pc'[Peer(e)] = pc[Peer(e)]
  BY <1>1, <1>2 DEF Shape, Peer, Ends
<1>4. \A c \in Ends : pc'[c] = pc[c] \/ (pc[c] = "new" /\ pc'[c] = "ClientHello")
  BY <1>1, <1>3 DEF Peer, Ends
<1>5. /\ pc'["client"] = pc["client"] \/ (pc["client"] = "new" /\ pc'["client"] = "ClientHello")
      /\ pc'["server"] = pc["server"] \/ (pc["server"] = "new" /\ pc'["server"] = "ClientHello")
  BY <1>4 DEF Ends
<1>6. ClientPlace(pc'["client"], Kc) /\ ServerPlace(pc'["server"], Ks)
  BY <1>2, <1>5 DEF HistoryInv, ClientPlace, ServerPlace
<1>7. /\ Memory' /\ ParamInv' /\ HistoryInv' /\ Kc' = Kc /\ Ks' = Ks /\ Kc \in 0..8 /\ Ks \in 0..8
      /\ \A r, n : FromClient(r, n)' = FromClient(r, n) /\ FromServer(r, n)' = FromServer(r, n)
  BY <1>1, <1>2, <1>6, SameMemory DEF HistoryInv
<1>8. pc'["client"] \in Points("client") /\ pc'["server"] \in Points("server")
  BY <1>2, <1>5 DEF Shape, Points, WritePoints, ReadPoints
<1>9. Shape'
  BY <1>1, <1>2, <1>3, <1>7, <1>8 DEF Shape
<1>10. /\ ServerGot(pc'["server"]) = ServerGot(pc["server"])
       /\ ServerSent(pc'["server"]) = ServerSent(pc["server"])
       /\ ClientSent(pc'["client"]) = ClientSent(pc["client"])
       /\ ClientGot(pc'["client"], Kc) = ClientGot(pc["client"], Kc)
  BY <1>5 DEF ServerGot, ServerSent, ClientSent, ClientGot
<1>11. /\ pc'["client"] \in Endings <=> pc["client"] \in Endings
       /\ pc'["server"] \in Endings <=> pc["server"] \in Endings
       /\ pc'["client"] \in {"ready", "reply"} <=> pc["client"] \in {"ready", "reply"}
       /\ pc'["server"] \in {"ready", "echo"} <=> pc["server"] \in {"ready", "echo"}
  BY <1>5 DEF Endings
<1>12. ToServer'
  BY <1>1, <1>7, <1>10, <1>11, KeepToServer
<1>13. ToClient'
  BY <1>1, <1>7, <1>10, <1>11, KeepToClient
<1>14. SessionInv'
  <2>1. secParam' = secParam
    BY <1>1 DEF handshakeVars
  <2> QED
    BY <1>1, <1>2, <1>5, <1>7, <1>10, <2>1 DEF SessionInv, Ended, Endings, Pending, Cut, Question,
                                               Answer
<1>15. ClientNotAlone'
  BY <1>2, <1>5, <1>11 DEF ClientNotAlone, Established, Session, Ended
<1>16. EndsForCause'
  <2>1. msgHistory' = msgHistory
    BY <1>1 DEF handshakeVars
  <2> QED
    BY <1>1, <1>2, <1>5, <2>1 DEF EndsForCause, Ends, Endings
<1>17. EchoesPadded'
  BY <1>1, <1>2 DEF EchoesPadded
<1> QED
  BY <1>7, <1>9, <1>12, <1>13, <1>14, <1>15, <1>16, <1>17 DEF TLSInv

LEMMA ClientWriteStep == TLSInv /\ ClientWrite => TLSInv'
<1> SUFFICES ASSUME TLSInv, ClientWrite PROVE TLSInv'
  OBVIOUS
<1>1. PICK n \in Lengths :
        /\ Write("client", [of |-> Len(sent) + 1, text |-> n, size |-> n], "reply")
        /\ sent' = Append(sent, n)
  BY DEF ClientWrite
<1>2. /\ pc["client"] = "ready" /\ Len(sent) < MaxMessages /\ UNCHANGED handshakeVars
      /\ buffer' = buffer /\ replies' = replies
  BY DEF ClientWrite
<1>3. /\ Shape /\ HistoryInv /\ ParamInv /\ SessionInv /\ ClientNotAlone
      /\ EndsForCause /\ EchoesPadded
  BY DEF TLSInv
<1>4. PICK rec : rec = Record("ApplicationData",
                   encryptContent(matBlock["client"].EncryptCipher,
                                  [of |-> Len(sent) + 1, text |-> n, size |-> n], n))
  OBVIOUS
<1>5. Send("client", rec, "reply")
  BY <1>1, <1>4 DEF Write
<1>6. /\ DOMAIN pc' = Ends /\ pc'["client"] = "reply" /\ pc'["server"] = pc["server"]
      /\ DOMAIN wire' = Ends /\ wire'["client"] = wire["client"]
      /\ broken' \in BOOLEAN /\ (broken => broken')
      /\ \/ wire'["server"] = wire["server"]
         \/ wire'["server"] = Append(wire["server"], rec)
      /\ IsSeq(wire'["client"]) /\ IsSeq(wire'["server"])
  BY <1>5, Writes DEF Ends, Peer
<1>7. Kc = 8 /\ ServerPlace(pc["server"], Ks)
  BY <1>2, <1>3 DEF HistoryInv, ClientPlace
<1>8. ClientPlace(pc'["client"], Kc) /\ ServerPlace(pc'["server"], Ks)
  BY <1>6, <1>7 DEF ClientPlace
<1>9. Memory' /\ ParamInv' /\ HistoryInv' /\ Kc' = Kc /\ Ks' = Ks
  BY <1>2, <1>8, SameMemory
<1>10. /\ sent \in Seq(Lengths) /\ Len(sent) \in Nat /\ sent' \in Seq(Lengths)
       /\ Len(sent') = Len(sent) + 1 /\ sent'[Len(sent) + 1] = n
       /\ \A i \in 1..Len(sent) : sent'[i] = sent[i]
  BY <1>1, <1>3 DEF Shape
<1>11. "reply" \in Points("client")
  BY DEF Points, ReadPoints
<1>12. Shape'
  BY <1>2, <1>3, <1>6, <1>9, <1>10, <1>11, MaxMessagesAssumption DEF Shape
<1>13. pc["server"] \in {"ready", "echo"} \cup Endings
  BY <1>2, <1>3 DEF ClientNotAlone, Established, Session, Ended
<1>14. ToServer' /\ ToClient'
  BY <1>6, <1>13 DEF ToServer, ToClient
<1>15. /\ Len(sent) = Len(replies) /\ wire["client"] = <<>> /\ ~Pending
       /\ pc["server"] # "echo"
       /\ pc["server"] = "ready" => wire["server"] = <<>>
       /\ Ks = 8
  <2>1. ~Pending
    BY <1>2 DEF Pending, Endings
  <2> QED
    BY <1>2, <1>3, <2>1 DEF SessionInv
<1>16. SessionInv'
  <2>1. rec = Question(Len(sent))'
    <3>1. matBlock["client"].EncryptCipher = ClientWriteKey(secParam["client"]) /\ secParam' = secParam
      BY <1>2, <1>3, <1>7 DEF ParamInv, ClientGenerateKeys, handshakeVars
    <3> QED
      BY <1>4, <1>10, <3>1 DEF Question
  <2>2. Pending'
    BY <1>2, <1>6, <1>10, <1>15 DEF Pending
  <2>3. pc["server"] = "ready" =>
          /\ Len(wire'["server"]) <= 1
          /\ wire'["server"] # <<>> => wire'["server"][1] = rec
    <3> SUFFICES ASSUME pc["server"] = "ready"
                 PROVE  /\ Len(wire'["server"]) <= 1
                        /\ wire'["server"] # <<>> => wire'["server"][1] = rec
      OBVIOUS
    <3>1. /\ Len(Append(<<>>, rec)) = 0 + 1
          /\ Append(<<>>, rec)[0 + 1] = rec
      BY SeqEmpty, SeqAppend
    <3> QED
      BY <1>6, <1>15, <3>1, SeqEmpty
  <2>4. ClientSent("reply") = 6
    BY DEF ClientSent
  <2>5. Len(wire'["client"]) <= 1 /\ wire'["client"] = <<>>
    BY <1>6, <1>15, SeqEmpty
  <2>6. Len(replies) <= Len(sent) + 1 /\ Len(sent)' = Len(replies)' + 1
    BY <1>2, <1>10, <1>15
  <2> QED
    BY <1>2, <1>6, <1>9, <1>10, <1>13, <1>15, <2>1, <2>2, <2>3, <2>4, <2>5, <2>6
       DEF SessionInv, Ended, Endings
<1>17. ClientNotAlone'
  BY <1>6, <1>13 DEF ClientNotAlone, Established, Session, Ended
<1>18. EndsForCause'
  <2>1. msgHistory' = msgHistory
    BY <1>2 DEF handshakeVars
  <2>2. \A i \in DOMAIN sent : i \in DOMAIN sent' /\ sent'[i] = sent[i]
    BY <1>10
  <2> QED
    BY <1>2, <1>3, <1>6, <2>1, <2>2 DEF EndsForCause, Ends, Endings
<1>19. EchoesPadded'
  <2>1. DOMAIN replies = 1..Len(replies)
    BY <1>3, SeqBasic DEF Shape
  <2>2. \A i \in DOMAIN replies : sent'[i] = sent[i]
    BY <1>10, <1>15, <2>1
  <2> QED
    BY <1>2, <1>3, <2>2 DEF EchoesPadded
<1> QED
  BY <1>9, <1>12, <1>14, <1>16, <1>17, <1>18, <1>19 DEF TLSInv


(* The records of the session, as their reader sees them.                    *)
LEMMA QuestionFacts ==
  ASSUME TLSInv, Len(sent) >= 1
  PROVE  LET q == Question(Len(sent))
             b == sent[Len(sent)]
         IN  /\ b \in Nat /\ b <= 65535
             /\ q.data.cipher = ClientWriteKey(secParam["client"])
             /\ q.data.plain = [of |-> Len(sent), text |-> b, size |-> b]
             /\ HeaderLength(q) = Uint16(CipherLength(b))
<1> DEFINE b == sent[Len(sent)]
           q == Question(Len(sent))
<1>1. b \in Lengths
  BY DEF TLSInv, Shape
<1>2. b \in Nat /\ b <= 65535
  BY <1>1, LengthsAssumption
<1>3. /\ q.data.cipher = ClientWriteKey(secParam["client"])
      /\ q.data.plain = [of |-> Len(sent), text |-> b, size |-> b]
      /\ HeaderLength(q) = Uint16(CipherLength(b))
  BY DEF Question, Record, encryptContent, HeaderLength
<1> QED
  BY <1>2, <1>3

LEMMA ReadsCut ==
  ASSUME TLSInv, Len(sent) >= 1
  PROVE  /\ Read([of |-> Len(sent), text |-> sent[Len(sent)], size |-> sent[Len(sent)]])
              = Cut(Len(sent))
         /\ Read(Cut(Len(sent))) = Cut(Len(sent))
<1>1. sent[Len(sent)] \in Nat
  BY QuestionFacts
<1>2. ASSUME NEW i, NEW n, NEW m
      PROVE  Read([of |-> i, text |-> n, size |-> m])
               = [of |-> i, text |-> IF n < BufferSize THEN n ELSE BufferSize, size |-> BufferSize]
  <2> DEFINE r == [of |-> i, text |-> n, size |-> m]
  <2>1. r.of = i /\ r.text = n
    OBVIOUS
  <2> HIDE DEF r
  <2>2. Read(r) = [of |-> i, text |-> IF n < BufferSize THEN n ELSE BufferSize, size |-> BufferSize]
    BY <2>1, Zenon DEF Read
  <2> QED
    BY <2>2, Zenon DEF r
<1>3. ASSUME NEW n \in Nat
      PROVE  LET c == IF n < BufferSize THEN n ELSE BufferSize
             IN  (IF c < BufferSize THEN c ELSE BufferSize) = c
  BY DEF BufferSize
<1> DEFINE N == Len(sent)
           b == sent[N]
           c == IF b < BufferSize THEN b ELSE BufferSize
<1>4. Cut(N) = [of |-> N, text |-> c, size |-> BufferSize]
  BY Zenon DEF Cut
<1>5. (IF c < BufferSize THEN c ELSE BufferSize) = c
  BY <1>1, <1>3
<1>6. Read([of |-> N, text |-> b, size |-> b]) = [of |-> N, text |-> c, size |-> BufferSize]
  BY <1>2, Zenon
<1> HIDE DEF N, b, c
<1>7. Read([of |-> N, text |-> c, size |-> BufferSize])
        = [of |-> N, text |-> IF c < BufferSize THEN c ELSE BufferSize, size |-> BufferSize]
  BY <1>2, Zenon
<1>8. Read(Cut(N)) = Cut(N)
  BY <1>4, <1>5, <1>7, Zenon
<1> QED
  BY <1>4, <1>6, <1>8, Zenon DEF N, b

LEMMA ServerReadStep == TLSInv /\ ServerRead => TLSInv'
<1> SUFFICES ASSUME TLSInv, ServerRead PROVE TLSInv'
  OBVIOUS
<1> DEFINE rec == Head(wire["server"])
           N == Len(sent)
           b == sent[Len(sent)]
<1>1. /\ pc["server"] = "ready" /\ wire["server"] # <<>> /\ ReadRecord("server", "echo")
      /\ buffer' = IF pc'["server"] = "echo" THEN Read(rec.data.plain) ELSE buffer
      /\ UNCHANGED handshakeVars /\ sent' = sent /\ replies' = replies
  BY DEF ServerRead, Arrived
<1>2. /\ Shape /\ HistoryInv /\ ParamInv /\ SessionInv /\ ClientNotAlone
      /\ EndsForCause /\ EchoesPadded /\ DOMAIN pc = Ends /\ DOMAIN wire = Ends
      /\ IsSeq(wire["server"]) /\ IsSeq(wire["client"]) /\ broken \in BOOLEAN
  BY DEF TLSInv, Shape
<1>3. /\ Len(wire["server"]) <= 1 /\ Pending /\ wire["server"][1] = Question(Len(sent))
  BY <1>1, <1>2 DEF SessionInv
<1>4. /\ rec = Question(Len(sent)) /\ IsSeq(Tail(wire["server"])) /\ Tail(wire["server"]) = <<>>
  <2>1. rec = wire["server"][1] /\ IsSeq(Tail(wire["server"])) /\ Len(wire["server"]) >= 1
        /\ Len(Tail(wire["server"])) = Len(wire["server"]) - 1 /\ Len(wire["server"]) \in Nat
    BY <1>1, <1>2, SeqTail, SeqBasic
  <2>2. Len(Tail(wire["server"])) < 1
    BY <1>3, <2>1
  <2> QED
    BY <1>3, <2>1, <2>2, SeqShort
<1>5. Len(sent) >= 1 /\ Len(sent) \in DOMAIN sent
  <2>1. Len(replies) \in Nat /\ sent \in Seq(Lengths)
    BY <1>2, SeqBasic DEF Shape
  <2> QED
    BY <1>3, <2>1 DEF Pending
<1>6. /\ b \in Nat /\ b <= 65535
      /\ rec.data.cipher = ClientWriteKey(secParam["client"])
      /\ rec.data.plain = [of |-> Len(sent), text |-> b, size |-> b]
      /\ HeaderLength(rec) = Uint16(CipherLength(b))
  BY <1>4, <1>5, QuestionFacts
<1>7. Ks = 8 /\ ClientPlace(pc["client"], Kc)
  BY <1>1, <1>2 DEF HistoryInv, ServerPlace
<1>8. matBlock["server"].DecryptCipher = ClientWriteKey(secParam["client"])
  BY <1>7, SameKeys
<1> HIDE DEF rec, b
<1>9. CASE TooLong(b)
  <2>1. HeaderLength(rec) <= 16
    BY <1>6, <1>9, Sizes
  <2>2. /\ wire' = [wire EXCEPT !["server"] = Tail(@)]
        /\ \E how \in {"panicked", "rejected"}, unread \in BOOLEAN : Close("server", how, unread)
    <3>1. CASE DecryptPanics(rec)
      <4>1. /\ wire' = [wire EXCEPT !["server"] = Tail(@)]
            /\ Close("server", "panicked", Len(wire["server"]) > 1 \/ Overhang(rec))
        BY <1>1, <3>1 DEF ReadRecord, rec
      <4> QED
        BY <4>1
    <3>2. CASE ~DecryptPanics(rec)
      <4>1. DecryptError(matBlock["server"].DecryptCipher, rec)
        <5>1. HeaderLength(rec) \in Int
          BY <1>6, Sizes
        <5> QED
          BY <2>1, <3>2, <5>1 DEF DecryptPanics, DecryptError, BlockSize
      <4>2. Receive("server", ~DecryptError(matBlock["server"].DecryptCipher, rec), "echo")
        BY <1>1, <3>2 DEF ReadRecord, rec
      <4>3. /\ wire' = [wire EXCEPT !["server"] = Tail(@)]
            /\ Close("server", "rejected", Len(wire["server"]) > 1 \/ Overhang(rec))
        BY <4>1, <4>2 DEF Receive, rec
      <4> QED
        BY <4>3
    <3> QED
      BY <3>1, <3>2
  <2>3. PICK how \in {"panicked", "rejected"}, unread \in BOOLEAN : Close("server", how, unread)
    BY <2>2
  <2>4. /\ Goto("server", how) /\ broken' = (broken \/ unread) /\ how \in Endings
        /\ ~Ended("server") /\ "server" \in Ends
    BY <1>1, <2>3 DEF Close, Endings, Ended, Ends
  <2>5. broken' \in BOOLEAN /\ (broken => broken')
    BY <2>4
  <2>6. /\ DOMAIN wire' = Ends /\ wire'["server"] = Tail(wire["server"])
        /\ wire'[Peer("server")] = wire[Peer("server")]
    BY <1>2, <2>2 DEF Peer, Ends
  <2>7. pc'["server"] = how
    BY <1>2, <2>4 DEF Goto, Ends
  <2>8. UNCHANGED <<handshakeVars, echoVars>>
    BY <1>1, <2>3, <2>7 DEF echoVars
  <2>9. \E i \in DOMAIN sent : TooLong(sent[i])
    BY <1>5, <1>9 DEF b
  <2>10. IsSeq(wire'["server"])
    BY <1>4, <2>6
  <2> QED
    BY <2>4, <2>5, <2>6, <2>8, <2>9, <2>10, StopsForCause
<1>10. CASE ~TooLong(b)
  <2>1. HeaderLength(rec) = CipherLength(b) /\ CipherLength(b) >= 32 /\ CipherLength(b) \in Nat
    BY <1>6, <1>10, Sizes
  <2>2. ~DecryptPanics(rec) /\ ~DecryptError(matBlock["server"].DecryptCipher, rec)
    BY <1>6, <1>8, <2>1 DEF DecryptPanics, DecryptError, BlockSize
  <2>3. Receive("server", TRUE, "echo")
    BY <1>1, <2>2 DEF ReadRecord, Receive, rec
  <2>4. /\ DOMAIN pc' = Ends /\ pc'["server"] = "echo" /\ pc'["client"] = pc["client"]
        /\ DOMAIN wire' = Ends /\ wire'["server"] = Tail(wire["server"])
        /\ wire'["client"] = wire["client"] /\ broken' = broken
        /\ IsSeq(wire'["client"]) /\ IsSeq(wire'["server"])
    BY <1>1, <2>3, Reads DEF Ends, Peer
  <2>5. buffer' = Cut(Len(sent))
    BY <1>1, <1>5, <1>6, <2>4, ReadsCut DEF b, rec
  <2>6. ClientPlace(pc'["client"], Kc) /\ ServerPlace(pc'["server"], Ks)
    BY <1>7, <2>4 DEF ServerPlace
  <2>7. Memory' /\ ParamInv' /\ HistoryInv' /\ Kc' = Kc /\ Ks' = Ks
    BY <1>1, <2>6, SameMemory
  <2>8. Shape'
    <3>1. "echo" \in Points("server")
      BY DEF Points, Session
    <3> QED
      BY <1>1, <1>2, <2>4, <2>7, <3>1 DEF Shape
  <2>9. ToServer'
    BY <2>4 DEF ToServer
  <2>10. ToClient'
    <3>1. ServerSent("echo") = ServerSent(pc["server"]) /\ Kc \in 0..8 /\ Ks \in 0..8
      BY <1>1, <1>2 DEF ServerSent, HistoryInv
    <3>2. \A r, n : FromServer(r, n)' = FromServer(r, n)
      BY <1>1, SameMemory
    <3>3. pc["server"] \notin Endings
      BY <1>1 DEF Endings
    <3> QED
      BY <2>4, <2>7, <3>1, <3>2, <3>3, KeepToClient
  <2>11. SessionInv'
    <3>1. Pending'
      BY <1>1, <1>3, <2>4 DEF Pending
    <3>2. secParam' = secParam /\ \A i : Answer(i)' = Answer(i) /\ Cut(i)' = Cut(i)
      BY <1>1 DEF handshakeVars, Answer, Cut
    <3>3. ~TooLong(sent[Len(sent)])
      BY <1>10 DEF b
    <3> QED
      BY <1>1, <1>2, <1>4, <2>4, <2>5, <2>7, <3>1, <3>2, <3>3 DEF SessionInv, Ended, Endings
  <2>12. ClientNotAlone'
    BY <2>4 DEF ClientNotAlone, Established, Session
  <2>13. EndsForCause'
    <3>1. msgHistory' = msgHistory
      BY <1>1 DEF handshakeVars
    <3> QED
      BY <1>1, <1>2, <2>4, <3>1 DEF EndsForCause, Ends, Endings
  <2>14. EchoesPadded'
    BY <1>1, <1>2 DEF EchoesPadded
  <2> QED
    BY <2>7, <2>8, <2>9, <2>10, <2>11, <2>12, <2>13, <2>14 DEF TLSInv
<1> QED
  BY <1>9, <1>10

LEMMA ServerWriteStep == TLSInv /\ ServerWrite => TLSInv'
<1> SUFFICES ASSUME TLSInv, ServerWrite PROVE TLSInv'
  OBVIOUS
<1> USE DEF echoVars
<1>1. /\ pc["server"] = "echo" /\ Write("server", buffer, "ready")
      /\ UNCHANGED handshakeVars /\ UNCHANGED echoVars
  BY DEF ServerWrite
<1>2. /\ Shape /\ HistoryInv /\ ParamInv /\ SessionInv /\ ClientNotAlone
      /\ EndsForCause /\ EchoesPadded
  BY DEF TLSInv
<1>3. /\ wire["server"] = <<>> /\ Pending /\ ~TooLong(sent[Len(sent)]) /\ buffer = Cut(Len(sent))
  BY <1>1, <1>2 DEF SessionInv
<1>4. PICK rec : rec = Answer(Len(sent))
  OBVIOUS
<1>5. Ks = 8 /\ ClientPlace(pc["client"], Kc)
  BY <1>1, <1>2 DEF HistoryInv, ServerPlace
<1>6. Send("server", rec, "ready")
  <2>1. matBlock["server"].EncryptCipher = ServerWriteKey(secParam["server"])
    BY <1>5, SameKeys
  <2> QED
    BY <1>1, <1>3, <1>4, <2>1 DEF Write, Answer, Cut
<1>7. /\ DOMAIN pc' = Ends /\ pc'["server"] = "ready" /\ pc'["client"] = pc["client"]
      /\ DOMAIN wire' = Ends /\ wire'["server"] = wire["server"]
      /\ broken' \in BOOLEAN /\ (broken => broken')
      /\ \/ wire'["client"] = wire["client"]
         \/ wire'["client"] = Append(wire["client"], rec)
      /\ IsSeq(wire'["client"]) /\ IsSeq(wire'["server"])
  BY <1>6, Writes DEF Ends, Peer
<1>8. ClientPlace(pc'["client"], Kc) /\ ServerPlace(pc'["server"], Ks)
  BY <1>5, <1>7 DEF ServerPlace
<1>9. Memory' /\ ParamInv' /\ HistoryInv' /\ Kc' = Kc /\ Ks' = Ks
  BY <1>1, <1>8, SameMemory
<1>10. Shape'
  <2>1. "ready" \in Points("server")
    BY DEF Points, Session
  <2> QED
    BY <1>1, <1>2, <1>7, <1>9, <2>1 DEF Shape
<1>11. ToServer'
  BY <1>7 DEF ToServer
<1>12. ToClient'
  BY <1>3, <1>7 DEF ToClient, Pending
<1>13. SessionInv'
  <2>1. secParam' = secParam /\ \A i : Answer(i)' = Answer(i)
    BY <1>1 DEF handshakeVars, Answer, Cut
  <2>2. pc["client"] = "reply" => /\ Len(wire'["client"]) <= 1
                                  /\ wire'["client"] # <<>> => wire'["client"][1] = rec
    <3> SUFFICES ASSUME pc["client"] = "reply"
                 PROVE  /\ Len(wire'["client"]) <= 1
                        /\ wire'["client"] # <<>> => wire'["client"][1] = rec
      OBVIOUS
    <3>1. Len(Append(<<>>, rec)) = 0 + 1 /\ Append(<<>>, rec)[0 + 1] = rec
      BY SeqEmpty, SeqAppend
    <3> QED
      BY <1>3, <1>7, <3>1, SeqEmpty DEF Pending
  <2>3. wire'["server"] = <<>> /\ Len(wire'["server"]) <= 1
    BY <1>3, <1>7, SeqEmpty
  <2>4. pc["client"] \in {"reply"} \cup Endings
    BY <1>3 DEF Pending
  <2> QED
    BY <1>1, <1>2, <1>3, <1>4, <1>7, <1>9, <2>1, <2>2, <2>3, <2>4 DEF SessionInv, Ended, Endings
<1>14. ClientNotAlone'
  BY <1>7 DEF ClientNotAlone, Established, Session
<1>15. EndsForCause'
  <2>1. msgHistory' = msgHistory
    BY <1>1 DEF handshakeVars
  <2> QED
    BY <1>1, <1>2, <1>7, <2>1 DEF EndsForCause, Ends, Endings
<1>16. EchoesPadded'
  BY <1>1, <1>2 DEF EchoesPadded
<1> QED
  BY <1>9, <1>10, <1>11, <1>12, <1>13, <1>14, <1>15, <1>16 DEF TLSInv

LEMMA ClientReadStep == TLSInv /\ ClientRead => TLSInv'
<1> SUFFICES ASSUME TLSInv, ClientRead PROVE TLSInv'
  OBVIOUS
<1> DEFINE rec == Head(wire["client"])
<1>1. /\ pc["client"] = "reply" /\ wire["client"] # <<>> /\ ReadRecord("client", "ready")
      /\ pc'["client"] = "ready" => replies' = Append(replies, Read(rec.data.plain))
      /\ UNCHANGED handshakeVars /\ buffer' = buffer /\ sent' = sent
  BY DEF ClientRead, Arrived
<1>2. /\ Shape /\ HistoryInv /\ ParamInv /\ SessionInv /\ ClientNotAlone
      /\ EndsForCause /\ EchoesPadded /\ IsSeq(wire["client"]) /\ IsSeq(replies)
      /\ sent \in Seq(Lengths)
  BY DEF TLSInv, Shape
<1>3. /\ Len(sent) = Len(replies) + 1 /\ Len(wire["client"]) <= 1 /\ Ks = 8
      /\ wire["client"][1] = Answer(Len(sent)) /\ ~TooLong(sent[Len(sent)])
  BY <1>1, <1>2 DEF SessionInv
<1>4. /\ rec = Answer(Len(sent)) /\ Tail(wire["client"]) = <<>>
  <2>1. rec = wire["client"][1] /\ IsSeq(Tail(wire["client"])) /\ Len(wire["client"]) >= 1
        /\ Len(Tail(wire["client"])) = Len(wire["client"]) - 1 /\ Len(wire["client"]) \in Nat
    BY <1>1, <1>2, SeqTail, SeqBasic
  <2>2. Len(Tail(wire["client"])) < 1
    BY <1>3, <2>1
  <2> QED
    BY <1>3, <2>1, <2>2, SeqShort
<1>5. /\ rec.data.cipher = ServerWriteKey(secParam["server"]) /\ rec.data.plain = Cut(Len(sent))
      /\ HeaderLength(rec) = 1056
  BY <1>4, FixedSizes DEF Answer, Record, encryptContent, HeaderLength
<1>6. matBlock["client"].DecryptCipher = ServerWriteKey(secParam["server"])
  BY <1>3, SameKeys
<1> HIDE DEF rec
<1>7. ~DecryptPanics(rec) /\ ~DecryptError(matBlock["client"].DecryptCipher, rec)
  BY <1>5, <1>6 DEF DecryptPanics, DecryptError, BlockSize
<1>8. Receive("client", TRUE, "ready")
  BY <1>1, <1>7 DEF ReadRecord, Receive, rec
<1>9. /\ DOMAIN pc' = Ends /\ pc'["client"] = "ready" /\ pc'["server"] = pc["server"]
      /\ DOMAIN wire' = Ends /\ wire'["client"] = Tail(wire["client"])
      /\ wire'["server"] = wire["server"] /\ broken' = broken
      /\ IsSeq(wire'["client"]) /\ IsSeq(wire'["server"])
  BY <1>1, <1>8, Reads DEF Ends, Peer
<1>10. Len(replies) \in Nat /\ Len(sent) >= 1 /\ DOMAIN replies = 1..Len(replies)
  BY <1>2, <1>3, SeqBasic
<1>11. replies' = Append(replies, Cut(Len(sent)))
  BY <1>1, <1>5, <1>9, <1>10, ReadsCut
<1>12. /\ IsSeq(replies') /\ Len(replies') = Len(replies) + 1
       /\ \A i \in 1..Len(replies) : replies'[i] = replies[i]
       /\ replies'[Len(replies) + 1] = Cut(Len(sent))
  BY <1>2, <1>11, SeqAppend
<1>13. Kc = 8 /\ ServerPlace(pc["server"], Ks)
  BY <1>1, <1>2 DEF HistoryInv, ClientPlace
<1>14. ClientPlace(pc'["client"], Kc) /\ ServerPlace(pc'["server"], Ks)
  BY <1>9, <1>13 DEF ClientPlace
<1>15. Memory' /\ ParamInv' /\ HistoryInv' /\ Kc' = Kc /\ Ks' = Ks
  BY <1>1, <1>14, SameMemory
<1>16. Shape'
  <2>1. "ready" \in Points("client")
    BY DEF Points, Session
  <2> QED
    BY <1>1, <1>2, <1>9, <1>12, <1>15, <2>1 DEF Shape
<1>17. pc["server"] \in {"ready"} \cup Endings /\ (pc["server"] = "ready" => wire["server"] = <<>>)
  <2>1. pc["server"] \in {"ready", "echo"} \cup Endings
    BY <1>1, <1>2 DEF ClientNotAlone, Established, Session, Ended
  <2>2. ~Pending
    BY <1>1 DEF Pending
  <2> QED
    BY <1>2, <2>1, <2>2 DEF SessionInv
<1>18. ToServer' /\ ToClient'
  BY <1>9, <1>17 DEF ToServer, ToClient
<1>19. SessionInv'
  <2>1. wire'["client"] = <<>>
    BY <1>4, <1>9
  <2>2. Len(sent)' = Len(replies)'
    BY <1>1, <1>3, <1>12
  <2>3. ClientSent("ready") = 6 /\ Len(<<>>) <= 1
    BY SeqEmpty DEF ClientSent
  <2>4. Len(replies)' <= Len(sent)'
    BY <1>3, <1>10, <1>12, <2>2
  <2> QED
    BY <1>3, <1>9, <1>15, <1>17, <2>1, <2>2, <2>3, <2>4 DEF SessionInv, Ended, Endings
<1>20. ClientNotAlone'
  BY <1>9, <1>17 DEF ClientNotAlone, Established, Session, Ended
<1>21. EndsForCause'
  <2>1. msgHistory' = msgHistory
    BY <1>1 DEF handshakeVars
  <2> QED
    BY <1>1, <1>2, <1>9, <2>1 DEF EndsForCause, Ends, Endings
<1>22. EchoesPadded'
  <2> SUFFICES ASSUME NEW i \in DOMAIN replies'
               PROVE  ~TooLong(sent[i]) /\ replies'[i] = Cut(i)
    BY <1>1 DEF EchoesPadded, Cut
  <2>1. i \in 1..(Len(replies) + 1)
    BY <1>12, SeqBasic
  <2>2. CASE i \in 1..Len(replies)
    BY <1>2, <1>10, <1>12, <2>2 DEF EchoesPadded, Cut
  <2>3. CASE i = Len(replies) + 1
    BY <1>3, <1>12, <2>3
  <2> QED
    BY <1>10, <2>1, <2>2, <2>3
<1> QED
  BY <1>15, <1>16, <1>18, <1>19, <1>20, <1>21, <1>22 DEF TLSInv

-----------------------------------------------------------------------------
(* Theorems.                                                                 *)

LEMMA NextInv == TLSInv /\ [Next]_vars => TLSInv'
<1> SUFFICES ASSUME TLSInv, [Next]_vars PROVE TLSInv'
  OBVIOUS
<1>1. CASE Client
  BY <1>1, sendClientHelloStep, receiveServerMessagesStep, sendClientCertificateStep,
     sendClientKeyExchangeStep, sendCertificateVerifyStep, ClientCipherStep, ClientFinishedStep,
     ClientPeerCipherStep, ClientPeerFinishedStep, ClientReadStep DEF Client
<1>2. CASE Server
  BY <1>2, receiveClientHelloStep, sendServerHelloStep, sendServerCertificateStep,
     sendCertificateRequestStep, sendServerHelloDoneStep, receiveClientCertificateStep,
     receiveClientKeyExchangeStep, receiveCertificateVerifyStep, ServerPeerCipherStep,
     ServerPeerFinishedStep, ServerCipherStep, ServerFinishedStep, ServerReadStep,
     ServerWriteStep DEF Server
<1>3. CASE Both
  BY <1>3, NewTLSConnStep, WriteErrorStep, ReadErrorStep DEF Both
<1>4. CASE Environment
  BY <1>4, ClientWriteStep, ClientStopsStep, BreakStep, NewTLSConnFailsStep DEF Environment
<1>5. CASE UNCHANGED vars
  BY <1>5, StutterStep
<1> QED
  BY <1>1, <1>2, <1>3, <1>4, <1>5 DEF Next

LEMMA TLSInvariant == Spec => []TLSInv
<1>1. Init => TLSInv
  BY InitInv
<1>2. TLSInv /\ [Next]_vars => TLSInv'
  BY NextInv
<1> QED
  BY <1>1, <1>2, PTL DEF Spec

(* Types: every end is at a point of its own controller and no history is    *)
(* longer than the eight messages of the handshake (TLSConnection, the two   *)
(* controllers).                                                             *)
THEOREM TypeCorrect == Spec => []TypeOK
<1>1. ASSUME TLSInv PROVE TypeOK
  <2>1. pc["client"] \in Points("client") /\ pc["server"] \in Points("server")
    BY <1>1 DEF TLSInv, Shape
  <2>2. Len(msgHistory["client"]) <= 8 /\ Len(msgHistory["server"]) <= 8
    <3>1. Kc \in 0..8 /\ Ks \in 0..8
      BY <1>1 DEF TLSInv, HistoryInv
    <3>2. Kc <= 8 /\ Ks <= 8
      BY <3>1
    <3> QED
      BY <3>2 DEF Kc, Ks
  <2>3. \A e \in Ends : pc[e] \in Points(e) /\ Len(msgHistory[e]) <= 8
    BY <2>1, <2>2, TwoEnds, Zenon
  <2>4. Len(replies) <= Len(sent)
    BY <1>1 DEF TLSInv, SessionInv
  <2> QED
    BY <1>1, <2>3, <2>4 DEF TLSInv, Shape, TypeOK
<1> QED
  BY <1>1, TLSInvariant, PTL

(* When the server has taken the client's Finished, both ends hold the same  *)
(* secrets and transcripts, each the other's certificate and the key to what *)
(* the other writes (receiveFinished, generateKeys in both controllers).     *)
THEOREM EndsAgree == Spec => []Agreement
<1>1. TLSInv => Agreement
  <2> SUFFICES ASSUME TLSInv, pc["server"] \in {"ChangeCipher", "Finished", "ready", "echo"}
               PROVE  /\ secParam["client"].MasterSecret = secParam["server"].MasterSecret
                      /\ msgHistory["client"] = msgHistory["server"]
                      /\ \A e \in Ends :
                           /\ secParam[e].RemoteCertificate = Peer(e)
                           /\ matBlock[e].EncryptCipher = matBlock[Peer(e)].DecryptCipher
    BY DEF Agreement, Session
  <2>1. HistoryInv /\ IsSeq(msgHistory["client"]) /\ IsSeq(msgHistory["server"])
    BY DEF TLSInv, Shape, Memory
  <2>2. Ks = 8 /\ Kc = 8
    BY <2>1 DEF HistoryInv, ServerPlace
  <2>3. \A i \in 1..8 : msgHistory["client"][i] = msgHistory["server"][i]
    BY <2>1, <2>2 DEF HistoryInv
  <2>4. msgHistory["client"] = msgHistory["server"]
    BY <2>1, <2>2, <2>3, SeqEqual DEF Kc, Ks
  <2> QED
    BY <2>2, <2>4, SameKeys DEF Ends, Peer
<1> QED
  BY <1>1, TLSInvariant, PTL

(* A client in its session faces a server that finished its handshake or has *)
(* ended since (HandshakeClientController).                                  *)
THEOREM NoLonelyClient == Spec => []ClientNotAlone
<1>1. TLSInv => ClientNotAlone
  BY DEF TLSInv
<1> QED
  BY <1>1, TLSInvariant, PTL

(* Neither end refuses what the other wrote, and the server panics in no     *)
(* session, but for a message too long for a header (DecryptContent, Read).  *)
THEOREM StopsHaveCauses == Spec => []EndsForCause
<1>1. TLSInv => EndsForCause
  BY DEF TLSInv
<1> QED
  BY <1>1, TLSInvariant, PTL

(* The answers shown follow the messages in order; each is the text cut at   *)
(* the buffer and filled up with zeros to the buffer's length, which is what *)
(* Read reports (tls.go, client.go, server.go).                              *)
THEOREM AnswersEcho == Spec => []EchoesPadded
<1>1. TLSInv => EchoesPadded
  BY DEF TLSInv
<1> QED
  BY <1>1, TLSInvariant, PTL
=============================================================================
