----------------------------- MODULE TLSSession -----------------------------
(* One connection of the demonstration pair src/TLS/client.go and server.go: *)
(* the handshake of the two controllers and the echo session after it.       *)
(*                                                                           *)
(* Each end is one goroutine and does one write or one read of a record per  *)
(* step.  wire[e] holds what e has yet to read.  The connection may break at *)
(* any time; from then on a read may still return what had arrived or fail,  *)
(* and a write fails or is lost.  An end that returns, or panics, closes its *)
(* side.                                                                     *)
EXTENDS TLSRecord

CONSTANTS
  Random,       \* what the random source may return
  Lengths,      \* sizes of the messages a user may type
  MaxMessages   \* bound: messages typed in one session

(* Above this bound a wrapped header announces a piece of the ciphertext, and *)
(* what it decrypts to depends on the text.                                  *)
ASSUME LengthsAssumption == \A n \in Lengths : n \in Nat /\ n <= 65535

ASSUME MaxMessagesAssumption == MaxMessages \in Nat

ASSUME RandomAssumption == Random # {}

VARIABLES
  pc,           \* where each end's goroutine is
  wire,         \* records each end has yet to read
  broken,       \* the connection is lost
  secParam,     \* SecurityParameters of each end
  matBlock,     \* the two ciphers of each end
  msgHistory,   \* handshake messages each end has sent and received
  buffer,       \* what the server read last
  sent,         \* sizes of the messages the client has sent
  replies       \* the answers the client has shown

vars == <<pc, wire, broken, secParam, matBlock, msgHistory, buffer, sent, replies>>

handshakeVars == <<secParam, matBlock, msgHistory>>

echoVars == <<buffer, sent, replies>>

Ends == {"client", "server"}

Peer(e) == IF e = "client" THEN "server" ELSE "client"

(* Size of the buffers both programs read into.                              *)
BufferSize == 1024

(* exited: the user left.  failed: a read or write error.  rejected: the     *)
(* content was refused.  panicked: the process died.                         *)
Endings == {"exited", "failed", "rejected", "panicked"}

Ended(e) == pc[e] \in Endings

Session == [client |-> {"ready", "reply"}, server |-> {"ready", "echo"}]

Established(e) == pc[e] \in Session[e]

WritePoints == [
  client |-> {"ClientHello", "Certificate", "KeyExchange", "Verify", "ChangeCipher", "Finished"},
  server |-> {"ServerHello", "Certificate", "Request", "HelloDone", "ChangeCipher", "Finished", "echo"}]

ReadPoints == [
  client |-> {"ServerMessages", "PeerCipher", "PeerFinished", "reply"},
  server |-> {"ClientHello", "PeerCertificate", "PeerKeyExchange", "PeerVerify",
              "PeerCipher", "PeerFinished", "ready"}]

Init ==
  /\ pc = [e \in Ends |-> "new"]
  /\ wire = [e \in Ends |-> <<>>]
  /\ broken = FALSE
  /\ secParam = [e \in Ends |-> [ClientRandom |-> <<>>, ServerRandom |-> <<>>,
                                 RemoteCertificate |-> <<>>, PreMasterSecret |-> <<>>,
                                 MasterSecret |-> <<>>]]
  /\ matBlock = [e \in Ends |-> [EncryptCipher |-> <<>>, DecryptCipher |-> <<>>]]
  /\ msgHistory = [e \in Ends |-> <<>>]
  /\ buffer = <<>>
  /\ sent = <<>>
  /\ replies = <<>>

-----------------------------------------------------------------------------
(* Reading and writing records.                                              *)

Goto(e, point) == pc' = [pc EXCEPT ![e] = point]

(* A side closed with input unread resets the connection.                    *)
Close(e, how, unread) == Goto(e, how) /\ broken' = (broken \/ unread)

(* writeTLSContent with no error.  What is written to a peer that has closed *)
(* is lost and resets the connection.                                        *)
Send(e, rec, next) ==
  LET up == ~broken /\ ~Ended(Peer(e))
  IN  /\ wire' = IF up THEN [wire EXCEPT ![Peer(e)] = Append(@, rec)] ELSE wire
      /\ broken' = ~up
      /\ Goto(e, next)

(* readTLSContent with no error; the record is refused unless ok.            *)
Receive(e, ok, next) ==
  /\ wire' = [wire EXCEPT ![e] = Tail(@)]
  /\ IF ok THEN Goto(e, next) /\ UNCHANGED broken
           ELSE Close(e, "rejected", Len(wire[e]) > 1 \/ Overhang(Head(wire[e])))

WriteError(e) ==
  /\ pc[e] \in WritePoints[e]
  /\ broken \/ Ended(Peer(e))
  /\ Close(e, "failed", wire[e] # <<>>)
  /\ UNCHANGED <<wire, handshakeVars, echoVars>>

ReadError(e) ==
  /\ pc[e] \in ReadPoints[e]
  /\ broken \/ (Ended(Peer(e)) /\ wire[e] = <<>>)
  /\ Close(e, "failed", FALSE)
  /\ UNCHANGED <<wire, handshakeVars, echoVars>>

(* The handshake message expected of the peer is next to be read.            *)
Arrived(e, point) == pc[e] = point /\ wire[e] # <<>>

IsHandshake(rec, msgs) == rec.type = "Handshake" /\ rec.data.msg \in msgs

Remember(e, payload) == msgHistory' = [msgHistory EXCEPT ![e] = Append(@, payload)]

SendHandshake(e, point, payload, next) ==
  /\ pc[e] = point
  /\ Send(e, Record("Handshake", payload), next)
  /\ Remember(e, payload)

sendChangeCipherSpec(e) ==
  /\ pc[e] = "ChangeCipher"
  /\ Send(e, Record("ChangeCipherSpec", [msg |-> "01", size |-> 1]), "Finished")
  /\ UNCHANGED <<handshakeVars, echoVars>>

MutantSendFinished(e, next) ==
  /\ pc[e] = "Finished"
  /\ Send(e, Record("Handshake",
                    encryptContent(matBlock[e].EncryptCipher,
                                   FinishedPayload(secParam[e].MasterSecret, msgHistory[e]),
                                   FinishedSize)), "ready")
  /\ UNCHANGED <<handshakeVars, echoVars>>

sendFinished(e, next) ==
  /\ pc[e] = "Finished"
  /\ Send(e, Record("Handshake",
                    encryptContent(matBlock[e].EncryptCipher,
                                   FinishedPayload(secParam[e].MasterSecret, msgHistory[e]),
                                   FinishedSize)), next)
  /\ UNCHANGED <<handshakeVars, echoVars>>

receiveChangeCipherSpec(e) ==
  /\ Arrived(e, "PeerCipher")
  /\ Receive(e, Head(wire[e]).type = "ChangeCipherSpec", "PeerFinished")
  /\ UNCHANGED <<handshakeVars, echoVars>>

(* Only the kind of the decrypted message is looked at.                      *)
receiveFinished(e, next) ==
  /\ Arrived(e, "PeerFinished")
  /\ LET rec == Head(wire[e])
     IN  Receive(e, /\ IsHandshake(rec, {"sealed"})
                    /\ ~DecryptError(matBlock[e].DecryptCipher, rec)
                    /\ rec.data.plain.msg = "Finished", next)
  /\ UNCHANGED <<handshakeVars, echoVars>>

WithMasterSecret(p) ==
  [p EXCEPT !.MasterSecret =
     generateMasterSecret(p.ClientRandom, p.ServerRandom, p.PreMasterSecret)]

-----------------------------------------------------------------------------
(* NewTLSConn.                                                               *)

NewTLSConn(e) ==
  /\ pc[e] = "new"
  /\ Goto(e, "ClientHello")
  /\ UNCHANGED <<wire, broken, handshakeVars, echoVars>>

(* Certificate or key unreadable: the caller goes on with a nil connection.  *)
NewTLSConnFails(e) ==
  /\ pc[e] = "new"
  /\ Close(e, "panicked", wire[e] # <<>>)
  /\ UNCHANGED <<wire, handshakeVars, echoVars>>

-----------------------------------------------------------------------------
(* HandshakeClientController.                                                *)

sendClientHello ==
  \E random \in Random :
    /\ SendHandshake("client", "ClientHello", ClientHelloPayload(random), "ServerMessages")
    /\ secParam' = [secParam EXCEPT !["client"].ClientRandom = random]
    /\ UNCHANGED <<matBlock, echoVars>>

onServerMessage(p, payload) ==
  CASE payload.msg = "ServerHello" -> [p EXCEPT !.ServerRandom = payload.body[1]]
    [] payload.msg = "Certificate" -> [p EXCEPT !.RemoteCertificate = payload.body[1]]
    [] OTHER                       -> p

receiveServerMessages ==
  /\ Arrived("client", "ServerMessages")
  /\ LET rec == Head(wire["client"])
     IN  /\ Receive("client",
                    IsHandshake(rec, {"ServerHello", "Certificate", "CertificateRequest",
                                      "ServerHelloDone"}),
                    IF rec.data.msg = "ServerHelloDone" THEN "Certificate" ELSE "ServerMessages")
         /\ IF rec.type = "Handshake" THEN Remember("client", rec.data) ELSE UNCHANGED msgHistory
         /\ secParam' = [secParam EXCEPT !["client"] = onServerMessage(@, rec.data)]
  /\ UNCHANGED <<matBlock, echoVars>>

sendClientCertificate ==
  /\ SendHandshake("client", "Certificate", CertificatePayload("client"), "KeyExchange")
  /\ UNCHANGED <<secParam, matBlock, echoVars>>

sendClientKeyExchange ==
  \E secret \in Random :
    /\ SendHandshake("client", "KeyExchange",
                     ClientHelloKeyExchangePayload(secParam["client"].RemoteCertificate, secret),
                     "Verify")
    /\ secParam' = [secParam EXCEPT !["client"].PreMasterSecret = secret]
    /\ UNCHANGED <<matBlock, echoVars>>

sendCertificateVerify ==
  /\ SendHandshake("client", "Verify",
                   ClientHelloCertificateVerifyPayload("client", msgHistory["client"]),
                   "ChangeCipher")
  /\ secParam' = [secParam EXCEPT !["client"] = WithMasterSecret(@)]
  /\ matBlock' = [matBlock EXCEPT !["client"] = ClientGenerateKeys(secParam'["client"])]
  /\ UNCHANGED echoVars

-----------------------------------------------------------------------------
(* HandshakeServerController.                                                *)

(* A receive of the server's: one record, of one kind, and what it tells.    *)
ReceiveHandshake(point, msg, ok, params, next) ==
  /\ Arrived("server", point)
  /\ LET payload  == Head(wire["server"]).data
         accepted == IsHandshake(Head(wire["server"]), {msg}) /\ ok
     IN  /\ Receive("server", accepted, next)
         /\ IF accepted
            THEN Remember("server", payload) /\ secParam' = [secParam EXCEPT !["server"] = params]
            ELSE UNCHANGED <<msgHistory, secParam>>

Told(i) == Head(wire["server"]).data.body[i]

receiveClientHello ==
  /\ ReceiveHandshake("ClientHello", "ClientHello", TRUE,
                      [secParam["server"] EXCEPT !.ClientRandom = Told(1)], "ServerHello")
  /\ UNCHANGED <<matBlock, echoVars>>

sendServerHello ==
  \E random \in Random :
    /\ SendHandshake("server", "ServerHello", ServerHelloPayload(random), "Certificate")
    /\ secParam' = [secParam EXCEPT !["server"].ServerRandom = random]
    /\ UNCHANGED <<matBlock, echoVars>>

sendServerCertificate ==
  /\ SendHandshake("server", "Certificate", CertificatePayload("server"), "Request")
  /\ UNCHANGED <<secParam, matBlock, echoVars>>

sendCertificateRequest ==
  /\ SendHandshake("server", "Request", ServerHelloCertificateRequestPayload, "HelloDone")
  /\ UNCHANGED <<secParam, matBlock, echoVars>>

MutantSendServerHelloDone ==
  /\ pc["server"] = "HelloDone"
  /\ Goto("server", "PeerCertificate")
  /\ UNCHANGED <<wire, broken, handshakeVars, echoVars>>

sendServerHelloDone ==
  /\ SendHandshake("server", "HelloDone", ServerHelloDonePayload, "PeerCertificate")
  /\ UNCHANGED <<secParam, matBlock, echoVars>>

receiveClientCertificate ==
  /\ ReceiveHandshake("PeerCertificate", "Certificate", TRUE,
                      [secParam["server"] EXCEPT !.RemoteCertificate = Told(1)], "PeerKeyExchange")
  /\ UNCHANGED <<matBlock, echoVars>>

(* Only the owner of the certificate decrypts the premaster secret.          *)
receiveClientKeyExchange ==
  /\ ReceiveHandshake("PeerKeyExchange", "ClientKeyExchange", Told(1) = "server",
                      [secParam["server"] EXCEPT !.PreMasterSecret = Told(2)], "PeerVerify")
  /\ UNCHANGED <<matBlock, echoVars>>

(* The signature is the certificate's owner's, over the server's own history. *)
MutantOnCertificateVerify(payload) ==
  payload.body = <<secParam["server"].RemoteCertificate, Append(msgHistory["server"], payload)>>

onCertificateVerify(payload) ==
  payload.body = <<secParam["server"].RemoteCertificate, msgHistory["server"]>>

receiveCertificateVerify ==
  /\ ReceiveHandshake("PeerVerify", "CertificateVerify",
                      onCertificateVerify(Head(wire["server"]).data),
                      WithMasterSecret(secParam["server"]), "PeerCipher")
  /\ matBlock' = IF pc'["server"] = "PeerCipher"
                 THEN [matBlock EXCEPT !["server"] = ServerGenerateKeys(secParam'["server"])]
                 ELSE matBlock
  /\ UNCHANGED echoVars

-----------------------------------------------------------------------------
(* The echo session.                                                         *)

(* TLSConnection.Write.                                                      *)
Write(e, message, next) ==
  Send(e, Record("ApplicationData",
                 encryptContent(matBlock[e].EncryptCipher, message, message.size)), next)

MutantRead(message) == message

(* TLSConnection.Read into a new buffer.  What does not fit is dropped, and   *)
(* the length reported is the buffer's: the caller takes the text and the    *)
(* zeros behind it.                                                          *)
Read(message) ==
  [of |-> message.of,
   text |-> IF message.text < BufferSize THEN message.text ELSE BufferSize,
   size |-> BufferSize]

(* The type of the record is not looked at.                                  *)
ReadRecord(e, next) ==
  LET rec == Head(wire[e])
  IN  IF DecryptPanics(rec)
      THEN /\ wire' = [wire EXCEPT ![e] = Tail(@)]
           /\ Close(e, "panicked", Len(wire[e]) > 1 \/ Overhang(rec))
      ELSE Receive(e, ~DecryptError(matBlock[e].DecryptCipher, rec), next)

(* A message is named by its place in the session; of its size bytes the     *)
(* first are the text that was typed.                                        *)
ClientWrite ==
  /\ pc["client"] = "ready"
  /\ Len(sent) < MaxMessages
  /\ \E n \in Lengths :
       /\ Write("client", [of |-> Len(sent) + 1, text |-> n, size |-> n], "reply")
       /\ sent' = Append(sent, n)
  /\ UNCHANGED <<handshakeVars, buffer, replies>>

ClientWriteFails ==
  /\ pc["client"] = "ready"
  /\ broken \/ Ended("server")
  /\ Close("client", "failed", wire["client"] # <<>>)
  /\ UNCHANGED <<wire, handshakeVars, echoVars>>

ServerRead ==
  /\ Arrived("server", "ready")
  /\ ReadRecord("server", "echo")
  /\ buffer' = IF pc'["server"] = "echo" THEN Read(Head(wire["server"]).data.plain) ELSE buffer
  /\ UNCHANGED <<handshakeVars, sent, replies>>

MutantServerWrite ==
  /\ pc["server"] = "echo"
  /\ IF buffer.text = 0 THEN Goto("server", "ready") /\ UNCHANGED <<wire, broken>>
                        ELSE Write("server", buffer, "ready")
  /\ UNCHANGED <<handshakeVars, echoVars>>

ServerWrite ==
  /\ pc["server"] = "echo"
  /\ Write("server", buffer, "ready")
  /\ UNCHANGED <<handshakeVars, echoVars>>

ClientRead ==
  /\ Arrived("client", "reply")
  /\ ReadRecord("client", "ready")
  /\ replies' = IF pc'["client"] = "ready"
                THEN Append(replies, Read(Head(wire["client"]).data.plain)) ELSE replies
  /\ UNCHANGED <<handshakeVars, buffer, sent>>

(* "exit" ends the loop; the end of the input is not handled and panics.     *)
ClientExit ==
  /\ pc["client"] = "ready"
  /\ \E how \in {"exited", "panicked"} : Close("client", how, wire["client"] # <<>>)
  /\ UNCHANGED <<wire, handshakeVars, echoVars>>

-----------------------------------------------------------------------------
Break ==
  /\ ~broken
  /\ broken' = TRUE
  /\ UNCHANGED <<pc, wire, handshakeVars, echoVars>>

Client ==
  \/ sendClientHello
  \/ receiveServerMessages
  \/ sendClientCertificate
  \/ sendClientKeyExchange
  \/ sendCertificateVerify
  \/ sendChangeCipherSpec("client")
  \/ sendFinished("client", "PeerCipher")
  \/ receiveChangeCipherSpec("client")
  \/ receiveFinished("client", "ready")
  \/ ClientRead

Server ==
  \/ receiveClientHello
  \/ sendServerHello
  \/ sendServerCertificate
  \/ sendCertificateRequest
  \/ sendServerHelloDone
  \/ receiveClientCertificate
  \/ receiveClientKeyExchange
  \/ receiveCertificateVerify
  \/ receiveChangeCipherSpec("server")
  \/ receiveFinished("server", "ChangeCipher")
  \/ sendChangeCipherSpec("server")
  \/ sendFinished("server", "ready")
  \/ ServerRead
  \/ ServerWrite

(* What the user and the environment do.                                     *)
Environment ==
  \/ ClientWrite
  \/ ClientWriteFails
  \/ ClientExit
  \/ Break
  \/ \E e \in Ends : NewTLSConnFails(e)

Both == \E e \in Ends : NewTLSConn(e) \/ WriteError(e) \/ ReadError(e)

Next == Client \/ Server \/ Both \/ Environment

Spec == Init /\ [][Next]_vars

(* Go's scheduler runs both goroutines; a read of a dead connection fails    *)
(* once the keep-alive of the dialled and accepted connections gives up.     *)
(* Nothing is assumed of the user.                                           *)
FairSpec ==
  /\ Spec
  /\ WF_vars(Client)
  /\ WF_vars(Server)
  /\ \A e \in Ends : WF_vars(NewTLSConn(e) \/ WriteError(e) \/ ReadError(e))

-----------------------------------------------------------------------------
(* Properties.                                                               *)

Points(e) == WritePoints[e] \cup ReadPoints[e] \cup Session[e] \cup Endings \cup {"new"}

(* Each end is at a point of its own controller, and histories and answers   *)
(* are bounded by the messages of the protocol.                              *)
TypeOK ==
  /\ \A e \in Ends : pc[e] \in Points(e) /\ Len(msgHistory[e]) <= 8
  /\ broken \in BOOLEAN
  /\ Len(replies) <= Len(sent) /\ Len(sent) <= MaxMessages
  /\ sent \in Seq(Lengths)

(* Once the server has taken the client's Finished, the two ends hold the    *)
(* same secrets, transcripts and peer certificates, and each decrypts with   *)
(* the key the other encrypts with.                                          *)
Agreement ==
  pc["server"] \in {"ChangeCipher", "Finished"} \cup Session["server"] =>
    /\ secParam["client"].MasterSecret = secParam["server"].MasterSecret
    /\ msgHistory["client"] = msgHistory["server"]
    /\ \A e \in Ends : /\ secParam[e].RemoteCertificate = Peer(e)
                       /\ matBlock[e].EncryptCipher = matBlock[Peer(e)].DecryptCipher

(* A client in its session has a server that completed the handshake.        *)
ClientNotAlone ==
  Established("client") => Established("server") \/ Ended("server")

TooLong(n) == CipherLength(n) > 65535

(* An end stops only because the connection broke, a certificate file was    *)
(* unreadable, the user left or a message was too long for the 16 bits of    *)
(* the header: neither refuses what the other wrote, and the server, in which *)
(* a panic ends every session, panics in the middle of none.                 *)
EndsForCause ==
  \/ \A e \in Ends : pc[e] \notin Endings
  \/ broken
  \/ pc["server"] = "panicked" /\ msgHistory["server"] = <<>>
  \/ pc["client"] \in {"exited", "panicked"}
  \/ \E i \in DOMAIN sent : TooLong(sent[i])

(* The answers the client shows follow the messages in order, one for each,  *)
(* and are as long as the buffer, whatever was typed: the text cut at the    *)
(* buffer, then zeros, and nothing of another message.  A message too long   *)
(* for a record has no answer.                                               *)
EchoesPadded ==
  \A i \in DOMAIN replies :
    /\ ~TooLong(sent[i])
    /\ replies[i] = [of |-> i, text |-> IF sent[i] < BufferSize THEN sent[i] ELSE BufferSize,
                     size |-> BufferSize]

(* The handshake comes to an end on both sides.                              *)
HandshakeEnds == \A e \in Ends : <>(Established(e) \/ Ended(e))

(* The user who sent a message gets the prompt back or the program ends, and *)
(* the server does not outlive the client.                                   *)
Answered ==
  /\ pc["client"] = "reply" ~> pc["client"] = "ready" \/ Ended("client")
  /\ Ended("client") ~> Ended("server")
=============================================================================
