-------------------------------- MODULE Wire --------------------------------
(***************************************************************************)
(* What goes over a connection: the first packet of a client, the server's *)
(* reply with the session key, and the frames.  A byte is <<x, i>>, the    *)
(* i-th byte of the representation of x; x is a tuple that starts with its *)
(* kind.  Lengths and offsets are those of the code.  Of a frame's payload *)
(* only the length is kept.                                                *)
(***************************************************************************)
EXTENDS Naturals, Sequences, FiniteSetsExt

CONSTANTS Fail,       \* an error instead of a result
          Noise       \* a frame of which nothing is known

Bytes(x, n) == [i \in 1 .. n |-> <<x, i>>]
Slice(b, from, to) == SubSeq(b, from + 1, to)       \* b[from:to] of Go
ValueOf(b) == b[1][1][2]
NUL == <<<<"nul", 0>>, 1>>
NULs(n) == [i \in 1 .. n |-> NUL]

(* common.AESGCMEncrypt and AESGCMDecrypt: what was sealed is opened with  *)
(* the key and the nonce it was sealed with; the tag has 16 bytes.         *)
AESGCMEncrypt(nonce, secret, plain) ==
  Bytes(<<"sealed", nonce, secret, plain>>, Len(plain) + 16)

Opens(x, nonce, secret, ciphertext) ==
  /\ x[1] = "sealed" /\ x[2] = nonce /\ x[3] = secret
  /\ ciphertext = Bytes(x, Len(x[4]) + 16)

AESGCMDecrypt(nonce, secret, ciphertext) ==
  IF Opens(ciphertext[1][1], nonce, secret, ciphertext) THEN ciphertext[1][1][4] ELSE Fail
-----------------------------------------------------------------------------
(* The authentication data, from makeAuthenticationPayload to              *)
(* decryptClientInfo.  An ephemeral key pair r gives the public key, which *)
(* is sent as the ClientHello's random, and the secret shared with the     *)
(* server whose static key was used.                                       *)

PublicKey(r) == Bytes(<<"public", r>>, 32)
SharedSecret(pub) == <<"secret", ValueOf(pub)>>
UID(u) == Bytes(<<"uid", u>>, 16)
Name(n, length) == Bytes(<<"name", n>>, length)
IsName(b) == Len(b) \in Nat /\ b = Name(ValueOf(b), Len(b))

(* copy(plaintext[16:28], name) *)
NameField(name) ==
  IF Len(name) >= 12 THEN Slice(name, 0, 12) ELSE name \o NULs(12 - Len(name))

(* Mutant: the session id is written one byte after the timestamp's end. *)
Plaintext_Shifted(a) ==
  UID(a.uid) \o NameField(a.method) \o Bytes(<<"enc", a.enc>>, 1)
    \o Bytes(<<"time", a.time>>, 8) \o NULs(1) \o Bytes(<<"sid", a.sid>>, 4)
    \o Bytes(<<"flag", a.unordered>>, 1) \o NULs(5)

Plaintext(a) ==
  UID(a.uid) \o NameField(a.method) \o Bytes(<<"enc", a.enc>>, 1)
    \o Bytes(<<"time", a.time>>, 8) \o Bytes(<<"sid", a.sid>>, 4)
    \o Bytes(<<"flag", a.unordered>>, 1) \o NULs(6)

makeAuthenticationPayload(a) ==
  [randPubKey |-> PublicKey(a.random),
   ciphertextWithTag |-> AESGCMEncrypt(Slice(PublicKey(a.random), 0, 12),
                           SharedSecret(PublicKey(a.random)), Plaintext(a))]

(* The key shares of a browser's ClientHello: group and length.  External. *)
KeyShares(browser) ==
  [chrome  |-> <<<<"grease", 1>>, <<"mlkem768", 1216>>, <<"x25519", 32>>>>,
   firefox |-> <<<<"mlkem768", 1216>>, <<"x25519", 32>>, <<"p256", 65>>>>,
   safari  |-> <<<<"grease", 1>>, <<"x25519", 32>>>>][browser]

(* buildClientHello: the first half of the ciphertext is the session id,   *)
(* the other the X25519 key share.                                         *)
LastX25519(shares) == Max({i \in DOMAIN shares : shares[i][1] = "x25519"})

Share(shares, i, keyShare) ==
  [group |-> shares[i][1], length |-> shares[i][2],
   data |-> IF i = LastX25519(shares) THEN keyShare ELSE Bytes(<<"random">>, shares[i][2])]

buildClientHello(browser, p) ==
  [random |-> p.randPubKey,
   sessionId |-> Slice(p.ciphertextWithTag, 0, 32),
   keyShares |-> [i \in DOMAIN KeyShares(browser) |->
                    Share(KeyShares(browser), i, Slice(p.ciphertextWithTag, 32, 64))]]

(* The offset of entry i in the key_share extension, whose first two bytes *)
(* are the length of all entries.                                          *)
Offset(shares, i) ==
  LET at[k \in 1 .. Len(shares) + 1] ==
        IF k = 1 THEN 2 ELSE at[k - 1] + 4 + shares[k - 1].length
  IN at[i]

(* parseKeyShare looks at the entries that start before offset totalLen.   *)
X25519Entries(shares) ==
  {i \in DOMAIN shares : /\ shares[i].group = "x25519"
                         /\ Offset(shares, i) < Offset(shares, Len(shares) + 1) - 2}

parseKeyShare(shares) ==
  IF X25519Entries(shares) = {} THEN Fail
  ELSE IF shares[Min(X25519Entries(shares))].length # 32 THEN Fail
  ELSE shares[Min(X25519Entries(shares))].data

(* TLS.unmarshalClientHello *)
FragmentsOf(random, sessionId, keyShare) ==
  IF keyShare = Fail THEN Fail
  ELSE IF Len(sessionId \o keyShare) # 64 THEN Fail
  ELSE [randPubKey |-> random, sharedSecret |-> SharedSecret(random),
        ciphertextWithTag |-> sessionId \o keyShare]

unmarshalClientHello(ch) ==
  FragmentsOf(ch.random, ch.sessionId, parseKeyShare(ch.keyShares))

(* The header "hidden" of WSOverTLS, and WebSocket.unmarshalHidden. *)
Hidden(p) == p.randPubKey \o p.ciphertextWithTag

unmarshalHidden(hidden) ==
  IF Len(hidden) # 96 THEN Fail
  ELSE [randPubKey |-> Slice(hidden, 0, 32),
        sharedSecret |-> SharedSecret(Slice(hidden, 0, 32)),
        ciphertextWithTag |-> Slice(hidden, 32, 96)]

(* bytes.Trim(b, "\x00") *)
Kept(b) == {i \in DOMAIN b : b[i] # NUL}
TrimNUL(b) == IF Kept(b) = {} THEN <<>> ELSE SubSeq(b, Min(Kept(b)), Max(Kept(b)))

(* decryptClientInfo: the fields of the plaintext, Noise if it cannot be   *)
(* decrypted, and whether its timestamp is near the server's time.         *)
Fields(plain) ==
  IF plain = Fail THEN Noise
  ELSE [UID |-> Slice(plain, 0, 16), ProxyMethod |-> TrimNUL(Slice(plain, 16, 28)),
        EncryptionMethod |-> ValueOf(Slice(plain, 28, 29)),
        Time |-> ValueOf(Slice(plain, 29, 37)),
        SessionId |-> ValueOf(Slice(plain, 37, 41)),
        Unordered |-> ValueOf(Slice(plain, 41, 42))]

decryptClientInfo(fragments) ==
  Fields(AESGCMDecrypt(Slice(fragments.randPubKey, 0, 12), fragments.sharedSecret,
                       fragments.ciphertextWithTag))

InWindow(info, serverTime, tolerance) ==
  info.Time + tolerance > serverTime /\ info.Time < serverTime + tolerance
-----------------------------------------------------------------------------
(* The reply: the session key sealed under the shared secret.  In TLS it   *)
(* is spread over the random and the key share of a ServerHello.           *)

composeServerHello(sessionId, nonce, encrypted) ==
  Bytes(<<"type">>, 1) \o Bytes(<<"length">>, 3) \o Bytes(<<"version">>, 2)
    \o (nonce \o Slice(encrypted, 0, 20))
    \o Bytes(<<"sidLength">>, 1) \o sessionId
    \o Bytes(<<"suite">>, 2) \o Bytes(<<"compression">>, 1) \o Bytes(<<"extLength">>, 2)
    \o Bytes(<<"keyShare">>, 8) \o (Slice(encrypted, 20, 48) \o Bytes(<<"random">>, 4))
    \o Bytes(<<"versions">>, 6)

(* composeReply: three records. *)
composeReply(sessionId, nonce, encrypted) ==
  <<composeServerHello(sessionId, nonce, encrypted), Bytes(<<"ChangeCipherSpec">>, 1),
    Bytes(<<"cert">>, 42)>>

(* TLS.makeResponder and WebSocket.makeResponder: the messages sent *)
ReplyTLS(sessionId, sharedSecret, nonce, sessionKey) ==
  composeReply(sessionId, nonce, AESGCMEncrypt(nonce, sharedSecret, sessionKey))

ReplyWebSocket(sharedSecret, nonce, sessionKey) ==
  <<nonce \o AESGCMEncrypt(nonce, sharedSecret, sessionKey)>>

(* DirectTLS.Handshake reads a ServerHello and two more records: a record  *)
(* it leaves would be taken for a frame.                                   *)
Encrypted(serverHello) == Slice(serverHello, 6, 38) \o Slice(serverHello, 84, 116)

SessionKeyTLS(sharedSecret, reply) ==
  IF Len(reply) # 1 + 2 THEN Fail
  ELSE AESGCMDecrypt(Slice(Encrypted(reply[1]), 0, 12), sharedSecret,
                     Slice(Encrypted(reply[1]), 12, 60))

(* WSOverTLS.Handshake *)
SessionKeyWebSocket(sharedSecret, reply) ==
  IF Len(reply[1]) # 60 THEN Fail
  ELSE AESGCMDecrypt(Slice(reply[1], 0, 12), sharedSecret, Slice(reply[1], 12, 60))
-----------------------------------------------------------------------------
(* dispatcher.go, readFirstPacket.  A first packet is described by its     *)
(* first byte, the length its record header declares or at which its blank *)
(* line ends, and how much of it is sent before the connection ends or the *)
(* deadline passes.  The result: the bytes in the buffer, those taken from *)
(* the connection, and what to do.                                         *)
firstPacketSize == 3000

Read(i, outcome) == [i |-> i, taken |-> i, outcome |-> outcome]

(* Mutant: a record that does not fit is reported without its header. *)
ReadTLS_DropsHeader(p) ==
  CASE p.sent < 5 -> Read(p.sent, "close")
    [] p.sent >= 5 /\ p.length + 5 > firstPacketSize ->
         [i |-> 1, taken |-> 5, outcome |-> "redirect"]
    [] OTHER ->
         IF p.sent < p.length + 5 THEN Read(p.sent, "close")
                                  ELSE Read(p.length + 5, "auth")

ReadTLS(p) ==
  CASE p.sent < 5 -> Read(p.sent, "close")
    [] p.sent >= 5 /\ p.length + 5 > firstPacketSize -> Read(5, "redirect")
    [] OTHER ->
         IF p.sent < p.length + 5 THEN Read(p.sent, "close")
                                  ELSE Read(p.length + 5, "auth")

(* Mutant: lines are read past the end of the buffer. *)
ReadWebSocket_NoLimit(p) ==
  IF p.sent >= p.length THEN Read(p.length, "auth") ELSE Read(p.sent, "close")

(* connReadLine until the blank line *)
ReadWebSocket(p) ==
  CASE p.length <= firstPacketSize /\ p.sent >= p.length -> Read(p.length, "auth")
    [] p.length > firstPacketSize /\ p.sent >= firstPacketSize ->
         Read(firstPacketSize, "redirect")
    [] OTHER -> Read(p.sent, "close")

readFirstPacket(p) ==
  IF p.sent < 1 THEN Read(0, "close")
  ELSE CASE p.first = "tls" -> ReadTLS(p)
         [] p.first = "ws" -> ReadWebSocket(p)
         [] OTHER -> Read(1, "redirect")
-----------------------------------------------------------------------------
(* obfs.go.  An obfuscator is a method and a key, a message its size, the  *)
(* last byte of its header, and what its header and payload were encrypted *)
(* with.                                                                   *)
frameHeaderLength == 14
salsa20NonceSize == 8
maxExtraLen == 255
padFirstNFrames == 5
MsgOnWireSizeLimit == 16401
connReceiveBufferSize == 20480
maxStreamUnitWrite == MsgOnWireSizeLimit - frameHeaderLength - maxExtraLen

(* A frame that a stream writes; closing is one of three. *)
Frame == [stream : Nat, seq : Nat, closing : 0 .. 2, payload : 1 .. maxStreamUnitWrite]

EncryptionMethods == {"plain", "aes-256-gcm", "aes-128-gcm", "chacha20-poly1305"}
TagLen(o) == IF o.method = "plain" THEN salsa20NonceSize ELSE 16

(* Mutant: the tag is not counted. *)
MaxPad_NoTag(o, f) == IF f.seq < padFirstNFrames THEN maxExtraLen ELSE 0

(* padLen is drawn from 0 .. MaxPad. *)
MaxPad(o, f) == IF f.seq < padFirstNFrames THEN maxExtraLen - TagLen(o) ELSE 0

obfuscate(o, f, padLen) ==
  IF f.payload = 0 THEN Fail
  ELSE [size |-> frameHeaderLength + f.payload + padLen + TagLen(o),
        extra |-> (padLen + TagLen(o)) % 256, under |-> o, frame |-> f]

(* With another obfuscator's key the header is noise.  An AEAD refuses the *)
(* message then; the plain method may take it for a frame.                 *)
deobfuscate(o, m) ==
  LET useful == m.size - frameHeaderLength - m.extra
  IN IF m.size < frameHeaderLength + salsa20NonceSize THEN Fail
     ELSE IF o # m.under THEN IF o.method = "plain" THEN Noise ELSE Fail
     ELSE IF m.size < frameHeaderLength + m.extra THEN Fail
     ELSE [m.frame EXCEPT !.payload = useful]

(* TLSConn.Write and Read, and switchboard.deplex's buffer: a message goes *)
(* over in one record and comes back in one Read.                          *)
Transmits(size) == size <= 16384 + 256 /\ size <= connReceiveBufferSize
=============================================================================
