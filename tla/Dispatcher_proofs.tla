-------------------------- MODULE Dispatcher_proofs --------------------------
(***************************************************************************)
(* What the dispatcher does for any number of connections, any packets,    *)
(* any names, keys and frames, any tolerance and any number of rounds of   *)
(* the cleaner: a random passes at most once between two rounds; what a    *)
(* client put into its first packet is what the server acts on; each end   *)
(* of a connection understands the other's frames; a visitor's bytes all   *)
(* get to the web server.                                                  *)
(*                                                                         *)
(* The first part is about sequences of bytes put together and cut again,  *)
(* the second about the messages of Wire, the third about packets, the     *)
(* fourth about replays and the last about the state of the dispatches.    *)
(***************************************************************************)
EXTENDS Dispatcher, TLAPS

(* s is a sequence of n bytes. *)
Block(s, n) == s = [i \in 1 .. n |-> s[i]]

(* s, of n bytes, has p, of l bytes, at offset k. *)
Holds(s, n, k, p, l) ==
  /\ Block(s, n) /\ Block(p, l)
  /\ k + l <= n
  /\ \A i \in 1 .. l : s[k + i] = p[i]

(* A block is a sequence. *)
LEMMA BlockSeq ==
  ASSUME NEW s, NEW n \in Nat, Block(s, n), NEW S, \A i \in 1 .. n : s[i] \in S
  PROVE  s \in Seq(S) /\ Len(s) = n
<1>1. s = [i \in 1 .. n |-> s[i]]
  BY Zenon DEF Block
<1>2. [i \in 1 .. n |-> s[i]] \in Seq(S)
  BY ONLY n \in Nat, \A i \in 1 .. n : s[i] \in S
<1>3. Len([i \in 1 .. n |-> s[i]]) = n
  BY ONLY n \in Nat
<1> QED
  BY Zenon, <1>1, <1>2, <1>3

(* The length of a block. *)
LEMMA BlockLen ==
  ASSUME NEW s, NEW n \in Nat, Block(s, n)
  PROVE  Len(s) = n
<1>1. \A i \in 1 .. n : s[i] \in {s[j] : j \in 1 .. n}
  BY Zenon
<1> QED
  BY Zenon, <1>1, BlockSeq

(* A sequence is a block of its length. *)
LEMMA SeqBlock ==
  ASSUME NEW S, NEW s \in Seq(S)
  PROVE  Block(s, Len(s)) /\ Len(s) \in Nat
BY DEF Block

(* Two blocks are sequences over one alphabet. *)
LEMMA OneAlphabet ==
  ASSUME NEW s, NEW t, NEW n \in Nat, NEW m \in Nat, Block(s, n), Block(t, m)
  PROVE  \E S : s \in Seq(S) /\ t \in Seq(S)
<1> DEFINE S == {s[i] : i \in 1 .. n} \cup {t[i] : i \in 1 .. m}
<1>1. (\A i \in 1 .. n : s[i] \in S) /\ (\A i \in 1 .. m : t[i] \in S)
  BY Zenon
<1> HIDE DEF S
<1> QED
  BY Zenon, <1>1, BlockSeq

(* Concatenation of sequences over one alphabet. *)
LEMMA SeqJoin ==
  ASSUME NEW S, NEW s \in Seq(S), NEW t \in Seq(S)
  PROVE  /\ s \o t \in Seq(S) /\ Len(s \o t) = Len(s) + Len(t)
         /\ \A i \in 1 .. Len(s) : (s \o t)[i] = s[i]
         /\ \A i \in 1 .. Len(t) : (s \o t)[Len(s) + i] = t[i]
OBVIOUS

(* A slice of a sequence. *)
LEMMA SeqSlice ==
  ASSUME NEW S, NEW s \in Seq(S), NEW k \in Nat, NEW l \in Nat, k + l <= Len(s)
  PROVE  /\ Slice(s, k, k + l) \in Seq(S) /\ Len(Slice(s, k, k + l)) = l
         /\ \A i \in 1 .. l : Slice(s, k, k + l)[i] = s[k + i]
BY DEF Slice

(* The concatenation of two blocks is a block. *)
LEMMA Join ==
  ASSUME NEW s, NEW t, NEW n \in Nat, NEW m \in Nat, Block(s, n), Block(t, m)
  PROVE  Block(s \o t, n + m)
<1>1. PICK S : s \in Seq(S) /\ t \in Seq(S)
  BY Zenon, OneAlphabet
<1>2. Len(s) = n /\ Len(t) = m
  BY Zenon, BlockLen
<1>3. s \o t \in Seq(S) /\ Len(s \o t) = Len(s) + Len(t)
  BY ONLY <1>1, SeqJoin
<1> QED
  BY Zenon, <1>2, <1>3, SeqBlock

(* It begins with the first of them. *)
LEMMA JoinFront ==
  ASSUME NEW s, NEW t, NEW n \in Nat, NEW m \in Nat, Block(s, n), Block(t, m), NEW i \in 1 .. n
  PROVE  (s \o t)[i] = s[i]
<1>1. PICK S : s \in Seq(S) /\ t \in Seq(S)
  BY Zenon, OneAlphabet
<1>2. Len(s) = n /\ Len(t) = m
  BY Zenon, BlockLen
<1>3. \A j \in 1 .. Len(s) : (s \o t)[j] = s[j]
  BY ONLY <1>1, SeqJoin
<1> QED
  BY Zenon, <1>2, <1>3

(* A concatenation holds its first part at its start. *)
LEMMA HoldsFirst ==
  ASSUME NEW s, NEW t, NEW n \in Nat, NEW m \in Nat, Block(s, n), Block(t, m)
  PROVE  Holds(s \o t, n + m, 0, s, n)
<1>1. 0 + n <= n + m /\ \A i \in 1 .. n : 0 + i = i
  OBVIOUS
<1>2. Block(s \o t, n + m)
  BY Zenon, Join
<1>3. \A i \in 1 .. n : (s \o t)[i] = s[i]
  BY Zenon, JoinFront
<1>4. \A i \in 1 .. n : (s \o t)[0 + i] = s[i]
  BY Zenon, <1>1, <1>3
<1> QED
  BY Zenon, <1>1, <1>2, <1>4 DEF Holds

(* It holds its second part behind the first. *)
LEMMA HoldsLast ==
  ASSUME NEW s, NEW t, NEW n \in Nat, NEW m \in Nat, Block(s, n), Block(t, m)
  PROVE  Holds(s \o t, n + m, n, t, m)
<1>1. PICK S : s \in Seq(S) /\ t \in Seq(S)
  BY Zenon, OneAlphabet
<1>2. Len(s) = n /\ Len(t) = m
  BY Zenon, BlockLen
<1>3. \A i \in 1 .. Len(t) : (s \o t)[Len(s) + i] = t[i]
  BY ONLY <1>1, SeqJoin
<1>4. \A i \in 1 .. m : (s \o t)[n + i] = t[i]
  BY Zenon, <1>2, <1>3
<1>5. n + m <= n + m
  OBVIOUS
<1>6. Block(s \o t, n + m)
  BY Zenon, Join
<1> QED
  BY Zenon, <1>4, <1>5, <1>6 DEF Holds

(* What a block holds, it holds with more bytes behind it. *)
LEMMA StillHolds ==
  ASSUME NEW s, NEW t, NEW n \in Nat, NEW m \in Nat, NEW k \in Nat, NEW p, NEW l \in Nat,
         Holds(s, n, k, p, l), Block(t, m)
  PROVE  Holds(s \o t, n + m, k, p, l)
<1>1. /\ k + l <= n /\ \A i \in 1 .. l : s[k + i] = p[i]
      /\ Block(s, n) /\ Block(p, l)
  BY Zenon DEF Holds
<1>2. k + l <= n + m /\ \A i \in 1 .. l : k + i \in 1 .. n
  BY ONLY <1>1, n \in Nat, m \in Nat, k \in Nat, l \in Nat
<1>3. Block(s \o t, n + m)
  BY Zenon, <1>1, Join
<1>4. \A i \in 1 .. n : (s \o t)[i] = s[i]
  BY Zenon, <1>1, JoinFront
<1> QED
  BY Zenon, <1>1, <1>2, <1>3, <1>4 DEF Holds

(* Blocks with the same bytes are equal. *)
LEMMA SameBytes ==
  ASSUME NEW s, NEW t, NEW n \in Nat, Block(s, n), Block(t, n), \A i \in 1 .. n : s[i] = t[i]
  PROVE  s = t
<1>1. [i \in 1 .. n |-> s[i]] = [i \in 1 .. n |-> t[i]]
  BY Zenon
<1> QED
  BY Zenon, <1>1 DEF Block

(* A slice of a block, and the bytes in it. *)
LEMMA SliceBlock ==
  ASSUME NEW s, NEW n \in Nat, NEW k \in Nat, NEW l \in Nat, Block(s, n), k + l <= n
  PROVE  Holds(s, n, k, Slice(s, k, k + l), l)
<1>2. PICK S : s \in Seq(S)
  BY Zenon, OneAlphabet
<1>3. Len(s) = n
  BY Zenon, BlockLen
<1>4. k + l <= Len(s)
  BY Zenon, <1>3
<1>5. /\ Slice(s, k, k + l) \in Seq(S) /\ Len(Slice(s, k, k + l)) = l
      /\ \A i \in 1 .. l : Slice(s, k, k + l)[i] = s[k + i]
  BY Zenon, <1>2, <1>4, SeqSlice
<1>6. Block(Slice(s, k, k + l), l)
  BY Zenon, <1>5, SeqBlock
<1> QED
  BY Zenon, <1>5, <1>6 DEF Holds

(* What a block holds is a slice of it. *)
LEMMA HeldSlice ==
  ASSUME NEW s, NEW n \in Nat, NEW k \in Nat, NEW p, NEW l \in Nat, Holds(s, n, k, p, l)
  PROVE  Slice(s, k, k + l) = p
<1>1. /\ k + l <= n /\ \A i \in 1 .. l : s[k + i] = p[i]
      /\ Block(s, n) /\ Block(p, l)
  BY Zenon DEF Holds
<1>2. Holds(s, n, k, Slice(s, k, k + l), l)
  BY Zenon, <1>1, SliceBlock
<1>3. /\ \A i \in 1 .. l : s[k + i] = Slice(s, k, k + l)[i]
      /\ Block(Slice(s, k, k + l), l)
  BY Zenon, <1>2 DEF Holds
<1> QED
  BY Zenon, <1>1, <1>3, SameBytes

(* s is put together from the fields of a plaintext, with their lengths. *)
InFields(s, p1, p2, p3, p4, p5, p6, p7) ==
  /\ Block(p1, 16) /\ Block(p2, 12) /\ Block(p3, 1) /\ Block(p4, 8) /\ Block(p5, 4)
  /\ Block(p6, 1) /\ Block(p7, 6)
  /\ s = p1 \o p2 \o p3 \o p4 \o p5 \o p6 \o p7

(* The plaintext of the authentication payload, cut as decryptClientInfo   *)
(* cuts it.                                                                *)
LEMMA PlaintextCuts ==
  ASSUME NEW s, NEW p1, NEW p2, NEW p3, NEW p4, NEW p5, NEW p6, NEW p7,
         InFields(s, p1, p2, p3, p4, p5, p6, p7)
  PROVE  /\ Block(s, 48)
         /\ Slice(s, 0, 16) = p1 /\ Slice(s, 16, 28) = p2 /\ Slice(s, 28, 29) = p3
         /\ Slice(s, 29, 37) = p4 /\ Slice(s, 37, 41) = p5 /\ Slice(s, 41, 42) = p6
<1> USE DEF InFields
<1>1. Block(p1 \o p2, 28) /\ Holds(p1 \o p2, 28, 0, p1, 16) /\ Holds(p1 \o p2, 28, 16, p2, 12)
  BY Join, HoldsFirst, HoldsLast
<1>3. PICK q3 : q3 = p1 \o p2 \o p3
  BY Zenon
<1>4. /\ Block(q3, 29) /\ Holds(q3, 29, 0, p1, 16) /\ Holds(q3, 29, 16, p2, 12)
      /\ Holds(q3, 29, 28, p3, 1)
  BY <1>1, <1>3, Join, HoldsLast, StillHolds
<1>5. PICK q4 : q4 = q3 \o p4
  BY Zenon
<1>6. /\ Block(q4, 37) /\ Holds(q4, 37, 0, p1, 16) /\ Holds(q4, 37, 16, p2, 12)
      /\ Holds(q4, 37, 28, p3, 1) /\ Holds(q4, 37, 29, p4, 8)
  BY <1>4, <1>5, Join, HoldsLast, StillHolds
<1>7. PICK q5 : q5 = q4 \o p5
  BY Zenon
<1>8. /\ Block(q5, 41) /\ Holds(q5, 41, 0, p1, 16) /\ Holds(q5, 41, 16, p2, 12)
      /\ Holds(q5, 41, 28, p3, 1) /\ Holds(q5, 41, 29, p4, 8) /\ Holds(q5, 41, 37, p5, 4)
  BY <1>6, <1>7, Join, HoldsLast, StillHolds
<1>9. PICK q6 : q6 = q5 \o p6
  BY Zenon
<1>10. /\ Block(q6, 42) /\ Holds(q6, 42, 0, p1, 16) /\ Holds(q6, 42, 16, p2, 12)
       /\ Holds(q6, 42, 28, p3, 1) /\ Holds(q6, 42, 29, p4, 8) /\ Holds(q6, 42, 37, p5, 4)
       /\ Holds(q6, 42, 41, p6, 1)
  BY <1>8, <1>9, Join, HoldsLast, StillHolds
<1>11. s = q6 \o p7
  BY Zenon, <1>3, <1>5, <1>7, <1>9
<1>12. /\ Block(s, 48) /\ Holds(s, 48, 0, p1, 16) /\ Holds(s, 48, 16, p2, 12)
       /\ Holds(s, 48, 28, p3, 1) /\ Holds(s, 48, 29, p4, 8) /\ Holds(s, 48, 37, p5, 4)
       /\ Holds(s, 48, 41, p6, 1)
  BY <1>10, <1>11, Join, HoldsLast, StillHolds
<1> QED
  BY <1>12, HeldSlice

-----------------------------------------------------------------------------
(* The messages of Wire. *)

(* Bytes and NULs are blocks. *)
LEMMA BytesBlock ==
  ASSUME NEW x, NEW n \in Nat
  PROVE  Block(Bytes(x, n), n) /\ \A i \in 1 .. n : Bytes(x, n)[i] = <<x, i>>
BY Zenon DEF Bytes, Block

(* NULs are a block. *)
LEMMA NULsBlock ==
  ASSUME NEW n \in Nat
  PROVE  Block(NULs(n), n) /\ \A i \in 1 .. n : NULs(n)[i] = NUL
BY Zenon DEF NULs, Block

(* The first byte of a block names what it represents. *)
LEMMA FirstByte ==
  ASSUME NEW x, NEW n \in Nat \ {0}
  PROVE  Bytes(x, n)[1] = <<x, 1>> /\ Bytes(x, n)[1][1] = x
<1>1. Bytes(x, n)[1] = <<x, 1>>
  BY DEF Bytes
<1> QED
  BY <1>1

(* The two halves of a ciphertext, put together again. *)
LEMMA Rejoined ==
  ASSUME NEW c, Block(c, 64)
  PROVE  Slice(c, 0, 32) \o Slice(c, 32, 64) = c
<1>1. Holds(c, 64, 0, Slice(c, 0, 32), 32) /\ Holds(c, 64, 32, Slice(c, 32, 64), 32)
  <2>1. Holds(c, 64, 0, Slice(c, 0, 0 + 32), 32) /\ Holds(c, 64, 32, Slice(c, 32, 32 + 32), 32)
    BY SliceBlock
  <2> QED
    BY <2>1
<1>2. PICK s, t : s = Slice(c, 0, 32) /\ t = Slice(c, 32, 64)
  BY Zenon
<1>3. /\ Block(s, 32) /\ \A i \in 1 .. 32 : c[0 + i] = s[i]
      /\ Block(t, 32) /\ \A i \in 1 .. 32 : c[32 + i] = t[i]
  BY Zenon, <1>1, <1>2 DEF Holds
<1>4. Block(s \o t, 64) /\ Holds(s \o t, 64, 32, t, 32)
  BY <1>3, Join, HoldsLast
<1>5. ASSUME NEW i \in 1 .. 64 PROVE (s \o t)[i] = c[i]
  <2>0. 32 \in Nat
    BY Zenon
  <2>1. CASE i <= 32
    <3>1. i \in 1 .. 32 /\ 0 + i = i
      BY ONLY <2>1, i \in 1 .. 64
    <3>2. (s \o t)[i] = s[i]
      BY Zenon, <1>3, <2>0, <3>1, JoinFront
    <3>3. c[0 + i] = s[i]
      BY Zenon, <1>3, <3>1
    <3> QED
      BY Zenon, <3>1, <3>2, <3>3
  <2>2. CASE ~(i <= 32)
    <3>1. PICK j \in 1 .. 32 : i = 32 + j
      <4>1. i - 32 \in 1 .. 32 /\ i = 32 + (i - 32)
        BY ONLY <2>2, i \in 1 .. 64
      <4> QED
        BY Zenon, <4>1
    <3>2. (s \o t)[32 + j] = t[j]
      BY Zenon, <1>4 DEF Holds
    <3>3. c[32 + j] = t[j]
      BY Zenon, <1>3
    <3> QED
      BY Zenon, <3>1, <3>2, <3>3
  <2> QED
    BY Zenon, <2>1, <2>2
<1>6. s \o t = c
  BY Zenon, <1>4, <1>5, SameBytes
<1> QED
  BY Zenon, <1>2, <1>6

(* AES-GCM opens what it sealed. *)
LEMMA Unsealed ==
  ASSUME NEW nonce, NEW secret, NEW plain, Len(plain) \in Nat
  PROVE  AESGCMDecrypt(nonce, secret, AESGCMEncrypt(nonce, secret, plain)) = plain
<1>1. PICK x : x = <<"sealed", nonce, secret, plain>>
  BY Zenon
<1>2. PICK c : c = Bytes(x, Len(plain) + 16)
  BY Zenon
<1>3. AESGCMEncrypt(nonce, secret, plain) = c
  BY Zenon, <1>1, <1>2 DEF AESGCMEncrypt
<1>4. Len(plain) + 16 \in Nat \ {0}
  OBVIOUS
<1>5. c[1][1] = x
  BY Zenon, <1>2, <1>4, FirstByte
<1>6. x[1] = "sealed" /\ x[2] = nonce /\ x[3] = secret /\ x[4] = plain
  BY Zenon, <1>1
<1>7. Opens(x, nonce, secret, c)
  BY Zenon, <1>2, <1>6 DEF Opens
<1> QED
  BY Zenon, <1>3, <1>5, <1>6, <1>7 DEF AESGCMDecrypt

(* What is not sealed is not opened. *)
LEMMA NotSealed ==
  ASSUME NEW nonce, NEW secret, NEW r
  PROVE  AESGCMDecrypt(nonce, secret, Bytes(<<"noise", r>>, 64)) = Fail
<1>1. PICK x : x = <<"noise", r>>
  BY Zenon
<1>2. Bytes(x, 64)[1][1] = x
  BY FirstByte
<1>3. x[1] # "sealed"
  BY Zenon, <1>1
<1> QED
  BY Zenon, <1>1, <1>2, <1>3 DEF AESGCMDecrypt, Opens

(* The header "hidden" is cut where it was joined. *)
LEMMA HiddenCuts ==
  ASSUME NEW p, NEW c, Block(p, 32), Block(c, 64)
  PROVE  Slice(p \o c, 0, 32) = p /\ Slice(p \o c, 32, 96) = c /\ Len(p \o c) = 96
<1>1. Holds(p \o c, 96, 0, p, 32) /\ Holds(p \o c, 96, 32, c, 64)
  BY HoldsFirst, HoldsLast
<1>2. Block(p \o c, 96)
  BY Join
<1>3. Slice(p \o c, 0, 32) = p /\ Slice(p \o c, 32, 96) = c
  BY <1>1, HeldSlice
<1>4. PICK n \in Nat : n = 96
  OBVIOUS
<1>5. Len(p \o c) = n
  <2>1. Block(p \o c, n)
    BY ONLY <1>2, <1>4
  <2> QED
    BY Zenon, <2>1, BlockLen
<1>6. Len(p \o c) = 96
  BY ONLY <1>4, <1>5
<1> QED
  BY ONLY <1>3, <1>6

(* s is put together from the fields of a ServerHello. *)
InServerHello(s, p1, p2, p3, p4, p5, p6, p7, p8, p9, p10, p11, p12) ==
  /\ Block(p1, 1) /\ Block(p2, 3) /\ Block(p3, 2) /\ Block(p4, 32) /\ Block(p5, 1)
  /\ Block(p6, 32) /\ Block(p7, 2) /\ Block(p8, 1) /\ Block(p9, 2) /\ Block(p10, 8)
  /\ Block(p11, 32) /\ Block(p12, 6)
  /\ s = p1 \o p2 \o p3 \o p4 \o p5 \o p6 \o p7 \o p8 \o p9 \o p10 \o p11 \o p12

(* The server's ServerHello, cut as DirectTLS.Handshake cuts it. *)
LEMMA ServerHelloCuts ==
  ASSUME NEW s, NEW p1, NEW p2, NEW p3, NEW p4, NEW p5, NEW p6, NEW p7, NEW p8, NEW p9,
         NEW p10, NEW p11, NEW p12,
         InServerHello(s, p1, p2, p3, p4, p5, p6, p7, p8, p9, p10, p11, p12)
  PROVE  Slice(s, 6, 38) = p4 /\ Slice(s, 84, 116) = p11
<1> USE DEF InServerHello
<1>1. PICK q : q = p1 \o p2 \o p3
  BY Zenon
<1>2. Block(p1 \o p2, 4)
  BY Join
<1>3. Block(q, 6)
  BY <1>1, <1>2, Join
<1>4. PICK q4 : q4 = q \o p4
  BY Zenon
<1>5. Block(q4, 38) /\ Holds(q4, 38, 6, p4, 32)
  BY <1>3, <1>4, Join, HoldsLast
<1>6. PICK q5 : q5 = q4 \o p5
  BY Zenon
<1>7. Block(q5, 39) /\ Holds(q5, 39, 6, p4, 32)
  BY <1>5, <1>6, Join, StillHolds
<1>8. PICK q6 : q6 = q5 \o p6
  BY Zenon
<1>9. Block(q6, 71) /\ Holds(q6, 71, 6, p4, 32)
  BY <1>7, <1>8, Join, StillHolds
<1>10. PICK q7 : q7 = q6 \o p7
  BY Zenon
<1>11. Block(q7, 73) /\ Holds(q7, 73, 6, p4, 32)
  BY <1>9, <1>10, Join, StillHolds
<1>12. PICK q8 : q8 = q7 \o p8
  BY Zenon
<1>13. Block(q8, 74) /\ Holds(q8, 74, 6, p4, 32)
  BY <1>11, <1>12, Join, StillHolds
<1>14. PICK q9 : q9 = q8 \o p9
  BY Zenon
<1>15. Block(q9, 76) /\ Holds(q9, 76, 6, p4, 32)
  BY <1>13, <1>14, Join, StillHolds
<1>16. PICK q10 : q10 = q9 \o p10
  BY Zenon
<1>17. Block(q10, 84) /\ Holds(q10, 84, 6, p4, 32)
  BY <1>15, <1>16, Join, StillHolds
<1>18. PICK q11 : q11 = q10 \o p11
  BY Zenon
<1>19. Block(q11, 116) /\ Holds(q11, 116, 6, p4, 32) /\ Holds(q11, 116, 84, p11, 32)
  BY <1>17, <1>18, Join, HoldsLast, StillHolds
<1>20. s = q11 \o p12
  BY Zenon, <1>1, <1>4, <1>6, <1>8, <1>10, <1>12, <1>14, <1>16, <1>18
<1>21. Holds(s, 122, 6, p4, 32) /\ Holds(s, 122, 84, p11, 32)
  BY <1>19, <1>20, StillHolds
<1> QED
  BY <1>21, HeldSlice

(* The name field, trimmed, is the name. *)
LEMMA NameTrimmed ==
  ASSUME NEW x, NEW l \in 0 .. 12, x[1] # "nul"
  PROVE  TrimNUL(NameField(Bytes(x, l))) = Bytes(x, l)
<1>1. PICK b : b = Bytes(x, l)
  BY Zenon
<1>2. l \in Nat /\ 12 - l \in Nat /\ l + (12 - l) = 12
  OBVIOUS
<1>3. Block(b, l) /\ \A i \in 1 .. l : b[i] = <<x, i>>
  BY Zenon, <1>1, <1>2, BytesBlock
<1>4. Len(b) = l
  BY Zenon, <1>2, <1>3, BlockLen
<1>5. PICK z : z = NULs(12 - l)
  BY Zenon
<1>6. Block(z, 12 - l) /\ \A i \in 1 .. 12 - l : z[i] = NUL
  BY Zenon, <1>2, <1>5, NULsBlock
<1>7. PICK f : f = NameField(b)
  BY Zenon
<1>8. /\ Block(f, 12) /\ \A i \in 1 .. l : f[i] = b[i]
      /\ \A i \in 1 .. 12 - l : f[l + i] = NUL
  <2>1. CASE l = 12
    <3>1. Slice(b, 0, 12) = b
      <4>1. Holds(b, 12, 0, b, 12)
        <5>1. 0 + 12 <= 12 /\ \A i \in 1 .. 12 : 0 + i = i
          OBVIOUS
        <5>2. \A i \in 1 .. 12 : b[0 + i] = b[i]
          BY Zenon, <5>1
        <5> QED
          BY Zenon, <1>3, <2>1, <5>1, <5>2 DEF Holds
      <4> QED
        BY <4>1, HeldSlice
    <3>2. f = b
      BY <1>4, <1>7, <2>1, <3>1 DEF NameField
    <3>3. 1 .. 12 - l = {}
      BY ONLY <2>1
    <3> QED
      BY Zenon, <1>3, <2>1, <3>2, <3>3
  <2>2. CASE l < 12
    <3>1. f = b \o z
      <4>1. ~(Len(b) >= 12) /\ 12 - Len(b) = 12 - l
        BY ONLY <1>4, <2>2, l \in 0 .. 12
      <4> QED
        BY Zenon, <1>5, <1>7, <4>1 DEF NameField
    <3>2. Holds(f, 12, 0, b, l) /\ Holds(f, 12, l, z, 12 - l)
      <4>1. Holds(b \o z, l + (12 - l), 0, b, l) /\ Holds(b \o z, l + (12 - l), l, z, 12 - l)
        BY Zenon, <1>2, <1>3, <1>6, HoldsFirst, HoldsLast
      <4> QED
        BY Zenon, <1>2, <3>1, <4>1
    <3>3. \A i \in 1 .. l : 0 + i = i
      OBVIOUS
    <3> QED
      BY Zenon, <1>6, <3>2, <3>3 DEF Holds
  <2> QED
    BY <2>1, <2>2
<1>9. \A i \in 1 .. 12 : f[i] # NUL <=> i <= l
  <2> SUFFICES ASSUME NEW i \in 1 .. 12 PROVE f[i] # NUL <=> i <= l
    BY Zenon
  <2>1. CASE i <= l
    <3>1. i \in 1 .. l
      BY ONLY <2>1, i \in 1 .. 12, l \in 0 .. 12
    <3>2. f[i] = <<x, i>>
      BY Zenon, <1>3, <1>8, <3>1
    <3>3. x # <<"nul", 0>>
      OBVIOUS
    <3>4. <<x, i>> # NUL
      BY ONLY <3>3 DEF NUL
    <3> QED
      BY Zenon, <2>1, <3>2, <3>4
  <2>2. CASE ~(i <= l)
    <3>1. PICK j \in 1 .. 12 - l : i = l + j
      <4>1. i - l \in 1 .. 12 - l /\ i = l + (i - l)
        BY ONLY <2>2, i \in 1 .. 12, l \in 0 .. 12
      <4> QED
        BY Zenon, <4>1
    <3>2. f[i] = NUL
      BY Zenon, <1>8, <3>1
    <3> QED
      BY Zenon, <2>2, <3>2
  <2> QED
    BY Zenon, <2>1, <2>2
<1>10. Kept(f) = 1 .. l
  <2>1. DOMAIN f = 1 .. 12
    BY Zenon, <1>8 DEF Block
  <2>2. {i \in 1 .. 12 : f[i] # NUL} = {i \in 1 .. 12 : i <= l}
    BY Zenon, <1>9
  <2>3. {i \in 1 .. 12 : i <= l} = 1 .. l
    BY ONLY l \in 0 .. 12
  <2> QED
    BY Zenon, <2>1, <2>2, <2>3 DEF Kept
<1>11. TrimNUL(f) = b
  <2>1. CASE l = 0
    <3>1. 1 .. l = {} 
      BY ONLY <2>1
    <3>2. b = <<>>
      <4>1. [i \in 1 .. 0 |-> b[i]] = <<>>
        OBVIOUS
      <4> QED
        BY Zenon, <1>3, <2>1, <4>1 DEF Block
    <3> QED
      BY Zenon, <1>10, <3>1, <3>2 DEF TrimNUL
  <2>2. CASE l # 0
    <3>1. 1 .. l # {} /\ Min(1 .. l) = 1 /\ Max(1 .. l) = l
      BY ONLY <2>2, l \in 0 .. 12 DEF Min, Max
    <3>2. TrimNUL(f) = SubSeq(f, 1, l)
      BY Zenon, <1>10, <3>1 DEF TrimNUL
    <3>3. Holds(f, 12, 0, b, l)
      <4>1. 0 + l <= 12 /\ \A i \in 1 .. l : 0 + i = i
        BY ONLY l \in 0 .. 12
      <4>2. \A i \in 1 .. l : f[0 + i] = b[i]
        BY Zenon, <1>8, <4>1
      <4> QED
        BY Zenon, <1>3, <1>8, <4>1, <4>2 DEF Holds
    <3>4. Slice(f, 0, 0 + l) = b
      BY Zenon, <3>3, <1>2, HeldSlice
    <3>5. 0 + 1 = 1 /\ 0 + l = l
      OBVIOUS
    <3> QED
      BY Zenon, <3>2, <3>4, <3>5 DEF Slice
  <2> QED
    BY Zenon, <2>1, <2>2
<1> QED
  BY Zenon, <1>1, <1>7, <1>11

(* The name field has twelve bytes, however long the name is. *)
LEMMA NameFieldBlock ==
  ASSUME NEW b, NEW l \in Nat, Block(b, l)
  PROVE  Block(NameField(b), 12)
<1>1. Len(b) = l
  BY Zenon, BlockLen
<1>2. CASE l >= 12
  <2>1. 0 + 12 <= l /\ 0 \in Nat /\ 12 \in Nat /\ 0 + 12 = 12
    BY ONLY <1>2, l \in Nat
  <2>2. Holds(b, l, 0, Slice(b, 0, 0 + 12), 12)
    BY Zenon, <2>1, SliceBlock
  <2>3. Block(Slice(b, 0, 12), 12)
    BY Zenon, <2>1, <2>2 DEF Holds
  <2> QED
    BY Zenon, <1>1, <1>2, <2>3 DEF NameField
<1>3. CASE ~(l >= 12)
  <2>1. 12 - l \in Nat /\ l + (12 - l) = 12
    BY ONLY <1>3, l \in Nat
  <2>2. Block(NULs(12 - l), 12 - l)
    BY Zenon, <2>1, NULsBlock
  <2>3. Block(b \o NULs(12 - l), l + (12 - l))
    BY Zenon, <2>1, <2>2, Join
  <2> QED
    BY Zenon, <1>1, <1>3, <2>1, <2>3 DEF NameField
<1> QED
  BY Zenon, <1>2, <1>3

(* What decryptClientInfo finds in the plaintext of a client. *)
LEMMA FieldsOfPlaintext ==
  ASSUME NEW a, IsName(a.method)
  PROVE  /\ Len(Plaintext(a)) = 48
         /\ Plaintext(a) # Fail =>
              /\ Fields(Plaintext(a)).UID = UID(a.uid)
              /\ Fields(Plaintext(a)).SessionId = a.sid
              /\ Fields(Plaintext(a)).EncryptionMethod = a.enc
              /\ Fields(Plaintext(a)).Unordered = a.unordered
              /\ Fields(Plaintext(a)).Time = a.time
              /\ Len(a.method) <= 12 => Fields(Plaintext(a)).ProxyMethod = a.method
<1>1. PICK n : \E l \in Nat : a.method = Bytes(<<"name", n>>, l)
  <2>1. PICK v, m : v = ValueOf(a.method) /\ m = Len(a.method)
    BY Zenon
  <2>2. m \in Nat /\ a.method = Bytes(<<"name", v>>, m)
    BY Zenon, <2>1 DEF IsName, Name
  <2> QED
    BY Zenon, <2>2
<1>2. PICK l \in Nat, x \in {<<"name", n>>} : a.method = Bytes(x, l)
  BY Zenon, <1>1
<1>3. Block(a.method, l) /\ Len(a.method) = l
  <2>1. Block(Bytes(x, l), l)
    BY Zenon, BytesBlock
  <2> QED
    BY Zenon, <1>2, <2>1, BlockLen
<1>4. PICK p1, p2, p3, p4, p5, p6, p7 :
        /\ p1 = UID(a.uid) /\ p2 = NameField(a.method) /\ p3 = Bytes(<<"enc", a.enc>>, 1)
        /\ p4 = Bytes(<<"time", a.time>>, 8) /\ p5 = Bytes(<<"sid", a.sid>>, 4)
        /\ p6 = Bytes(<<"flag", a.unordered>>, 1) /\ p7 = NULs(6)
  BY Zenon
<1>5. 16 \in Nat /\ 12 \in Nat /\ 1 \in Nat /\ 8 \in Nat /\ 4 \in Nat /\ 6 \in Nat /\ 48 \in Nat
  BY Zenon
<1>6. /\ Block(p1, 16) /\ Block(p2, 12) /\ Block(p3, 1) /\ Block(p4, 8)
      /\ Block(p5, 4) /\ Block(p6, 1) /\ Block(p7, 6)
  BY Zenon, <1>3, <1>4, <1>5, BytesBlock, NULsBlock, NameFieldBlock DEF UID
<1>7. PICK s : s = Plaintext(a)
  BY Zenon
<1>8. s = p1 \o p2 \o p3 \o p4 \o p5 \o p6 \o p7
  BY Zenon, <1>4, <1>7 DEF Plaintext
<1>9. /\ Block(s, 48)
      /\ Slice(s, 0, 16) = p1 /\ Slice(s, 16, 28) = p2 /\ Slice(s, 28, 29) = p3
      /\ Slice(s, 29, 37) = p4 /\ Slice(s, 37, 41) = p5 /\ Slice(s, 41, 42) = p6
  <2>1. InFields(s, p1, p2, p3, p4, p5, p6, p7)
    BY Zenon, <1>6, <1>8 DEF InFields
  <2> QED
    BY Zenon, <2>1, PlaintextCuts
<1>10. ASSUME NEW k, NEW v, NEW i \in Nat \ {0} PROVE ValueOf(Bytes(<<k, v>>, i)) = v
  <2>1. Bytes(<<k, v>>, i)[1][1] = <<k, v>>
    BY Zenon, FirstByte
  <2>2. <<k, v>>[2] = v
    BY Zenon
  <2> QED
    BY Zenon, <2>1, <2>2 DEF ValueOf
<1>11. 1 \in Nat \ {0} /\ 8 \in Nat \ {0} /\ 4 \in Nat \ {0}
  OBVIOUS
<1>12. ValueOf(p3) = a.enc /\ ValueOf(p4) = a.time /\ ValueOf(p5) = a.sid
       /\ ValueOf(p6) = a.unordered
  BY Zenon, <1>4, <1>10, <1>11
<1>13. Len(s) = 48
  BY Zenon, <1>5, <1>9, BlockLen
<1>14. ASSUME Len(a.method) <= 12 PROVE TrimNUL(p2) = a.method
  <2>1. l \in 0 .. 12
    BY ONLY <1>3, <1>14, l \in Nat
  <2>2. x[1] # "nul"
    BY ONLY <1>2
  <2> QED
    BY Zenon, <1>1, <1>2, <1>4, <2>1, <2>2, NameTrimmed
<1>15. ASSUME s # Fail
       PROVE  Fields(s) = [UID |-> p1, ProxyMethod |-> TrimNUL(p2),
                           EncryptionMethod |-> ValueOf(p3), Time |-> ValueOf(p4),
                           SessionId |-> ValueOf(p5), Unordered |-> ValueOf(p6)]
  BY Zenon, <1>9, <1>15 DEF Fields
<1>16. ASSUME s # Fail
       PROVE  /\ Fields(s).UID = p1 /\ Fields(s).ProxyMethod = TrimNUL(p2)
              /\ Fields(s).EncryptionMethod = ValueOf(p3) /\ Fields(s).Time = ValueOf(p4)
              /\ Fields(s).SessionId = ValueOf(p5) /\ Fields(s).Unordered = ValueOf(p6)
  BY <1>15, <1>16
<1> QED
  BY Zenon, <1>4, <1>7, <1>12, <1>13, <1>14, <1>16

(* The X25519 key share that parseKeyShare finds is the one that           *)
(* buildClientHello wrote, with any browser's ClientHello.                 *)
LEMMA KeyShareFound ==
  ASSUME NEW browser \in {"chrome", "firefox", "safari"}, NEW p,
         parseKeyShare(buildClientHello(browser, p).keyShares) # Fail
  PROVE  parseKeyShare(buildClientHello(browser, p).keyShares) = Slice(p.ciphertextWithTag, 32, 64)
<1>1. PICK ks : ks = KeyShares(browser)
  BY Zenon
<1>2. PICK k \in Nat : k \in DOMAIN ks /\ \A i \in DOMAIN ks : ks[i][1] = "x25519" => i = k
  <2>1. CASE browser = "chrome"
    <3>1. ks = <<<<"grease", 1>>, <<"mlkem768", 1216>>, <<"x25519", 32>>>>
      BY ONLY <1>1, <2>1 DEF KeyShares
    <3>2. 3 \in DOMAIN ks /\ \A i \in DOMAIN ks : ks[i][1] = "x25519" => i = 3
      BY ONLY <3>1
    <3> QED
      BY Zenon, <3>2
  <2>2. CASE browser = "firefox"
    <3>1. ks = <<<<"mlkem768", 1216>>, <<"x25519", 32>>, <<"p256", 65>>>>
      BY ONLY <1>1, <2>2 DEF KeyShares
    <3>2. 2 \in DOMAIN ks /\ \A i \in DOMAIN ks : ks[i][1] = "x25519" => i = 2
      BY ONLY <3>1
    <3> QED
      BY Zenon, <3>2
  <2>3. CASE browser = "safari"
    <3>1. ks = <<<<"grease", 1>>, <<"x25519", 32>>>>
      BY ONLY <1>1, <2>3 DEF KeyShares
    <3>2. 2 \in DOMAIN ks /\ \A i \in DOMAIN ks : ks[i][1] = "x25519" => i = 2
      BY ONLY <3>1
    <3> QED
      BY Zenon, <3>2
  <2> QED
    BY Zenon, <2>1, <2>2, <2>3
<1>3. PICK K, sh : /\ K = Slice(p.ciphertextWithTag, 32, 64)
                  /\ sh = [i \in DOMAIN ks |-> Share(ks, i, K)]
  BY Zenon
<1>4. buildClientHello(browser, p).keyShares = sh
  BY ONLY <1>1, <1>3 DEF buildClientHello
<1>5. PICK E : E = X25519Entries(sh)
  BY Zenon
<1>6. \A i \in E : i \in DOMAIN ks /\ ks[i][1] = "x25519"
  <2>1. \A i \in E : i \in DOMAIN sh /\ sh[i].group = "x25519"
    BY Zenon, <1>5 DEF X25519Entries
  <2>2. DOMAIN sh = DOMAIN ks /\ \A i \in DOMAIN ks : sh[i] = Share(ks, i, K)
    BY ONLY <1>3
  <2>3. \A i : Share(ks, i, K).group = ks[i][1]
    BY ONLY DEF Share
  <2> QED
    BY Zenon, <2>1, <2>2, <2>3
<1>7. E = {k}
  <2>1. E # {}
    BY Zenon, <1>4, <1>5 DEF parseKeyShare
  <2> QED
    BY Zenon, <1>2, <1>6, <2>1
<1>8. ks[k][1] = "x25519"
  BY Zenon, <1>6, <1>7
<1>9. \A x \in Nat : Min({x}) = x /\ Max({x}) = x
  BY DEF Min, Max
<1>10. LastX25519(ks) = k
  <2>1. {i \in DOMAIN ks : ks[i][1] = "x25519"} = {k}
    BY Zenon, <1>2, <1>8
  <2> QED
    BY Zenon, <1>9, <2>1 DEF LastX25519
<1>11. sh[k].data = K
  <2>1. sh[k] = Share(ks, k, K)
    BY ONLY <1>2, <1>3
  <2>2. Share(ks, k, K).data = IF k = LastX25519(ks) THEN K ELSE Bytes(<<"random">>, ks[k][2])
    BY ONLY DEF Share
  <2> QED
    BY Zenon, <1>10, <2>1, <2>2
<1>12. parseKeyShare(sh) = sh[k].data
  BY Zenon, <1>4, <1>5, <1>7, <1>9 DEF parseKeyShare
<1> QED
  BY Zenon, <1>3, <1>4, <1>11, <1>12

(* f1 and f2 are the fields of a ServerHello that carry a sealed key. *)
Spread(f1, f2, nonce, e, r) ==
  /\ Block(nonce, 12) /\ Block(e, 48) /\ Block(r, 4)
  /\ f1 = nonce \o Slice(e, 0, 20) /\ f2 = Slice(e, 20, 48) \o r

(* The two fields of a ServerHello hold the nonce and the sealed key. *)
LEMMA EncryptedCuts ==
  ASSUME NEW f1, NEW f2, NEW nonce, NEW e, NEW r, Spread(f1, f2, nonce, e, r)
  PROVE  /\ Block(f1, 32) /\ Block(f2, 32)
         /\ Slice(f1 \o f2, 0, 12) = nonce /\ Slice(f1 \o f2, 12, 60) = e
<1> USE DEF Spread
<1>2. PICK a, b : a = Slice(e, 0, 20) /\ b = Slice(e, 20, 48)
  BY Zenon
<1>3. Holds(e, 48, 0, a, 20) /\ Holds(e, 48, 20, b, 28)
  BY ONLY <1>2, Block(e, 48), SliceBlock
<1>4. Block(a, 20) /\ Block(b, 28)
  BY Zenon, <1>3 DEF Holds
<1>5. Block(f1, 32) /\ Block(f2, 32)
  BY ONLY <1>2, <1>4, Block(nonce, 12), Block(r, 4), f1 = nonce \o Slice(e, 0, 20),
          f2 = Slice(e, 20, 48) \o r, Join
<1>6. Holds(f1, 32, 0, nonce, 12) /\ Holds(f1, 32, 12, a, 20) /\ Holds(f2, 32, 0, b, 28)
  BY ONLY <1>2, <1>4, Block(nonce, 12), Block(r, 4), f1 = nonce \o Slice(e, 0, 20),
          f2 = Slice(e, 20, 48) \o r, HoldsFirst, HoldsLast
<1>7. PICK t : t = f1 \o f2
  BY Zenon
<1>8. /\ Block(t, 64) /\ Holds(t, 64, 0, nonce, 12)
      /\ Holds(t, 64, 12, a, 20) /\ Holds(t, 64, 32, f2, 32)
  BY ONLY <1>5, <1>6, <1>7, Join, StillHolds, HoldsLast
<1>9. ASSUME NEW i \in 1 .. 48 PROVE t[12 + i] = e[i]
  <2>1. CASE i <= 20
    <3>1. i \in 1 .. 20 /\ 0 + i = i
      BY ONLY <2>1, i \in 1 .. 48
    <3>2. t[12 + i] = a[i] /\ e[0 + i] = a[i]
      BY Zenon, <1>3, <1>8, <3>1 DEF Holds
    <3> QED
      BY Zenon, <3>1, <3>2
  <2>2. CASE ~(i <= 20)
    <3>1. PICK j \in 1 .. 28 : i = 20 + j
      <4>1. i - 20 \in 1 .. 28 /\ i = 20 + (i - 20)
        BY ONLY <2>2, i \in 1 .. 48
      <4> QED
        BY Zenon, <4>1
    <3>2. j \in 1 .. 32 /\ 12 + i = 32 + j /\ 0 + j = j
      BY ONLY <3>1
    <3>3. t[32 + j] = f2[j] /\ f2[0 + j] = b[j] /\ e[20 + j] = b[j]
      BY Zenon, <1>3, <1>6, <1>8, <3>1, <3>2 DEF Holds
    <3> QED
      BY Zenon, <3>1, <3>2, <3>3
  <2> QED
    BY Zenon, <2>1, <2>2
<1>10. 12 + 48 <= 64
  OBVIOUS
<1>11. Holds(t, 64, 12, e, 48)
  BY Zenon, <1>8, <1>9, <1>10 DEF Holds
<1>12. Slice(t, 0, 12) = nonce /\ Slice(t, 12, 60) = e
  BY ONLY <1>8, <1>11, HeldSlice
<1> QED
  BY Zenon, <1>5, <1>7, <1>12

(* DirectTLS.Handshake takes from the server's reply the key that          *)
(* TLS.makeResponder sealed.                                               *)
LEMMA KeyOverTLS ==
  ASSUME NEW sid, NEW secret, NEW nonce, NEW key, Block(sid, 32), Block(nonce, 12), Block(key, 32)
  PROVE  SessionKeyTLS(secret, ReplyTLS(sid, secret, nonce, key)) = key
<1>1. Len(key) = 32
  BY Zenon, BlockLen
<1>2. PICK e : e = AESGCMEncrypt(nonce, secret, key)
  BY Zenon
<1>3. Block(e, 48)
  <2>1. e = Bytes(<<"sealed", nonce, secret, key>>, 48)
    BY ONLY <1>1, <1>2 DEF AESGCMEncrypt
  <2>2. Block(Bytes(<<"sealed", nonce, secret, key>>, 48), 48)
    BY Zenon, BytesBlock
  <2> QED
    BY Zenon, <2>1, <2>2
<1>4. PICK r \in {Bytes(<<"random">>, 4)} : Block(r, 4)
  BY Zenon, BytesBlock
<1>5. PICK f1, f2 : f1 = nonce \o Slice(e, 0, 20) /\ f2 = Slice(e, 20, 48) \o r
  BY Zenon
<1>6. /\ Block(f1, 32) /\ Block(f2, 32)
      /\ Slice(f1 \o f2, 0, 12) = nonce /\ Slice(f1 \o f2, 12, 60) = e
  <2>1. Spread(f1, f2, nonce, e, r)
    BY Zenon, <1>3, <1>4, <1>5 DEF Spread
  <2> QED
    BY Zenon, <2>1, EncryptedCuts
<1>7. PICK h : h = composeServerHello(sid, nonce, e)
  BY Zenon
<1>8. PICK p1 \in {Bytes(<<"type">>, 1)}, p2 \in {Bytes(<<"length">>, 3)},
           p3 \in {Bytes(<<"version">>, 2)}, p5 \in {Bytes(<<"sidLength">>, 1)},
           p7 \in {Bytes(<<"suite">>, 2)}, p8 \in {Bytes(<<"compression">>, 1)},
           p9 \in {Bytes(<<"extLength">>, 2)}, p10 \in {Bytes(<<"keyShare">>, 8)},
           p12 \in {Bytes(<<"versions">>, 6)} : TRUE
  BY Zenon
<1>9. /\ Block(p1, 1) /\ Block(p2, 3) /\ Block(p3, 2) /\ Block(p5, 1) /\ Block(p7, 2)
      /\ Block(p8, 1) /\ Block(p9, 2) /\ Block(p10, 8) /\ Block(p12, 6)
  BY <1>8, BytesBlock
<1>10. InServerHello(h, p1, p2, p3, f1, p5, sid, p7, p8, p9, p10, f2, p12)
  <2>1. h = p1 \o p2 \o p3 \o f1 \o p5 \o sid \o p7 \o p8 \o p9 \o p10 \o f2 \o p12
    BY Zenon, <1>4, <1>5, <1>7, <1>8 DEF composeServerHello
  <2> QED
    BY Zenon, <1>6, <1>9, <2>1 DEF InServerHello
<1>11. Slice(h, 6, 38) = f1 /\ Slice(h, 84, 116) = f2
  BY ONLY <1>10, ServerHelloCuts
<1>12. PICK reply : reply = ReplyTLS(sid, secret, nonce, key)
  BY Zenon
<1>13. Len(reply) = 1 + 2 /\ reply[1] = h
  <2>1. reply = <<h, Bytes(<<"ChangeCipherSpec">>, 1), Bytes(<<"cert">>, 42)>>
    BY Zenon, <1>2, <1>7, <1>12 DEF ReplyTLS, composeReply
  <2> QED
    BY ONLY <2>1
<1>14. Encrypted(reply[1]) = f1 \o f2
  BY Zenon, <1>11, <1>13 DEF Encrypted
<1>15. SessionKeyTLS(secret, reply) = AESGCMDecrypt(nonce, secret, e)
  BY Zenon, <1>6, <1>13, <1>14 DEF SessionKeyTLS
<1>16. Len(key) \in Nat
  BY ONLY <1>1
<1> QED
  BY Zenon, <1>2, <1>12, <1>15, <1>16, Unsealed

(* WSOverTLS.Handshake takes from the server's reply the key that          *)
(* WebSocket.makeResponder sealed.                                         *)
LEMMA KeyOverWebSocket ==
  ASSUME NEW secret, NEW nonce, NEW key, Block(nonce, 12), Block(key, 32)
  PROVE  SessionKeyWebSocket(secret, ReplyWebSocket(secret, nonce, key)) = key
<1>1. Len(key) = 32
  BY Zenon, BlockLen
<1>2. PICK e : e = AESGCMEncrypt(nonce, secret, key)
  BY Zenon
<1>3. Block(e, 48)
  <2>1. e = Bytes(<<"sealed", nonce, secret, key>>, 48)
    BY ONLY <1>1, <1>2 DEF AESGCMEncrypt
  <2>2. Block(Bytes(<<"sealed", nonce, secret, key>>, 48), 48)
    BY Zenon, BytesBlock
  <2> QED
    BY Zenon, <2>1, <2>2
<1>4. PICK b : b = nonce \o e
  BY Zenon
<1>5. Block(b, 60) /\ Holds(b, 60, 0, nonce, 12) /\ Holds(b, 60, 12, e, 48)
  BY ONLY <1>3, <1>4, Block(nonce, 12), Join, HoldsFirst, HoldsLast
<1>6. Slice(b, 0, 12) = nonce /\ Slice(b, 12, 60) = e
  BY ONLY <1>5, HeldSlice
<1>7. Len(b) = 60
  <2>1. PICK n \in Nat : n = 60
    OBVIOUS
  <2>2. Block(b, n)
    BY ONLY <1>5, <2>1
  <2>3. Len(b) = n
    BY Zenon, <2>2, BlockLen
  <2> QED
    BY ONLY <2>1, <2>3
<1>8. PICK reply : reply = ReplyWebSocket(secret, nonce, key)
  BY Zenon
<1>9. reply[1] = b
  <2>1. reply = <<b>>
    BY Zenon, <1>2, <1>4, <1>8 DEF ReplyWebSocket
  <2> QED
    BY ONLY <2>1
<1>10. SessionKeyWebSocket(secret, reply) = AESGCMDecrypt(nonce, secret, e)
  BY Zenon, <1>6, <1>7, <1>9 DEF SessionKeyWebSocket
<1>11. Len(key) \in Nat
  BY ONLY <1>1
<1> QED
  BY Zenon, <1>2, <1>8, <1>10, <1>11, Unsealed

(* A frame that a stream may write, with any padding that obfuscate may    *)
(* draw, fits a record and the receiver's buffer, and deobfuscate gives it *)
(* back.                                                                   *)
LEMMA FrameKept ==
  ASSUME NEW o, NEW f \in Frame, NEW pad \in 0 .. MaxPad(o, f)
  PROVE  /\ Transmits(obfuscate(o, f, pad).size)
         /\ deobfuscate(o, obfuscate(o, f, pad)) = f
<1>1. PICK t : t = TagLen(o) /\ t \in {8, 16}
  BY Zenon DEF TagLen, salsa20NonceSize
<1>0. MsgOnWireSizeLimit \in Nat /\ \A k \in Nat : k <= MsgOnWireSizeLimit => Transmits(k)
  BY DEF MsgOnWireSizeLimit, Transmits, connReceiveBufferSize
<1>2. PICK n : n = f.payload /\ n \in Nat /\ 1 <= n /\ n + 14 + 255 <= MsgOnWireSizeLimit
  <2>1. maxStreamUnitWrite \in Int /\ maxStreamUnitWrite + 14 + 255 = MsgOnWireSizeLimit
    BY ONLY <1>0 DEF maxStreamUnitWrite, frameHeaderLength, maxExtraLen
  <2>2. f.payload \in 1 .. maxStreamUnitWrite
    BY Zenon DEF Frame
  <2>3. PICK n : n = f.payload /\ n \in 1 .. maxStreamUnitWrite
    BY Zenon, <2>2
  <2>4. n \in Nat /\ 1 <= n /\ n + 14 + 255 <= MsgOnWireSizeLimit
    BY ONLY <1>0, <2>1, <2>3
  <2> QED
    BY Zenon, <2>3, <2>4
<1>3. pad \in Nat /\ pad + t <= 255
  <2>1. MaxPad(o, f) \in {255 - t, 0}
    BY Zenon, <1>1 DEF MaxPad, maxExtraLen
  <2>2. MaxPad(o, f) \in Int /\ MaxPad(o, f) + t <= 255
    BY ONLY <1>1, <2>1
  <2> QED
    BY ONLY <1>1, <2>2, pad \in 0 .. MaxPad(o, f)
<1>4. PICK m : m = obfuscate(o, f, pad)
  BY Zenon
<1>5. m = [size |-> 14 + n + pad + t, extra |-> pad + t, under |-> o, frame |-> f]
  <2>1. (pad + t) % 256 = pad + t
    BY ONLY <1>1, <1>3
  <2>2. n # 0
    BY ONLY <1>2
  <2> QED
    BY Zenon, <1>1, <1>2, <1>4, <2>1, <2>2 DEF obfuscate, frameHeaderLength
<1>6. /\ m.size = 14 + n + pad + t /\ m.extra = pad + t /\ m.under = o /\ m.frame = f
  BY ONLY <1>5
<1>7. Transmits(m.size)
  <2>1. m.size \in Nat /\ m.size <= MsgOnWireSizeLimit
    BY ONLY <1>0, <1>1, <1>2, <1>3, <1>6, pad \in Nat
  <2> QED
    BY Zenon, <1>0, <2>1
<1>8. /\ m.size >= 14 + 8 /\ m.size >= 14 + m.extra /\ m.size - 14 - m.extra = n
      /\ m.size \in Nat /\ m.extra \in Nat
  BY ONLY <1>1, <1>2, <1>3, <1>6
<1>9. ~(m.size < 14 + 8) /\ ~(m.size < 14 + m.extra)
  BY ONLY <1>8
<1>10. deobfuscate(o, m) = [f EXCEPT !.payload = n]
  BY Zenon, <1>6, <1>8, <1>9 DEF deobfuscate, frameHeaderLength, salsa20NonceSize
<1>11. [f EXCEPT !.payload = n] = f
  BY Zenon, <1>2 DEF Frame
<1> QED
  BY Zenon, <1>4, <1>7, <1>10, <1>11
-----------------------------------------------------------------------------
(* First packets. *)

(* A table is the function it is made from. *)
LEMMA TableIs == ASSUME NEW f PROVE Table(f) = f
BY Zenon DEF Table

(* What AuthFirstPacket finds in a packet. *)
LEMMA ClientInfoIs == \A p \in Packets : ClientInfo[p] = InfoOf(processFirstPacket(p))
BY TableIs DEF ClientInfo

(* What the client of packet p tells the server. *)
Told(p) ==
  LET a == Attempt[p.attempt]
  IN [random |-> p.random, time |-> p.time, uid |-> a.uid, sid |-> a.sid,
      method |-> a.method, enc |-> a.enc, unordered |-> a.unordered]

(* The payload of a packet: a public key and 64 bytes. *)
LEMMA PayloadParts ==
  ASSUME NEW p \in Packets, NEW a, a = Attempt[p.attempt]
  PROVE  /\ Payload(p, a).randPubKey = PublicKey(p.random)
         /\ Block(PublicKey(p.random), 32)
         /\ Block(Payload(p, a).ciphertextWithTag, 64)
         /\ a.cloak => Payload(p, a).ciphertextWithTag =
                         AESGCMEncrypt(Slice(PublicKey(p.random), 0, 12),
                           SharedSecret(PublicKey(p.random)), Plaintext(Told(p)))
         /\ ~a.cloak => Payload(p, a).ciphertextWithTag = Bytes(<<"noise", p.random>>, 64)
<1>1. PICK k : k = PublicKey(p.random)
  BY Zenon
<1>2. Block(k, 32)
  BY Zenon, <1>1, BytesBlock DEF PublicKey
<1>3. CASE a.cloak
  <2>1. PICK c : c = AESGCMEncrypt(Slice(k, 0, 12), SharedSecret(k), Plaintext(Told(p)))
    BY Zenon
  <2>2. Told(p).random = p.random
    BY Zenon DEF Told
  <2>3. Payload(p, a) = makeAuthenticationPayload(Told(p))
    BY Zenon, <1>3 DEF Payload, Told
  <2>4. Payload(p, a) = [randPubKey |-> k, ciphertextWithTag |-> c]
    BY Zenon, <1>1, <2>1, <2>2, <2>3 DEF makeAuthenticationPayload
  <2>5. Payload(p, a).randPubKey = k /\ Payload(p, a).ciphertextWithTag = c
    BY ONLY <2>4
  <2>6. Told(p).method = a.method
    BY Zenon DEF Told
  <2>7. IsName(Told(p).method)
    <3>1. p.attempt \in Attempts
      BY Zenon DEF Packets
    <3> QED
      BY Zenon, <2>6, <3>1, ClientAssumption
  <2>8. Len(Plaintext(Told(p))) = 48
    BY Zenon, <2>7, FieldsOfPlaintext
  <2>9. Block(c, 64)
    <3>1. PICK x : c = Bytes(x, Len(Plaintext(Told(p))) + 16)
      BY Zenon, <2>1 DEF AESGCMEncrypt
    <3>2. c = Bytes(x, 64)
      BY ONLY <2>8, <3>1
    <3>3. Block(Bytes(x, 64), 64)
      BY Zenon, BytesBlock
    <3> QED
      BY Zenon, <3>2, <3>3
  <2> QED
    BY Zenon, <1>1, <1>2, <1>3, <2>1, <2>5, <2>9
<1>4. CASE ~a.cloak
  <2>1. PICK c : c = Bytes(<<"noise", p.random>>, 64)
    BY Zenon
  <2>2. Payload(p, a) = [randPubKey |-> k, ciphertextWithTag |-> c]
    BY Zenon, <1>1, <1>4, <2>1 DEF Payload
  <2>3. Payload(p, a).randPubKey = k /\ Payload(p, a).ciphertextWithTag = c
    BY ONLY <2>2
  <2>4. Block(Bytes(<<"noise", p.random>>, 64), 64)
    BY Zenon, BytesBlock
  <2> QED
    BY Zenon, <1>1, <1>2, <1>4, <2>1, <2>3, <2>4
<1> QED
  BY Zenon, <1>3, <1>4

(* processFirstPacket puts together the payload that the client spread     *)
(* over its ClientHello or its request, or fails.                          *)
LEMMA FragmentsFound ==
  ASSUME NEW p \in Packets, processFirstPacket(p) # Fail
  PROVE  processFirstPacket(p) =
           [randPubKey |-> PublicKey(p.random),
            sharedSecret |-> SharedSecret(PublicKey(p.random)),
            ciphertextWithTag |-> Payload(p, Attempt[p.attempt]).ciphertextWithTag]
<1>1. PICK a : a = Attempt[p.attempt]
  BY Zenon
<1>2. PICK q : q = Payload(p, a)
  BY Zenon
<1>3. PICK k, c : k = PublicKey(p.random) /\ c = q.ciphertextWithTag
  BY Zenon
<1>4. q.randPubKey = k /\ Block(k, 32) /\ Block(c, 64)
  BY Zenon, <1>1, <1>2, <1>3, PayloadParts
<1>5. a.browser \in {"chrome", "firefox", "safari"}
  <2>1. p.attempt \in Attempts
    BY Zenon DEF Packets
  <2> QED
    BY Zenon, <1>1, <2>1, ClientAssumption
<1>6. CASE a.first = "tls"
  <2>1. PICK ch : ch = buildClientHello(a.browser, q)
    BY Zenon
  <2>2. parseClientHello(p) = IF a.malformed THEN Fail ELSE ch
    BY Zenon, <1>1, <1>2, <2>1 DEF parseClientHello
  <2>3. processFirstPacket(p) = processClientHello(parseClientHello(p))
    BY Zenon, <1>1, <1>6 DEF processFirstPacket
  <2>4. processFirstPacket(p) = unmarshalClientHello(ch)
    BY Zenon, <2>2, <2>3 DEF processClientHello
  <2>5. ch.random = k /\ ch.sessionId = Slice(c, 0, 32)
    <3>1. ch.random = q.randPubKey /\ ch.sessionId = Slice(q.ciphertextWithTag, 0, 32)
      BY ONLY <2>1 DEF buildClientHello
    <3> QED
      BY Zenon, <1>3, <1>4, <3>1
  <2>6. PICK s : s = parseKeyShare(ch.keyShares)
    BY Zenon
  <2>7. processFirstPacket(p) = FragmentsOf(k, Slice(c, 0, 32), s)
    BY Zenon, <2>4, <2>5, <2>6 DEF unmarshalClientHello
  <2>8. s # Fail
    BY Zenon, <2>7 DEF FragmentsOf
  <2>9. s = Slice(c, 32, 64)
    BY Zenon, <1>3, <1>5, <2>1, <2>6, <2>8, KeyShareFound
  <2>10. Slice(c, 0, 32) \o s = c
    BY Zenon, <1>4, <2>9, Rejoined
  <2>11. processFirstPacket(p) = [randPubKey |-> k, sharedSecret |-> SharedSecret(k),
                                 ciphertextWithTag |-> Slice(c, 0, 32) \o s]
    BY Zenon, <2>7 DEF FragmentsOf
  <2> QED
    BY Zenon, <1>1, <1>2, <1>3, <2>10, <2>11
<1>7. CASE a.first # "tls"
  <2>1. processFirstPacket(p) = processRequest(p)
    BY Zenon, <1>1, <1>7 DEF processFirstPacket
  <2>2. processRequest(p) = unmarshalHidden(k \o c)
    <3>1. Hidden(q) = k \o c
      BY Zenon, <1>3, <1>4 DEF Hidden
    <3> QED
      BY Zenon, <1>1, <1>2, <2>1, <3>1 DEF processRequest
  <2>3. Slice(k \o c, 0, 32) = k /\ Slice(k \o c, 32, 96) = c /\ Len(k \o c) = 96
    BY ONLY <1>4, HiddenCuts
  <2> QED
    BY Zenon, <1>1, <1>2, <1>3, <2>1, <2>2, <2>3 DEF unmarshalHidden
<1> QED
  BY Zenon, <1>6, <1>7

(* What the server found, i, is what a client with attempt a told it. *)
Understood(i, a) ==
  /\ i.UID = UID(a.uid) /\ i.SessionId = a.sid
  /\ i.EncryptionMethod = a.enc /\ i.Unordered = a.unordered
  /\ Len(a.method) <= 12 => i.ProxyMethod = a.method

(* What the server finds in a packet that it can decrypt is what its       *)
(* client told it.                                                         *)
LEMMA InfoFound ==
  ASSUME NEW p \in Packets, ClientInfo[p] # Fail, ClientInfo[p] # Noise
  PROVE  processFirstPacket(p) # Fail /\ Understood(ClientInfo[p], Attempt[p.attempt])
<1>0. PICK a, info0 : a = Attempt[p.attempt] /\ info0 = ClientInfo[p]
  BY Zenon
<1>1. PICK f : f = processFirstPacket(p)
  BY Zenon
<1>2. info0 = InfoOf(f)
  BY Zenon, <1>0, <1>1, ClientInfoIs
<1>3. f # Fail /\ info0 = decryptClientInfo(f)
  BY Zenon, <1>0, <1>2 DEF InfoOf
<1>4. PICK k, c : k = PublicKey(p.random) /\ c = Payload(p, a).ciphertextWithTag
  BY Zenon
<1>5. f.randPubKey = k /\ f.sharedSecret = SharedSecret(k) /\ f.ciphertextWithTag = c
  <2>1. f = [randPubKey |-> k, sharedSecret |-> SharedSecret(k), ciphertextWithTag |-> c]
    BY Zenon, <1>0, <1>1, <1>3, <1>4, FragmentsFound
  <2> QED
    BY ONLY <2>1
<1>6. info0 = Fields(AESGCMDecrypt(Slice(k, 0, 12), SharedSecret(k), c))
  BY Zenon, <1>3, <1>5 DEF decryptClientInfo
<1>7. a.cloak
  <2>1. SUFFICES ASSUME ~a.cloak PROVE FALSE
    BY Zenon
  <2>2. c = Bytes(<<"noise", p.random>>, 64)
    BY Zenon, <1>0, <1>4, <2>1, PayloadParts
  <2>3. info0 = Fields(Fail)
    BY Zenon, <1>6, <2>2, NotSealed
  <2> QED
    BY Zenon, <1>0, <2>3 DEF Fields
<1>8. PICK t : t = Told(p)
  BY Zenon
<1>9. /\ t.uid = a.uid /\ t.sid = a.sid /\ t.enc = a.enc /\ t.unordered = a.unordered
      /\ t.method = a.method
  BY Zenon, <1>0, <1>8 DEF Told
<1>10. IsName(t.method)
  <2>1. p.attempt \in Attempts
    BY Zenon DEF Packets
  <2> QED
    BY Zenon, <1>0, <1>9, <2>1, ClientAssumption
<1>11. c = AESGCMEncrypt(Slice(k, 0, 12), SharedSecret(k), Plaintext(t))
  BY Zenon, <1>0, <1>4, <1>7, <1>8, PayloadParts
<1>12. Len(Plaintext(t)) \in Nat
  <2>1. Len(Plaintext(t)) = 48 /\ 48 \in Nat
    BY Zenon, <1>10, FieldsOfPlaintext
  <2> QED
    BY Zenon, <2>1
<1>13. info0 = Fields(Plaintext(t))
  BY Zenon, <1>6, <1>11, <1>12, Unsealed
<1>14. Plaintext(t) # Fail
  BY Zenon, <1>0, <1>13 DEF Fields
<1>15. /\ info0.UID = UID(t.uid) /\ info0.SessionId = t.sid
       /\ info0.EncryptionMethod = t.enc /\ info0.Unordered = t.unordered
       /\ Len(t.method) <= 12 => info0.ProxyMethod = t.method
  BY Zenon, <1>10, <1>13, <1>14, FieldsOfPlaintext
<1> QED
  BY Zenon, <1>0, <1>1, <1>3, <1>9, <1>15 DEF Understood
-----------------------------------------------------------------------------
(* Replays. *)

USE DispatcherAssumption

(* The shape of the variables that the argument is about. *)
Shape ==
  /\ pc \in [Conns -> {"none", "stuck"} \cup Working \cup Ended]
  /\ epoch \in [Conns -> {Nil} \cup Nat]
  /\ sweeps \in Nat
  /\ DOMAIN pkt = Conns

(* A connection that has not got to registerRandom has not passed it. *)
NotYet == \A c \in Conns : pc[c] \in {"none", "read", "register"} => epoch[c] = Nil

(* A random that has passed since the last round is in the cache. *)
Remembered ==
  \A c \in Conns :
    epoch[c] # Nil => /\ epoch[c] <= sweeps
                      /\ epoch[c] = sweeps => pkt[c].random \in DOMAIN usedRandom

IInv == Shape /\ NotYet /\ Remembered /\ NoReplay

(* The cache is only written by registerRandom and the cleaner: every      *)
(* other step of a dispatch moves its connection on and keeps the rest.    *)
Elsewhere(c) ==
  /\ UNCHANGED <<cacheVars, pkt>>
  /\ \E label \in Working \cup Ended \cup {"stuck"} :
       label \notin {"read", "register"} /\ Goto(c, label)

(* The invariant holds of a server that has just started. *)
LEMMA InitIInv == Init => IInv
BY DEF Init, IInv, Shape, NotYet, Remembered, NoReplay, Working, Ended

(* A step of a dispatch past registerRandom keeps the invariant. *)
LEMMA ElsewhereKeeps ==
  ASSUME IInv, NEW c \in Conns, Elsewhere(c)
  PROVE  IInv'
BY DEF Elsewhere, IInv, Shape, NotYet, Remembered, NoReplay, cacheVars, Goto, Working, Ended

(* A packet that arrives, new or once more, is that of a connection whose  *)
(* random has not passed.                                                  *)
LEMMA ArrivesKeeps ==
  ASSUME IInv, NEW c \in Conns, NEW p, Arrives(c, p)
  PROVE  IInv'
BY DEF Arrives, IInv, Shape, NotYet, Remembered, NoReplay, cacheVars, Goto, Working, Ended

(* readFirstPacket does not touch the cache, and leads to registerRandom.  *)
LEMMA ReadKeeps ==
  ASSUME IInv, NEW c \in Conns, ReadFirstPacket(c)
  PROVE  IInv'
<1>1. /\ pc[c] = "read"
      /\ \E label \in {"closed", "goWeb", "register"} : Goto(c, label)
      /\ UNCHANGED <<pkt, cacheVars>>
  BY Zenon DEF ReadFirstPacket
<1> QED
  BY <1>1 DEF IInv, Shape, NotYet, Remembered, NoReplay, cacheVars, Goto, Working, Ended

(* registerRandom: under the lock, the lookup and the write are one step,  *)
(* so a random that another connection has passed with since the last      *)
(* round is found in the cache.                                            *)
LEMMA RegisterKeeps ==
  ASSUME IInv, NEW c \in Conns, Register(c)
  PROVE  IInv'
<1>1. CASE info[c] = Fail
  BY <1>1 DEF Register, IInv, Shape, NotYet, Remembered, NoReplay, netVars, Goto, Working, Ended
<1>2. CASE info[c] # Fail
  <2> DEFINE r == pkt[c].random
  <2>1. /\ epoch[c] = Nil /\ sweeps \in Nat /\ sweeps # Nil
        /\ sweeps' = sweeps /\ pkt' = pkt
        /\ DOMAIN usedRandom' = DOMAIN usedRandom \cup {r}
        /\ epoch' = IF r \in DOMAIN usedRandom THEN epoch ELSE [epoch EXCEPT ![c] = sweeps]
        /\ \E label \in {"goWeb", "decrypt"} : Goto(c, label)
    BY Zenon, <1>2 DEF Register, registerRandom, IInv, Shape, NotYet, netVars
  <2>2. Shape' /\ NotYet'
    BY Zenon, <2>1 DEF IInv, Shape, NotYet, Goto, Working, Ended
  <2>3. Remembered'
    BY <2>1 DEF IInv, Shape, Remembered
  <2>4. NoReplay'
    BY <2>1 DEF IInv, Shape, Remembered, NoReplay
  <2> QED
    BY Zenon, <2>2, <2>3, <2>4 DEF IInv
<1> QED
  BY Zenon, <1>1, <1>2

(* A round of the cleaner empties the cache and starts a new epoch, in     *)
(* which no random has passed yet.                                         *)
LEMMA SweepKeeps ==
  ASSUME IInv, Sweep
  PROVE  IInv'
BY DEF Sweep, IInv, Shape, NotYet, Remembered, NoReplay, netVars

(* Every step of the server keeps the invariant. *)
LEMMA StepKeeps ==
  ASSUME IInv, [Next]_vars
  PROVE  IInv'
<1>1. ASSUME NEW c \in Conns, NEW a \in Attempts, Connect(c, a) PROVE IInv'
  BY Zenon, <1>1, ArrivesKeeps DEF Connect
<1>2. ASSUME NEW c \in Conns, NEW d \in Conns, Redeliver(c, d) PROVE IInv'
  BY Zenon, <1>2, ArrivesKeeps DEF Redeliver
<1>3. ASSUME NEW c \in Conns, Dispatch(c) PROVE IInv'
  <2>1. CASE ReadFirstPacket(c)
    BY Zenon, <2>1, ReadKeeps
  <2>2. CASE Register(c)
    BY Zenon, <2>2, RegisterKeeps
  <2>3. CASE \/ GoWeb(c) \/ Decrypt(c) \/ Admit(c) \/ GetSession(c) \/ Refused(c)
             \/ FinishHandshake(c) \/ UpgradeFails(c) \/ AddConnection(c)
    <3>1. Elsewhere(c)
      BY Zenon, <2>3 DEF Elsewhere, GoWeb, Decrypt, Admit, GetSession, Refused, FinishHandshake,
                  UpgradeFails, AddConnection, netVars, Working, Ended
    <3> QED
      BY Zenon, <3>1, ElsewhereKeeps
  <2> QED
    BY Zenon, <1>3, <2>1, <2>2, <2>3 DEF Dispatch
<1>4. ASSUME NEW c \in Conns, SessionCloses(c) PROVE IInv'
  BY Zenon, <1>4 DEF SessionCloses, IInv, Shape, NotYet, Remembered, NoReplay, netVars, cacheVars
<1>5. ASSUME NEW c \in Conns, ServeEnds(c) PROVE IInv'
  <2>1. Elsewhere(c)
    BY Zenon, <1>5 DEF Elsewhere, ServeEnds, netVars, Ended
  <2> QED
    BY Zenon, <2>1, ElsewhereKeeps
<1>6. CASE Sweep
  BY Zenon, <1>6, SweepKeeps
<1>7. CASE Tick \/ UNCHANGED vars
  BY <1>7 DEF Tick, vars, IInv, Shape, NotYet, Remembered, NoReplay, netVars, cacheVars
<1> QED
  BY Zenon, <1>1, <1>2, <1>3, <1>4, <1>5, <1>6, <1>7 DEF Next

(* registerRandom: of any number of connections that bring the same        *)
(* random, at most one passes between two rounds of UsedRandomCleaner.     *)
THEOREM ReplayRefused == Spec => []NoReplay
<1>1. IInv /\ [Next]_vars => IInv'
  BY Zenon, StepKeeps
<1>2. IInv => NoReplay
  BY Zenon DEF IInv
<1> QED
  BY InitIInv, <1>1, <1>2, PTL DEF Spec
-----------------------------------------------------------------------------
(* The dispatches. *)

(* The labels of a dispatch that found out who its client is. *)
Known == {"admit", "getSession", "refused", "handshake", "add", "up", "serving", "served",
          "failed", "stuck"}

(* Those of a dispatch that has a session. *)
InSession == {"handshake", "add", "up", "serving"}

(* What the dispatch of connection c knows by the label it is at. *)
ConnOK(c) ==
  /\ pkt[c] \in Packets \cup {Nil}
  /\ pc[c] # "none" => pkt[c] \in Packets /\ info[c] = ClientInfo[pkt[c]]
  /\ pc[c] \in {"decrypt"} \cup Known => info[c] # Fail
  /\ pc[c] \in Known => info[c] # Noise
  /\ pc[c] \in {"getSession", "refused"} => Slot(c) \in Slots
  /\ pc[c] \in InSession => sesh[c] \in Conns /\ (IsAdmin(c) \/ Slot(c) \in Slots)
  /\ pc[c] \in {"add", "up", "serving"} => sent[c] = sesh[c]
  /\ pc[c] \notin {"none", "read"} =>
       taken[c] = readFirstPacket(Attempt[pkt[c].attempt]).taken
  /\ pc[c] = "web" => web[c] = readFirstPacket(Attempt[pkt[c].attempt]).i

DispatchInv ==
  /\ TypeOK
  /\ DOMAIN pkt = Conns /\ DOMAIN info = Conns
  /\ \A r \in DOMAIN usedRandom : usedRandom[r] \in Nat
  /\ \A c \in Conns : ConnOK(c)

(* What one step leaves alone of connection d. *)
Same(d) ==
  /\ pkt'[d] = pkt[d] /\ info'[d] = info[d] /\ pc'[d] = pc[d] /\ taken'[d] = taken[d]
  /\ web'[d] = web[d] /\ sesh'[d] = sesh[d] /\ sent'[d] = sent[d]

(* The labels of pc. *)
Labels == {"none", "stuck"} \cup Working \cup Ended

(* The types of the variables, without the connections' own part. *)
Typed ==
  /\ TypeOK
  /\ DOMAIN pkt = Conns /\ DOMAIN info = Conns
  /\ \A r \in DOMAIN usedRandom : usedRandom[r] \in Nat

(* What a dispatch knows depends on its own part of the state. *)
LEMMA SameKeeps ==
  ASSUME NEW d \in Conns, ConnOK(d), Same(d)
  PROVE  ConnOK(d)'
<1>1. Slot(d)' = Slot(d) /\ IsAdmin(d)' = IsAdmin(d)
  BY Zenon DEF Same, Slot, IsAdmin
<1>2. /\ pkt[d]' = pkt[d] /\ info[d]' = info[d] /\ pc[d]' = pc[d] /\ taken[d]' = taken[d]
      /\ web[d]' = web[d] /\ sesh[d]' = sesh[d] /\ sent[d]' = sent[d]
  BY Zenon DEF Same
<1> QED
  BY Zenon, <1>1, <1>2 DEF ConnOK

(* So a step that changes one connection's part is right for all of them   *)
(* if it is right for that one.                                            *)
LEMMA OneMoves ==
  ASSUME DispatchInv, NEW c \in Conns, Typed', \A d \in Conns : d # c => Same(d), ConnOK(c)'
  PROVE  DispatchInv'
<1>1. ASSUME NEW d \in Conns PROVE ConnOK(d)'
  <2>1. CASE d = c
    BY Zenon, <2>1
  <2>2. CASE d # c
    BY Zenon, <2>2, SameKeeps DEF DispatchInv
  <2> QED
    BY Zenon, <2>1, <2>2
<1> QED
  BY Zenon, <1>1 DEF DispatchInv, Typed

(* readFirstPacket takes no more than the buffer holds, and has in the     *)
(* buffer what it took.                                                    *)
LEMMA ReadBounds ==
  ASSUME NEW a, {a.length, a.sent} \subseteq Nat
  PROVE  /\ readFirstPacket(a).taken \in 0 .. firstPacketSize
         /\ readFirstPacket(a).i = readFirstPacket(a).taken
         /\ readFirstPacket(a).outcome \in {"close", "redirect", "auth"}
<1>1. firstPacketSize \in Nat /\ firstPacketSize >= 5
  BY DEF firstPacketSize
<1> DEFINE Good(r) == \E n \in 0 .. firstPacketSize : \E o \in {"close", "redirect", "auth"} :
                        r = Read(n, o)
<1>2. a.sent >= 1 => Good(ReadTLS(a))
  BY <1>1 DEF ReadTLS
<1>3. a.sent >= 1 => Good(ReadWebSocket(a))
  BY <1>1 DEF ReadWebSocket
<1>4. Good(Read(1, "redirect")) /\ Good(Read(0, "close"))
  BY <1>1
<1>5. Good(readFirstPacket(a))
  <2>1. CASE a.sent < 1
    BY Zenon, <1>4, <2>1 DEF readFirstPacket
  <2>2. CASE ~(a.sent < 1)
    <3>1. a.sent >= 1
      BY <2>2
    <3>2. readFirstPacket(a) \in {ReadTLS(a), ReadWebSocket(a), Read(1, "redirect")}
      BY Zenon, <2>2 DEF readFirstPacket
    <3> HIDE DEF Good
    <3> QED
      BY Zenon, <1>2, <1>3, <1>4, <3>1, <3>2
  <2> QED
    BY Zenon, <2>1, <2>2
<1> QED
  BY <1>5 DEF Read

(* The invariant holds of a server that has just started. *)
LEMMA DispatchInit == Init => DispatchInv
<1> SUFFICES ASSUME Init PROVE DispatchInv
  BY Zenon
<1>1. firstPacketSize \in Nat
  BY DEF firstPacketSize
<1>2. TypeOK
  BY <1>1 DEF Init, TypeOK
<1>3. ASSUME NEW c \in Conns PROVE ConnOK(c)
  <2>1. pkt[c] = Nil /\ pc[c] = "none"
    BY Zenon DEF Init
  <2> QED
    BY Zenon, <2>1 DEF ConnOK, Known, InSession
<1> QED
  BY Zenon, <1>2, <1>3 DEF Init, DispatchInv

(* A packet arrives. *)
LEMMA ArrivesOK ==
  ASSUME DispatchInv, NEW c \in Conns, NEW p \in Packets, Arrives(c, p)
  PROVE  DispatchInv'
<1>1. Typed'
  BY Zenon DEF DispatchInv, TypeOK, Typed, Arrives, Goto, cacheVars, sessionVars, Working
<1>2. \A d \in Conns : d # c => Same(d)
  BY Zenon DEF DispatchInv, TypeOK, Arrives, Goto, sessionVars, Same
<1>3. pkt'[c] = p /\ info'[c] = ClientInfo[p] /\ pc'[c] = "read"
  BY Zenon DEF DispatchInv, TypeOK, Arrives, Goto
<1>4. ConnOK(c)'
  BY Zenon, <1>3 DEF ConnOK, Known, InSession
<1> QED
  BY Zenon, <1>1, <1>2, <1>4, OneMoves

(* A dispatch that only moves on to label l. *)
Jumps(c, l) ==
  Goto(c, l) /\ UNCHANGED <<now, netVars, cacheVars, sessionVars>>

(* It leaves all other connections, and all else of its own, alone. *)
LEMMA JumpKeeps ==
  ASSUME DispatchInv, NEW c \in Conns, NEW l \in Labels, Jumps(c, l)
  PROVE  /\ Typed' /\ \A d \in Conns : d # c => Same(d)
         /\ pc'[c] = l /\ pkt'[c] = pkt[c] /\ info'[c] = info[c] /\ taken'[c] = taken[c]
         /\ web'[c] = web[c] /\ sesh'[c] = sesh[c] /\ sent'[c] = sent[c]
<1>1. /\ UNCHANGED <<now, pkt, info, taken, web, usedRandom, sweeps, epoch>>
      /\ UNCHANGED <<sessions, closed, sesh, sent>>
      /\ pc' = [pc EXCEPT ![c] = l]
  BY Zenon DEF Jumps, Goto, netVars, cacheVars, sessionVars
<1>2. Typed'
  BY Zenon, <1>1 DEF DispatchInv, TypeOK, Typed, Labels
<1> QED
  BY Zenon, <1>1, <1>2 DEF DispatchInv, TypeOK, Same

(* To a label at which a dispatch knows nothing but its packet. *)
LEMMA JumpAway ==
  ASSUME DispatchInv, NEW c \in Conns, NEW l \in {"goWeb", "left", "closed"}, Jumps(c, l),
         pc[c] \notin {"none", "read"}
  PROVE  DispatchInv'
<1>1. l \in Labels
  BY Zenon DEF Labels, Working, Ended
<1>2. ConnOK(c)
  BY Zenon DEF DispatchInv
<1>3. ConnOK(c)'
  BY Zenon, <1>1, <1>2, JumpKeeps DEF ConnOK, Known, InSession
<1> QED
  BY Zenon, <1>1, <1>3, JumpKeeps, OneMoves

(* readFirstPacket. *)
LEMMA ReadOK ==
  ASSUME DispatchInv, NEW c \in Conns, ReadFirstPacket(c)
  PROVE  DispatchInv'
<1> DEFINE r == readFirstPacket(Attempt[pkt[c].attempt])
<1>1. ConnOK(c) /\ pc[c] = "read"
  BY Zenon DEF DispatchInv, ReadFirstPacket
<1>2. pkt[c] \in Packets /\ info[c] = ClientInfo[pkt[c]]
  BY Zenon, <1>1 DEF ConnOK
<1>3. r.taken \in 0 .. firstPacketSize
  <2>1. pkt[c].attempt \in Attempts
    BY Zenon, <1>2 DEF Packets
  <2> QED
    BY Zenon, <2>1, ReadBounds, ClientAssumption
<1>4. PICK l \in {"closed", "goWeb", "register"} : Goto(c, l)
  BY Zenon DEF ReadFirstPacket
<1>5. /\ taken' = [taken EXCEPT ![c] = r.taken]
      /\ UNCHANGED <<now, pkt, info, web, usedRandom, sweeps, epoch>>
      /\ UNCHANGED <<sessions, closed, sesh, sent>>
  BY Zenon DEF ReadFirstPacket, cacheVars, sessionVars
<1> HIDE DEF r
<1>6. Typed'
  BY <1>3, <1>4, <1>5 DEF DispatchInv, TypeOK, Typed, Goto, Working, Ended
<1>7. \A d \in Conns : d # c => Same(d)
  BY Zenon, <1>4, <1>5 DEF DispatchInv, TypeOK, Goto, Same
<1>8. pc'[c] = l /\ pkt'[c] = pkt[c] /\ info'[c] = info[c] /\ taken'[c] = r.taken
  BY Zenon, <1>4, <1>5 DEF DispatchInv, TypeOK, Goto
<1>9. taken'[c] = readFirstPacket(Attempt[pkt'[c].attempt]).taken
  BY Zenon, <1>8 DEF r
<1>10. ConnOK(c)'
  BY Zenon, <1>2, <1>8, <1>9 DEF ConnOK, Known, InSession
<1> QED
  BY Zenon, <1>6, <1>7, <1>10, OneMoves

(* goWeb. *)
LEMMA GoWebOK ==
  ASSUME DispatchInv, NEW c \in Conns, GoWeb(c)
  PROVE  DispatchInv'
<1> DEFINE r == readFirstPacket(Attempt[pkt[c].attempt])
<1>1. ConnOK(c) /\ pc[c] = "goWeb"
  BY Zenon DEF DispatchInv, GoWeb
<1>2. /\ pkt[c] \in Packets /\ info[c] = ClientInfo[pkt[c]] /\ taken[c] = r.taken
  BY Zenon, <1>1 DEF ConnOK
<1>3. r.i \in 0 .. firstPacketSize
  <2>1. pkt[c].attempt \in Attempts
    BY Zenon, <1>2 DEF Packets
  <2> QED
    BY Zenon, <2>1, ReadBounds, ClientAssumption
<1>4. CASE Goto(c, "left") /\ UNCHANGED web
  <2>1. Jumps(c, "left")
    BY Zenon, <1>4 DEF GoWeb, Jumps, netVars
  <2> QED
    BY Zenon, <1>1, <2>1, JumpAway
<1>5. CASE Goto(c, "web") /\ web' = [web EXCEPT ![c] = r.i]
  <2>1. /\ UNCHANGED <<now, pkt, info, taken, usedRandom, sweeps, epoch>>
        /\ UNCHANGED <<sessions, closed, sesh, sent>>
    BY Zenon DEF GoWeb, cacheVars, sessionVars
  <2> HIDE DEF r
  <2>2. Typed'
    BY <1>3, <1>5, <2>1 DEF DispatchInv, TypeOK, Typed, Goto, Ended
  <2>3. \A d \in Conns : d # c => Same(d)
    BY Zenon, <1>5, <2>1 DEF DispatchInv, TypeOK, Goto, Same
  <2>4. /\ pc'[c] = "web" /\ pkt'[c] = pkt[c] /\ info'[c] = info[c] /\ taken'[c] = taken[c]
        /\ web'[c] = r.i
    BY Zenon, <1>5, <2>1 DEF DispatchInv, TypeOK, Goto
  <2>5. /\ taken'[c] = readFirstPacket(Attempt[pkt'[c].attempt]).taken
        /\ web'[c] = readFirstPacket(Attempt[pkt'[c].attempt]).i
    BY Zenon, <1>2, <2>4 DEF r
  <2>6. ConnOK(c)'
    BY Zenon, <1>2, <2>4, <2>5 DEF ConnOK, Known, InSession
  <2> QED
    BY Zenon, <2>2, <2>3, <2>6, OneMoves
<1> QED
  BY Zenon, <1>4, <1>5 DEF GoWeb

(* registerRandom. *)
LEMMA RegisterOK ==
  ASSUME DispatchInv, NEW c \in Conns, Register(c)
  PROVE  DispatchInv'
<1>1. ConnOK(c) /\ pc[c] = "register"
  BY Zenon DEF DispatchInv, Register
<1>2. CASE info[c] = Fail
  <2>1. Jumps(c, "goWeb")
    BY Zenon, <1>2 DEF Register, Jumps, netVars, cacheVars
  <2> QED
    BY Zenon, <1>1, <2>1, JumpAway
<1>3. CASE info[c] # Fail
  <2>1. pkt[c] \in Packets /\ info[c] = ClientInfo[pkt[c]]
    BY Zenon, <1>1 DEF ConnOK
  <2>2. PICK r \in Conns : r = pkt[c].random
    BY Zenon, <2>1 DEF Packets
  <2>3. PICK l \in {"goWeb", "decrypt"} : Goto(c, l)
    BY Zenon, <1>3 DEF Register
  <2>4. /\ UNCHANGED <<now, pkt, info, taken, web, sweeps>>
        /\ UNCHANGED <<sessions, closed, sesh, sent>>
        /\ usedRandom' = [x \in DOMAIN usedRandom \cup {r} |->
                            IF x = r THEN now ELSE usedRandom[x]]
        /\ epoch' \in {epoch, [epoch EXCEPT ![c] = sweeps]}
    BY Zenon, <1>3, <2>2 DEF Register, registerRandom, netVars, sessionVars
  <2>5. Typed'
    <3>1. now \in Nat
      BY DEF DispatchInv, TypeOK
    <3>2. /\ DOMAIN usedRandom' \subseteq Conns
          /\ \A x \in DOMAIN usedRandom' : usedRandom'[x] \in Nat /\ usedRandom'[x] <= now'
      BY <2>4, <3>1 DEF DispatchInv, TypeOK
    <3>3. epoch' \in [Conns -> {Nil} \cup 0 .. MaxSweeps]
      BY <2>4 DEF DispatchInv, TypeOK
    <3>4. pc' \in [Conns -> {"none", "stuck"} \cup Working \cup Ended]
      BY Zenon, <2>3 DEF DispatchInv, TypeOK, Goto, Working, Ended
    <3> QED
      BY Zenon, <2>4, <3>2, <3>3, <3>4 DEF DispatchInv, TypeOK, Typed
  <2>6. \A d \in Conns : d # c => Same(d)
    BY Zenon, <2>3, <2>4 DEF DispatchInv, TypeOK, Goto, Same
  <2>7. pc'[c] = l /\ pkt'[c] = pkt[c] /\ info'[c] = info[c] /\ taken'[c] = taken[c]
    BY Zenon, <2>3, <2>4 DEF DispatchInv, TypeOK, Goto
  <2>8. ConnOK(c)'
    BY Zenon, <1>1, <1>3, <2>7 DEF ConnOK, Known, InSession
  <2> QED
    BY Zenon, <2>5, <2>6, <2>8, OneMoves
<1> QED
  BY Zenon, <1>2, <1>3

(* decryptClientInfo and the check of the timestamp. *)
LEMMA DecryptOK ==
  ASSUME DispatchInv, NEW c \in Conns, Decrypt(c)
  PROVE  DispatchInv'
<1>1. ConnOK(c) /\ pc[c] = "decrypt"
  BY Zenon DEF DispatchInv, Decrypt
<1>2. CASE Goto(c, "goWeb")
  <2>1. Jumps(c, "goWeb")
    BY Zenon, <1>2 DEF Decrypt, Jumps
  <2> QED
    BY Zenon, <1>1, <2>1, JumpAway
<1>3. CASE Goto(c, "admit") /\ info[c] # Noise
  <2>1. Jumps(c, "admit")
    BY Zenon, <1>3 DEF Decrypt, Jumps
  <2>2. "admit" \in Labels
    BY Zenon DEF Labels, Working
  <2>3. ConnOK(c)'
    BY Zenon, <1>1, <1>3, <2>1, <2>2, JumpKeeps DEF ConnOK, Known, InSession
  <2> QED
    BY Zenon, <2>1, <2>2, <2>3, JumpKeeps, OneMoves
<1> QED
  BY Zenon, <1>2, <1>3 DEF Decrypt

(* A dispatch that knows its client: what it found is what the client told. *)
LEMMA ToldIsFound ==
  ASSUME NEW c \in Conns, ConnOK(c), pc[c] \in Known
  PROVE  /\ pkt[c] \in Packets /\ info[c] = ClientInfo[pkt[c]]
         /\ info[c] # Fail /\ info[c] # Noise
         /\ processFirstPacket(pkt[c]) # Fail
         /\ Understood(info[c], Attempt[pkt[c].attempt])
<1>1. pc[c] # "none"
  BY Zenon DEF Known
<1>2. pkt[c] \in Packets /\ info[c] = ClientInfo[pkt[c]] /\ info[c] # Fail /\ info[c] # Noise
  BY Zenon, <1>1 DEF ConnOK
<1> QED
  BY Zenon, <1>2, InfoFound

(* The UID of a user names a slot. *)
LEMMA ValueOfUID == \A u : ValueOf(UID(u)) = u
<1> SUFFICES ASSUME NEW u PROVE ValueOf(UID(u)) = u
  BY Zenon
<1>1. Bytes(<<"uid", u>>, 16)[1][1] = <<"uid", u>>
  BY FirstByte
<1>2. <<"uid", u>>[2] = u
  BY Zenon
<1> QED
  BY Zenon, <1>1, <1>2 DEF ValueOf, UID

(* The admin's session, the proxy book and the users. *)
LEMMA AdmitOK ==
  ASSUME DispatchInv, NEW c \in Conns, Admit(c)
  PROVE  DispatchInv'
<1>1. ConnOK(c) /\ pc[c] = "admit"
  BY Zenon DEF DispatchInv, Admit
<1>2. pc[c] \in Known
  BY Zenon, <1>1 DEF Known
<1>3. PICK a : a = Attempt[pkt[c].attempt]
  BY Zenon
<1>4. /\ pkt[c] \in Packets /\ info[c] = ClientInfo[pkt[c]] /\ info[c] # Fail /\ info[c] # Noise
      /\ info[c].SessionId = a.sid
  BY Zenon, <1>1, <1>2, <1>3, ToldIsFound DEF Understood
<1>5. /\ UNCHANGED <<now, pkt, info, taken, web, usedRandom, sweeps, epoch>>
      /\ UNCHANGED <<sessions, closed, sent>>
  BY Zenon DEF Admit, netVars, cacheVars
<1>6. CASE IsAdmin(c) /\ sesh' = [sesh EXCEPT ![c] = c] /\ Goto(c, "handshake")
  <2>1. Typed'
    BY Zenon, <1>5, <1>6 DEF DispatchInv, TypeOK, Typed, Goto, Working
  <2>2. \A d \in Conns : d # c => Same(d)
    BY Zenon, <1>5, <1>6 DEF DispatchInv, TypeOK, Goto, Same
  <2>3. /\ pc'[c] = "handshake" /\ pkt'[c] = pkt[c] /\ info'[c] = info[c]
        /\ taken'[c] = taken[c] /\ sesh'[c] = c
    BY Zenon, <1>5, <1>6 DEF DispatchInv, TypeOK, Goto
  <2>4. IsAdmin(c)'
    BY Zenon, <1>6, <2>3 DEF IsAdmin
  <2>5. ConnOK(c)'
    BY Zenon, <1>1, <1>4, <2>3, <2>4 DEF ConnOK, Known, InSession
  <2> QED
    BY Zenon, <2>1, <2>2, <2>5, OneMoves
<1>7. CASE info[c].UID \in {UID(u) : u \in Users} /\ Goto(c, "getSession") /\ UNCHANGED sesh
  <2>1. Jumps(c, "getSession")
    BY Zenon, <1>5, <1>7 DEF Jumps, netVars, cacheVars, sessionVars
  <2>2. "getSession" \in Labels
    BY Zenon DEF Labels, Working
  <2>3. Slot(c) \in Slots
    <3>1. ValueOf(info[c].UID) \in Users
      BY Zenon, <1>7, ValueOfUID
    <3>2. pkt[c].attempt \in Attempts
      BY Zenon, <1>4 DEF Packets
    <3>3. info[c].SessionId \in {Attempt[b].sid : b \in Attempts}
      BY Zenon, <1>3, <1>4, <3>2
    <3> QED
      BY Zenon, <3>1, <3>3 DEF Slot, Slots
  <2>4. info'[c] = info[c]
    BY Zenon, <1>5
  <2>5. Slot(c)' = Slot(c)
    BY Zenon, <2>4 DEF Slot
  <2>6. ConnOK(c)'
    BY Zenon, <1>1, <1>4, <2>1, <2>2, <2>3, <2>5, JumpKeeps DEF ConnOK, Known, InSession
  <2> QED
    BY Zenon, <2>1, <2>2, <2>6, JumpKeeps, OneMoves
<1>8. CASE Goto(c, "goWeb") /\ UNCHANGED sesh
  <2>1. Jumps(c, "goWeb")
    BY Zenon, <1>5, <1>8 DEF Jumps, netVars, cacheVars, sessionVars
  <2> QED
    BY Zenon, <1>1, <2>1, JumpAway
<1> QED
  BY Zenon, <1>6, <1>7, <1>8 DEF Admit

(* GetSession. *)
LEMMA GetSessionOK ==
  ASSUME DispatchInv, NEW c \in Conns, GetSession(c)
  PROVE  DispatchInv'
<1>1. ConnOK(c) /\ pc[c] = "getSession"
  BY Zenon DEF DispatchInv, GetSession
<1>2. PICK x \in Slots : x = Slot(c)
  BY Zenon, <1>1 DEF ConnOK
<1>3. sessions[x] \in Conns \cup {Nil}
  BY Zenon DEF DispatchInv, TypeOK
<1>4. /\ UNCHANGED <<now, pkt, info, taken, web, usedRandom, sweeps, epoch>>
      /\ UNCHANGED <<closed, sent>>
  BY Zenon DEF GetSession, netVars, cacheVars
<1>5. /\ pkt[c] \in Packets /\ info[c] = ClientInfo[pkt[c]] /\ info[c] # Fail /\ info[c] # Noise
  BY Zenon, <1>1 DEF ConnOK, Known
<1>6. Slot(c)' = Slot(c)
  BY Zenon, <1>4 DEF Slot
<1>7. ASSUME NEW m \in Conns, sesh' = [sesh EXCEPT ![c] = m], Goto(c, "handshake"),
             sessions' \in [Slots -> Conns \cup {Nil}]
      PROVE  DispatchInv'
  <2>1. Typed'
    BY Zenon, <1>4, <1>7 DEF DispatchInv, TypeOK, Typed, Goto, Working
  <2>2. \A d \in Conns : d # c => Same(d)
    BY Zenon, <1>4, <1>7 DEF DispatchInv, TypeOK, Goto, Same
  <2>3. /\ pc'[c] = "handshake" /\ pkt'[c] = pkt[c] /\ info'[c] = info[c]
        /\ taken'[c] = taken[c] /\ sesh'[c] = m
    BY Zenon, <1>4, <1>7 DEF DispatchInv, TypeOK, Goto
  <2>4. ConnOK(c)'
    BY Zenon, <1>1, <1>2, <1>5, <1>6, <2>3 DEF ConnOK, Known, InSession
  <2> QED
    BY Zenon, <2>1, <2>2, <2>4, OneMoves
<1>8. CASE /\ sessions[x] # Nil /\ sesh' = [sesh EXCEPT ![c] = sessions[x]]
           /\ Goto(c, "handshake") /\ UNCHANGED sessions
  <2>1. sessions[x] \in Conns /\ sessions' \in [Slots -> Conns \cup {Nil}]
    BY Zenon, <1>3, <1>8 DEF DispatchInv, TypeOK
  <2> QED
    BY Zenon, <1>7, <1>8, <2>1
<1>9. CASE /\ sessions' = [sessions EXCEPT ![x] = c] /\ sesh' = [sesh EXCEPT ![c] = c]
           /\ Goto(c, "handshake")
  <2>1. sessions' \in [Slots -> Conns \cup {Nil}]
    BY Zenon, <1>9 DEF DispatchInv, TypeOK
  <2> QED
    BY Zenon, <1>7, <1>9, <2>1
<1>10. CASE Goto(c, "refused") /\ UNCHANGED <<sessions, sesh>>
  <2>1. Jumps(c, "refused")
    BY Zenon, <1>4, <1>10 DEF Jumps, netVars, cacheVars, sessionVars
  <2>2. "refused" \in Labels
    BY Zenon DEF Labels, Working
  <2>3. ConnOK(c)'
    BY Zenon, <1>1, <1>2, <1>5, <1>6, <2>1, <2>2, JumpKeeps DEF ConnOK, Known, InSession
  <2> QED
    BY Zenon, <2>1, <2>2, <2>3, JumpKeeps, OneMoves
<1> QED
  BY Zenon, <1>2, <1>8, <1>9, <1>10 DEF GetSession

(* CloseSession, in the dispatch of connection c that goes on to label l.  *)
LEMMA ClosingOK ==
  ASSUME DispatchInv, NEW c \in Conns, NEW l \in {"left", "served"}, Goto(c, l),
         pc[c] \in {"refused", "serving"}, sessions' \in [Slots -> Conns \cup {Nil}],
         closed' \subseteq Conns, UNCHANGED <<now, netVars, cacheVars, sesh, sent>>
  PROVE  DispatchInv'
<1>1. ConnOK(c)
  BY Zenon DEF DispatchInv
<1>2. /\ UNCHANGED <<now, pkt, info, taken, web, usedRandom, sweeps, epoch>>
      /\ UNCHANGED <<sesh, sent>>
  BY Zenon DEF netVars, cacheVars
<1>3. Typed'
  BY <1>2 DEF DispatchInv, TypeOK, Typed, Goto, Ended
<1>4. \A d \in Conns : d # c => Same(d)
  BY Zenon, <1>2 DEF DispatchInv, TypeOK, Goto, Same
<1>5. pc'[c] = l /\ pkt'[c] = pkt[c] /\ info'[c] = info[c] /\ taken'[c] = taken[c]
  BY Zenon, <1>2 DEF DispatchInv, TypeOK, Goto
<1>6. ConnOK(c)'
  BY Zenon, <1>1, <1>5 DEF ConnOK, Known, InSession
<1> QED
  BY Zenon, <1>3, <1>4, <1>6, OneMoves

(* A session that is closed is one of the users'. *)
LEMMA CloseSessionTyped ==
  ASSUME TypeOK, NEW x \in Slots, CloseSession(x)
  PROVE  sessions' \in [Slots -> Conns \cup {Nil}] /\ closed' \subseteq Conns
BY Zenon DEF TypeOK, CloseSession

(* A refused client. *)
LEMMA RefusedOK ==
  ASSUME DispatchInv, NEW c \in Conns, Refused(c)
  PROVE  DispatchInv'
<1>1. ConnOK(c) /\ pc[c] = "refused" /\ TypeOK /\ CloseSession(Slot(c)) /\ Goto(c, "left")
      /\ UNCHANGED <<now, netVars, cacheVars, sesh, sent>>
  BY Zenon DEF DispatchInv, Refused
<1>2. Slot(c) \in Slots
  BY Zenon, <1>1 DEF ConnOK
<1> QED
  BY Zenon, <1>1, <1>2, CloseSessionTyped, ClosingOK

(* serveSession returns. *)
LEMMA ServeEndsOK ==
  ASSUME DispatchInv, NEW c \in Conns, ServeEnds(c)
  PROVE  DispatchInv'
<1>1. ConnOK(c) /\ pc[c] = "serving" /\ TypeOK /\ Goto(c, "served")
      /\ UNCHANGED <<now, netVars, cacheVars, sesh, sent>>
  BY Zenon DEF DispatchInv, ServeEnds
<1>2. sessions' \in [Slots -> Conns \cup {Nil}] /\ closed' \subseteq Conns
  <2>1. CASE IsAdmin(c)
    BY Zenon, <1>1, <2>1 DEF ServeEnds, TypeOK
  <2>2. CASE ~IsAdmin(c)
    <3>1. Slot(c) \in Slots
      BY Zenon, <1>1, <2>2 DEF ConnOK, InSession
    <3>2. CloseSession(Slot(c))
      BY Zenon, <2>2 DEF ServeEnds
    <3> QED
      BY Zenon, <1>1, <3>1, <3>2, CloseSessionTyped
  <2> QED
    BY Zenon, <2>1, <2>2
<1> QED
  BY Zenon, <1>1, <1>2, ClosingOK

(* finishHandshake. *)
LEMMA HandshakeOK ==
  ASSUME DispatchInv, NEW c \in Conns, FinishHandshake(c)
  PROVE  DispatchInv'
<1>1. ConnOK(c) /\ pc[c] = "handshake"
  BY Zenon DEF DispatchInv, FinishHandshake
<1>2. /\ UNCHANGED <<now, pkt, info, taken, web, usedRandom, sweeps, epoch>>
      /\ UNCHANGED <<sessions, closed, sesh>>
  BY Zenon DEF FinishHandshake, netVars, cacheVars
<1>3. CASE sent' = [sent EXCEPT ![c] = sesh[c]] /\ Goto(c, "add")
  <2>1. Typed'
    BY Zenon, <1>2, <1>3 DEF DispatchInv, TypeOK, Typed, Goto, Working
  <2>2. \A d \in Conns : d # c => Same(d)
    BY Zenon, <1>2, <1>3 DEF DispatchInv, TypeOK, Goto, Same
  <2>3. /\ pc'[c] = "add" /\ pkt'[c] = pkt[c] /\ info'[c] = info[c]
        /\ taken'[c] = taken[c] /\ sesh'[c] = sesh[c] /\ sent'[c] = sesh[c]
    BY Zenon, <1>2, <1>3 DEF DispatchInv, TypeOK, Goto
  <2>4. Slot(c)' = Slot(c) /\ IsAdmin(c)' = IsAdmin(c)
    BY Zenon, <2>3 DEF Slot, IsAdmin
  <2>5. ConnOK(c)'
    BY Zenon, <1>1, <2>3, <2>4 DEF ConnOK, Known, InSession
  <2> QED
    BY Zenon, <2>1, <2>2, <2>5, OneMoves
<1>4. CASE Goto(c, "failed") /\ UNCHANGED sent
  <2>1. Jumps(c, "failed")
    BY Zenon, <1>2, <1>4 DEF Jumps, netVars, cacheVars, sessionVars
  <2>2. "failed" \in Labels
    BY Zenon DEF Labels, Ended
  <2>3. ConnOK(c)'
    BY Zenon, <1>1, <2>1, <2>2, JumpKeeps DEF ConnOK, Known, InSession
  <2> QED
    BY Zenon, <2>1, <2>2, <2>3, JumpKeeps, OneMoves
<1> QED
  BY Zenon, <1>3, <1>4 DEF FinishHandshake

(* The end of finishHandshake: the upgrade fails, or AddConnection.        *)
LEMMA UpgradeOrAddOK ==
  ASSUME DispatchInv, NEW c \in Conns, UpgradeFails(c) \/ AddConnection(c)
  PROVE  DispatchInv'
<1>1. ConnOK(c) /\ pc[c] \in {"handshake", "add"}
  BY Zenon DEF DispatchInv, UpgradeFails, AddConnection
<1>2. PICK l \in {"stuck", "serving", "up"} :
        Jumps(c, l) /\ (l # "stuck" => pc[c] = "add")
  BY Zenon DEF UpgradeFails, AddConnection, Jumps
<1>3. l \in Labels
  BY Zenon DEF Labels, Ended
<1>4. info'[c] = info[c]
  BY Zenon, <1>2, <1>3, JumpKeeps
<1>5. Slot(c)' = Slot(c) /\ IsAdmin(c)' = IsAdmin(c)
  BY Zenon, <1>4 DEF Slot, IsAdmin
<1>6. ConnOK(c)'
  BY Zenon, <1>1, <1>2, <1>3, <1>5, JumpKeeps DEF ConnOK, Known, InSession
<1> QED
  BY Zenon, <1>2, <1>3, <1>6, JumpKeeps, OneMoves

(* The steps that are no connection's dispatch. *)
LEMMA OthersOK ==
  ASSUME DispatchInv, Sweep \/ Tick \/ UNCHANGED vars \/ \E m \in Conns : SessionCloses(m)
  PROVE  DispatchInv'
<1>1. UNCHANGED <<pkt, info, pc, taken, web, sesh, sent, sessions, epoch>>
  BY Zenon DEF Sweep, Tick, vars, SessionCloses, netVars, cacheVars, sessionVars
<1>2. Typed'
  <2>1. CASE Sweep
    BY <2>1 DEF DispatchInv, TypeOK, Typed, Sweep, netVars, sessionVars
  <2>2. CASE Tick
    BY <2>2 DEF DispatchInv, TypeOK, Typed, Tick, netVars, cacheVars, sessionVars
  <2>3. CASE UNCHANGED vars
    BY Zenon, <2>3 DEF DispatchInv, TypeOK, Typed, vars, netVars, cacheVars, sessionVars
  <2>4. CASE \E m \in Conns : SessionCloses(m)
    BY <2>4 DEF DispatchInv, TypeOK, Typed, SessionCloses, netVars, cacheVars
  <2> QED
    BY Zenon, <2>1, <2>2, <2>3, <2>4
<1>3. \A d \in Conns : Same(d)
  BY Zenon, <1>1 DEF Same
<1>4. \A d \in Conns : ConnOK(d)'
  BY Zenon, <1>3, SameKeeps DEF DispatchInv
<1> QED
  BY Zenon, <1>2, <1>4 DEF DispatchInv, Typed

(* Every step of the server keeps the invariant. *)
LEMMA DispatchStep ==
  ASSUME DispatchInv, [Next]_vars
  PROVE  DispatchInv'
<1>1. ASSUME NEW c \in Conns, NEW a \in Attempts, Connect(c, a) PROVE DispatchInv'
  <2>1. [attempt |-> a, random |-> c, time |-> now] \in Packets
    BY Zenon DEF DispatchInv, TypeOK, Packets
  <2> QED
    BY Zenon, <1>1, <2>1, ArrivesOK DEF Connect
<1>2. ASSUME NEW c \in Conns, NEW d \in Conns, Redeliver(c, d) PROVE DispatchInv'
  <2>1. pkt[d] \in Packets /\ Arrives(c, pkt[d])
    BY Zenon, <1>2 DEF DispatchInv, ConnOK, Redeliver
  <2> QED
    BY Zenon, <2>1, ArrivesOK
<1>3. ASSUME NEW c \in Conns, Dispatch(c) PROVE DispatchInv'
  BY Zenon, <1>3, ReadOK, GoWebOK, RegisterOK, DecryptOK, AdmitOK, GetSessionOK, RefusedOK,
     HandshakeOK, UpgradeOrAddOK DEF Dispatch
<1>4. ASSUME NEW c \in Conns, SessionCloses(c) PROVE DispatchInv'
  BY Zenon, <1>4, OthersOK
<1>5. ASSUME NEW c \in Conns, ServeEnds(c) PROVE DispatchInv'
  BY Zenon, <1>5, ServeEndsOK
<1>6. CASE Sweep \/ Tick \/ UNCHANGED vars
  BY Zenon, <1>6, OthersOK
<1> QED
  BY Zenon, <1>1, <1>2, <1>3, <1>4, <1>5, <1>6 DEF Next

(* The client of an admitted packet takes from the reply the key that was  *)
(* sent, over either transport.                                            *)
LEMMA KeyReceived ==
  ASSUME NEW p \in Packets, ClientInfo[p] # Fail, ClientInfo[p] # Noise, NEW m \in Conns
  PROVE  Received[<<p, m>>] = Bytes(<<"key", m>>, 32)
<1>1. PICK f, r : f = processFirstPacket(p) /\ r = p.random
  BY Zenon
<1>2. PICK secret, c :
        secret = SharedSecret(PublicKey(r)) /\ c = Payload(p, Attempt[p.attempt]).ciphertextWithTag
  BY Zenon
<1>3. f.sharedSecret = secret /\ f.ciphertextWithTag = c
  <2>1. f # Fail
    BY Zenon, <1>1, InfoFound
  <2>2. f = [randPubKey |-> PublicKey(r), sharedSecret |-> secret, ciphertextWithTag |-> c]
    BY Zenon, <1>1, <1>2, <2>1, FragmentsFound
  <2> QED
    BY ONLY <2>2
<1>4. PICK first : first = Attempt[p.attempt].first
  BY Zenon
<1>5. Received[<<p, m>>] = KeyFrom(first, f, r, m)
  <2> DEFINE P == {q \in Packets : ClientInfo[q] \notin {Fail, Noise}}
             K(x) == KeyFrom(Attempt[x[1].attempt].first, processFirstPacket(x[1]),
                             x[1].random, x[2])
  <2>1. Received = [x \in P \X Conns |-> K(x)]
    BY Zenon, TableIs DEF Received
  <2>2. p \in P
    BY Zenon
  <2> HIDE DEF P, K
  <2>3. Received[<<p, m>>] = K(<<p, m>>)
    BY Zenon, <2>1, <2>2
  <2>4. <<p, m>>[1] = p /\ <<p, m>>[2] = m
    BY Zenon
  <2> QED
    BY Zenon, <1>1, <1>4, <2>3, <2>4 DEF K
<1>6. PICK nonce, key : nonce = Bytes(<<"nonce", r>>, 12) /\ key = Bytes(<<"key", m>>, 32)
  BY Zenon
<1>7. Block(nonce, 12) /\ Block(key, 32)
  BY Zenon, <1>6, BytesBlock
<1>8. Block(Slice(c, 0, 32), 32)
  <2>1. Block(c, 64)
    BY Zenon, <1>2, PayloadParts
  <2>2. Holds(c, 64, 0, Slice(c, 0, 32), 32)
    BY ONLY <2>1, SliceBlock
  <2> QED
    BY Zenon, <2>2 DEF Holds
<1>9. CASE first = "tls"
  <2>1. KeyFrom(first, f, r, m) =
          SessionKeyTLS(secret, ReplyTLS(Slice(c, 0, 32), secret, nonce, key))
    BY Zenon, <1>2, <1>3, <1>6, <1>9 DEF KeyFrom
  <2> QED
    BY Zenon, <1>5, <1>6, <1>7, <1>8, <2>1, KeyOverTLS
<1>10. CASE first # "tls"
  <2>1. KeyFrom(first, f, r, m) = SessionKeyWebSocket(secret, ReplyWebSocket(secret, nonce, key))
    BY Zenon, <1>2, <1>3, <1>6, <1>10 DEF KeyFrom
  <2> QED
    BY Zenon, <1>5, <1>6, <1>7, <2>1, KeyOverWebSocket
<1> QED
  BY Zenon, <1>9, <1>10

(* With one obfuscator at both ends, every frame goes over. *)
LEMMA FrameGoesOver ==
  ASSUME NEW o, NEW f \in Frames
  PROVE  GoesOver(f, o, o)
<1>1. 0 \in 0 .. MaxPad(o, f) /\ MaxPad(o, f) \in 0 .. MaxPad(o, f)
  BY DEF MaxPad, TagLen, maxExtraLen, salsa20NonceSize
<1>2. f \in Frame
  BY Zenon, ClientAssumption
<1>3. ASSUME NEW pad \in {0, MaxPad(o, f)}
      PROVE  Transmits(obfuscate(o, f, pad).size) /\ deobfuscate(o, obfuscate(o, f, pad)) = f
  BY Zenon, <1>1, <1>2, FrameKept
<1> QED
  BY Zenon, <1>3 DEF GoesOver

(* A connection that is up: the obfuscators of its two ends, which differ  *)
(* in the method at most.                                                  *)
LEMMA KeysAgree ==
  ASSUME DispatchInv, NEW c \in Conns, pc[c] \in {"up", "serving"}
  PROVE  Obfuscator(sesh[c]).key = ClientObfuscator(c).key
<1>1. ConnOK(c) /\ pc[c] \in Known
  BY Zenon DEF DispatchInv, Known
<1>2. /\ pkt[c] \in Packets /\ info[c] = ClientInfo[pkt[c]]
      /\ info[c] # Fail /\ info[c] # Noise
  BY Zenon, <1>1, ToldIsFound
<1>3. PICK m \in Conns : m = sesh[c] /\ m = sent[c]
  BY Zenon, <1>1 DEF ConnOK, InSession
<1>4. PICK p : p = pkt[c] /\ p \in Packets /\ ClientInfo[p] # Fail /\ ClientInfo[p] # Noise
  BY Zenon, <1>2
<1>5. Received[<<p, m>>] = Bytes(<<"key", m>>, 32)
  BY Zenon, <1>4, KeyReceived
<1>6. Received[<<pkt[c], sent[c]>>] = Bytes(<<"key", m>>, 32)
  BY Zenon, <1>3, <1>4, <1>5
<1>7. ClientObfuscator(c).key = Received[<<pkt[c], sent[c]>>]
  BY Zenon DEF ClientObfuscator
<1>8. Obfuscator(m).key = Bytes(<<"key", m>>, 32)
  BY Zenon DEF Obfuscator
<1> QED
  BY Zenon, <1>3, <1>6, <1>7, <1>8

(* An obfuscator is its method and its key. *)
LEMMA SameObfuscator ==
  ASSUME NEW c, NEW m, Obfuscator(m).method = ClientObfuscator(c).method,
         Obfuscator(m).key = ClientObfuscator(c).key
  PROVE  Obfuscator(m) = ClientObfuscator(c)
BY Zenon DEF Obfuscator, ClientObfuscator

(* The frames go over a connection that is up. *)
LEMMA FramesGoOver == DispatchInv => FramesUnderstood
<1> SUFFICES ASSUME DispatchInv, NEW c \in Conns, pc[c] \in {"up", "serving"},
                    Obfuscator(sesh[c]).method = ClientObfuscator(c).method, NEW f \in Frames
             PROVE  /\ GoesOver(f, Obfuscator(sesh[c]), ClientObfuscator(c))
                    /\ GoesOver(f, ClientObfuscator(c), Obfuscator(sesh[c]))
  BY Zenon DEF FramesUnderstood
<1>1. Obfuscator(sesh[c]).key = ClientObfuscator(c).key
  BY Zenon, KeysAgree
<1>2. Obfuscator(sesh[c]) = ClientObfuscator(c)
  BY Zenon, <1>1, SameObfuscator
<1> QED
  BY Zenon, <1>2, FrameGoesOver

(* What was read is what the web server gets. *)
LEMMA AllBytesPassed == DispatchInv => WebSeesAllBytes
<1> SUFFICES ASSUME DispatchInv, NEW c \in Conns, pc[c] = "web" PROVE web[c] = taken[c]
  BY Zenon DEF WebSeesAllBytes
<1>1. PICK a : a = Attempt[pkt[c].attempt]
  BY Zenon
<1>2. pkt[c] \in Packets /\ taken[c] = readFirstPacket(a).taken /\ web[c] = readFirstPacket(a).i
  BY Zenon, <1>1 DEF DispatchInv, ConnOK
<1>3. pkt[c].attempt \in Attempts
  BY Zenon, <1>2 DEF Packets
<1>4. {a.length, a.sent} \subseteq Nat
  BY Zenon, <1>1, <1>3, ClientAssumption
<1> QED
  BY Zenon, <1>2, <1>4, ReadBounds

(* A connection is admitted with what its client told. *)
LEMMA AdmittedAsTold == DispatchInv => UnderstoodAsSent
<1> SUFFICES ASSUME DispatchInv, NEW c \in Admitted
             PROVE  Understood(info[c], Attempt[pkt[c].attempt])
  BY Zenon DEF UnderstoodAsSent, Understood
<1>1. c \in Conns /\ ConnOK(c) /\ pc[c] \in Known
  BY Zenon DEF Admitted, DispatchInv, Known
<1> QED
  BY Zenon, <1>1, ToldIsFound

(* What a dispatch knows by the label it is at, for all dispatches         *)
(* together: the invariant that the results below follow from.             *)
THEOREM DispatchInvariant == Spec => []DispatchInv
<1>1. DispatchInv /\ [Next]_vars => DispatchInv'
  BY Zenon, DispatchStep
<1> QED
  BY DispatchInit, <1>1, PTL DEF Spec

(* The variables keep their types: a dispatch that asks for a session has  *)
(* a slot of a known user, and no read goes beyond the first packet's      *)
(* buffer.                                                                 *)
THEOREM TypeCorrect == Spec => []TypeOK
<1>1. DispatchInv => TypeOK
  BY Zenon DEF DispatchInv
<1> QED
  BY <1>1, DispatchInvariant, PTL

(* goWeb: whatever the first bytes are and wherever they end, the web      *)
(* server of a redirected connection gets every byte that readFirstPacket  *)
(* took from it.                                                           *)
THEOREM RedirectedWhole == Spec => []WebSeesAllBytes
BY AllBytesPassed, DispatchInvariant, PTL

(* AuthFirstPacket: whoever is admitted is admitted with the UID, session  *)
(* id, encryption method, order and proxy method that its client put into  *)
(* the first packet, over either transport and with any browser's          *)
(* ClientHello.                                                            *)
THEOREM ClientsUnderstood == Spec => []UnderstoodAsSent
BY AdmittedAsTold, DispatchInvariant, PTL

(* finishHandshake and the obfuscator: on a connection that is up, a frame *)
(* of any size a stream writes, obfuscated by either end, goes over in one *)
(* piece and is deobfuscated by the other end to what it was.              *)
THEOREM FramesExchanged == Spec => []FramesUnderstood
BY FramesGoOver, DispatchInvariant, PTL
=============================================================================
