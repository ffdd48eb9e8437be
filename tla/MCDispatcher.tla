---------------------------- MODULE MCDispatcher ----------------------------
(* The dispatcher on a small instance.  The attempts: clients over either   *)
(* transport and with each browser's ClientHello, some that the server does *)
(* not take, visitors of the web server, and packets at the limits of the   *)
(* buffer for the first packet.                                             *)
EXTENDS Dispatcher

Client ==
  [first |-> "tls", length |-> 512, sent |-> 517, browser |-> "chrome", cloak |-> TRUE,
   malformed |-> FALSE, uid |-> "u1", sid |-> 1, method |-> Name("ssh", 3),
   enc |-> "aes-256-gcm", unordered |-> 0]

MCAttempt ==
  [chrome    |-> Client,
   firefox   |-> [Client EXCEPT !.browser = "firefox", !.enc = "plain",
                                !.unordered = 1],
   websocket |-> [Client EXCEPT !.first = "ws", !.length = 3000, !.sent = 3000,
                                !.enc = "chacha20-poly1305",
                                !.method = Name("a-long-name", 12)],
   longName  |-> [Client EXCEPT !.browser = "safari",
                                !.method = Name("a-longer-name", 13)],
   noMethod  |-> [Client EXCEPT !.enc = "unknown"],
   admin     |-> [Client EXCEPT !.uid = "admin", !.sid = 0],
   noUser    |-> [Client EXCEPT !.uid = "u2"],
   visitor   |-> [Client EXCEPT !.cloak = FALSE],
   malformed |-> [Client EXCEPT !.malformed = TRUE],
   other     |-> [Client EXCEPT !.first = "other", !.sent = 100],
   tooLong   |-> [Client EXCEPT !.length = 2996, !.sent = 3001],
   cutShort  |-> [Client EXCEPT !.length = 2995, !.sent = 2999],
   longGet   |-> [Client EXCEPT !.first = "ws", !.length = 3001, !.sent = 3001]]

MCAttempts == DOMAIN MCAttempt

MCProxyBook == {Name("ssh", 3), Name("a-long-name", 12)}

MCFrames ==
  {[stream |-> s, seq |-> q, closing |-> 0, payload |-> n] :
     s \in {1}, q \in {4, 5}, n \in {1, maxStreamUnitWrite}}
=============================================================================
