---------------------------- MODULE TcpRequest ----------------------------
(***************************************************************************)
(* One STUN exchange after the other over TCP, byte by byte: a client      *)
(* sends a request and reads the response (TcpClientLoop of                *)
(* client/clientmain.cpp), the server reads it in whatever pieces arrive,  *)
(* answers, and writes the answer as far as the send buffer allows         *)
(* (ReceiveBytesForConnection, WriteBytesForConnection and                 *)
(* ConsumeRemoteClose of server/tcpserver.cpp), both with the message      *)
(* reader of StunReader; the answer is that of MessageHandler under one of *)
(* the providers of SampleAuth.  The thread may close the connection under *)
(* the exchange: a sweep once it is in the old table, or its end.  When a  *)
(* sweep is due is the subject of TcpStunThread; here it may be due at any *)
(* moment.                                                                 *)
(*                                                                         *)
(* A client that is challenged keeps the nonce and may use it in its next  *)
(* request.  Clients with credentials are outside this repository.         *)
(***************************************************************************)
EXTENDS StunReader, SampleAuth

CONSTANTS Providers,      \* the providers the server may be configured with
          Messages,       \* the requests clients send
          HmacSize, MaxStringSize, PortSize, ChangeSize,  \* sizes of attributes
          ResponseLength, \* length of the body of a response
          MaxTime,        \* bound on the clock
          MaxExchanges    \* bound on the number of connections

(* The types the getters of the reader ask for, and any other. *)
AttributeType ==
  {"MAPPED", "CHANGE_REQUEST", "USERNAME", "INTEGRITY", "REALM", "NONCE", "PADDING",
   "RESPONSE_PORT", "FINGERPRINT", "OTHER"}

(* The bytes of the first n attributes, for every n. *)
BytesUpTo(attrs) ==
  LET sum[n \in 0 .. Len(attrs)] == IF n = 0 THEN 0 ELSE sum[n - 1] + AttributeBytes(attrs[n])
  IN  sum

BodyBytes(attrs) == BytesUpTo(attrs)[Len(attrs)]

(* The attributes of a message cover its body, with none to spare. *)
ASSUME MessageAssumption ==
  \A m \in Messages :
    /\ m = [header |-> m.header, length |-> m.length, attrs |-> m.attrs, class |-> m.class,
            type |-> m.type, user |-> m.user, realm |-> m.realm, nonce |-> m.nonce,
            key |-> m.key, change |-> m.change]
    /\ m.header \in BOOLEAN /\ m.length \in Nat
    /\ m.change \in SUBSET {"ip", "port"}   \* the flags of a CHANGE-REQUEST
    /\ m.attrs \in Seq([type : AttributeType, len : Nat])
    /\ BodyBytes(m.attrs) >= m.length
    /\ m.attrs # <<>> => BytesUpTo(m.attrs)[Len(m.attrs) - 1] < m.length

ASSUME ExchangeAssumption ==
  /\ Messages # {}
  /\ Providers \subseteq {"none", "short", "long"}
  /\ ResponseLength \in Nat /\ ResponseLength >= AttrHeaderSize

VARIABLES
  provider,   \* the server's authentication provider
  now,        \* the clock
  exchanges,  \* connections made so far
  \* the client
  msg,        \* its request
  sent,       \* bytes of it sent
  creader,    \* its reader of the response
  client,     \* "idle", "sending", "reading"; "done", "cut" off, or "aborted"
  held,       \* the nonce it was given
  \* the server thread
  running,    \* it has not been stopped
  old,        \* the connection is in _pOldConnList
  \* the connection at the server
  state,      \* _state, "none" before accept, "closed" after CloseConnection
  reader,     \* _reader
  resp,       \* the message in _spOutputBuffer
  txCount     \* _txCount

clientVars == <<msg, sent, creader, client, held>>
serverVars == <<state, reader, resp, txCount>>
threadVars == <<running, old>>
vars == <<provider, now, exchanges, clientVars, threadVars, serverVars>>

NoMessage == CHOOSE m \in Messages : TRUE

(* A client puts the nonce it holds, or something else, into a request that
   has a place for one. *)
Nonce(m) == IF Has(m, "NONCE") THEN {held, c_szRealm} ELSE {m.nonce}

(* The client has closed its socket. *)
ClientGone == client \in {"done", "cut", "aborted"}

Addresses ==
  [r \in Role |-> [valid |-> TRUE, addr |-> [ip |-> IF r < 2 THEN "P" ELSE "A",
                                             port |-> r % 2]]]

(* What the getters of the reader tell the handler about a message. *)
StunMessageIn(m) ==
  [class |-> m.class, type |-> m.type, role |-> RolePP, tcp |-> TRUE,
   remote |-> [ip |-> "client", port |-> 5], local |-> Addresses[RolePP].addr,
   responsePort |-> IF HasSized(m, "RESPONSE_PORT", PortSize) THEN 9 ELSE 0,
   padding |-> Has(m, "PADDING"),
   changeIP |-> HasSized(m, "CHANGE_REQUEST", ChangeSize) /\ "ip" \in m.change,
   changePort |-> HasSized(m, "CHANGE_REQUEST", ChangeSize) /\ "port" \in m.change,
   user |-> IF HasString(m, "USERNAME", MaxStringSize) THEN m.user ELSE EmptyString,
   realm |-> IF HasString(m, "REALM", MaxStringSize) THEN m.realm ELSE EmptyString,
   nonce |-> IF HasString(m, "NONCE", MaxStringSize) THEN m.nonce ELSE EmptyString,
   integrity |-> IF ~Has(m, "INTEGRITY") THEN NoIntegrity
                 ELSE IF IntegrityIsLast(m, HmacSize) THEN m.key
                 ELSE Key("invalid", EmptyString, EmptyString, "")]

(* The response as the client's reader sees it. *)
ResponseMessage ==
  [header |-> TRUE, length |-> ResponseLength,
   attrs |-> <<[type |-> "MAPPED", len |-> ResponseLength - AttrHeaderSize]>>]

ResponseSize == HeaderSize + ResponseLength

Init ==
  /\ provider \in Providers
  /\ now = 0
  /\ exchanges = 0
  /\ msg = NoMessage
  /\ sent = 0
  /\ creader = FreshReader
  /\ client = "idle"
  /\ held = EmptyString
  /\ running = TRUE
  /\ old = FALSE
  /\ state = "none"
  /\ reader = FreshReader
  /\ resp = NoResponse
  /\ txCount = 0

-----------------------------------------------------------------------------
(***************************************************************************)
(* The client.                                                             *)
(***************************************************************************)
(* connect, with a connection of the server's pool prepared for it and put
   into _pNewConnList. *)
Connect(m, nonce) ==
  /\ client = "idle" /\ state = "none" /\ running
  /\ exchanges < MaxExchanges
  /\ exchanges' = exchanges + 1
  /\ msg' = [m EXCEPT !.nonce = nonce]
  /\ sent' = 0
  /\ creader' = FreshReader
  /\ client' = "sending"
  /\ old' = FALSE
  /\ state' = "Receiving"
  /\ reader' = FreshReader
  /\ resp' = NoResponse
  /\ txCount' = 0
  /\ UNCHANGED <<provider, now, held, running>>

RequestSize == HeaderSize + BodyBytes(msg.attrs)

(* send takes any part of what is left; it fails once the server has closed. *)
ClientSend ==
  /\ client = "sending"
  /\ IF state = "closed"
     THEN client' = "cut" /\ UNCHANGED sent
     ELSE /\ sent' \in sent + 1 .. RequestSize
          /\ client' = IF sent' = RequestSize THEN "reading" ELSE "sending"
  /\ UNCHANGED <<provider, now, exchanges, msg, creader, held, threadVars, serverVars>>

(* recv of at most what the reader asks for, 0 if the server shut the stream
   down; what the server had sent before it closed may or may not arrive. *)
ClientRecv ==
  /\ client = "reading"
  /\ HowManyBytesNeeded(creader, ResponseMessage) > 0
  /\ LET needed == HowManyBytesNeeded(creader, ResponseMessage)
         available == txCount - creader.size
     IN  \/ \E n \in 1 .. needed :
              /\ n <= available
              /\ creader' = AddBytes(creader, ResponseMessage, n)
              /\ UNCHANGED client
         \/ /\ state = "closed" \/ (state = "Closing" /\ available = 0)
            /\ client' = "cut"
            /\ UNCHANGED creader
  /\ UNCHANGED <<provider, now, exchanges, msg, sent, held, threadVars, serverVars>>

(* The response is complete: Close, after taking the nonce of a challenge. *)
ClientDone ==
  /\ client = "reading"
  /\ HowManyBytesNeeded(creader, ResponseMessage) = 0
  /\ client' = "done"
  /\ held' = IF resp.kind = "error" /\ resp.code \in {401, 438} /\ resp.nonce # EmptyString
             THEN resp.nonce ELSE held
  /\ UNCHANGED <<provider, now, exchanges, msg, sent, creader, threadVars, serverVars>>

(* The client goes away at any moment. *)
ClientAborts ==
  /\ client \in {"sending", "reading"}
  /\ client' = "aborted"
  /\ UNCHANGED <<provider, now, exchanges, msg, sent, creader, held, threadVars,
                 serverVars>>

(* Both ends are closed; the state of the last exchange is forgotten. *)
Forget ==
  /\ ClientGone /\ state = "closed"
  /\ client' = "idle" /\ state' = "none" /\ old' = FALSE
  /\ msg' = NoMessage /\ sent' = 0 /\ creader' = FreshReader
  /\ reader' = FreshReader /\ resp' = NoResponse /\ txCount' = 0
  /\ UNCHANGED <<provider, now, exchanges, held, running>>

Tick ==
  /\ now < MaxTime
  /\ now' = now + 1
  /\ UNCHANGED <<provider, exchanges, clientVars, threadVars, serverVars>>

-----------------------------------------------------------------------------
(***************************************************************************)
(* The server.                                                             *)
(***************************************************************************)
Available == sent - reader.size

CloseConnection == state' = "closed"

(* One turn of the loop of ReceiveBytesForConnection.  That the reader never
   asks for nothing here is RecvFitsBuffer. *)
Receive ==
  /\ state = "Receiving"
  /\ \/ \E n \in 1 .. HowManyBytesNeeded(reader, msg) :
          /\ n <= Available
          /\ LET r == AddBytes(reader, msg, n)
                 answer == ProcessRequest(StunMessageIn(msg), Addresses,
                                          DoAuthCheck(provider, StunMessageIn(msg), now))
             IN  /\ reader' = r
                 /\ IF r.state = "BodyValidated" /\ answer.kind # "none"
                    THEN state' = "Transmitting" /\ resp' = answer
                    ELSE /\ UNCHANGED resp
                         /\ IF r.state \in {"ParseError", "BodyValidated"}
                            THEN CloseConnection ELSE UNCHANGED state
     \/ \* end of the stream
        /\ Available = 0 /\ ClientGone
        /\ CloseConnection
        /\ UNCHANGED <<reader, resp>>
  /\ UNCHANGED <<provider, now, exchanges, clientVars, threadVars, txCount>>

(* Mutant: the last byte is taken for sent. *)
AllSentEarly(count) == count >= ResponseSize - 1

AllSent(count) == count >= ResponseSize

(* One send of WriteBytesForConnection; it fails if the client is gone. *)
Write ==
  /\ state = "Transmitting"
  /\ \/ /\ txCount' \in txCount + 1 .. ResponseSize
        /\ state' = IF AllSent(txCount') THEN "Closing" ELSE "Transmitting"
     \/ ClientGone /\ CloseConnection /\ UNCHANGED txCount
  /\ UNCHANGED <<provider, now, exchanges, clientVars, threadVars, reader, resp>>

(* ConsumeRemoteClose: whatever still arrives is dropped until the end. *)
ConsumeRemoteClose ==
  /\ state = "Closing"
  /\ ClientGone
  /\ CloseConnection
  /\ UNCHANGED <<provider, now, exchanges, clientVars, threadVars, reader, resp, txCount>>

Open == state \notin {"none", "closed"}

(* A sweep closes the connections of the old table, whatever they are doing,
   and makes the new table the old one. *)
SweepDeadConnections ==
  /\ running /\ Open
  /\ IF old THEN CloseConnection ELSE UNCHANGED state
  /\ old' = TRUE
  /\ UNCHANGED <<provider, now, exchanges, clientVars, running, reader, resp, txCount>>

(* The thread is stopped and closes the connections of both tables. *)
Stop ==
  /\ running
  /\ running' = FALSE
  /\ IF Open THEN CloseConnection ELSE UNCHANGED state
  /\ UNCHANGED <<provider, now, exchanges, clientVars, old, reader, resp, txCount>>

Client == ClientSend \/ ClientRecv \/ ClientDone

Server == Receive \/ Write \/ ConsumeRemoteClose

(* No connection is left to make, or nobody to connect to. *)
Finished == client = "idle" /\ (exchanges = MaxExchanges \/ ~running) /\ UNCHANGED vars

Next ==
  \/ \E m \in Messages : \E n \in Nonce(m) : Connect(m, n)
  \/ Client \/ ClientAborts \/ Forget \/ Tick
  \/ Server \/ SweepDeadConnections \/ Stop
  \/ Finished

(***************************************************************************)
(* The kernel moves the bytes and the server thread runs; a client that    *)
(* stays goes on sending and reading, at a pace of its own: a sweep or a   *)
(* stop may come first, and neither is bound to come.                      *)
(***************************************************************************)
Spec == Init /\ [][Next]_vars /\ WF_vars(Client) /\ WF_vars(Server)

-----------------------------------------------------------------------------
(***************************************************************************)
(* While a connection is receiving, the reader asks for at least one byte  *)
(* and for no more than the buffer on the stack holds, whatever length the *)
(* header claims and however the message was cut: recv is never called     *)
(* with a length beyond buffer[MAX_STUN_MESSAGE_SIZE], and the assertions  *)
(* and the E_UNEXPECTED of tcpserver.cpp:545-551 never fire.               *)
(***************************************************************************)
RecvFitsBuffer ==
  /\ state = "Receiving" =>
       HowManyBytesNeeded(reader, msg) \in 1 .. MaxMessageSize
  /\ client = "reading" =>
       HowManyBytesNeeded(creader, ResponseMessage) \in 0 .. MaxMessageSize

(* What the first n bytes of m are, without reference to how they came. *)
WellFormed(m) ==
  \E k \in 0 .. Len(m.attrs) :
    /\ k <= MaxNumAttributes
    /\ BytesUpTo(m.attrs)[k] = m.length
    /\ \A i \in 1 .. k : m.attrs[i].len <= MaxAttributeSize

Verdict(m, n) ==
  CASE n < HeaderSize -> "HeaderNotRead"
    [] n >= HeaderSize /\ ~ReadHeader(m) -> "ParseError"
    [] n >= HeaderSize /\ ReadHeader(m) /\ n < HeaderSize + m.length -> "HeaderValidated"
    [] OTHER -> IF n = HeaderSize + m.length /\ WellFormed(m) THEN "BodyValidated"
                                                              ELSE "ParseError"

(***************************************************************************)
(* The reader's state depends on the bytes it has been given and not on    *)
(* how they were cut into pieces, and a message is accepted exactly when   *)
(* its attributes, each within its limit, fill its body                    *)
(* (stunreader.cpp:705, :609).                                             *)
(***************************************************************************)
ReaderExact ==
  /\ reader.state = Verdict(msg, reader.size)
  /\ creader.state = Verdict(ResponseMessage, creader.size)

(***************************************************************************)
(* With a provider, a success response answers only a well-formed binding  *)
(* request signed, as its last attribute but for a fingerprint, with the   *)
(* password of the user it names (messagehandler.cpp:366).                 *)
(***************************************************************************)
AuthorisedOnly ==
  resp.kind = "success" /\ provider # "none" =>
    /\ WellFormed(msg) /\ msg.type = "Binding"
    /\ IntegrityIsLast(msg, HmacSize)
    /\ msg.user.text \in DOMAIN Password
    /\ msg.key.password = Password[msg.user.text]

(***************************************************************************)
(* A client whose request was processed gets the whole response, in        *)
(* however small pieces it is written and read, unless it goes away        *)
(* itself, or is so slow that the connection is in the old table when a    *)
(* sweep comes, or the server is stopped: the server does not close        *)
(* earlier, and never waits for the client while the client waits for it   *)
(* (tcpserver.cpp:619, :775, clientmain.cpp:410).                          *)
(***************************************************************************)
ExchangeCompletes ==
  state \in {"Transmitting", "Closing"} ~>
    \/ creader.state = "BodyValidated"
    \/ client = "aborted"
    \/ state = "closed" /\ (old \/ ~running)

(***************************************************************************)
(* What the comments of sampleauthprovider.cpp say of a nonce: "Validation *)
(* of a nonce is to just to make sure the timestamp isn't more than a      *)
(* couple of minutes old and that the hmac hash matches" (:158), after     *)
(* which the request is accepted if its integrity attribute is right.  So  *)
(* a request with the right credentials and a nonce this server has just   *)
(* issued is not answered with 401 or 438.                                 *)
(***************************************************************************)
FreshNonceAccepted ==
  LET in == StunMessageIn(msg) IN
  ~ /\ resp.kind = "error" /\ resp.code \in {401, 438}
    /\ in.user.text \in DOMAIN Password
    /\ in.realm = c_szRealm
    /\ in.integrity = LongTermKey(in.user, in.realm, Password[in.user.text])
    /\ in.nonce = CreateNonce(in.nonce.time)
    /\ now - in.nonce.time \in 0 .. NonceLifetime
=============================================================================
