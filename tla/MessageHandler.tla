--------------------------- MODULE MessageHandler ---------------------------
(***************************************************************************)
(* CStunRequestHandler (stuncore/messagehandler.cpp): what the server      *)
(* answers to a validated STUN message, as a function of the message, of   *)
(* the socket it came in on, of the server's addresses and of what the     *)
(* authentication provider said.                                           *)
(*                                                                         *)
(* in     the StunMessageIn: role, remote and local address, tcp, and the  *)
(*        attributes of the request the handler reads                      *)
(* tsa    the TransportAddressSet: valid and addr of every role            *)
(* auth   the AuthResponse, NoAuth if there is no provider                 *)
(***************************************************************************)
EXTENDS Integers

-----------------------------------------------------------------------------
(* Socket roles: bit 0 is the port, bit 1 the address; 0 is primary. *)
Role == 0 .. 3

RolePP == 0

SocketRoleSwapPort(r) == IF r % 2 = 0 THEN r + 1 ELSE r - 1

SocketRoleSwapIP(r) == (r + 2) % 4

IsIPAddressZero(addr) == addr.ip = "zero"

HasAddress(tsa, r) == r \in Role /\ tsa[r].valid

IsIPAddressZeroOrInvalid(tsa, r) == ~(HasAddress(tsa, r) /\ ~IsIPAddressZero(tsa[r].addr))

-----------------------------------------------------------------------------
(* A string attribute.  The time and the signature are those of a nonce. *)
Plain(s) == [text |-> s, time |-> 0, mac |-> "none"]

EmptyString == Plain("")

(* What a message-integrity attribute was computed with; the hash is taken to
   be injective. *)
Key(mech, user, realm, password) ==
  [mech |-> mech, user |-> user, realm |-> realm, password |-> password]

ShortTermKey(password) == Key("ShortTerm", EmptyString, EmptyString, password)

LongTermKey(user, realm, password) == Key("LongTerm", user, realm, password)

NoIntegrity == Key("none", EmptyString, EmptyString, "")

NoAuth == [responseType |-> "Allow", mech |-> "none", password |-> "",
           realm |-> EmptyString, nonce |-> EmptyString]

(* The key an AllowConditional answer asks for. *)
RequiredKey(in, auth) ==
  IF auth.mech = "LongTerm" THEN LongTermKey(in.user, in.realm, auth.password)
                            ELSE ShortTermKey(auth.password)

(* Mutant: the integrity attribute is required and not validated. *)
ValidateAuthPresentOnly(in, auth) ==
  CASE auth.responseType = "StaleNonce" -> 438
    [] auth.responseType = "Unauthorized" -> 401
    [] auth.responseType = "Reject" -> 400
    [] auth.responseType = "AllowConditional" /\ in.integrity = NoIntegrity -> 401
    [] OTHER -> 0

(* The error code ValidateAuth sets, 0 if the request may go on. *)
ValidateAuth(in, auth) ==
  CASE auth.responseType = "StaleNonce" -> 438
    [] auth.responseType = "Unauthorized" -> 401
    [] auth.responseType = "Reject" -> 400
    [] auth.responseType = "AllowConditional"
         /\ in.integrity # RequiredKey(in, auth) -> 401
    [] OTHER -> 0

-----------------------------------------------------------------------------
NoResponse == [kind |-> "none"]

(* A response port other than 0 redirects every answer over UDP, errors too. *)
addrDest(in) ==
  IF in.responsePort # 0 /\ ~in.tcp THEN [in.remote EXCEPT !.port = in.responsePort]
                                    ELSE in.remote

(* 401 and 438 carry the provider's nonce and realm, when it gave any. *)
BuildErrorResponse(in, code, auth) ==
  LET challenge == code \in {401, 438} IN
  [kind |-> "error", code |-> code, role |-> in.role, dest |-> addrDest(in),
   nonce |-> IF challenge THEN auth.nonce ELSE EmptyString,
   realm |-> IF challenge THEN auth.realm ELSE EmptyString]

IsChangeRequest(in) == in.changeIP \/ in.changePort

(* The role the answer is sent from. *)
socketOutput(in) ==
  LET ip == IF in.changeIP THEN SocketRoleSwapIP(in.role) ELSE in.role
  IN  IF in.changePort THEN SocketRoleSwapPort(ip) ELSE ip

(* Mutant: whether the server has the other socket is not asked. *)
BindingRequestIsBadAnywhere(in, tsa) ==
  \/ in.responsePort # 0 /\ in.padding
  \/ IsChangeRequest(in) /\ in.tcp

(* What ProcessBindingRequest refuses with 400. *)
BindingRequestIsBad(in, tsa) ==
  \/ in.responsePort # 0 /\ in.padding
  \/ IsChangeRequest(in) /\ (~HasAddress(tsa, socketOutput(in)) \/ in.tcp)

NoAddr == [ip |-> "zero", port |-> 0]

(* RESPONSE-ORIGIN, NoAddr when the attribute is left out. *)
addrOrigin(in, tsa) ==
  LET addr == tsa[socketOutput(in)].addr
      known == IF IsIPAddressZero(addr) /\ socketOutput(in) = in.role
               THEN in.local ELSE addr
  IN  IF IsIPAddressZero(known) THEN NoAddr ELSE known

(* OTHER-ADDRESS: opposite to where the request was received, only when all
   four sockets exist. *)
addrOther(in, tsa) ==
  LET other == SocketRoleSwapIP(SocketRoleSwapPort(in.role)) IN
  IF (\A r \in Role : HasAddress(tsa, r)) /\ ~IsIPAddressZeroOrInvalid(tsa, other)
  THEN tsa[other].addr ELSE NoAddr

ProcessBindingRequest(in, tsa, auth) ==
  [kind |-> "success", role |-> socketOutput(in), dest |-> addrDest(in),
   mapped |-> in.remote, origin |-> addrOrigin(in, tsa), other |-> addrOther(in, tsa),
   integrity |-> IF auth.responseType = "AllowConditional" THEN RequiredKey(in, auth)
                                                           ELSE NoIntegrity]

(* The error code a request ends with, in the order the code finds them. *)
ErrorCode(in, tsa, auth) ==
  IF (in.responsePort # 0 /\ in.tcp) \/ in.type # "Binding" THEN 400
  ELSE IF ValidateAuth(in, auth) # 0 THEN ValidateAuth(in, auth)
  ELSE IF BindingRequestIsBad(in, tsa) THEN 400 ELSE 0

(* ProcessRequest and ProcessRequestImpl: anything but a request is ignored. *)
ProcessRequest(in, tsa, auth) ==
  LET code == ErrorCode(in, tsa, auth) IN
  IF in.class # "Request" THEN NoResponse
  ELSE IF code # 0 THEN BuildErrorResponse(in, code, auth)
  ELSE ProcessBindingRequest(in, tsa, auth)
=============================================================================
