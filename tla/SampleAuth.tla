---------------------------- MODULE SampleAuth ----------------------------
(***************************************************************************)
(* The two authentication providers of server/sampleauthprovider.cpp, as   *)
(* functions of the request and of the clock.                              *)
(*                                                                         *)
(* A nonce is a time in seconds and a signature: of the time followed by a *)
(* colon ("time:"), as CreateNonce signs it, or of the time alone          *)
(* ("time"), as ValidateNonce computes it.                                 *)
(***************************************************************************)
EXTENDS MessageHandler

CONSTANTS Password,      \* the password of every known user
          NonceLifetime  \* how old a nonce may be, 120 seconds

ASSUME AuthAssumption ==
  /\ NonceLifetime \in Nat
  /\ "" \notin DOMAIN Password
  /\ \A u \in DOMAIN Password : Password[u] # ""

c_szRealm == Plain("realm")

(* The password of a user, "" if the lookup fails. *)
LookupPassword(fWithRealm, user, realm) ==
  IF (fWithRealm => realm = c_szRealm) /\ user.text \in DOMAIN Password
  THEN Password[user.text] ELSE ""

CreateNonce(now) == [text |-> "nonce", time |-> now, mac |-> "time:"]

ValidateNonce(nonce, now) ==
  /\ nonce.text = "nonce"
  /\ now - nonce.time \in 0 .. NonceLifetime
  /\ nonce.mac = "time"

AuthResponse(type, mech, password, realm, nonce) ==
  [responseType |-> type, mech |-> mech, password |-> password, realm |-> realm,
   nonce |-> nonce]

(* CShortTermAuth::DoAuthCheck *)
ShortTermAuth(in) ==
  LET password == LookupPassword(FALSE, in.user, EmptyString)
      type == IF in.integrity = NoIntegrity THEN "Reject"
              ELSE IF password # "" THEN "AllowConditional" ELSE "Unauthorized"
  IN  AuthResponse(type, "ShortTerm", password, EmptyString, EmptyString)

(* CLongTermAuth::DoAuthCheck; the nonce is what it looks the realm up with. *)
LongTermAuth(in, now) ==
  LET password == LookupPassword(TRUE, in.user, in.nonce)
      type == IF in.integrity = NoIntegrity \/ in.nonce = EmptyString
                   \/ in.user = EmptyString \/ password = "" THEN "Unauthorized"
              ELSE IF ~ValidateNonce(in.nonce, now) THEN "StaleNonce"
              ELSE "AllowConditional"
  IN  AuthResponse(type, "LongTerm", password, c_szRealm, CreateNonce(now))

DoAuthCheck(provider, in, now) ==
  CASE provider = "none" -> NoAuth
    [] provider = "short" -> ShortTermAuth(in)
    [] provider = "long" -> LongTermAuth(in, now)
=============================================================================
