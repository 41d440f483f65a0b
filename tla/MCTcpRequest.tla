--------------------------- MODULE MCTcpRequest ---------------------------
(***************************************************************************)
(* Requests of every kind the reader and the handler tell apart, in a      *)
(* format scaled down to a header of four bytes, attributes of two bytes   *)
(* and a value, and bodies of at most sixteen bytes and four attributes.   *)
(***************************************************************************)
EXTENDS TcpRequest

PasswordMC == [u \in {"bruce"} |-> "pw"]

A(type, len) == [type |-> type, len |-> len]

Bruce == Plain("bruce")

Good == ShortTermKey("pw")

(* A binding request with these attributes and the length that fits them. *)
Binding(attrs, user, key) ==
  [header |-> TRUE, length |-> BodyBytes(attrs), attrs |-> attrs, class |-> "Request",
   type |-> "Binding", user |-> user, realm |-> c_szRealm, nonce |-> EmptyString, key |-> key,
   change |-> {}]

Bare(attrs) == Binding(attrs, EmptyString, NoIntegrity)

Signed == <<A("USERNAME", 1), A("INTEGRITY", 2)>>

LongTermSigned == <<A("USERNAME", 1), A("REALM", 2), A("NONCE", 2), A("INTEGRITY", 2)>>

Malformed ==
  {[Bare(<<A("OTHER", 1)>>) EXCEPT !.header = FALSE],       \* not STUN
   [Bare(<<A("OTHER", 1)>>) EXCEPT !.length = 3],           \* not aligned
   [Bare(<<A("OTHER", 6)>>) EXCEPT !.length = 4],           \* attribute cut off
   [Bare(<<A("OTHER", 0), A("OTHER", 0)>>) EXCEPT !.length = 3],
   Bare(<<A("OTHER", 1), A("OTHER", 12)>>),                 \* too long a body
   Bare(<<A("OTHER", 13)>>),                                \* too long an attribute
   Bare([i \in 1 .. 5 |-> A("OTHER", 0)])}                  \* too many attributes

(* A binding request with a CHANGE-REQUEST of these flags. *)
Change(flags) == [Bare(<<A("CHANGE_REQUEST", 2)>>) EXCEPT !.change = flags]

Refused ==
  {[Bare(<<>>) EXCEPT !.class = "Indication"],
   [Bare(<<>>) EXCEPT !.type = "Other"],
   Bare(<<A("RESPONSE_PORT", 1)>>), Change({"ip"}), Change({"ip", "port"})}

MessagesMC ==
  {Bare(<<>>), Bare(<<A("OTHER", 0), A("OTHER", 12)>>), Bare(<<A("RESPONSE_PORT", 2)>>),
   Change({}),
   Binding(Signed, Bruce, Good),
   Binding(Signed, Bruce, ShortTermKey("guess")), Binding(Signed, Plain("nobody"), Good),
   Binding(Signed \o <<A("FINGERPRINT", 2)>>, Bruce, Good),
   Binding(Signed \o <<A("OTHER", 2)>>, Bruce, Good),
   Binding(<<A("USERNAME", 3), A("INTEGRITY", 2)>>, Bruce, Good),
   Binding(LongTermSigned, Bruce, LongTermKey(Bruce, c_szRealm, "pw"))}
  \cup Malformed \cup Refused
=============================================================================
