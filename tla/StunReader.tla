---------------------------- MODULE StunReader ----------------------------
(***************************************************************************)
(* CStunMessageReader (stuncore/stunreader.cpp): the state machine that    *)
(* takes a STUN message in pieces of any size and tells how many bytes it  *)
(* still needs.  A reader is a record of its state and of the number of    *)
(* bytes in its stream; the bytes are those of a message on the wire:      *)
(*                                                                         *)
(*   header  the two top bits are zero                                     *)
(*   length  what the header says the length of the body is                *)
(*   attrs   the attributes that follow, a type and a length each, at      *)
(*           least length bytes of them                                    *)
(*                                                                         *)
(* Lengths count bytes; the sizes of the format are parameters so that     *)
(* small ones can be checked.                                              *)
(***************************************************************************)
EXTENDS Integers, Sequences, FiniteSets

CONSTANTS HeaderSize,        \* STUN_HEADER_SIZE, 20
          AttrHeaderSize,    \* type and length of an attribute, 4
          Align,             \* bodies and attributes are padded to it, 4
          MaxMessageSize,    \* MAX_STUN_MESSAGE_SIZE, 800
          MaxAttributeSize,  \* MAX_STUN_ATTRIBUTE_SIZE, 780
          MaxNumAttributes   \* MAX_NUM_ATTRIBUTES, 30

ASSUME FormatAssumption ==
  /\ HeaderSize \in Nat \ {0} /\ AttrHeaderSize \in Nat \ {0} /\ Align \in Nat \ {0}
  /\ MaxMessageSize \in Nat /\ MaxAttributeSize \in Nat /\ MaxNumAttributes \in Nat
  /\ HeaderSize <= MaxMessageSize

FreshReader == [state |-> "HeaderNotRead", size |-> 0]

(* The bytes an attribute takes, padding included. *)
AttributeBytes(a) ==
  AttrHeaderSize + a.len + (IF a.len % Align = 0 THEN 0 ELSE Align - (a.len % Align))

HowManyBytesNeeded(r, msg) ==
  CASE r.state = "HeaderNotRead" -> HeaderSize - r.size
    [] r.state = "HeaderValidated" -> msg.length + HeaderSize - r.size
    [] OTHER -> 0

(* Mutant: the length of the body is not limited. *)
ReadHeaderUnlimited(msg) == msg.header /\ msg.length % Align = 0

ReadHeader(msg) ==
  /\ msg.header
  /\ msg.length % Align = 0
  /\ msg.length <= MaxMessageSize

(***************************************************************************)
(* The loop of ReadBody over a stream of total bytes, one attribute after  *)
(* the other; an attribute that is too long, one too many or cut off by    *)
(* the end of the stream stops it.                                         *)
(***************************************************************************)
ReadAttribute(msg, n, before) ==
  LET total == HeaderSize + msg.length
      after == before.consumed + AttributeBytes(msg.attrs[n])
  IN  IF ~before.ok \/ before.consumed >= total THEN before
      ELSE IF /\ msg.attrs[n].len <= MaxAttributeSize
              /\ n <= MaxNumAttributes
              /\ after <= total
           THEN [consumed |-> after, ok |-> TRUE]
           ELSE [consumed |-> before.consumed, ok |-> FALSE]

ReadAttributes(msg) ==
  LET body[n \in 0 .. Len(msg.attrs)] ==
        IF n = 0 THEN [consumed |-> HeaderSize, ok |-> TRUE]
        ELSE ReadAttribute(msg, n, body[n - 1])
  IN  body

ReadBody(msg) == ReadAttributes(msg)[Len(msg.attrs)].consumed = HeaderSize + msg.length

(* Mutant: the header must come in one piece. *)
AddBytesWhole(r, msg, n) ==
  LET size == r.size + n
      total == HeaderSize + msg.length
      header == IF r.state = "HeaderNotRead" /\ n >= HeaderSize
                THEN IF ReadHeader(msg) THEN "HeaderValidated" ELSE "ParseError"
                ELSE r.state
      body == IF header = "HeaderValidated" /\ size >= total
              THEN IF size = total /\ ReadBody(msg) THEN "BodyValidated" ELSE "ParseError"
              ELSE header
  IN  [state |-> body, size |-> size]

(* The reader after n more bytes of msg. *)
AddBytes(r, msg, n) ==
  LET size == r.size + n
      total == HeaderSize + msg.length
      header == IF r.state = "HeaderNotRead" /\ size >= HeaderSize
                THEN IF ~ReadHeader(msg) THEN "ParseError"
                     ELSE IF msg.length = 0 THEN "BodyValidated" ELSE "HeaderValidated"
                ELSE r.state
      body == IF header = "HeaderValidated" /\ size >= total
              THEN IF size = total /\ ReadBody(msg) THEN "BodyValidated" ELSE "ParseError"
              ELSE header
      excess == body = "BodyValidated" /\ size > total
  IN  IF r.state = "ParseError" \/ n = 0 THEN r
      ELSE [state |-> IF excess THEN "ParseError" ELSE body, size |-> size]

-----------------------------------------------------------------------------
(* The index of the attribute Lookup finds: the last one of its type, 0 if
   there is none.  The table of attributes is a FastHash. *)
Lookup(msg, type) ==
  LET found == {i \in DOMAIN msg.attrs : msg.attrs[i].type = type}
  IN  IF found = {} THEN 0 ELSE CHOOSE i \in found : \A j \in found : j <= i

Has(msg, type) == Lookup(msg, type) # 0

(* An attribute that must have a given size to be seen. *)
HasSized(msg, type, size) == Has(msg, type) /\ msg.attrs[Lookup(msg, type)].len = size

(* A string is seen if it fits the buffer of the caller. *)
HasString(msg, type, max) == Has(msg, type) /\ msg.attrs[Lookup(msg, type)].len <= max

(* Nothing but a fingerprint follows the integrity attribute. *)
IntegrityIsLast(msg, hmacSize) ==
  LET i == Lookup(msg, "INTEGRITY")
      last == Len(msg.attrs)
  IN  /\ HasSized(msg, "INTEGRITY", hmacSize)
      /\ i = last \/ (i = last - 1 /\ Lookup(msg, "FINGERPRINT") = last)
=============================================================================
