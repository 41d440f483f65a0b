------------------------- MODULE P2PTransferProofs -------------------------
(***************************************************************************)
(* TLAPS proofs about P2PTransfer, for any set of peers, any shared files  *)
(* and any network.                                                        *)
(***************************************************************************)
EXTENDS P2PTransfer, SequenceTheorems, TLAPS

-----------------------------------------------------------------------------
(***************************************************************************)
(* The fields a datagram has, by its type.                                 *)
(***************************************************************************)
LEMMA MessageFields ==
  ASSUME NEW m \in Message
  PROVE  /\ m.dst \in Peer
         /\ m.type = "request data doConnect" => m.requester \in Peer
         /\ m.type # "request data doConnect" => m.src \in Peer
         /\ m.type = "request data fileName" => m.name \in File
         /\ m.type = "respond data fileDesc" => m.size \in Nat
         /\ m.type = "respond data sector" => m.index \in Nat /\ m.data \in Data
         /\ m.type = "respond apk sector" => m.index \in Nat
  BY DEF Message, Plain

(***************************************************************************)
(* The datagrams each send function builds are well-formed.                *)
(***************************************************************************)
LEMMA SentMessages ==
  ASSUME NEW p \in Peer, NEW q \in Peer
  PROVE  /\ SendRequestReady(p) \in Message
         /\ SendDoConnect(p) \in Message
         /\ RespondReady(p, q) \in Message
         /\ \A f \in File : FileNameRequest(p, q, f) \in Message
         /\ \A n \in Nat : FileDesc(p, q, n) \in Message
         /\ [type |-> "respond apk fileDesc", src |-> p, dst |-> q] \in Message
  BY ConstantsAssumption
     DEF Message, Plain, SendRequestReady, SendDoConnect, RespondReady,
         FileNameRequest, FileDesc

(***************************************************************************)
(* So are a sector and its acknowledgement.                                *)
(***************************************************************************)
LEMMA SectorMessage ==
  ASSUME NEW p \in Peer, NEW q \in Peer, NEW i \in Nat, NEW d \in Data
  PROVE  /\ [type |-> "respond data sector", src |-> p, dst |-> q,
             index |-> i, data |-> d] \in Message
         /\ [type |-> "respond apk sector", src |-> p, dst |-> q,
             index |-> i] \in Message
  BY DEF Message

(***************************************************************************)
(* A delivery adds only what the handler sends.                            *)
(***************************************************************************)
LEMMA ConsumeNet ==
  ASSUME NEW m, NEW out, Consume(m, out)
  PROVE  net' \subseteq net \cup out
  BY DEF Consume

(***************************************************************************)
(* Well-formed datagrams only are in the network after a delivery.         *)
(***************************************************************************)
LEMMA ConsumeType ==
  ASSUME net \subseteq Message, NEW m, NEW out \in SUBSET Message, Consume(m, out)
  PROVE  net' \subseteq Message
  BY ConsumeNet

(***************************************************************************)
(* What loadFileToBuffer yields is a sequence of blocks.                   *)
(***************************************************************************)
LEMMA LoadableType ==
  ASSUME TypeOK, NEW p \in Peer, NEW f \in File
  PROVE  Loadable(p, f) \subseteq Seq(Data)
<1>1. CASE f = localFileName[p] /\ writeBuff[p] # "NULL"
  <2>1. \A n \in 0 .. Len(written[p]) : SubSeq(written[p], 1, n) \in Seq(Data)
    BY DEF TypeOK
  <2>2. Len(written[p]) \in 0 .. Len(written[p])
    BY DEF TypeOK
  <2> QED BY <1>1, <2>1, <2>2 DEF Loadable
<1>2. CASE ~(f = localFileName[p] /\ writeBuff[p] # "NULL")
  BY <1>2, ConstantsAssumption DEF Loadable
<1> QED BY <1>1, <1>2

-----------------------------------------------------------------------------
(***************************************************************************)
(* Every handler of the receive thread and every step of the send thread   *)
(* keeps the state and the datagrams well-formed.                          *)
(***************************************************************************)
LEMMA TypeNext == TypeOK /\ TransferInv /\ [Next]_vars => TypeOK'
<1> SUFFICES ASSUME TypeOK, TransferInv, [Next]_vars
             PROVE  TypeOK'
  OBVIOUS
<1> USE DEF TypeOK
<1>1. ASSUME NEW p \in Peer, NEW m \in net, ReceiveThread(p, m)
      PROVE  TypeOK'
  <2>0. m \in Message
    OBVIOUS
  <2>1. CASE ReceiveDoConnect(p, m)
    <3>1. RespondReady(p, m.requester) \in Message
      BY <2>0, <2>1, MessageFields, SentMessages DEF ReceiveDoConnect, Received
    <3>2. net' \subseteq Message
      <4>1. Consume(m, {RespondReady(p, m.requester)})
        BY <2>1 DEF ReceiveDoConnect
      <4>2. {RespondReady(p, m.requester)} \in SUBSET Message
        BY <3>1, Zenon
      <4>3. net \subseteq Message
        OBVIOUS
      <4> HIDE DEF TypeOK
      <4> QED BY <4>1, <4>2, <4>3, ConsumeType
    <3> QED BY <2>1, <3>2 DEF ReceiveDoConnect, serveVars, sendVars, connVars, writeVars
  <2>2. CASE ReceiveRequestReady(p, m)
    <3>1. RespondReady(p, m.src) \in Message
      BY <2>0, <2>2, MessageFields, SentMessages DEF ReceiveRequestReady, Received
    <3>2. net' \subseteq Message
      <4>1. Consume(m, {RespondReady(p, m.src)})
        BY <2>2 DEF ReceiveRequestReady
      <4>2. {RespondReady(p, m.src)} \in SUBSET Message
        BY <3>1, Zenon
      <4>3. net \subseteq Message
        OBVIOUS
      <4> HIDE DEF TypeOK
      <4> QED BY <4>1, <4>2, <4>3, ConsumeType
    <3> QED BY <2>2, <3>2 DEF ReceiveRequestReady, serveVars, sendVars, connVars, writeVars
  <2>3. CASE ReceiveRespondReady(p, m)
    <3>1. m.src \in Peer
      BY <2>0, <2>3, MessageFields DEF ReceiveRespondReady, Received
    <3>2. net' \subseteq Message
      <4>1. Consume(m, {})
        BY <2>3 DEF ReceiveRespondReady
      <4> QED BY <4>1, ConsumeType
    <3> QED BY <2>3, <3>1, <3>2
            DEF ReceiveRespondReady, serveVars, sendVars, connVars, writeVars
  <2>4. CASE ReceiveFileName(p, m)
    <3>1. m.src \in Peer /\ m.name \in File
      BY <2>0, <2>4, MessageFields DEF ReceiveFileName, Received
    <3>2. PICK blocks \in FileBlocks(p, m.name) :
            /\ Consume(m, RespondFileInfo(p, m.src, blocks))
            /\ fileRead' = [fileRead EXCEPT ![p] = blocks]
      BY <2>4 DEF ReceiveFileName
    <3>3. blocks \in Seq(Data)
      BY <3>1, LoadableType, SMTT(20) DEF FileBlocks
    <3>4. FileDesc(p, m.src, Len(blocks)) \in Message
      <4>1. Len(blocks) \in Nat
        BY <3>3
      <4> HIDE DEF TypeOK
      <4> QED BY <3>1, <4>1, SentMessages
    <3>5. net' \subseteq Message
      BY <3>2, <3>4, ConsumeNet DEF RespondFileInfo
    <3> QED BY <2>4, <3>2, <3>3, <3>5
            DEF ReceiveFileName, sendVars, connVars, writeVars
  <2>5. CASE ReceiveFileDesc(p, m)
    <3>1. m.src \in Peer /\ m.size \in Nat
      BY <2>0, <2>5, MessageFields DEF ReceiveFileDesc, Received
    <3>2. [type |-> "respond apk fileDesc", src |-> p, dst |-> m.src] \in Message
      BY <3>1, SentMessages
    <3>3. net' \subseteq Message
      <4>1. Consume(m, {[type |-> "respond apk fileDesc", src |-> p, dst |-> m.src]})
        BY <2>5 DEF ReceiveFileDesc
      <4>2. {[type |-> "respond apk fileDesc", src |-> p, dst |-> m.src]} \in SUBSET Message
        BY <3>2, Zenon
      <4>3. net \subseteq Message
        OBVIOUS
      <4> HIDE DEF TypeOK
      <4> QED BY <4>1, <4>2, <4>3, ConsumeType
    <3> QED BY <2>5, <3>1, <3>3
            DEF ReceiveFileDesc, serveVars, sendVars, connVars, writeVars
  <2>6. CASE ReceiveApkFileDesc(p, m)
    <3>1. m.src \in Peer
      BY <2>0, <2>6, MessageFields DEF ReceiveApkFileDesc, Received
    <3>2. net' \subseteq Message
      <4>1. Consume(m, {})
        BY <2>6 DEF ReceiveApkFileDesc
      <4> QED BY <4>1, ConsumeType
    <3>3. /\ pos' \in [Peer -> Nat \cup {-1}]
          /\ sender' \in [Peer -> {"none", "read", "send", "exit"}]
      <4>1. CASE pos[p] = -1
        <5>1. pos' = [pos EXCEPT ![p] = 0]
          BY <2>6, <4>1 DEF ReceiveApkFileDesc
        <5>2. sender' = sender \/ sender' = [sender EXCEPT ![p] = "read"]
          BY <2>6, <4>1 DEF ReceiveApkFileDesc, StartSendThread
        <5> QED BY <5>1, <5>2
      <4>2. CASE pos[p] # -1
        BY <2>6, <4>2 DEF ReceiveApkFileDesc, sendVars
      <4> QED BY <4>1, <4>2
    <3>4. dest' \in [Peer -> Peer \cup {NoPeer}] /\ position' = position
      BY <2>6, <3>1 DEF ReceiveApkFileDesc, StartSendThread, sendVars
    <3> QED BY <2>6, <3>2, <3>3, <3>4
            DEF ReceiveApkFileDesc, serveVars, sendVars, connVars, writeVars
  <2>7. CASE ReceiveSector(p, m)
    <3>1. m.src \in Peer /\ m.index \in Nat /\ m.data \in Data
      BY <2>0, <2>7, MessageFields DEF ReceiveSector, Received
    <3>2. ApkSector(p, m) \subseteq Message
      BY <3>1, SectorMessage DEF ApkSector
    <3>3. net' \subseteq Message
      BY <2>7, <3>2, ConsumeNet DEF ReceiveSector
    <3>4. alive' \in [Peer -> BOOLEAN]
      BY <2>7 DEF ReceiveSector
    <3>5. written' \in [Peer -> Seq(Data)] /\ curWrite' \in [Peer -> Nat]
      <4>1. Append(written[p], m.data) \in Seq(Data) /\ curWrite[p] + 1 \in Nat
        BY <3>1
      <4> QED BY <2>7, <4>1 DEF ReceiveSector, WriteSector
    <3>6. writeBuff' \in [Peer -> {"NULL", "open", "deleted"}]
      BY <2>7 DEF ReceiveSector
    <3> QED BY <2>7, <3>3, <3>4, <3>5, <3>6
            DEF ReceiveSector, serveVars, sendVars, connVars
  <2>8. CASE ReceiveApkSector(p, m)
    <3>1. net' \subseteq Message
      <4>1. Consume(m, {})
        BY <2>8 DEF ReceiveApkSector
      <4> QED BY <4>1, ConsumeType
    <3>2. pos[p] \in Nat \cup {-1} /\ pos[p] + 1 \in Nat
      OBVIOUS
    <3>3. pos' \in [Peer -> Nat \cup {-1}]
      BY <2>8, <3>2 DEF ReceiveApkSector
    <3> QED BY <2>8, <3>1, <3>3
            DEF ReceiveApkSector, serveVars, connVars, writeVars
  <2> QED BY <1>1, <2>1, <2>2, <2>3, <2>4, <2>5, <2>6, <2>7, <2>8 DEF ReceiveThread
<1>2. ASSUME NEW p \in Peer, SendThreadRead(p)
      PROVE  TypeOK'
  <2>1. pos[p] \in Nat
    BY <1>2 DEF SendThreadRead, TransferInv, SenderInv, SenderOK
  <2> QED BY <1>2, <2>1 DEF SendThreadRead, serveVars, connVars, writeVars
<1>3. ASSUME NEW p \in Peer, SendSectorData(p)
      PROVE  TypeOK'
  <2>1. /\ dest[p] \in Peer
        /\ position[p] \in Nat
        /\ position[p] < Len(fileRead[p])
    BY <1>3 DEF SendSectorData, TransferInv, SenderInv, SenderOK
  <2>2. fileRead[p][position[p] + 1] \in Data
    BY <2>1
  <2>3. Sector(p, position[p]) \in Message
    BY <2>1, <2>2, SectorMessage DEF Sector
  <2> QED BY <1>3, <2>3 DEF SendSectorData, serveVars, connVars, writeVars
<1>4. ASSUME NEW m \in net, Lose(m)
      PROVE  TypeOK'
  BY <1>4 DEF Lose, serveVars, sendVars, connVars, writeVars
<1>5. ASSUME NEW p \in Peer, SendRequestFileInfo(p)
      PROVE  TypeOK'
  <2>1. asked[p] \in Peer
    BY <1>5 DEF SendRequestFileInfo, TransferInv, KnowsFile
  <2>2. PICK f \in File :
          /\ net' = net \cup {FileNameRequest(p, asked[p], f)}
          /\ localFileName' = [localFileName EXCEPT ![p] = f]
    BY <1>5 DEF SendRequestFileInfo
  <2>3. FileNameRequest(p, asked[p], f) \in Message
    <3> HIDE DEF TypeOK
    <3> QED BY <2>1, SentMessages
  <2> QED BY <1>5, <2>2, <2>3 DEF SendRequestFileInfo, serveVars, sendVars, writeVars
<1>6. CASE UNCHANGED vars
  BY <1>6 DEF vars, serveVars, sendVars, connVars, writeVars
<1> QED BY <1>1, <1>2, <1>3, <1>4, <1>5, <1>6 DEF Next

-----------------------------------------------------------------------------
(***************************************************************************)
(* Initially nothing has been asked, served or written.                    *)
(***************************************************************************)
LEMMA InitInv == Init => TypeOK /\ TransferInv
<1> SUFFICES ASSUME Init PROVE TypeOK /\ TransferInv
  OBVIOUS
<1>1. net \subseteq Message
  BY SentMessages DEF Init
<1>2. TypeOK
  BY <1>1, ConstantsAssumption DEF Init, TypeOK
<1>3. \A m \in net : m.type \in {"request status ready", "request data doConnect"}
  <2>1. \A m \in net : \E p \in Peer : m = SendRequestReady(p) \/ m = SendDoConnect(p)
    BY DEF Init
  <2>2. \A p \in Peer : /\ SendRequestReady(p).type = "request status ready"
                        /\ SendDoConnect(p).type = "request data doConnect"
    BY DEF SendRequestReady, SendDoConnect
  <2> QED BY <2>1, <2>2
<1>4. DatagramsTrue
  BY <1>3 DEF DatagramsTrue, DatagramTrue
<1>5. KnowsFile /\ SenderInv /\ WriterInv
  BY DEF Init, KnowsFile, SenderInv, SenderOK, WriterInv, WriterOK
<1> QED BY <1>2, <1>4, <1>5 DEF TransferInv

(***************************************************************************)
(* What has been written depends on these variables only.                  *)
(***************************************************************************)
LEMMA WriterFrame ==
  ASSUME WriterInv,
         UNCHANGED <<alive, asked, dest, fileRead, fileBlockSize, curWrite, writeBuff, written>>
  PROVE  WriterInv'
  BY DEF WriterInv, WriterOK

(***************************************************************************)
(* How far a send thread is depends on these variables only.               *)
(***************************************************************************)
LEMMA SenderFrame ==
  ASSUME SenderInv,
         UNCHANGED <<asked, fileRead, fileBlockSize, sender, pos, position, dest, curWrite>>
  PROVE  SenderInv'
  BY DEF SenderInv, SenderOK, Announced

(***************************************************************************)
(* What a peer knows of its file depends on these variables only.          *)
(***************************************************************************)
LEMMA KnowsFrame ==
  ASSUME KnowsFile,
         UNCHANGED <<mConnection, asked, typing, loaded, fileRead, fileBlockSize>>
  PROVE  KnowsFile'
  BY DEF KnowsFile, Announced

(***************************************************************************)
(* A step that only adds "respond status ready" datagrams, or removes      *)
(* datagrams, preserves the invariant.                                     *)
(***************************************************************************)
LEMMA HandshakeInv ==
  ASSUME TransferInv,
         UNCHANGED <<alive, loaded, fileRead, pos, sender, position, dest, mConnection,
                     asked, typing, fileBlockSize, curWrite, writeBuff, written>>,
         \A n \in net' : n \in net \/ n.type = "respond status ready"
  PROVE  TransferInv'
<1> USE DEF TransferInv
<1>1. DatagramsTrue'
  BY DEF DatagramsTrue, DatagramTrue, Announced
<1>2. KnowsFile'
  BY KnowsFrame
<1>3. SenderInv'
  BY SenderFrame
<1>4. WriterInv'
  BY WriterFrame
<1> QED BY <1>1, <1>2, <1>3, <1>4

(***************************************************************************)
(* The first "ready" answer: a peer that had asked nobody asks m.src.      *)
(***************************************************************************)
LEMMA RespondReadyInv ==
  ASSUME TypeOK, TransferInv, NEW p \in Peer, NEW m \in net, ReceiveRespondReady(p, m)
  PROVE  TransferInv'
<1>1. CASE mConnection[p]
  <2>1. Consume(m, {})
    BY <1>1 DEF ReceiveRespondReady
  <2>2. net' \subseteq net
    BY <2>1, ConsumeNet
  <2>3. UNCHANGED <<alive, loaded, fileRead, pos, sender, position, dest, mConnection,
                    asked, typing, fileBlockSize, curWrite, writeBuff, written>>
    BY <1>1 DEF ReceiveRespondReady, serveVars, sendVars, connVars, writeVars
  <2> QED BY <2>2, <2>3, HandshakeInv
<1>2. CASE ~mConnection[p]
  <2>1. /\ Consume(m, {})
        /\ mConnection' = [mConnection EXCEPT ![p] = TRUE]
        /\ asked' = [asked EXCEPT ![p] = m.src]
        /\ typing' = [typing EXCEPT ![p] = TRUE]
    BY <1>2 DEF ReceiveRespondReady
  <2>2. m \in Message /\ m.src \in Peer /\ net \subseteq Message
    BY MessageFields DEF ReceiveRespondReady, Received, TypeOK
  <2>3. net' \subseteq net
    BY <2>1, ConsumeNet
  <2>4. UNCHANGED <<alive, loaded, fileRead, pos, sender, position, dest,
                    fileBlockSize, curWrite, writeBuff, written>>
    BY DEF ReceiveRespondReady, serveVars, sendVars, writeVars
  <2>5. asked[p] = NoPeer /\ NoPeer \notin Peer
    BY <1>2, ConstantsAssumption DEF TransferInv, KnowsFile
  <2>6. /\ asked'[p] = m.src
        /\ \A q \in Peer : asked[q] \in Peer => asked'[q] = asked[q]
    BY <2>1, <2>5 DEF TypeOK
  <2>7. DatagramsTrue'
    <3> SUFFICES ASSUME NEW n \in net'
                 PROVE  DatagramTrue(n)'
      BY DEF DatagramsTrue
    <3>1. n \in net /\ n \in Message
      BY <2>2, <2>3
    <3>2. DatagramTrue(n)
      BY <3>1 DEF TransferInv, DatagramsTrue
    <3> QED BY <3>1, <3>2, <2>4, <2>6, MessageFields DEF DatagramTrue, Announced
  <2>8. KnowsFile'
    BY <2>1, <2>2, <2>4, <2>5, <2>6 DEF TransferInv, KnowsFile, Announced, TypeOK
  <2>9. SenderInv'
    BY <2>4, <2>6 DEF TransferInv, SenderInv, SenderOK, Announced
  <2>10. WriterInv'
    BY <2>4, <2>6, SMTT(20) DEF TransferInv, WriterInv, WriterOK, TypeOK
  <2> QED BY <2>7, <2>8, <2>9, <2>10 DEF TransferInv
<1> QED BY <1>1, <1>2

(***************************************************************************)
(* The file name is typed: the request goes to the peer that answered.     *)
(***************************************************************************)
LEMMA RequestFileInfoInv ==
  ASSUME TypeOK, TransferInv, NEW p \in Peer, SendRequestFileInfo(p)
  PROVE  TransferInv'
<1>1. PICK f \in File : net' = net \cup {FileNameRequest(p, asked[p], f)}
  BY DEF SendRequestFileInfo
<1>2. UNCHANGED <<alive, loaded, fileRead, pos, sender, position, dest, mConnection,
                  asked, fileBlockSize, curWrite, writeBuff, written>>
  BY DEF SendRequestFileInfo, serveVars, sendVars, writeVars
<1>3. DatagramsTrue'
  <2> SUFFICES ASSUME NEW n \in net'
               PROVE  DatagramTrue(n)'
    BY DEF DatagramsTrue
  <2>1. CASE n = FileNameRequest(p, asked[p], f)
    BY <2>1, <1>2 DEF FileNameRequest, DatagramTrue
  <2>2. CASE n \in net
    BY <2>2, <1>2 DEF TransferInv, DatagramsTrue, DatagramTrue, Announced
  <2> QED BY <1>1, <2>1, <2>2
<1>4. KnowsFile'
  <2>1. \A q \in Peer : typing'[q] => typing[q]
    BY Zenon DEF SendRequestFileInfo, TypeOK
  <2> QED BY <1>2, <2>1 DEF TransferInv, KnowsFile, Announced
<1>5. SenderInv' /\ WriterInv'
  BY <1>2, SenderFrame, WriterFrame DEF TransferInv
<1> QED BY <1>3, <1>4, <1>5 DEF TransferInv

(***************************************************************************)
(* A file request: fileReadBuff is loaded at most once, so what has been   *)
(* announced, sent or written of it stays true.                            *)
(***************************************************************************)
LEMMA FileNameInv ==
  ASSUME TypeOK, TransferInv, NEW p \in Peer, NEW m \in net, ReceiveFileName(p, m)
  PROVE  TransferInv'
<1>1. net \subseteq Message /\ m \in Message /\ m.src \in Peer /\ m.name \in File
  BY MessageFields DEF ReceiveFileName, Received, TypeOK
<1>2. PICK blocks \in Seq(Data) :
        /\ loaded[p] => blocks = fileRead[p]
        /\ Consume(m, IF Len(blocks) > 0 THEN {FileDesc(p, m.src, Len(blocks))} ELSE {})
        /\ fileRead' = [fileRead EXCEPT ![p] = blocks]
  <2>1. (IF loaded[p] THEN {fileRead[p]} ELSE Loadable(p, m.name)) \subseteq Seq(Data)
    BY <1>1, LoadableType, SMTT(20) DEF TypeOK
  <2> QED BY <2>1 DEF ReceiveFileName, FileBlocks, RespondFileInfo
<1>3. net' \subseteq net \cup (IF Len(blocks) > 0 THEN {FileDesc(p, m.src, Len(blocks))} ELSE {})
  BY <1>2, ConsumeNet
<1>4. Len(blocks) \in Nat
  OBVIOUS
<1>5. /\ UNCHANGED <<alive, pos, sender, position, dest, mConnection, asked, typing,
                     fileBlockSize, curWrite, writeBuff, written>>
      /\ loaded' = [loaded EXCEPT ![p] = TRUE]
  BY DEF ReceiveFileName, sendVars, connVars, writeVars
<1>6. asked[m.src] = p
  BY DEF ReceiveFileName, Received, TransferInv, DatagramsTrue, DatagramTrue
<1>7. /\ fileRead'[p] = blocks
      /\ \A q \in Peer : fileRead[q] # <<>> => fileRead'[q] = fileRead[q]
  BY <1>2 DEF TransferInv, KnowsFile, TypeOK
<1>8. \A q \in Peer : Len(fileRead[q]) > 0 => fileRead[q] # <<>>
  BY DEF TypeOK
<1>9. \A q \in Peer : \A i \in Nat : i < Len(fileRead[q]) => fileRead'[q] = fileRead[q]
  <2> SUFFICES ASSUME NEW q \in Peer, NEW i \in Nat, i < Len(fileRead[q])
               PROVE  fileRead'[q] = fileRead[q]
    OBVIOUS
  <2>1. Len(fileRead[q]) > 0
    BY DEF TypeOK
  <2> QED BY <2>1, <1>7, <1>8
<1>10. DatagramsTrue'
  <2> SUFFICES ASSUME NEW n \in net'
               PROVE  DatagramTrue(n)'
    BY DEF DatagramsTrue
  <2>1. CASE n \in net
    <3>1. DatagramTrue(n)
      BY <2>1 DEF TransferInv, DatagramsTrue
    <3>2. n \in Message
      BY <2>1, <1>1
    <3>3. n.type = "respond data fileDesc" => fileRead'[n.src] = fileRead[n.src]
      BY <3>1, <3>2, <1>7, <1>8, MessageFields DEF DatagramTrue
    <3>4. n.type = "respond apk fileDesc" => fileRead'[n.dst] = fileRead[n.dst]
      BY <3>1, <3>2, <1>7, <1>8, MessageFields DEF DatagramTrue, Announced
    <3>5. n.type = "respond data sector" => fileRead'[n.src] = fileRead[n.src]
      BY <3>1, <3>2, <1>9, MessageFields DEF DatagramTrue
    <3> QED BY <3>1, <3>2, <3>3, <3>4, <3>5, <1>5, MessageFields DEF DatagramTrue, Announced
  <2>2. CASE n \notin net
    <3>1. n = FileDesc(p, m.src, Len(blocks)) /\ Len(blocks) > 0
      BY <2>2, <1>3
    <3> QED BY <3>1, <1>5, <1>6, <1>7 DEF DatagramTrue, FileDesc
  <2> QED BY <2>1, <2>2
<1>11. KnowsFile'
  <2>1. \A q \in Peer : loaded[q] => loaded'[q]
    BY <1>5 DEF TypeOK
  <2>2. \A q \in Peer : ~loaded'[q] => fileRead'[q] = <<>>
    BY <1>2, <1>5 DEF TransferInv, KnowsFile, TypeOK
  <2>3. \A q \in Peer : fileBlockSize[q] > 0 =>
          asked[q] \in Peer /\ Announced(q, asked[q]) /\ fileRead'[asked[q]] = fileRead[asked[q]]
    BY <1>7, <1>8 DEF TransferInv, KnowsFile, Announced
  <2> QED BY <1>5, <2>2, <2>3 DEF TransferInv, KnowsFile, Announced
<1>12. \A s \in Peer : sender[s] # "none" => fileRead'[s] = fileRead[s]
  BY <1>7, <1>8 DEF TransferInv, SenderInv, SenderOK, Announced
<1>13. SenderInv'
  BY <1>5, <1>12 DEF TransferInv, SenderInv, SenderOK, Announced
<1>14. WriterInv'
  <2>1. \A q \in Peer : curWrite[q] > 0 => fileRead'[asked[q]] = fileRead[asked[q]]
    <3> SUFFICES ASSUME NEW q \in Peer, curWrite[q] > 0
                 PROVE  fileRead'[asked[q]] = fileRead[asked[q]]
      OBVIOUS
    <3>1. asked[q] \in Peer /\ dest[asked[q]] = q
      BY DEF TransferInv, WriterInv, WriterOK
    <3>2. sender[asked[q]] # "none"
      BY <3>1, ConstantsAssumption DEF TransferInv, SenderInv, SenderOK
    <3> QED BY <3>1, <3>2, <1>12
  <2> QED BY <1>5, <2>1, SMTT(20) DEF TransferInv, WriterInv, WriterOK, TypeOK
<1> QED BY <1>10, <1>11, <1>13, <1>14 DEF TransferInv

(***************************************************************************)
(* A file description: a repeated one carries the size already known.      *)
(***************************************************************************)
LEMMA FileDescInv ==
  ASSUME TypeOK, TransferInv, NEW p \in Peer, NEW m \in net, ReceiveFileDesc(p, m)
  PROVE  TransferInv'
<1> DEFINE apk == [type |-> "respond apk fileDesc", src |-> p, dst |-> m.src]
<1>1. net' \subseteq net \cup {apk}
  BY ConsumeNet DEF ReceiveFileDesc
<1>2. net \subseteq Message /\ m \in Message /\ m.src \in Peer
  BY MessageFields DEF ReceiveFileDesc, Received, TypeOK
<1>3. /\ UNCHANGED <<alive, loaded, fileRead, pos, sender, position, dest, mConnection,
                     asked, typing, curWrite, writeBuff, written>>
      /\ fileBlockSize' = [fileBlockSize EXCEPT ![p] = m.size]
  BY DEF ReceiveFileDesc, serveVars, sendVars, connVars, writeVars
<1>4. asked[p] = m.src /\ m.size = Len(fileRead[m.src]) /\ m.size > 0
  BY DEF ReceiveFileDesc, Received, TransferInv, DatagramsTrue, DatagramTrue
<1>5. /\ fileBlockSize'[p] = m.size
      /\ \A q \in Peer : fileBlockSize[q] > 0 => fileBlockSize'[q] = fileBlockSize[q]
  BY <1>3, <1>4 DEF TransferInv, KnowsFile, Announced, TypeOK
<1>6. DatagramsTrue'
  <2> SUFFICES ASSUME NEW n \in net'
               PROVE  DatagramTrue(n)'
    BY DEF DatagramsTrue
  <2>1. CASE n \in net
    <3>1. DatagramTrue(n) /\ n \in Message
      BY <2>1, <1>2 DEF TransferInv, DatagramsTrue
    <3> QED BY <3>1, <1>3, <1>5, MessageFields DEF DatagramTrue, Announced
  <2>2. CASE n = apk
    BY <2>2, <1>3, <1>4, <1>5 DEF DatagramTrue, Announced
  <2> QED BY <2>1, <2>2, <1>1
<1>7. KnowsFile'
  BY <1>2, <1>3, <1>4, <1>5, SMTT(20) DEF TransferInv, KnowsFile, Announced, TypeOK
<1>8. SenderInv'
  BY <1>3, <1>5 DEF TransferInv, SenderInv, SenderOK, Announced
<1>9. WriterInv'
  BY <1>3, <1>5 DEF TransferInv, WriterInv, WriterOK, TypeOK
<1> QED BY <1>6, <1>7, <1>8, <1>9 DEF TransferInv

(***************************************************************************)
(* The peers that a send thread, a sector or an acknowledgement names: one *)
(* sender per downloading peer, and it is the peer that was asked.         *)
(***************************************************************************)
LEMMA StartedSender ==
  ASSUME TypeOK, TransferInv, NEW s \in Peer, dest[s] \in Peer
  PROVE  /\ sender[s] # "none"
         /\ Announced(dest[s], s)
         /\ pos[s] \in Nat
         /\ Len(fileRead[s]) \in Nat
         /\ pos[s] <= curWrite[dest[s]]
         /\ curWrite[dest[s]] <= pos[s] + 1
         /\ curWrite[dest[s]] <= Len(fileRead[s])
<1>1. sender[s] # "none"
  BY ConstantsAssumption DEF TransferInv, SenderInv, SenderOK
<1> QED BY <1>1 DEF TransferInv, SenderInv, SenderOK, TypeOK

(***************************************************************************)
(* The first acknowledged file description starts the send thread: nobody  *)
(* was being served, so no sector or acknowledgement of p's is around and  *)
(* nothing has been written by the peer to be served.                      *)
(***************************************************************************)
LEMMA ApkFileDescInv ==
  ASSUME TypeOK, TransferInv, NEW p \in Peer, NEW m \in net, ReceiveApkFileDesc(p, m)
  PROVE  TransferInv'
<1>1. net' \subseteq net
  <2>1. Consume(m, {})
    BY DEF ReceiveApkFileDesc
  <2> QED BY <2>1, ConsumeNet
<1>2. net \subseteq Message /\ m \in Message /\ m.src \in Peer
  BY MessageFields DEF ReceiveApkFileDesc, Received, TypeOK
<1>3. UNCHANGED <<alive, loaded, fileRead, mConnection, asked, typing, fileBlockSize,
                  curWrite, writeBuff, written>>
  BY DEF ReceiveApkFileDesc, serveVars, connVars, writeVars
<1>4. CASE pos[p] # -1
  <2>1. UNCHANGED <<pos, sender, position, dest>>
    BY <1>4 DEF ReceiveApkFileDesc, sendVars
  <2> QED BY <1>1, <1>3, <2>1, HandshakeInv
<1>5. CASE pos[p] = -1
  <2>1. Announced(m.src, p) /\ Len(fileRead[p]) > 0
    BY DEF ReceiveApkFileDesc, Received, TransferInv, DatagramsTrue, DatagramTrue, Announced
  <2>2. dest[p] = NoPeer /\ NoPeer \notin Peer
    <3>1. dest[p] \notin Peer
      BY <1>5, StartedSender
    <3> QED BY <3>1, ConstantsAssumption DEF TypeOK
  <2>3. /\ pos' = [pos EXCEPT ![p] = 0]
        /\ sender' = [sender EXCEPT ![p] = "read"]
        /\ dest' = [dest EXCEPT ![p] = m.src]
        /\ position' = position
    BY <1>5, <2>1 DEF ReceiveApkFileDesc, StartSendThread
  <2>4. \A q \in Peer : q # p => dest'[q] = dest[q] /\ pos'[q] = pos[q] /\ sender'[q] = sender[q]
    BY <2>3 DEF TypeOK
  <2>5. dest'[p] = m.src /\ pos'[p] = 0 /\ sender'[p] = "read"
    BY <2>3 DEF TypeOK
  <2>6. curWrite[m.src] = 0
    <3>1. curWrite[m.src] > 0 => dest[asked[m.src]] = m.src
      BY <1>2 DEF TransferInv, WriterInv, WriterOK
    <3>2. asked[m.src] = p
      BY <2>1 DEF Announced
    <3>3. curWrite[m.src] \in Nat
      BY <1>2 DEF TypeOK
    <3> QED BY <1>2, <2>2, <3>1, <3>2, <3>3
  <2>7. DatagramsTrue'
    <3> SUFFICES ASSUME NEW n \in net'
                 PROVE  DatagramTrue(n)'
      BY DEF DatagramsTrue
    <3>1. DatagramTrue(n) /\ n \in Message
      BY <1>1, <1>2 DEF TransferInv, DatagramsTrue
    <3>2. /\ n.type = "respond data sector" => n.src # p
          /\ n.type = "respond apk sector" => n.dst # p
      BY <3>1, <2>2, MessageFields DEF DatagramTrue
    <3> QED BY <3>1, <3>2, <1>3, <2>4, MessageFields DEF DatagramTrue, Announced
  <2>8. KnowsFile'
    BY <1>3, KnowsFrame DEF TransferInv
  <2>9. SenderInv'
    <3> SUFFICES ASSUME NEW s \in Peer
                 PROVE  SenderOK(s)'
      BY DEF SenderInv, SenderOK
    <3>1. CASE s = p
      BY <3>1, <1>2, <1>3, <2>1, <2>3, <2>5, <2>6 DEF SenderOK, Announced, TypeOK
    <3>2. CASE s # p
      BY <3>2, <1>3, <2>3, <2>4 DEF TransferInv, SenderInv, SenderOK, Announced
    <3> QED BY <3>1, <3>2
  <2>10. WriterInv'
    <3>1. \A q \in Peer : curWrite[q] > 0 => dest'[asked[q]] = dest[asked[q]]
      BY <2>2, <2>4 DEF TransferInv, WriterInv, WriterOK
    <3> QED BY <1>3, <3>1 DEF TransferInv, WriterInv, WriterOK, TypeOK
  <2> QED BY <2>7, <2>8, <2>9, <2>10 DEF TransferInv
<1> QED BY <1>4, <1>5

(***************************************************************************)
(* A sector: it is either the next block, which is written, or an old one, *)
(* so that its acknowledgement is true in both cases.                      *)
(***************************************************************************)
LEMMA SectorInv ==
  ASSUME TypeOK, TransferInv, NEW p \in Peer, NEW m \in net, ReceiveSector(p, m)
  PROVE  TransferInv'
<1>1. net \subseteq Message /\ m \in Message /\ m.src \in Peer /\ m.index \in Nat
  BY MessageFields DEF ReceiveSector, Received, TypeOK
<1>2. net' \subseteq net \cup ApkSector(p, m)
  BY ConsumeNet DEF ReceiveSector
<1>3. UNCHANGED <<loaded, fileRead, pos, sender, position, dest, mConnection, asked, typing,
                  fileBlockSize>>
  BY DEF ReceiveSector, serveVars, sendVars, connVars
<1>4. /\ dest[m.src] = p
      /\ m.index <= pos[m.src]
      /\ m.index < Len(fileRead[m.src])
      /\ m.data = fileRead[m.src][m.index + 1]
  BY DEF ReceiveSector, Received, TransferInv, DatagramsTrue, DatagramTrue
<1>5. /\ sender[m.src] # "none"
      /\ Announced(p, m.src)
      /\ pos[m.src] \in Nat
      /\ Len(fileRead[m.src]) \in Nat
      /\ pos[m.src] <= curWrite[p]
      /\ curWrite[p] <= pos[m.src] + 1
      /\ curWrite[p] <= Len(fileRead[m.src])
  BY <1>1, <1>4, StartedSender
<1>6. \A s \in Peer : dest[s] = p => s = m.src
  BY <1>5, StartedSender DEF Announced
<1>7. /\ \A q \in Peer : q # p => curWrite'[q] = curWrite[q] /\ written'[q] = written[q]
      /\ curWrite[p] = m.index =>
           curWrite'[p] = curWrite[p] + 1 /\ written'[p] = Append(written[p], m.data)
      /\ curWrite[p] # m.index => curWrite'[p] = curWrite[p] /\ written'[p] = written[p]
  BY DEF ReceiveSector, WriteSector, TypeOK
<1>8. /\ \A q \in Peer : q # p => writeBuff'[q] = writeBuff[q] /\ alive'[q] = alive[q]
      /\ m.index = fileBlockSize[p] - 1 => writeBuff'[p] = "deleted"
      /\ m.index # fileBlockSize[p] - 1 =>
           /\ writeBuff'[p] = "deleted" => writeBuff[p] = "deleted"
           /\ writeBuff[p] = "deleted" => writeBuff'[p] = "deleted"
           /\ alive'[p] = alive[p]
  BY DEF ReceiveSector, IsLastSector, TypeOK
<1>9. /\ curWrite[p] \in Nat /\ curWrite'[p] \in Nat
      /\ pos[m.src] <= curWrite'[p]
      /\ curWrite'[p] <= pos[m.src] + 1
      /\ curWrite'[p] <= Len(fileRead[m.src])
      /\ m.index < curWrite'[p]
      /\ curWrite[p] <= curWrite'[p]
  <2>1. curWrite[p] \in Nat
    BY DEF TypeOK
  <2> QED BY <2>1, <1>1, <1>4, <1>5, <1>7
<1>10. \A q \in Peer : \A i \in Nat : i < curWrite[q] => i < curWrite'[q]
  <2> SUFFICES ASSUME NEW q \in Peer, NEW i \in Nat, i < curWrite[q]
               PROVE  i < curWrite'[q]
    OBVIOUS
  <2>1. CASE q = p
    BY <2>1, <1>9
  <2>2. CASE q # p
    BY <2>2, <1>7
  <2> QED BY <2>1, <2>2
<1>11. DatagramsTrue'
  <2> SUFFICES ASSUME NEW n \in net'
               PROVE  DatagramTrue(n)'
    BY DEF DatagramsTrue
  <2>1. CASE n \in ApkSector(p, m)
    <3>1. n = [type |-> "respond apk sector", src |-> p, dst |-> m.src, index |-> m.index]
      BY <2>1 DEF ApkSector
    <3> QED BY <3>1, <1>3, <1>4, <1>9 DEF DatagramTrue
  <2>2. CASE n \in net
    <3>1. DatagramTrue(n) /\ n \in Message
      BY <2>2, <1>1 DEF TransferInv, DatagramsTrue
    <3>2. n.type = "respond apk sector" => n.index < curWrite'[n.src]
      BY <3>1, <1>10, MessageFields DEF DatagramTrue
    <3> QED BY <3>1, <3>2, <1>3, MessageFields DEF DatagramTrue, Announced
  <2> QED BY <2>1, <2>2, <1>2
<1>12. KnowsFile'
  BY <1>3, KnowsFrame DEF TransferInv
<1>13. SenderInv'
  <2> SUFFICES ASSUME NEW s \in Peer
               PROVE  SenderOK(s)'
    BY DEF SenderInv
  <2>1. SenderOK(s)
    BY DEF TransferInv, SenderInv
  <2>2. CASE dest[s] = p
    <3>1. s = m.src
      BY <2>2, <1>6
    <3> QED BY <2>1, <2>2, <3>1, <1>3, <1>9 DEF SenderOK, Announced
  <2>3. CASE dest[s] # p
    <3>1. dest[s] \in Peer => curWrite'[dest[s]] = curWrite[dest[s]]
      BY <2>3, <1>7
    <3> QED BY <2>1, <3>1, <1>3 DEF SenderOK, Announced
  <2> QED BY <2>2, <2>3
<1>14. WriterInv'
  <2> SUFFICES ASSUME NEW q \in Peer
               PROVE  WriterOK(q)'
    BY DEF WriterInv
  <2>1. WriterOK(q)
    BY DEF TransferInv, WriterInv
  <2>2. CASE q # p
    BY <2>1, <2>2, <1>3, <1>7, <1>8 DEF WriterOK
  <2>3. CASE q = p
    <3>1. asked[p] = m.src /\ fileBlockSize[p] = Len(fileRead[m.src]) /\ fileBlockSize[p] > 0
      BY <1>5 DEF Announced
    <3>2. Len(written'[p]) = curWrite'[p]
      BY <2>1, <2>3, <1>1, <1>7 DEF WriterOK, TypeOK
    <3>3. \A i \in 1 .. curWrite'[p] : written'[p][i] = fileRead[m.src][i]
      <4>1. CASE curWrite[p] # m.index
        BY <4>1, <3>1, <2>1, <2>3, <1>7 DEF WriterOK
      <4>2. CASE curWrite[p] = m.index
        <5> SUFFICES ASSUME NEW i \in 1 .. curWrite'[p]
                     PROVE  written'[p][i] = fileRead[m.src][i]
          OBVIOUS
        <5>1. written[p] \in Seq(Data) /\ Len(written[p]) = curWrite[p]
          BY <2>1, <2>3 DEF WriterOK, TypeOK
        <5>2. written'[p] = Append(written[p], m.data) /\ curWrite'[p] = curWrite[p] + 1
          BY <4>2, <1>7
        <5>3. CASE i = curWrite[p] + 1
          BY <5>1, <5>2, <5>3, <4>2, <1>4, <1>9
        <5>4. CASE i # curWrite[p] + 1
          <6>1. i \in 1 .. curWrite[p] /\ written'[p][i] = written[p][i]
            BY <5>1, <5>2, <5>4, <1>9
          <6> QED BY <6>1, <3>1, <2>1, <2>3 DEF WriterOK
        <5> QED BY <5>3, <5>4
      <4> QED BY <4>1, <4>2
    <3>4. writeBuff'[p] = "deleted" => curWrite'[p] = fileBlockSize[p]
      <4>1. CASE m.index = fileBlockSize[p] - 1
        BY <4>1, <3>1, <1>1, <1>5, <1>9
      <4>2. CASE m.index # fileBlockSize[p] - 1
        BY <4>2, <3>1, <2>1, <2>3, <1>4, <1>7, <1>8, <1>9 DEF WriterOK
      <4> QED BY <4>1, <4>2
    <3>5. ~alive'[p] => writeBuff'[p] = "deleted"
      BY <2>1, <2>3, <1>8 DEF WriterOK
    <3> QED BY <2>3, <3>1, <3>2, <3>3, <3>4, <3>5, <1>1, <1>3, <1>4 DEF WriterOK
  <2> QED BY <2>2, <2>3
<1> QED BY <1>11, <1>12, <1>13, <1>14 DEF TransferInv

(***************************************************************************)
(* An acknowledgement: only that of the current block moves the position.  *)
(***************************************************************************)
LEMMA ApkSectorInv ==
  ASSUME TypeOK, TransferInv, NEW p \in Peer, NEW m \in net, ReceiveApkSector(p, m)
  PROVE  TransferInv'
<1>1. net \subseteq Message /\ m \in Message /\ m.src \in Peer /\ m.index \in Nat
  BY MessageFields DEF ReceiveApkSector, Received, TypeOK
<1>2. net' \subseteq net
  <2>1. Consume(m, {})
    BY DEF ReceiveApkSector
  <2> QED BY <2>1, ConsumeNet
<1>3. UNCHANGED <<alive, loaded, fileRead, sender, position, dest, mConnection, asked, typing,
                  fileBlockSize, curWrite, writeBuff, written>>
  BY DEF ReceiveApkSector, serveVars, connVars, writeVars
<1>4. dest[p] = m.src /\ m.index < curWrite[m.src]
  BY DEF ReceiveApkSector, Received, TransferInv, DatagramsTrue, DatagramTrue
<1>5. /\ pos[p] \in Nat
      /\ sender[p] # "none"
      /\ curWrite[m.src] \in Nat
      /\ pos[p] <= curWrite[m.src]
      /\ curWrite[m.src] <= pos[p] + 1
  BY <1>1, <1>4, StartedSender DEF TypeOK
<1>6. /\ \A q \in Peer : q # p => pos'[q] = pos[q]
      /\ pos'[p] = (IF pos[p] = m.index THEN pos[p] + 1 ELSE pos[p])
  BY DEF ReceiveApkSector, TypeOK
<1>7. /\ pos'[p] \in Nat
      /\ pos[p] <= pos'[p]
      /\ pos'[p] <= curWrite[m.src]
      /\ curWrite[m.src] <= pos'[p] + 1
  BY <1>1, <1>4, <1>5, <1>6
<1>8. \A q \in Peer : \A i \in Nat : i <= pos[q] => i <= pos'[q]
  <2> SUFFICES ASSUME NEW q \in Peer, NEW i \in Nat, i <= pos[q]
               PROVE  i <= pos'[q]
    OBVIOUS
  <2>1. CASE q = p
    BY <2>1, <1>5, <1>7
  <2>2. CASE q # p
    BY <2>2, <1>6
  <2> QED BY <2>1, <2>2
<1>9. DatagramsTrue'
  <2> SUFFICES ASSUME NEW n \in net'
               PROVE  DatagramTrue(n)'
    BY DEF DatagramsTrue
  <2>1. DatagramTrue(n) /\ n \in Message
    BY <1>1, <1>2 DEF TransferInv, DatagramsTrue
  <2>2. n.type = "respond data sector" => n.index <= pos'[n.src]
    BY <2>1, <1>8, MessageFields DEF DatagramTrue
  <2> QED BY <2>1, <2>2, <1>3, MessageFields DEF DatagramTrue, Announced
<1>10. KnowsFile'
  BY <1>3, KnowsFrame DEF TransferInv
<1>11. SenderInv'
  <2> SUFFICES ASSUME NEW s \in Peer
               PROVE  SenderOK(s)'
    BY DEF SenderInv
  <2>1. SenderOK(s)
    BY DEF TransferInv, SenderInv
  <2>2. CASE s # p
    BY <2>1, <2>2, <1>3, <1>6 DEF SenderOK, Announced
  <2>3. CASE s = p
    <3>1. sender[p] = "send" => position[p] <= pos'[p]
      BY <2>1, <2>3, <1>8 DEF SenderOK, TypeOK
    <3> QED BY <2>1, <2>3, <3>1, <1>3, <1>4, <1>5, <1>7 DEF SenderOK, Announced
  <2> QED BY <2>2, <2>3
<1>12. WriterInv'
  BY <1>3, WriterFrame DEF TransferInv
<1> QED BY <1>9, <1>10, <1>11, <1>12 DEF TransferInv

(***************************************************************************)
(* The two steps of the send thread.  The position it has read may be old  *)
(* when the sector is sent, but it still names a loaded block.             *)
(***************************************************************************)
LEMMA SendThreadReadInv ==
  ASSUME TypeOK, TransferInv, NEW p \in Peer, SendThreadRead(p)
  PROVE  TransferInv'
<1>1. UNCHANGED <<net, alive, loaded, fileRead, pos, dest, mConnection, asked, typing,
                  fileBlockSize, curWrite, writeBuff, written>>
  BY DEF SendThreadRead, serveVars, connVars, writeVars
<1>2. DatagramsTrue'
  BY <1>1 DEF TransferInv, DatagramsTrue, DatagramTrue, Announced
<1>3. KnowsFile'
  BY <1>1, KnowsFrame DEF TransferInv
<1>4. SenderInv'
  <2> SUFFICES ASSUME NEW s \in Peer
               PROVE  SenderOK(s)'
    BY DEF SenderInv
  <2>1. SenderOK(s) /\ SenderOK(p)
    BY DEF TransferInv, SenderInv
  <2>2. CASE s # p
    <3>1. sender'[s] = sender[s] /\ position'[s] = position[s]
      BY <2>2 DEF SendThreadRead, TypeOK
    <3> QED BY <2>1, <3>1, <1>1 DEF SenderOK, Announced
  <2>3. CASE s = p
    <3>1. /\ sender[p] = "read"
          /\ sender'[p] \in {"send", "exit"}
          /\ sender'[p] = "send" => position'[p] = pos[p] /\ pos[p] < Len(fileRead[p])
      BY DEF SendThreadRead, TypeOK
    <3>2. pos[p] \in Nat
      BY <3>1, <2>1 DEF SenderOK, TypeOK
    <3> QED BY <2>1, <2>3, <3>1, <3>2, <1>1 DEF SenderOK, Announced
  <2> QED BY <2>2, <2>3
<1>5. WriterInv'
  BY <1>1, WriterFrame DEF TransferInv
<1> QED BY <1>2, <1>3, <1>4, <1>5 DEF TransferInv

(* SendSector preserves the invariant. *)
LEMMA SendSectorInv ==
  ASSUME TypeOK, TransferInv, NEW p \in Peer, SendSectorData(p)
  PROVE  TransferInv'
<1>1. UNCHANGED <<alive, loaded, fileRead, pos, position, dest, mConnection, asked, typing,
                  fileBlockSize, curWrite, writeBuff, written>>
  BY DEF SendSectorData, serveVars, connVars, writeVars
<1>2. /\ sender[p] = "send"
      /\ sender'[p] = "read"
      /\ \A q \in Peer : q # p => sender'[q] = sender[q]
  BY DEF SendSectorData, TypeOK
<1>3. SenderOK(p) /\ position[p] <= pos[p] /\ position[p] < Len(fileRead[p])
  BY <1>2 DEF TransferInv, SenderInv, SenderOK
<1>4. DatagramsTrue'
  <2> SUFFICES ASSUME NEW n \in net'
               PROVE  DatagramTrue(n)'
    BY DEF DatagramsTrue
  <2>1. CASE n \in net
    BY <2>1, <1>1 DEF TransferInv, DatagramsTrue, DatagramTrue, Announced
  <2>2. CASE n = Sector(p, position[p])
    BY <2>2, <1>1, <1>3 DEF DatagramTrue, Sector
  <2> QED BY <2>1, <2>2 DEF SendSectorData
<1>5. KnowsFile'
  BY <1>1, KnowsFrame DEF TransferInv
<1>6. SenderInv'
  BY <1>1, <1>2 DEF TransferInv, SenderInv, SenderOK, Announced, TypeOK
<1>7. WriterInv'
  BY <1>1, WriterFrame DEF TransferInv
<1> QED BY <1>4, <1>5, <1>6, <1>7 DEF TransferInv

-----------------------------------------------------------------------------
(***************************************************************************)
(* TransferInv is inductive: every handler, every step of the send thread  *)
(* and every loss preserves it.                                            *)
(***************************************************************************)
LEMMA TransferNext == TypeOK /\ TransferInv /\ [Next]_vars => TransferInv'
<1> SUFFICES ASSUME TypeOK, TransferInv, [Next]_vars
             PROVE  TransferInv'
  OBVIOUS
<1>1. ASSUME NEW p \in Peer, NEW m \in net, ReceiveDoConnect(p, m)
      PROVE  TransferInv'
  <2>1. net' \subseteq net \cup {RespondReady(p, m.requester)}
    BY <1>1, ConsumeNet DEF ReceiveDoConnect
  <2>2. UNCHANGED <<alive, loaded, fileRead, pos, sender, position, dest, mConnection,
                    asked, typing, fileBlockSize, curWrite, writeBuff, written>>
    BY <1>1 DEF ReceiveDoConnect, serveVars, sendVars, connVars, writeVars
  <2>3. RespondReady(p, m.requester).type = "respond status ready"
    BY DEF RespondReady
  <2> QED BY <2>1, <2>2, <2>3, HandshakeInv
<1>2. ASSUME NEW p \in Peer, NEW m \in net, ReceiveRequestReady(p, m)
      PROVE  TransferInv'
  <2>1. net' \subseteq net \cup {RespondReady(p, m.src)}
    BY <1>2, ConsumeNet DEF ReceiveRequestReady
  <2>2. UNCHANGED <<alive, loaded, fileRead, pos, sender, position, dest, mConnection,
                    asked, typing, fileBlockSize, curWrite, writeBuff, written>>
    BY <1>2 DEF ReceiveRequestReady, serveVars, sendVars, connVars, writeVars
  <2>3. RespondReady(p, m.src).type = "respond status ready"
    BY DEF RespondReady
  <2> QED BY <2>1, <2>2, <2>3, HandshakeInv
<1>3. ASSUME NEW m \in net, Lose(m)
      PROVE  TransferInv'
  BY <1>3, HandshakeInv DEF Lose, serveVars, sendVars, connVars, writeVars
<1>4. CASE UNCHANGED vars
  BY <1>4, HandshakeInv DEF vars, serveVars, sendVars, connVars, writeVars
<1>5. ASSUME NEW p \in Peer, NEW m \in net, ReceiveThread(p, m)
      PROVE  TransferInv'
  BY <1>1, <1>2, <1>5, RespondReadyInv, FileNameInv, FileDescInv, ApkFileDescInv,
     SectorInv, ApkSectorInv DEF ReceiveThread
<1> QED BY <1>3, <1>4, <1>5, SendThreadReadInv, SendSectorInv, RequestFileInfoInv DEF Next

(***************************************************************************)
(* The state and the datagrams of any number of peers stay well-formed,    *)
(* and TransferInv holds in every reachable state.                         *)
(***************************************************************************)
THEOREM InvCorrect == Spec => [](TypeOK /\ TransferInv)
<1>1. Init => TypeOK /\ TransferInv
  BY InitInv
<1>2. TypeOK /\ TransferInv /\ [Next]_vars => (TypeOK /\ TransferInv)'
  BY TypeNext, TransferNext
<1> QED BY <1>1, <1>2, PTL DEF Spec

(***************************************************************************)
(* The type invariant on its own.                                          *)
(***************************************************************************)
THEOREM TypeCorrect == Spec => []TypeOK
  BY InvCorrect, PTL

(***************************************************************************)
(* What was written is a prefix of what is served.                         *)
(***************************************************************************)
LEMMA InvWrittenInOrder == TypeOK /\ TransferInv => WrittenInOrder
<1> SUFFICES ASSUME TypeOK, TransferInv, NEW p \in Peer, written[p] # <<>>
             PROVE  /\ asked[p] \in Peer
                    /\ Len(written[p]) <= Len(fileRead[asked[p]])
                    /\ \A i \in 1 .. Len(written[p]) : written[p][i] = fileRead[asked[p]][i]
  BY DEF WrittenInOrder
<1>1. WriterOK(p)
  BY DEF TransferInv, WriterInv
<1>2. curWrite[p] > 0
  BY <1>1 DEF WriterOK, TypeOK
<1>3. asked[p] \in Peer /\ dest[asked[p]] = p
  BY <1>1, <1>2 DEF WriterOK
<1>4. curWrite[p] <= Len(fileRead[asked[p]])
  BY <1>3, StartedSender
<1> QED BY <1>1, <1>3, <1>4 DEF WriterOK

(***************************************************************************)
(* fileWriteBuff is deleted, and a process aborted, only when the local    *)
(* file is the whole served file.                                          *)
(***************************************************************************)
LEMMA InvDeleted == TypeOK /\ TransferInv => DeletedOnlyWhenComplete
<1> SUFFICES ASSUME TypeOK, TransferInv, NEW p \in Peer,
                    writeBuff[p] = "deleted" \/ ~alive[p]
             PROVE  /\ asked[p] \in Peer
                    /\ written[p] # <<>>
                    /\ written[p] = fileRead[asked[p]]
  BY DEF DeletedOnlyWhenComplete
<1>1. WriterOK(p)
  BY DEF TransferInv, WriterInv
<1>2. /\ fileBlockSize[p] > 0
      /\ curWrite[p] = fileBlockSize[p]
      /\ Len(written[p]) = curWrite[p]
  BY <1>1 DEF WriterOK
<1>3. asked[p] \in Peer /\ fileBlockSize[p] = Len(fileRead[asked[p]])
  BY <1>2 DEF TransferInv, KnowsFile, Announced
<1>4. written[p] \in Seq(Data) /\ fileRead[asked[p]] \in Seq(Data)
  BY <1>3 DEF TypeOK
<1>5. \A i \in 1 .. Len(written[p]) : written[p][i] = fileRead[asked[p]][i]
  BY <1>1, <1>2 DEF WriterOK
<1>6. written[p] = fileRead[asked[p]]
  BY <1>2, <1>3, <1>4, <1>5, SeqEqual
<1>7. written[p] # <<>>
  BY <1>2, <1>4
<1> QED BY <1>3, <1>6, <1>7

(***************************************************************************)
(* The send thread is at the receiver's next block or one behind.          *)
(***************************************************************************)
LEMMA InvInStep == TypeOK /\ TransferInv => SenderInStep
<1> SUFFICES ASSUME TypeOK, TransferInv, NEW s \in Peer, sender[s] # "none"
             PROVE  /\ dest[s] \in Peer
                    /\ curWrite[dest[s]] \in {pos[s], pos[s] + 1}
                    /\ pos[s] <= Len(fileRead[s])
  BY DEF SenderInStep
<1>1. dest[s] \in Peer
  BY DEF TransferInv, SenderInv, SenderOK
<1>2. curWrite[dest[s]] \in Nat
  BY <1>1 DEF TypeOK
<1> QED BY <1>1, <1>2, StartedSender

(***************************************************************************)
(* The serving side reads loaded blocks only.                              *)
(***************************************************************************)
LEMMA InvServes == TypeOK /\ TransferInv => ServesLoadedBlocks
<1> SUFFICES ASSUME TypeOK, TransferInv
             PROVE  ServesLoadedBlocks
  OBVIOUS
<1>1. \A s \in Peer : sender[s] = "send" => position[s] < Len(fileRead[s])
  BY DEF TransferInv, SenderInv, SenderOK
<1>2. ASSUME NEW m \in net, m.type = "respond apk fileDesc"
      PROVE  loaded[m.dst] /\ fileRead[m.dst] # <<>>
  <2>1. m.dst \in Peer
    BY MessageFields DEF TypeOK
  <2>2. Len(fileRead[m.dst]) > 0
    BY <1>2 DEF TransferInv, DatagramsTrue, DatagramTrue, Announced
  <2>3. fileRead[m.dst] # <<>>
    BY <2>2
  <2> QED BY <2>1, <2>3 DEF TransferInv, KnowsFile
<1> QED BY <1>1, <1>2 DEF ServesLoadedBlocks

(***************************************************************************)
(* The local file is always a prefix of the served one, each block once    *)
(* and in order, however the network treats sectors and acknowledgements.  *)
(***************************************************************************)
THEOREM InOrderDelivery == Spec => []WrittenInOrder
  BY InvCorrect, InvWrittenInOrder, PTL

(***************************************************************************)
(* Late and repeated acknowledgements never move the send thread past a    *)
(* block the receiver has not written.                                     *)
(***************************************************************************)
THEOREM InStep == Spec => []SenderInStep
  BY InvCorrect, InvInStep, PTL

(***************************************************************************)
(* fileWriteBuff is deleted only once the file is complete.                *)
(***************************************************************************)
THEOREM CompleteWhenDeleted == Spec => []DeletedOnlyWhenComplete
  BY InvCorrect, InvDeleted, PTL

(***************************************************************************)
(* The serving side never reads a buffer or a block that is not there.     *)
(***************************************************************************)
THEOREM ServesLoaded == Spec => []ServesLoadedBlocks
  BY InvCorrect, InvServes, PTL

-----------------------------------------------------------------------------
(***************************************************************************)
(* The announced files stay the same when no file description arrives and  *)
(* no peer's announced file is replaced.                                   *)
(***************************************************************************)
LEMMA SourceFrame ==
  ASSUME fileBlockSize' = fileBlockSize,
         \A q \in Peer : fileBlockSize[q] # 0 => fileRead'[asked'[q]] = fileRead[asked[q]]
  PROVE  Source' = Source
  BY DEF Source

(***************************************************************************)
(* Both copies of "ready": a peer that is told whom to ask has announced   *)
(* nothing yet, so its source does not change.                             *)
(***************************************************************************)
LEMMA RespondReadyCopy ==
  ASSUME TypeOK, TransferInv, NEW p \in Peer, NEW m \in net, ReceiveRespondReady(p, m)
  PROVE  Source' = Source /\ written' = written
<1>1. UNCHANGED <<fileBlockSize, fileRead, written>>
  BY DEF ReceiveRespondReady, serveVars, writeVars
<1>2. ASSUME NEW q \in Peer, fileBlockSize[q] # 0
      PROVE  asked'[q] = asked[q]
  <2>1. mConnection[q]
    <3>1. asked[q] \in Peer
      BY <1>2 DEF TransferInv, KnowsFile, TypeOK
    <3> QED BY <3>1, ConstantsAssumption DEF TransferInv, KnowsFile
  <2>2. CASE mConnection[p]
    BY <2>2 DEF ReceiveRespondReady, connVars
  <2>3. CASE ~mConnection[p]
    <3>1. p # q
      BY <2>1, <2>3
    <3>2. asked' = [asked EXCEPT ![p] = m.src]
      BY <2>3 DEF ReceiveRespondReady
    <3> QED BY <3>1, <3>2 DEF TypeOK
  <2> QED BY <2>2, <2>3
<1> QED BY <1>1, <1>2, SourceFrame

(***************************************************************************)
(* A file request loads a buffer only where nothing has been announced.    *)
(***************************************************************************)
LEMMA FileNameCopy ==
  ASSUME TypeOK, TransferInv, NEW p \in Peer, NEW m \in net, ReceiveFileName(p, m)
  PROVE  Source' = Source /\ written' = written
<1>1. UNCHANGED <<fileBlockSize, asked, written>>
  BY DEF ReceiveFileName, connVars, writeVars
<1>2. \A s \in Peer : loaded[s] => fileRead'[s] = fileRead[s]
  <2>1. \E blocks : /\ loaded[p] => blocks = fileRead[p]
                    /\ fileRead' = [fileRead EXCEPT ![p] = blocks]
    BY DEF ReceiveFileName, FileBlocks
  <2> QED BY <2>1 DEF TypeOK
<1>3. ASSUME NEW q \in Peer, fileBlockSize[q] # 0
      PROVE  fileRead'[asked'[q]] = fileRead[asked[q]]
  <2>1. asked[q] \in Peer /\ Len(fileRead[asked[q]]) > 0
    BY <1>3 DEF TransferInv, KnowsFile, Announced, TypeOK
  <2>2. loaded[asked[q]]
    BY <2>1 DEF TransferInv, KnowsFile
  <2> QED BY <1>1, <1>2, <2>1, <2>2
<1> QED BY <1>1, <1>3, SourceFrame

(***************************************************************************)
(* The first file description is the announcement; a repeated one says     *)
(* the same.                                                               *)
(***************************************************************************)
LEMMA FileDescCopy ==
  ASSUME TypeOK, TransferInv, NEW p \in Peer, NEW m \in net, ReceiveFileDesc(p, m)
  PROVE  [Copy!Next]_(Copy!vars)
<1>1. UNCHANGED <<asked, fileRead, written>>
  BY DEF ReceiveFileDesc, serveVars, connVars, writeVars
<1>2. fileBlockSize' = [fileBlockSize EXCEPT ![p] = m.size]
  BY DEF ReceiveFileDesc
<1>3. m.src \in Peer /\ m.size \in Nat /\ m \in Message
  BY MessageFields DEF ReceiveFileDesc, Received, TypeOK
<1>4. asked[p] = m.src /\ m.size = Len(fileRead[m.src]) /\ m.size > 0
  BY DEF ReceiveFileDesc, Received, TransferInv, DatagramsTrue, DatagramTrue
<1>5. CASE fileBlockSize[p] # 0
  <2>1. fileBlockSize[p] = m.size
    BY <1>4, <1>5 DEF TransferInv, KnowsFile, Announced, TypeOK
  <2>2. fileBlockSize' = fileBlockSize
    BY <1>2, <2>1 DEF TypeOK
  <2>3. Source' = Source
    BY <1>1, <2>2, SourceFrame
  <2> QED BY <1>1, <2>3 DEF Copy!vars
<1>6. CASE fileBlockSize[p] = 0
  <2>1. /\ Source[p] = <<>>
        /\ Source'[p] = fileRead[m.src]
        /\ \A q \in Peer : q # p => Source'[q] = Source[q]
    BY <1>1, <1>2, <1>3, <1>4, <1>6 DEF Source, TypeOK
  <2>2. fileRead[m.src] \in Seq(Data) \ {<<>>}
    BY <1>3, <1>4 DEF TypeOK
  <2>3. Source' = [Source EXCEPT ![p] = Source'[p]]
    <3>1. Source' = [q \in Peer |-> Source'[q]] /\ Source = [q \in Peer |-> Source[q]]
      BY DEF Source
    <3> QED BY <2>1, <3>1
  <2>4. Copy!Announce(p)
    BY <1>1, <2>1, <2>2, <2>3 DEF Copy!Announce
  <2> QED BY <2>4 DEF Copy!Next
<1> QED BY <1>5, <1>6

(***************************************************************************)
(* A sector that is written is the next block of the announced file.       *)
(***************************************************************************)
LEMMA SectorCopy ==
  ASSUME TypeOK, TransferInv, NEW p \in Peer, NEW m \in net, ReceiveSector(p, m)
  PROVE  [Copy!Next]_(Copy!vars)
<1>1. UNCHANGED <<asked, fileRead, fileBlockSize>>
  BY DEF ReceiveSector, serveVars, connVars
<1>2. Source' = Source
  BY <1>1, SourceFrame
<1>3. CASE curWrite[p] # m.index
  <2>1. written' = written
    BY <1>3 DEF ReceiveSector, WriteSector
  <2> QED BY <1>2, <2>1 DEF Copy!vars
<1>4. CASE curWrite[p] = m.index
  <2>1. m.src \in Peer /\ m.index \in Nat /\ m.dst = p
    BY MessageFields DEF ReceiveSector, Received, TypeOK
  <2>2. /\ dest[m.src] = p
        /\ m.index < Len(fileRead[m.src])
        /\ m.data = fileRead[m.src][m.index + 1]
    BY <2>1 DEF ReceiveSector, Received, TransferInv, DatagramsTrue, DatagramTrue
  <2>3. Announced(p, m.src)
    BY <2>1, <2>2, StartedSender
  <2>4. Source[p] = fileRead[m.src]
    BY <2>3 DEF Source, Announced
  <2>5. Len(written[p]) = m.index
    BY <1>4 DEF TransferInv, WriterInv, WriterOK
  <2>6. written' = [written EXCEPT ![p] = Append(@, m.data)]
    BY <1>4 DEF ReceiveSector, WriteSector
  <2>7. Copy!CopyBlock(p)
    BY <1>2, <2>2, <2>4, <2>5, <2>6 DEF Copy!CopyBlock
  <2> QED BY <2>7 DEF Copy!Next
<1> QED BY <1>3, <1>4

(***************************************************************************)
(* Every step of the peers is a step of FileCopy or changes neither what   *)
(* was announced nor what was written.                                     *)
(***************************************************************************)
LEMMA CopyNext ==
  TypeOK /\ TransferInv /\ [Next]_vars => [Copy!Next]_(Copy!vars)
<1> SUFFICES ASSUME TypeOK, TransferInv, [Next]_vars
             PROVE  [Copy!Next]_(Copy!vars)
  OBVIOUS
<1>1. ASSUME UNCHANGED <<asked, fileRead, fileBlockSize, written>>
      PROVE  [Copy!Next]_(Copy!vars)
  BY <1>1, SourceFrame DEF Copy!vars
<1>2. ASSUME NEW p \in Peer, NEW m \in net, ReceiveThread(p, m)
      PROVE  [Copy!Next]_(Copy!vars)
  <2>1. CASE ReceiveDoConnect(p, m)
    BY <1>1, <2>1 DEF ReceiveDoConnect, serveVars, connVars, writeVars
  <2>2. CASE ReceiveRequestReady(p, m)
    BY <1>1, <2>2 DEF ReceiveRequestReady, serveVars, connVars, writeVars
  <2>3. CASE ReceiveRespondReady(p, m)
    BY <2>3, RespondReadyCopy DEF Copy!vars
  <2>4. CASE ReceiveFileName(p, m)
    BY <2>4, FileNameCopy DEF Copy!vars
  <2>5. CASE ReceiveFileDesc(p, m)
    BY <2>5, FileDescCopy
  <2>6. CASE ReceiveApkFileDesc(p, m)
    BY <1>1, <2>6 DEF ReceiveApkFileDesc, serveVars, connVars, writeVars
  <2>7. CASE ReceiveSector(p, m)
    BY <2>7, SectorCopy
  <2>8. CASE ReceiveApkSector(p, m)
    BY <1>1, <2>8 DEF ReceiveApkSector, serveVars, connVars, writeVars
  <2> QED BY <1>2, <2>1, <2>2, <2>3, <2>4, <2>5, <2>6, <2>7, <2>8 DEF ReceiveThread
<1>3. ASSUME NEW p \in Peer, SendThreadRead(p) \/ SendSectorData(p)
      PROVE  [Copy!Next]_(Copy!vars)
  BY <1>1, <1>3 DEF SendThreadRead, SendSectorData, serveVars, connVars, writeVars
<1>4. ASSUME NEW m \in net, Lose(m)
      PROVE  [Copy!Next]_(Copy!vars)
  BY <1>1, <1>4 DEF Lose, serveVars, connVars, writeVars
<1>5. ASSUME NEW p \in Peer, SendRequestFileInfo(p)
      PROVE  [Copy!Next]_(Copy!vars)
  BY <1>1, <1>5 DEF SendRequestFileInfo, serveVars, writeVars
<1>6. CASE UNCHANGED vars
  BY <1>1, <1>6 DEF vars, serveVars, connVars, writeVars
<1> QED BY <1>2, <1>3, <1>4, <1>5, <1>6 DEF Next

(***************************************************************************)
(* The peer-to-peer transfer implements FileCopy.                          *)
(***************************************************************************)
THEOREM TransferImplementsFileCopy == Spec => ImplementsFileCopy
<1>1. Init => Copy!Init
  BY DEF Init, Copy!Init, Source
<1>2. TypeOK /\ TransferInv /\ [Next]_vars => [Copy!Next]_(Copy!vars)
  BY CopyNext
<1> QED BY <1>1, <1>2, InvCorrect, PTL DEF Spec, ImplementsFileCopy, Copy!Spec

=============================================================================
