---------------------------- MODULE P2PTransfer ----------------------------
(***************************************************************************)
(* The peer-to-peer file transfer of client/clientmain.cpp: every peer     *)
(* runs receiveThreadFunction, which both serves a file to another peer    *)
(* and downloads one, and at most one sendThreadFunction, which resends    *)
(* the current sector until the receive thread has seen its                *)
(* acknowledgement.  The specification starts where initReceiveThread      *)
(* does: each peer p has sent "request status ready" to the peer Target[p] *)
(* it found, and the application server has been asked to send             *)
(* "request data doConnect" on p's behalf.                                 *)
(*                                                                         *)
(* The network is UDP: net is the set of datagrams that can be delivered.  *)
(* Nothing is ordered.  A datagram whose type is in Transient may be lost, *)
(* and its delivery may or may not leave a copy behind (duplication,       *)
(* delay).  Any other datagram stays deliverable for ever, which lets the  *)
(* peers do the same things (a lost datagram is one that is never          *)
(* delivered) and has far fewer states: enough for safety, while liveness  *)
(* needs the datagrams it waits for to be Transient.                       *)
(***************************************************************************)
EXTENDS Integers, Sequences

CONSTANTS Peer,    \* the peers
          NoPeer,  \* "no address yet"
          File,    \* file names a user can type
          NoFile,  \* "no name typed yet"
          Data,    \* contents of a block of at most BLOCK_MAX_LENGTH bytes
          Shared,  \* Shared[p][f]: the blocks of /data/f on p, <<>> if absent
          Target,  \* Target[p]: the peer p found (p2pServer.front())
          Transient \* the types of datagram that disappear from net

ASSUME ConstantsAssumption ==
  /\ NoPeer \notin Peer
  /\ NoFile \notin File
  /\ Shared \in [Peer -> [File -> Seq(Data)]]
  /\ Target \in [Peer -> Peer]

VARIABLES
  net,            \* datagrams in the network
  alive,          \* alive[p]: the process has not been aborted
  \* the serving side of receiveThreadFunction and its send thread
  loaded,         \* loaded[p]: fileReadBuff # NULL
  fileRead,       \* fileRead[p]: the blocks of fileReadBuff
  pos,            \* pos[p]: currentfileBlockPosition
  sender,         \* sender[p]: where p's sendThreadFunction is
  position,       \* position[p]: its local copy of *pos
  dest,           \* dest[p]: send_thread_struct->remoteaddr
  \* the downloading side of receiveThreadFunction
  mConnection,    \* mConnection[p]
  asked,          \* asked[p]: the peer p's file request goes to (history)
  typing,         \* typing[p]: the receive thread waits in scanf for a name
  localFileName,  \* localFileName[p]
  fileBlockSize,  \* fileBlockSize[p]
  curWrite,       \* curWrite[p]: currentWritefileBlockPosition
  writeBuff,      \* writeBuff[p]: what fileWriteBuff points to
  written         \* written[p]: the blocks handed to fileWriteBuff->writeData

serveVars == <<loaded, fileRead>>
sendVars == <<pos, sender, position, dest>>
connVars == <<mConnection, asked, typing, localFileName>>
writeVars == <<curWrite, writeBuff, written>>
vars == <<net, alive, serveVars, sendVars, connVars, fileBlockSize, writeVars>>

(***************************************************************************)
(* The datagrams: the three ten-byte heads are the field type.             *)
(***************************************************************************)
Plain(t) == [type : {t}, src : Peer, dst : Peer]

Message ==
  Plain("request status ready")
    \cup [type : {"request data doConnect"}, requester : Peer, dst : Peer]
    \cup Plain("respond status ready")
    \cup [type : {"request data fileName"}, src : Peer, dst : Peer, name : File]
    \cup [type : {"respond data fileDesc"}, src : Peer, dst : Peer, size : Nat]
    \cup Plain("respond apk fileDesc")
    \cup [type : {"respond data sector"}, src : Peer, dst : Peer,
          index : Nat, data : Data]
    \cup [type : {"respond apk sector"}, src : Peer, dst : Peer, index : Nat]

(***************************************************************************)
(* recvfrom hands datagram m, of the given type, to p's receive thread,    *)
(* which sends the datagrams out before it receives again.  It does not    *)
(* receive while it waits for its user to type a file name.                *)
(***************************************************************************)
Received(p, m, type) ==
  /\ alive[p]
  /\ ~typing[p]
  /\ m \in net
  /\ m.type = type
  /\ m.dst = p

Consume(m, out) ==
  \E rest \in {net} \cup (IF m.type \in Transient THEN {net \ {m}} ELSE {}) :
     net' = rest \cup out

Lose(m) ==
  /\ m \in net
  /\ m.type \in Transient
  /\ net' = net \ {m}
  /\ UNCHANGED <<alive, serveVars, sendVars, connVars, fileBlockSize, writeVars>>

SendRequestReady(p) ==
  [type |-> "request status ready", src |-> p, dst |-> Target[p]]

SendDoConnect(p) ==
  [type |-> "request data doConnect", requester |-> p, dst |-> Target[p]]

Init ==
  /\ net = {SendRequestReady(p) : p \in Peer} \cup {SendDoConnect(p) : p \in Peer}
  /\ alive = [p \in Peer |-> TRUE]
  /\ loaded = [p \in Peer |-> FALSE]
  /\ fileRead = [p \in Peer |-> <<>>]
  /\ pos = [p \in Peer |-> -1]
  /\ sender = [p \in Peer |-> "none"]
  /\ position = [p \in Peer |-> 0]
  /\ dest = [p \in Peer |-> NoPeer]
  /\ mConnection = [p \in Peer |-> FALSE]
  /\ asked = [p \in Peer |-> NoPeer]
  /\ typing = [p \in Peer |-> FALSE]
  /\ localFileName = [p \in Peer |-> NoFile]
  /\ fileBlockSize = [p \in Peer |-> 0]
  /\ curWrite = [p \in Peer |-> 0]
  /\ writeBuff = [p \in Peer |-> "NULL"]
  /\ written = [p \in Peer |-> <<>>]

-----------------------------------------------------------------------------
(***************************************************************************)
(* Handshake: both ready requests are answered, to the peer they name.     *)
(***************************************************************************)
RespondReady(p, q) == [type |-> "respond status ready", src |-> p, dst |-> q]

ReceiveDoConnect(p, m) ==
  /\ Received(p, m, "request data doConnect")
  /\ Consume(m, {RespondReady(p, m.requester)})
  /\ UNCHANGED <<alive, serveVars, sendVars, connVars, fileBlockSize, writeVars>>

ReceiveRequestReady(p, m) ==
  /\ Received(p, m, "request status ready")
  /\ Consume(m, {RespondReady(p, m.src)})
  /\ UNCHANGED <<alive, serveVars, sendVars, connVars, fileBlockSize, writeVars>>

(***************************************************************************)
(* The first "ready" answer makes the connection: the user is asked for a  *)
(* file name, and the receive thread blocks in scanf until it is typed,    *)
(* while the send thread, if there is one, goes on.  The name is then      *)
(* requested, once, from the peer that answered.                           *)
(***************************************************************************)
ReceiveRespondReady(p, m) ==
  /\ Received(p, m, "respond status ready")
  /\ Consume(m, {})
  /\ IF mConnection[p]
     THEN UNCHANGED connVars
     ELSE /\ mConnection' = [mConnection EXCEPT ![p] = TRUE]
          /\ asked' = [asked EXCEPT ![p] = m.src]
          /\ typing' = [typing EXCEPT ![p] = TRUE]
          /\ UNCHANGED localFileName
  /\ UNCHANGED <<alive, serveVars, sendVars, fileBlockSize, writeVars>>

FileNameRequest(p, q, f) ==
  [type |-> "request data fileName", src |-> p, dst |-> q, name |-> f]

SendRequestFileInfo(p) ==
  /\ alive[p]
  /\ typing[p]
  /\ \E f \in File :
       /\ net' = net \cup {FileNameRequest(p, asked[p], f)}
       /\ localFileName' = [localFileName EXCEPT ![p] = f]
  /\ typing' = [typing EXCEPT ![p] = FALSE]
  /\ UNCHANGED <<alive, serveVars, sendVars, mConnection, asked, fileBlockSize,
                 writeVars>>

-----------------------------------------------------------------------------
(***************************************************************************)
(* Serving a file.                                                         *)
(***************************************************************************)
(* What loadFileToBuffer can read from /data/f: the shared file or, once p
   has opened that same path for its own download, what has reached the disk
   of the blocks written so far: all of them once the file is closed. *)
Loadable(p, f) ==
  IF f = localFileName[p] /\ writeBuff[p] # "NULL"
  THEN {SubSeq(written[p], 1, n) :
          n \in IF writeBuff[p] = "open" THEN 0 .. Len(written[p]) ELSE {Len(written[p])}}
  ELSE {Shared[p][f]}

FileDesc(p, q, size) ==
  [type |-> "respond data fileDesc", src |-> p, dst |-> q, size |-> size]

(* Mutant: every request loads the file it names. *)
ReloadedBlocks(p, f) == Loadable(p, f)

(* The first name ever received decides what fileReadBuff holds; later
   requests, whatever they name, get its size. *)
FileBlocks(p, f) == IF loaded[p] THEN {fileRead[p]} ELSE Loadable(p, f)

(* Mutant: an empty or missing file is announced too. *)
RespondAnyFile(p, q, blocks) == {FileDesc(p, q, Len(blocks))}

RespondFileInfo(p, q, blocks) ==
  IF Len(blocks) > 0 THEN {FileDesc(p, q, Len(blocks))} ELSE {}

ReceiveFileName(p, m) ==
  /\ Received(p, m, "request data fileName")
  /\ \E blocks \in FileBlocks(p, m.name) :
       /\ Consume(m, RespondFileInfo(p, m.src, blocks))
       /\ fileRead' = [fileRead EXCEPT ![p] = blocks]
  /\ loaded' = [loaded EXCEPT ![p] = TRUE]
  /\ UNCHANGED <<alive, sendVars, connVars, fileBlockSize, writeVars>>

(* Mutant: the send thread is started without the remote address. *)
StartSendThreadNowhere(p, q) ==
  /\ sender' = [sender EXCEPT ![p] = "read"]
  /\ UNCHANGED dest

StartSendThread(p, q) ==
  /\ sender' = [sender EXCEPT ![p] = "read"]
  /\ dest' = [dest EXCEPT ![p] = q]

(* The first acknowledgement of a file description starts the send thread,
   towards the peer it came from. *)
ReceiveApkFileDesc(p, m) ==
  /\ Received(p, m, "respond apk fileDesc")
  /\ Consume(m, {})
  /\ IF pos[p] = -1
     THEN /\ pos' = [pos EXCEPT ![p] = 0]
          /\ IF 0 < Len(fileRead[p])
             THEN StartSendThread(p, m.src)
             ELSE UNCHANGED <<sender, dest>>
          /\ UNCHANGED position
     ELSE UNCHANGED sendVars
  /\ UNCHANGED <<alive, serveVars, connVars, fileBlockSize, writeVars>>

(* Mutant: any acknowledgement moves the position. *)
ApkMovesPosition(p, m) ==
  /\ Received(p, m, "respond apk sector")
  /\ Consume(m, {})
  /\ pos' = [pos EXCEPT ![p] = @ + 1]
  /\ UNCHANGED <<alive, serveVars, sender, position, dest, connVars,
                 fileBlockSize, writeVars>>

ReceiveApkSector(p, m) ==
  /\ Received(p, m, "respond apk sector")
  /\ Consume(m, {})
  /\ pos' = IF pos[p] = m.index THEN [pos EXCEPT ![p] = @ + 1] ELSE pos
  /\ UNCHANGED <<alive, serveVars, sender, position, dest, connVars,
                 fileBlockSize, writeVars>>

(* sendThreadFunction: read *pos, which the receive thread changes, then send
   the sector it names; ends once all blocks have been acknowledged. *)
SendThreadRead(p) ==
  /\ alive[p]
  /\ sender[p] = "read"
  /\ IF pos[p] < Len(fileRead[p])
     THEN /\ position' = [position EXCEPT ![p] = pos[p]]
          /\ sender' = [sender EXCEPT ![p] = "send"]
     ELSE /\ sender' = [sender EXCEPT ![p] = "exit"]
          /\ UNCHANGED position
  /\ UNCHANGED <<net, alive, serveVars, pos, dest, connVars, fileBlockSize, writeVars>>

Sector(p, i) ==
  [type |-> "respond data sector", src |-> p, dst |-> dest[p],
   index |-> i, data |-> fileRead[p][i + 1]]

SendSectorData(p) ==
  /\ alive[p]
  /\ sender[p] = "send"
  /\ net' = net \cup {Sector(p, position[p])}
  /\ sender' = [sender EXCEPT ![p] = "read"]
  /\ UNCHANGED <<alive, serveVars, pos, position, dest, connVars, fileBlockSize,
                 writeVars>>

-----------------------------------------------------------------------------
(***************************************************************************)
(* Downloading a file.                                                     *)
(***************************************************************************)
ReceiveFileDesc(p, m) ==
  /\ Received(p, m, "respond data fileDesc")
  /\ Consume(m, {[type |-> "respond apk fileDesc", src |-> p, dst |-> m.src]})
  /\ fileBlockSize' = [fileBlockSize EXCEPT ![p] = m.size]
  /\ UNCHANGED <<alive, serveVars, sendVars, connVars, writeVars>>

(* Mutant: only a sector that is written is acknowledged. *)
ApkNewSector(p, m) ==
  IF curWrite[p] = m.index
  THEN {[type |-> "respond apk sector", src |-> p, dst |-> m.src, index |-> m.index]}
  ELSE {}

(* Every copy of a sector is acknowledged. *)
ApkSector(p, m) ==
  {[type |-> "respond apk sector", src |-> p, dst |-> m.src, index |-> m.index]}

(* Mutant: a late copy of an earlier sector is written again. *)
WriteSectorAgain(p, m) ==
  IF m.index <= curWrite[p]
  THEN /\ written' = [written EXCEPT ![p] = Append(@, m.data)]
       /\ curWrite' = [curWrite EXCEPT ![p] = m.index + 1]
  ELSE UNCHANGED <<written, curWrite>>

(* A sector is written when it is the next one. *)
WriteSector(p, m) ==
  IF curWrite[p] = m.index
  THEN /\ written' = [written EXCEPT ![p] = Append(@, m.data)]
       /\ curWrite' = [curWrite EXCEPT ![p] = @ + 1]
  ELSE UNCHANGED <<written, curWrite>>

(* Mutant: off by one. *)
IsLastButOne(p, m) == m.index + 2 >= fileBlockSize[p]

IsLastSector(p, m) == m.index = fileBlockSize[p] - 1

(* The last sector deletes fileWriteBuff without clearing the pointer, so
   that a further copy of it deletes the object again: undefined behaviour,
   the process is aborted or goes on. *)
ReceiveSector(p, m) ==
  /\ Received(p, m, "respond data sector")
  /\ Consume(m, ApkSector(p, m))
  /\ WriteSector(p, m)
  /\ writeBuff' = [writeBuff EXCEPT ![p] = IF IsLastSector(p, m) THEN "deleted"
                                           ELSE IF @ = "NULL" THEN "open" ELSE @]
  /\ IF IsLastSector(p, m) /\ writeBuff[p] = "deleted"
     THEN \E survives \in BOOLEAN : alive' = [alive EXCEPT ![p] = survives]
     ELSE UNCHANGED alive
  /\ UNCHANGED <<serveVars, sendVars, connVars, fileBlockSize>>

ReceiveThread(p, m) ==
  \/ ReceiveDoConnect(p, m)
  \/ ReceiveRequestReady(p, m)
  \/ ReceiveRespondReady(p, m)
  \/ ReceiveFileName(p, m)
  \/ ReceiveFileDesc(p, m)
  \/ ReceiveApkFileDesc(p, m)
  \/ ReceiveSector(p, m)
  \/ ReceiveApkSector(p, m)

Next ==
  \/ \E p \in Peer : \E m \in net : ReceiveThread(p, m)
  \/ \E p \in Peer : SendRequestFileInfo(p)
  \/ \E p \in Peer : SendThreadRead(p) \/ SendSectorData(p)
  \/ \E m \in net : Lose(m)

Spec == Init /\ [][Next]_vars
(***************************************************************************)
(* Fairness.  A started send thread is never descheduled for ever, and it  *)
(* sends its current sector every 50 ms until that is acknowledged, while  *)
(* every copy that arrives is acknowledged again; a network that delivers  *)
(* infinitely many copies some of the time gives strong fairness of the    *)
(* two receive handlers that take part.  A handler is enabled only while   *)
(* the receive thread is at recvfrom: nothing says that a user who is      *)
(* asked for a file name ever types one, so SendRequestFileInfo has no     *)
(* fairness, and nothing is assumed about the datagrams that are sent only *)
(* once (the handshake).                                                   *)
(***************************************************************************)
SectorAt(p, i) == \E m \in net : m.type = "respond data sector" /\ m.index = i
                                   /\ ReceiveSector(p, m)

ApkSectorAt(p, i) == \E m \in net : m.type = "respond apk sector" /\ m.index = i
                                      /\ ReceiveApkSector(p, m)

Fairness(n) ==
  \A p \in Peer :
    /\ WF_vars(SendThreadRead(p) \/ SendSectorData(p))
    /\ \A i \in 0 .. n : SF_vars(SectorAt(p, i)) /\ SF_vars(ApkSectorAt(p, i))

-----------------------------------------------------------------------------
TypeOK ==
  /\ net \subseteq Message
  /\ alive \in [Peer -> BOOLEAN]
  /\ loaded \in [Peer -> BOOLEAN]
  /\ fileRead \in [Peer -> Seq(Data)]
  /\ pos \in [Peer -> Nat \cup {-1}]
  /\ sender \in [Peer -> {"none", "read", "send", "exit"}]
  /\ position \in [Peer -> Nat]
  /\ dest \in [Peer -> Peer \cup {NoPeer}]
  /\ mConnection \in [Peer -> BOOLEAN]
  /\ asked \in [Peer -> Peer \cup {NoPeer}]
  /\ typing \in [Peer -> BOOLEAN]
  /\ localFileName \in [Peer -> File \cup {NoFile}]
  /\ fileBlockSize \in [Peer -> Nat]
  /\ curWrite \in [Peer -> Nat]
  /\ writeBuff \in [Peer -> {"NULL", "open", "deleted"}]
  /\ written \in [Peer -> Seq(Data)]

(***************************************************************************)
(* The local file is composed of the served blocks in order, each exactly  *)
(* once: what p has handed to writeData is a prefix of the buffer of the   *)
(* peer it asked, however sectors are lost, repeated or overtaken.         *)
(***************************************************************************)
WrittenInOrder ==
  \A p \in Peer : written[p] # <<>> =>
    /\ asked[p] \in Peer
    /\ Len(written[p]) <= Len(fileRead[asked[p]])
    /\ \A i \in 1 .. Len(written[p]) : written[p][i] = fileRead[asked[p]][i]

(***************************************************************************)
(* The two ends stay in step: the position the send thread works on is     *)
(* the receiver's next block or the one before, so an acknowledgement that *)
(* is old or repeated never moves it past a block that was not written.    *)
(***************************************************************************)
SenderInStep ==
  \A s \in Peer : sender[s] # "none" =>
    \E p \in Peer : /\ dest[s] = p
                     /\ curWrite[p] \in {pos[s], pos[s] + 1}
                     /\ pos[s] <= Len(fileRead[s])

(***************************************************************************)
(* fileWriteBuff is deleted ("receive complete!") only when the whole      *)
(* served file has been written, so no later sector is written through     *)
(* the dangling pointer, and a process is aborted by the second delete     *)
(* only after its own download is complete.                                *)
(***************************************************************************)
DeletedOnlyWhenComplete ==
  \A p \in Peer : writeBuff[p] = "deleted" \/ ~alive[p] =>
    /\ asked[p] \in Peer
    /\ written[p] # <<>>
    /\ written[p] = fileRead[asked[p]]

(***************************************************************************)
(* The serving side never dereferences what is not there: fileReadBuff is  *)
(* loaded when a file description is acknowledged, and the position the    *)
(* send thread has read still names a block when it calls getAt.           *)
(***************************************************************************)
ServesLoadedBlocks ==
  /\ \A m \in net : m.type = "respond apk fileDesc" =>
                       loaded[m.dst] /\ fileRead[m.dst] # <<>>
  /\ \A s \in Peer : sender[s] = "send" => position[s] < Len(fileRead[s])

(***************************************************************************)
(* The inductive invariant behind the four properties above: what a        *)
(* datagram in the network still tells about the two peers it concerns     *)
(* however late it arrives (DatagramsTrue), what a peer knows of the file  *)
(* it asked for (KnowsFile), how far the send thread and the receiver can  *)
(* be apart (SenderInv) and what has been written (WriterInv).             *)
(***************************************************************************)
Announced(p, s) ==
  /\ asked[p] = s
  /\ fileBlockSize[p] = Len(fileRead[s])
  /\ fileBlockSize[p] > 0

DatagramTrue(m) ==
  /\ m.type = "request data fileName" => asked[m.src] = m.dst
  /\ m.type = "respond data fileDesc" =>
       asked[m.dst] = m.src /\ m.size = Len(fileRead[m.src]) /\ m.size > 0
  /\ m.type = "respond apk fileDesc" => Announced(m.src, m.dst)
  /\ m.type = "respond data sector" =>
       /\ dest[m.src] = m.dst
       /\ m.index <= pos[m.src]
       /\ m.index < Len(fileRead[m.src])
       /\ m.data = fileRead[m.src][m.index + 1]
  /\ m.type = "respond apk sector" =>
       dest[m.dst] = m.src /\ m.index < curWrite[m.src]

DatagramsTrue == \A m \in net : DatagramTrue(m)

KnowsFile ==
  \A p \in Peer :
    /\ ~mConnection[p] => asked[p] = NoPeer
    /\ typing[p] => asked[p] \in Peer
    /\ ~loaded[p] => fileRead[p] = <<>>
    /\ fileBlockSize[p] > 0 => asked[p] \in Peer /\ Announced(p, asked[p])

SenderOK(s) ==
  /\ sender[s] = "none" => pos[s] = -1 /\ dest[s] = NoPeer
  /\ sender[s] # "none" =>
       /\ dest[s] \in Peer
       /\ Announced(dest[s], s)
       /\ pos[s] >= 0
       /\ pos[s] <= curWrite[dest[s]]
       /\ curWrite[dest[s]] <= pos[s] + 1
       /\ curWrite[dest[s]] <= Len(fileRead[s])
  /\ sender[s] = "send" => position[s] <= pos[s] /\ position[s] < Len(fileRead[s])

SenderInv == \A s \in Peer : SenderOK(s)

WriterOK(p) ==
  /\ Len(written[p]) = curWrite[p]
  /\ curWrite[p] > 0 => asked[p] \in Peer /\ dest[asked[p]] = p
  /\ \A i \in 1 .. curWrite[p] : written[p][i] = fileRead[asked[p]][i]
  /\ writeBuff[p] = "deleted" => fileBlockSize[p] > 0 /\ curWrite[p] = fileBlockSize[p]
  /\ ~alive[p] => writeBuff[p] = "deleted"

WriterInv == \A p \in Peer : WriterOK(p)

TransferInv == DatagramsTrue /\ KnowsFile /\ SenderInv /\ WriterInv

(***************************************************************************)
(* The transfer implements FileCopy: p's source is fixed when the first    *)
(* file description reaches it, and from then on blocks are only appended. *)
(***************************************************************************)
Source == [p \in Peer |-> IF fileBlockSize[p] = 0 THEN <<>> ELSE fileRead[asked[p]]]

Copy == INSTANCE FileCopy WITH source <- Source, copy <- written

ImplementsFileCopy == Copy!Spec

(***************************************************************************)
(* A transfer that has started ends: from some point on no send thread is  *)
(* still sending, it has not been started or it has returned, all blocks   *)
(* acknowledged, unless one of the two processes is aborted, or the        *)
(* serving peer's receive thread stays in scanf because its own user never *)
(* answers the prompt: then no acknowledgement is ever received and the    *)
(* current sector is resent for ever.  The receiver's user cannot hold a   *)
(* transfer up: he has answered before it starts.                          *)
(***************************************************************************)
TransferEnds ==
  \A s \in Peer :
    \/ <>[]typing[s]
    \/ <>[] \/ sender[s] \in {"none", "exit"}
            \/ ~alive[s]
            \/ \E p \in Peer : dest[s] = p /\ ~alive[p]

(***************************************************************************)
(* Steps 7 to 10 of the comment in UdpClientLoop: the file composed under  *)
(* the name the user typed is the file of that name at the peer asked.     *)
(***************************************************************************)
ComposedIsRequested ==
  \A p \in Peer : writeBuff[p] = "deleted" =>
    written[p] = Shared[asked[p]][localFileName[p]]
=============================================================================
