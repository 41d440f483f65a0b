-------------------------- MODULE StunClientProofs --------------------------
(***************************************************************************)
(* TLAPS proofs about StunClient: whatever is lost, late or repeated, the  *)
(* client makes its attempts, classifies once and classifies soundly, for  *)
(* any timeout.                                                            *)
(***************************************************************************)
EXTENDS StunClient, TLAPS

(* Tests run in this order; a test list is the first, or the first three or
   all of them. *)
Ord(t) ==
  IF t = "binding" THEN 1 ELSE IF t = "behavior2" THEN 2 ELSE IF t = "behavior3" THEN 3
  ELSE IF t = "filtering2" THEN 4 ELSE 5

AP == [ip |-> "A", port |-> "P"]

AA == [ip |-> "A", port |-> "A"]

PA == [ip |-> "P", port |-> "A"]

(* Where a test sends its request once the server's addresses are known. *)
Dst(t) == IF t = "behavior2" THEN AP ELSE IF t = "behavior3" THEN AA ELSE addrServer

(* Where the server answers it from. *)
Src(t) == IF t = "behavior2" THEN AP ELSE IF t = "behavior3" \/ t = "filtering2" THEN AA
          ELSE IF t = "filtering3" THEN PA ELSE addrServer

-----------------------------------------------------------------------------
(* The command line is read once, and one local port is enough over UDP. *)
SetupInv ==
  /\ \E full \in BOOLEAN : config = CommandLineConfig(proto, full)
  /\ proto = "udp" \/ fixedPort => sock = 1

(* How far the tests are. *)
ProgressInv ==
  /\ call \in {"S_OK", "STILL_WAITING"} =>
       /\ nTestIndex <= Len(testlist) /\ preChecked /\ sendCount > 0
       /\ IsReadyToRun(testlist[nTestIndex])
  /\ call = "RESULTS_READY" => nTestIndex > Len(testlist)
  /\ preChecked => nTestIndex <= Len(testlist)
  /\ nTestIndex > 1 => completed["binding"]
  /\ \A t \in Test :
       /\ Ord(t) > nTestIndex => ~completed[t] /\ sends[t] = 0
       /\ Ord(t) = nTestIndex => sends[t] = sendCount /\ (~preChecked => ~completed[t])
       /\ sends[t] <= MaxAttempts
       /\ completed[t] => sends[t] > 0 \/ (t \in {"behavior2", "filtering2"} /\ results.fIsDirect)

(* What the results say for each test that is completed or not. *)
ResultsInv ==
  /\ completed["binding"] => results.fBindingTestSuccess \/ sends["binding"] = MaxAttempts
  /\ ~completed["binding"] => ~results.fBindingTestSuccess
  /\ results.fHasOtherAddress => results.addrAP = AP /\ results.addrAA = AA
  /\ ~completed["behavior2"] => results.addrMappingAP = Zero
  /\ ~completed["behavior2"] /\ ~completed["behavior3"] =>
       results.behavior = "UnknownBehavior" /\ ~results.fBehaviorTestSuccess
  /\ ~completed["filtering2"] /\ ~completed["filtering3"] =>
       /\ results.filtering = "UnknownFiltering" /\ ~results.fFilteringTestSuccess
       /\ ~results.fGotTest2Response
  /\ results.behavior # "UnknownBehavior" => results.fBehaviorTestSuccess
  /\ results.filtering # "UnknownFiltering" => results.fFilteringTestSuccess
  /\ nTestIndex = 2 /\ preChecked /\ ~completed["behavior2"] =>
       ~(results.fBindingTestSuccess /\ results.fIsDirect)
  /\ completed["behavior2"] =>
       results.fBehaviorTestSuccess \/ ~(results.fBindingTestSuccess /\ results.fIsDirect)
  /\ completed["filtering2"] =>
       results.fFilteringTestSuccess \/ sends["filtering2"] = MaxAttempts
  /\ nTestIndex >= 5 /\ ~completed["filtering2"] =>
       \/ ~results.fBindingTestSuccess \/ ~results.fHasOtherAddress
       \/ results.fFilteringTestSuccess \/ results.fGotTest2Response
  /\ results.filtering = "AddressAndPortDependentFiltering" =>
       sends["filtering2"] = MaxAttempts /\ sends["filtering3"] = MaxAttempts

(* The driver's last destination: the server's alternate address only until
   the filtering tests begin. *)
DestInv ==
  /\ sends["binding"] > 0 => addrDest # addrZero
  /\ addrDest \notin {addrZero, addrServer} =>
       /\ Len(testlist) > 1 /\ nTestIndex <= 4 /\ sends["filtering2"] = 0
       /\ results.fBindingTestSuccess /\ results.fHasOtherAddress /\ ~results.fIsDirect

(* What is in the network over UDP. *)
GoodRequest(q) ==
  /\ q.id \in Test /\ q.dst = Dst(q.id) /\ q.ext = Mapped(1, Dst(q.id))
  /\ q.changeIP = ChangeIP(q.id) /\ q.changePort = ChangePort(q.id)

GoodReply(m, l) ==
  /\ m.id \in Test /\ m.src = Src(m.id) /\ m.mapped = Mapped(l, Dst(m.id))
  /\ m.id = "binding" => m.other = AA /\ m.hasOther \in BOOLEAN

NetInv ==
  /\ contacted \subseteq {addrServer, AP, AA}
  /\ AA \in contacted =>
       nat.mapping \in {"AddressDependentMapping", "AddressAndPortDependentMapping"}
  /\ \A q \in requests : GoodRequest(q)
  /\ \A m \in replies : GoodReply(m, 1)

(* What the mapped addresses say about the NAT, if one port is used. *)
MappingInv ==
  proto = "udp" \/ fixedPort =>
    /\ results.fBindingTestSuccess =>
         /\ results.addrMapped = Mapped(1, addrServer)
         /\ results.fIsDirect <=> nat.mapping = "DirectMapping"
    /\ results.addrMappingAP # Zero =>
         /\ results.addrMappingAP = Mapped(1, AP)
         /\ ~results.fBehaviorTestSuccess =>
              nat.mapping \in {"AddressDependentMapping", "AddressAndPortDependentMapping"}

(* The inductive invariant. *)
ClientInv ==
  /\ TypeOK /\ SetupInv /\ ProgressInv /\ ResultsInv /\ DestInv /\ NetInv
  /\ MappingInv /\ MappingSound /\ FilteringSound

-----------------------------------------------------------------------------
(* The order of the tests tells them apart. *)
LEMMA OrdFacts ==
  /\ \A t \in Test : Ord(t) \in 1 .. 5
  /\ \A t, u \in Test : Ord(t) = Ord(u) => t = u
  /\ Ord("binding") = 1 /\ Ord("behavior2") = 2 /\ Ord("behavior3") = 3
  /\ Ord("filtering2") = 4 /\ Ord("filtering3") = 5
BY DEF Test, Ord

(* Initialize, for the configurations of the command line. *)
LEMMA ListFacts ==
  ASSUME SetupInv, proto \in {"udp", "tcp"}
  PROVE  /\ Len(testlist) \in {1, 3, 5}
         /\ \A i \in 1 .. Len(testlist) : testlist[i] \in Test /\ Ord(testlist[i]) = i
         /\ proto = "udp" => Len(testlist) # 3
         /\ proto # "udp" => Len(testlist) # 5
         /\ config \in Config /\ MaxAttempts \in {1, 2} /\ Timeout = DefaultTimeout
<1>1. PICK full \in BOOLEAN : config = CommandLineConfig(proto, full)
  BY DEF SetupInv
<1>2. /\ config.fBehaviorTest = full /\ config.fFilteringTest = (full /\ proto = "udp")
      /\ config.fTimeoutIsInstant = FALSE /\ config.timeoutSeconds = 0
      /\ config.uMaxAttempts = IF proto = "tcp" THEN 1 ELSE 0
      /\ config \in Config
  BY <1>1 DEF CommandLineConfig, Config
<1>3. MaxAttempts \in {1, 2} /\ Timeout = DefaultTimeout
  BY <1>2 DEF MaxAttempts, Timeout
<1>4. CASE ~full
  <2>1. testlist = <<"binding">> \o <<>> \o <<>>
    BY <1>2, <1>4 DEF testlist
  <2>2. testlist = <<"binding">>
    BY <2>1
  <2>3. Len(testlist) = 1 /\ testlist[1] = "binding"
    BY <2>2
  <2>4. QED BY <1>2, <1>3, <2>3, OrdFacts DEF Test
<1>5. CASE full /\ proto = "udp"
  <2>1. testlist = <<"binding">> \o <<"behavior2", "behavior3">> \o <<"filtering2", "filtering3">>
    BY <1>2, <1>5 DEF testlist
  <2>3. /\ Len(testlist) = 5 /\ testlist[1] = "binding" /\ testlist[2] = "behavior2"
        /\ testlist[3] = "behavior3" /\ testlist[4] = "filtering2" /\ testlist[5] = "filtering3"
    BY <2>1
  <2>4. QED BY <1>2, <1>3, <1>5, <2>3, OrdFacts DEF Test
<1>6. CASE full /\ proto # "udp"
  <2>1. testlist = <<"binding">> \o <<"behavior2", "behavior3">> \o <<>>
    BY <1>2, <1>6 DEF testlist
  <2>3. /\ Len(testlist) = 3 /\ testlist[1] = "binding" /\ testlist[2] = "behavior2"
        /\ testlist[3] = "behavior3"
    BY <2>1
  <2>4. QED BY <1>2, <1>3, <1>6, <2>3, OrdFacts DEF Test
<1>7. QED BY <1>4, <1>5, <1>6

(* The four explicit forms of a mapped endpoint. *)
LEMMA MappedForms ==
  ASSUME nat \in [mapping : Mapping, filtering : NatFilter], NEW l \in Nat, NEW d \in Addr
  PROVE  /\ nat.mapping = "DirectMapping" => Mapped(l, d) = LocalEndpoint(l)
         /\ nat.mapping = "EndpointIndependentMapping" =>
              Mapped(l, d) = [local |-> l, nat |-> TRUE, ip |-> "any", port |-> "any"]
         /\ nat.mapping = "AddressDependentMapping" =>
              Mapped(l, d) = [local |-> l, nat |-> TRUE, ip |-> d.ip, port |-> "any"]
         /\ nat.mapping = "AddressAndPortDependentMapping" =>
              Mapped(l, d) = [local |-> l, nat |-> TRUE, ip |-> d.ip, port |-> d.port]
         /\ nat.mapping \in {"DirectMapping", "EndpointIndependentMapping",
                             "AddressDependentMapping", "AddressAndPortDependentMapping"}
BY DEF Mapped, LocalEndpoint, Mapping, Behavior

(* What the client can tell from mapped endpoints. *)
LEMMA MappedFacts ==
  ASSUME nat \in [mapping : Mapping, filtering : NatFilter]
  PROVE  /\ \A l \in Nat, d \in Addr :
              /\ Mapped(l, d) \in Endpoint
              /\ LocalEndpoint(l) = Mapped(l, d) <=> nat.mapping = "DirectMapping"
         /\ \A d \in Addr : Mapped(1, d) # Zero
         /\ Mapped(1, AP) = Mapped(1, addrServer) <=>
              nat.mapping \in {"DirectMapping", "EndpointIndependentMapping"}
         /\ Mapped(1, AA) = Mapped(1, addrServer) <=>
              nat.mapping \in {"DirectMapping", "EndpointIndependentMapping"}
         /\ Mapped(1, AA) = Mapped(1, AP) <=> nat.mapping # "AddressAndPortDependentMapping"
<1>0. AP \in Addr /\ AA \in Addr /\ addrServer \in Addr
  BY DEF AP, AA, addrServer, Addr
<1>A. /\ AP.ip = "A" /\ AP.port = "P" /\ AA.ip = "A" /\ AA.port = "A"
      /\ addrServer.ip = "P" /\ addrServer.port = "P"
      /\ \A d \in Addr : d.ip \in {"P", "A", "any"} /\ d.port \in {"P", "A", "any"}
  BY DEF AP, AA, addrServer, Addr
<1>Z. Zero.local = 0 /\ \A l : LocalEndpoint(l).nat = FALSE
  BY DEF Zero, LocalEndpoint
<1>L. \A l, d : Mapped(l, d).local = l
  BY DEF Mapped
<1>M. \A d \in Addr : Mapped(1, d) # Zero
  <2>1. 1 # 0
    OBVIOUS
  <2>2. QED BY <1>Z, <1>L, <2>1, Zenon
<1>1. CASE nat.mapping = "DirectMapping"
  <2>1. \A l \in Nat, d \in Addr :
          Mapped(l, d) = [local |-> l, nat |-> FALSE, ip |-> "any", port |-> "any"]
    BY <1>1, MappedForms DEF LocalEndpoint
  <2>3. ASSUME NEW l \in Nat, NEW d \in Addr
        PROVE  Mapped(l, d) \in Endpoint
    <3>1. [local |-> l, nat |-> FALSE, ip |-> "any", port |-> "any"] \in Endpoint
      BY <1>A DEF Endpoint
    <3>2. QED BY <2>1, <3>1
  <2>4. \A l \in Nat, d \in Addr : LocalEndpoint(l) = Mapped(l, d)
    BY <2>1 DEF LocalEndpoint
  <2>5. Mapped(1, AP) = Mapped(1, addrServer) /\ Mapped(1, AA) = Mapped(1, addrServer)
    BY <1>0, <2>1
  <2>6. Mapped(1, AA) = Mapped(1, AP)
    <3>1. /\ Mapped(1, AA) = [local |-> 1, nat |-> FALSE, ip |-> "any", port |-> "any"]
          /\ Mapped(1, AP) = [local |-> 1, nat |-> FALSE, ip |-> "any", port |-> "any"]
      BY <1>0, <2>1
    <3>2. QED BY <1>A, <3>1
  <2>7. QED BY <1>M, <1>1, <2>3, <2>4, <2>5, <2>6
<1>2. CASE nat.mapping = "EndpointIndependentMapping"
  <2>1. \A l \in Nat, d \in Addr :
          Mapped(l, d) = [local |-> l, nat |-> TRUE, ip |-> "any", port |-> "any"]
    BY <1>2, MappedForms
  <2>3. ASSUME NEW l \in Nat, NEW d \in Addr
        PROVE  Mapped(l, d) \in Endpoint
    <3>1. [local |-> l, nat |-> TRUE, ip |-> "any", port |-> "any"] \in Endpoint
      BY <1>A DEF Endpoint
    <3>2. QED BY <2>1, <3>1
  <2>4. \A l \in Nat, d \in Addr : LocalEndpoint(l) # Mapped(l, d)
    <3>1. \A l \in Nat, d \in Addr : Mapped(l, d).nat = TRUE
      BY <2>1
    <3>2. QED BY <1>Z, <3>1, Zenon
  <2>5. Mapped(1, AP) = Mapped(1, addrServer) /\ Mapped(1, AA) = Mapped(1, addrServer)
    BY <1>0, <2>1
  <2>6. Mapped(1, AA) = Mapped(1, AP)
    <3>1. /\ Mapped(1, AA) = [local |-> 1, nat |-> TRUE, ip |-> "any", port |-> "any"]
          /\ Mapped(1, AP) = [local |-> 1, nat |-> TRUE, ip |-> "any", port |-> "any"]
      BY <1>0, <2>1
    <3>2. QED BY <1>A, <3>1
  <2>7. QED BY <1>M, <1>2, <2>3, <2>4, <2>5, <2>6
<1>3. CASE nat.mapping = "AddressDependentMapping"
  <2>1. \A l \in Nat, d \in Addr :
          Mapped(l, d) = [local |-> l, nat |-> TRUE, ip |-> d.ip, port |-> "any"]
    BY <1>3, MappedForms
  <2>3. ASSUME NEW l \in Nat, NEW d \in Addr
        PROVE  Mapped(l, d) \in Endpoint
    <3>1. [local |-> l, nat |-> TRUE, ip |-> d.ip, port |-> "any"] \in Endpoint
      BY <1>A DEF Endpoint
    <3>2. QED BY <2>1, <3>1
  <2>4. \A l \in Nat, d \in Addr : LocalEndpoint(l) # Mapped(l, d)
    <3>1. \A l \in Nat, d \in Addr : Mapped(l, d).nat = TRUE
      BY <2>1
    <3>2. QED BY <1>Z, <3>1, Zenon
  <2>5. /\ Mapped(1, AP) # Mapped(1, addrServer) /\ Mapped(1, AA) # Mapped(1, addrServer)
    <3>1. \A d \in Addr : Mapped(1, d).ip = d.ip
      BY <2>1
    <3>2. "A" # "P"
      OBVIOUS
    <3>3. QED BY <1>0, <1>A, <3>1, <3>2, Zenon
  <2>6. Mapped(1, AA) = Mapped(1, AP)
    <3>1. /\ Mapped(1, AA) = [local |-> 1, nat |-> TRUE, ip |-> AA.ip, port |-> "any"]
          /\ Mapped(1, AP) = [local |-> 1, nat |-> TRUE, ip |-> AP.ip, port |-> "any"]
      BY <1>0, <2>1
    <3>2. QED BY <1>A, <3>1
  <2>7. QED BY <1>M, <1>3, <2>3, <2>4, <2>5, <2>6
<1>4. CASE nat.mapping = "AddressAndPortDependentMapping"
  <2>1. \A l \in Nat, d \in Addr :
          Mapped(l, d) = [local |-> l, nat |-> TRUE, ip |-> d.ip, port |-> d.port]
    BY <1>4, MappedForms
  <2>3. ASSUME NEW l \in Nat, NEW d \in Addr
        PROVE  Mapped(l, d) \in Endpoint
    <3>1. [local |-> l, nat |-> TRUE, ip |-> d.ip, port |-> d.port] \in Endpoint
      BY <1>A DEF Endpoint
    <3>2. QED BY <2>1, <3>1
  <2>4. \A l \in Nat, d \in Addr : LocalEndpoint(l) # Mapped(l, d)
    <3>1. \A l \in Nat, d \in Addr : Mapped(l, d).nat = TRUE
      BY <2>1
    <3>2. QED BY <1>Z, <3>1, Zenon
  <2>5. /\ Mapped(1, AP) # Mapped(1, addrServer) /\ Mapped(1, AA) # Mapped(1, addrServer)
    <3>1. \A d \in Addr : Mapped(1, d).ip = d.ip
      BY <2>1
    <3>2. "A" # "P"
      OBVIOUS
    <3>3. QED BY <1>0, <1>A, <3>1, <3>2, Zenon
  <2>6. Mapped(1, AA) # Mapped(1, AP)
    <3>1. \A d \in Addr : Mapped(1, d).port = d.port
      BY <2>1
    <3>2. "A" # "P"
      OBVIOUS
    <3>3. QED BY <1>0, <1>A, <3>1, <3>2, Zenon
  <2>7. QED BY <1>M, <1>4, <2>3, <2>4, <2>5, <2>6
<1>5. QED BY <1>0, <1>1, <1>2, <1>3, <1>4, MappedForms

(* The filter lets a reply from elsewhere in: what that says of the NAT. *)
LEMMA AdmitsFacts ==
  ASSUME nat \in [mapping : Mapping, filtering : NatFilter], sock = 1,
         contacted \subseteq {addrServer, AP, AA},
         AA \in contacted =>
           nat.mapping \in {"AddressDependentMapping", "AddressAndPortDependentMapping"}
  PROVE  /\ Admits(PA, Mapped(1, addrServer)) =>
              nat.filtering # "AddressAndPortDependentFiltering"
         /\ Admits(AA, Mapped(1, addrServer)) =>
              \/ nat.filtering = "EndpointIndependentFiltering"
              \/ /\ nat.filtering = "AddressDependentFiltering"
                 /\ nat.mapping \in {"DirectMapping", "EndpointIndependentMapping"}
<1>1. /\ PA.ip = "P" /\ PA.port = "A" /\ AA.ip = "A" /\ AA.port = "A"
      /\ AP.ip = "A" /\ AP.port = "P" /\ addrServer.ip = "P" /\ addrServer.port = "P"
  BY DEF PA, AA, AP, addrServer
<1>2. nat.filtering \in {"EndpointIndependentFiltering", "AddressDependentFiltering",
                         "AddressAndPortDependentFiltering"}
  BY DEF NatFilter, Filtering
<1>3. /\ Mapped(1, AP) = Mapped(1, addrServer) <=>
           nat.mapping \in {"DirectMapping", "EndpointIndependentMapping"}
      /\ Mapped(1, AA) = Mapped(1, addrServer) <=>
           nat.mapping \in {"DirectMapping", "EndpointIndependentMapping"}
  BY MappedFacts
<1>4. ASSUME NEW src, Admits(src, Mapped(1, addrServer)),
             nat.filtering # "EndpointIndependentFiltering"
      PROVE  \E d \in {addrServer, AP} :
               /\ Mapped(1, d) = Mapped(1, addrServer) /\ d.ip = src.ip
               /\ nat.filtering = "AddressAndPortDependentFiltering" => d.port = src.port
  <2>1. PICK d \in contacted :
               /\ Mapped(1, d) = Mapped(1, addrServer) /\ d.ip = src.ip
               /\ nat.filtering = "AddressAndPortDependentFiltering" => d.port = src.port
    BY <1>4 DEF Admits
  <2>2. d # AA
    BY <1>3, <2>1
  <2>3. QED BY <2>1, <2>2
<1>5. QED BY <1>1, <1>2, <1>3, <1>4

(* The configuration, the NAT and what is computed from them never change. *)
LEMMA Frame ==
  ASSUME config' = config, nat' = nat, proto' = proto
  PROVE  /\ testlist' = testlist /\ MaxAttempts' = MaxAttempts /\ Timeout' = Timeout
         /\ \A l, d : Mapped(l, d)' = Mapped(l, d)
         /\ \A q : GoodRequest(q)' = GoodRequest(q)
         /\ \A m, l : GoodReply(m, l)' = GoodReply(m, l)
BY DEF testlist, MaxAttempts, Timeout, Mapped, GoodRequest, GoodReply

-----------------------------------------------------------------------------
(* Steps that only move the clock or the driver's place in its loop. *)
LEMMA QuietInv ==
  ASSUME ClientInv,
         UNCHANGED <<envVars, sock, contacted, requests, replies>>,
         UNCHANGED <<config, nTestIndex, sendCount, preChecked, completed, results, addrDest, sends>>,
         elapsed' \in 0 .. Timeout, exited' \in BOOLEAN,
         call' \in {"loop", "S_OK", "STILL_WAITING", "RESULTS_READY"},
         call' \in {"S_OK", "STILL_WAITING"} =>
           /\ nTestIndex <= Len(testlist) /\ preChecked /\ sendCount > 0
           /\ IsReadyToRun(testlist[nTestIndex]),
         call' = "RESULTS_READY" => nTestIndex > Len(testlist)
  PROVE  ClientInv'
<1> USE DEF ClientInv
<1>0. /\ testlist' = testlist /\ MaxAttempts' = MaxAttempts /\ Timeout' = Timeout
      /\ \A l, d : Mapped(l, d)' = Mapped(l, d)
      /\ \A q : GoodRequest(q)' = GoodRequest(q)
      /\ \A m, l : GoodReply(m, l)' = GoodReply(m, l)
  BY Frame DEF envVars
<1>1. TypeOK'
  BY <1>0 DEF TypeOK, LogicTypeOK, envVars
<1>2. SetupInv'
  BY DEF SetupInv, CommandLineConfig, envVars
<1>3. ProgressInv'
  BY <1>0 DEF ProgressInv, IsReadyToRun
<1>4. ResultsInv'
  BY <1>0 DEF ResultsInv
<1>5. DestInv'
  BY <1>0 DEF DestInv
<1>6. NetInv'
  BY <1>0 DEF NetInv, envVars
<1>7. MappingInv' /\ MappingSound' /\ FilteringSound'
  BY <1>0 DEF MappingInv, MappingSound, FilteringSound, envVars
<1>8. QED BY <1>1, <1>2, <1>3, <1>4, <1>5, <1>6, <1>7

(* What the invariant says of the current test. *)
LEMMA CurrentTest ==
  ASSUME ClientInv, nTestIndex <= Len(testlist)
  PROVE  /\ testlist[nTestIndex] \in Test /\ Ord(testlist[nTestIndex]) = nTestIndex
         /\ nTestIndex \in 1 .. 5 /\ Len(testlist) \in {1, 3, 5} /\ MaxAttempts \in {1, 2}
         /\ proto # "udp" => nTestIndex <= 3
         /\ sends[testlist[nTestIndex]] = sendCount
         /\ ~preChecked => ~completed[testlist[nTestIndex]]
<1> USE DEF ClientInv
<1>1. SetupInv /\ proto \in {"udp", "tcp"} /\ nTestIndex \in 1 .. Len(testlist) + 1
  BY DEF TypeOK, LogicTypeOK
<1>2. /\ Len(testlist) \in {1, 3, 5} /\ MaxAttempts \in {1, 2}
      /\ proto # "udp" => Len(testlist) # 5
      /\ \A i \in 1 .. Len(testlist) : testlist[i] \in Test /\ Ord(testlist[i]) = i
  BY <1>1, ListFacts
<1>3. nTestIndex \in 1 .. Len(testlist)
  BY <1>1, <1>2
<1>4. testlist[nTestIndex] \in Test /\ Ord(testlist[nTestIndex]) = nTestIndex
  BY <1>2, <1>3
<1>5. /\ sends[testlist[nTestIndex]] = sendCount
      /\ ~preChecked => ~completed[testlist[nTestIndex]]
  BY <1>4 DEF ProgressInv
<1>6. QED BY <1>1, <1>2, <1>3, <1>4, <1>5

(* NextTest preserves the invariant. *)
LEMMA NextTestInv ==
  ASSUME ClientInv, NEW t \in Test, NextTest(t), UNCHANGED <<envVars, netVars>>
  PROVE  ClientInv'
<1> USE DEF ClientInv
<1>0. /\ testlist' = testlist /\ MaxAttempts' = MaxAttempts /\ Timeout' = Timeout
      /\ \A l, d : Mapped(l, d)' = Mapped(l, d)
      /\ \A q : GoodRequest(q)' = GoodRequest(q)
      /\ \A m, l : GoodReply(m, l)' = GoodReply(m, l)
  BY Frame DEF envVars, NextTest
<1>1. /\ nTestIndex <= Len(testlist) /\ t = testlist[nTestIndex] /\ call = "loop" /\ preChecked
      /\ completed[t] \/ ~IsReadyToRun(t)
      /\ nTestIndex' = nTestIndex + 1 /\ sendCount' = 0 /\ preChecked' = FALSE
      /\ UNCHANGED <<config, elapsed, completed, results, call, addrDest, sends>>
  BY DEF NextTest, InTest
<1>2. /\ Ord(t) = nTestIndex /\ nTestIndex \in 1 .. 5
      /\ Len(testlist) \in {1, 3, 5} /\ MaxAttempts \in {1, 2}
  BY <1>1, CurrentTest
<1>3. TypeOK'
  <2>1. nTestIndex' \in 1 .. Len(testlist') + 1 /\ sendCount' \in 0 .. MaxAttempts'
    BY <1>0, <1>1, <1>2
  <2>2. QED BY <1>0, <1>1, <2>1 DEF TypeOK, LogicTypeOK, envVars, netVars
<1>4. SetupInv'
  BY <1>1 DEF SetupInv, CommandLineConfig, envVars, netVars
<1>5. ProgressInv'
  <2>1. completed["binding"]
    <3>1. CASE nTestIndex > 1
      BY <3>1 DEF ProgressInv
    <3>2. CASE nTestIndex = 1
      <4>1. t = "binding"
        BY <1>2, <3>2 DEF Ord, Test
      <4>2. QED BY <1>1, <4>1 DEF IsReadyToRun
    <3>3. QED BY <1>2, <3>1, <3>2
  <2>2. \A u \in Test : Ord(u) \in 1 .. 5
    BY OrdFacts
  <2>3. ASSUME NEW u \in Test
        PROVE  /\ Ord(u) > nTestIndex' => ~completed[u] /\ sends[u] = 0
               /\ Ord(u) = nTestIndex' => sends[u] = 0 /\ ~completed[u]
               /\ sends[u] <= MaxAttempts
               /\ completed[u] => sends[u] > 0 \/ (u \in {"behavior2", "filtering2"} /\ results.fIsDirect)
    BY <1>1, <1>2, <2>2 DEF ProgressInv
  <2>4. QED BY <1>0, <1>1, <2>1, <2>3 DEF ProgressInv
<1>6. ~completed["filtering2"] /\ nTestIndex = 4 => ~IsReadyToRun("filtering2")
  BY <1>1, <1>2, OrdFacts DEF Test
<1>7. ResultsInv'
  BY <1>0, <1>1, <1>2, <1>6 DEF ResultsInv, IsReadyToRun
<1>8. DestInv'
  <2>1. ASSUME addrDest \notin {addrZero, addrServer}
        PROVE  nTestIndex # 4
    <3>1. SUFFICES ASSUME nTestIndex = 4 PROVE FALSE
      OBVIOUS
    <3>2. /\ sends["filtering2"] = 0 /\ results.fBindingTestSuccess
          /\ results.fHasOtherAddress /\ ~results.fIsDirect
      BY <2>1 DEF DestInv
    <3>3. ~completed["filtering3"]
      BY <3>1, OrdFacts DEF ProgressInv, Test
    <3>4. ~completed["filtering2"]
      BY <3>2 DEF ProgressInv, Test
    <3>5. ~results.fFilteringTestSuccess /\ ~results.fGotTest2Response
      BY <3>3, <3>4 DEF ResultsInv
    <3>6. QED BY <1>6, <3>1, <3>2, <3>4, <3>5 DEF IsReadyToRun
  <2>2. QED BY <1>0, <1>1, <1>2, <2>1 DEF DestInv
<1>9. NetInv'
  BY <1>0 DEF NetInv, envVars, netVars
<1>10. MappingInv' /\ MappingSound' /\ FilteringSound'
  BY <1>0, <1>1 DEF MappingInv, MappingSound, FilteringSound, envVars
<1>11. QED BY <1>3, <1>4, <1>5, <1>7, <1>8, <1>9, <1>10

-----------------------------------------------------------------------------
(* A test that is ready to run knows the address it sends to. *)
LEMMA ReadyDestination ==
  ASSUME ClientInv, NEW t \in Test, IsReadyToRun(t)
  PROVE  Destination(t) = Dst(t) /\ Dst(t) \in {addrServer, AP, AA} /\ Dst(t) \in Addr
<1>1. addrServer \in Addr /\ AP \in Addr /\ AA \in Addr
  BY DEF addrServer, AP, AA, Addr
<1>2. t # "binding" => results.addrAP = AP /\ results.addrAA = AA
  BY DEF ClientInv, ResultsInv, IsReadyToRun
<1>3. QED BY <1>1, <1>2 DEF Destination, Dst, Test

(* The four addresses of the server differ, and none is zero. *)
LEMMA AddressesDiffer ==
  /\ addrServer # addrZero /\ AP # addrZero /\ AA # addrZero
  /\ AP # addrServer /\ AA # addrServer /\ AA # AP /\ PA # addrServer /\ PA # AP /\ PA # AA
<1>1. /\ addrServer.ip = "P" /\ addrServer.port = "P" /\ AP.ip = "A" /\ AP.port = "P"
      /\ AA.ip = "A" /\ AA.port = "A" /\ PA.ip = "P" /\ PA.port = "A" /\ addrZero.ip = "0"
  BY DEF addrServer, AP, AA, PA, addrZero
<1>2. QED BY <1>1

(* GetMessage sends a request: what changes in the client logic. *)
LEMMA GetMessageInv ==
  ASSUME ClientInv, NEW t \in Test, GetMessage(t), UNCHANGED envVars
  PROVE  /\ LogicTypeOK' /\ ProgressInv' /\ ResultsInv' /\ DestInv'
         /\ addrDest' = Dst(t) /\ IsReadyToRun(t) /\ nTestIndex <= Len(testlist)
<1> USE DEF ClientInv
<1>0. testlist' = testlist /\ MaxAttempts' = MaxAttempts /\ Timeout' = Timeout
  BY Frame DEF envVars, GetMessage
<1>1. /\ nTestIndex <= Len(testlist) /\ t = testlist[nTestIndex] /\ call = "loop" /\ preChecked
      /\ ~completed[t] /\ IsReadyToRun(t) /\ ~(sendCount >= MaxAttempts)
      /\ addrDest' = Destination(t) /\ sendCount' = sendCount + 1 /\ elapsed' = 0 /\ call' = "S_OK"
      /\ sends' = [sends EXCEPT ![t] = sends[t] + 1]
      /\ UNCHANGED <<config, nTestIndex, preChecked, completed, results>>
  BY DEF GetMessage, Running, InTest, NoAttemptsLeft
<1>2. /\ Ord(t) = nTestIndex /\ nTestIndex \in 1 .. 5 /\ sends[t] = sendCount
      /\ Len(testlist) \in {1, 3, 5} /\ MaxAttempts \in {1, 2}
  BY <1>1, CurrentTest
<1>3. /\ sends \in [Test -> Nat] /\ sendCount \in 0 .. MaxAttempts /\ results \in Results
      /\ Timeout \in Nat /\ completed \in [Test -> BOOLEAN]
  <2>1. SetupInv /\ proto \in {"udp", "tcp"}
    BY DEF TypeOK
  <2>2. Timeout \in Nat
    BY <2>1, ListFacts, TimeoutAssumption
  <2>3. QED BY <2>2 DEF TypeOK, LogicTypeOK
<1>4. /\ sends' \in [Test -> Nat] /\ sends'[t] = sendCount' /\ sendCount' \in 1 .. MaxAttempts
      /\ \A u \in Test : u # t => sends'[u] = sends[u]
  BY <1>1, <1>2, <1>3
<1>5. Destination(t) = Dst(t) /\ Dst(t) \in {addrServer, AP, AA} /\ Dst(t) \in Addr
  BY <1>1, ReadyDestination
<1>6. LogicTypeOK'
  BY <1>0, <1>1, <1>2, <1>3, <1>4, <1>5 DEF TypeOK, LogicTypeOK
<1>7. ProgressInv'
  <2>1. IsReadyToRun(testlist[nTestIndex])'
    BY <1>0, <1>1 DEF IsReadyToRun
  <2>2. ASSUME NEW u \in Test
        PROVE  /\ Ord(u) > nTestIndex => ~completed[u] /\ sends'[u] = 0
               /\ Ord(u) = nTestIndex => sends'[u] = sendCount' /\ (~preChecked => ~completed[u])
               /\ sends'[u] <= MaxAttempts
               /\ completed[u] => sends'[u] > 0 \/ (u \in {"behavior2", "filtering2"} /\ results.fIsDirect)
    <3>1. CASE u = t
      BY <1>1, <1>2, <1>3, <1>4, <3>1
    <3>2. CASE u # t
      <4>1. Ord(u) # nTestIndex
        BY <1>2, <3>2, OrdFacts
      <4>2. QED BY <1>4, <3>2, <4>1 DEF ProgressInv
    <3>3. QED BY <3>1, <3>2
  <2>3. nTestIndex > 1 => completed["binding"]
    BY DEF ProgressInv
  <2>4. QED BY <1>0, <1>1, <1>2, <1>4, <2>1, <2>2, <2>3 DEF ProgressInv
<1>8. ResultsInv'
  <2>1. completed["binding"] => sends'["binding"] = sends["binding"]
    BY <1>1, <1>4 DEF Test
  <2>2. completed["filtering2"] => sends'["filtering2"] = sends["filtering2"]
    BY <1>1, <1>4 DEF Test
  <2>3. results.filtering = "AddressAndPortDependentFiltering" =>
          sends'["filtering2"] = sends["filtering2"] /\ sends'["filtering3"] = sends["filtering3"]
    BY <1>1, <1>4 DEF Test, ResultsInv, IsReadyToRun
  <2>4. QED BY <1>0, <1>1, <2>1, <2>2, <2>3 DEF ResultsInv
<1>9. DestInv'
  <2>1. addrDest' # addrZero
    BY <1>1, <1>5, AddressesDiffer
  <2>2. ASSUME addrDest' # addrServer
        PROVE  /\ Len(testlist) > 1 /\ nTestIndex <= 4 /\ sends'["filtering2"] = 0
               /\ results.fBindingTestSuccess /\ results.fHasOtherAddress /\ ~results.fIsDirect
    <3>1. t \in {"behavior2", "behavior3"}
      BY <1>1, <1>5, <2>2 DEF Dst
    <3>2. nTestIndex \in {2, 3}
      BY <1>2, <3>1, OrdFacts
    <3>3. sends'["filtering2"] = 0
      BY <1>4, <3>1, <3>2, OrdFacts DEF ProgressInv, Test
    <3>4. /\ results.fBindingTestSuccess /\ results.fHasOtherAddress
          /\ ~results.fBehaviorTestSuccess
      BY <1>1, <3>1 DEF IsReadyToRun
    <3>5. t = "behavior3" => completed["behavior2"]
      BY <1>1 DEF IsReadyToRun, ResultsInv
    <3>6. t = "behavior2" => nTestIndex = 2 /\ ~completed["behavior2"]
      BY <1>1, <1>2, OrdFacts
    <3>7. ~results.fIsDirect
      BY <1>1, <3>1, <3>4, <3>5, <3>6 DEF ResultsInv
    <3>8. QED BY <1>1, <1>2, <3>2, <3>3, <3>4, <3>7
  <2>3. QED BY <1>0, <1>1, <2>1, <2>2 DEF DestInv
<1>10. QED BY <1>1, <1>5, <1>6, <1>7, <1>8, <1>9

(* UdpClientLoop's requests go to addresses the NAT is known to tell apart. *)
LEMMA UdpSendInv ==
  ASSUME ClientInv, NEW t \in Test, UdpSend(t)
  PROVE  ClientInv'
<1> USE DEF ClientInv
<1>1. /\ LogicTypeOK' /\ ProgressInv' /\ ResultsInv' /\ DestInv'
      /\ addrDest' = Dst(t) /\ IsReadyToRun(t) /\ nTestIndex <= Len(testlist)
  BY GetMessageInv DEF UdpSend
<1>2. Destination(t) = Dst(t) /\ Dst(t) \in {addrServer, AP, AA} /\ Dst(t) \in Addr
  BY <1>1, ReadyDestination
<1>3. /\ proto = "udp" /\ config' = config /\ results' = results
      /\ requests' = requests \cup {Request(t, sock)} /\ contacted' = contacted \cup {Destination(t)}
      /\ UNCHANGED <<proto, fixedPort, nat, hasOther, sock, replies, exited>>
  BY DEF UdpSend, GetMessage, envVars
<1>4. /\ \A l, d : Mapped(l, d)' = Mapped(l, d)
      /\ \A q : GoodRequest(q)' = GoodRequest(q)
      /\ \A m, l : GoodReply(m, l)' = GoodReply(m, l)
  BY <1>3, Frame
<1>5. sock = 1
  BY <1>3 DEF SetupInv
<1>6. nat \in [mapping : Mapping, filtering : NatFilter]
  BY DEF TypeOK
<1>7. Request(t, sock) = [id |-> t, dst |-> Dst(t), ext |-> Mapped(1, Dst(t)),
                          changeIP |-> ChangeIP(t), changePort |-> ChangePort(t)]
  BY <1>2, <1>5 DEF Request
<1>8. GoodRequest(Request(t, sock))
  BY <1>7 DEF GoodRequest
<1>9. TypeOK'
  <2>1. Mapped(1, Dst(t)) \in Endpoint
    BY <1>2, <1>6, MappedFacts
  <2>2. \A q \in requests' : q.id \in Test /\ q.dst \in Addr /\ q.ext \in Endpoint
    BY <1>2, <1>3, <1>7, <2>1 DEF TypeOK
  <2>3. contacted' \subseteq Addr
    BY <1>2, <1>3 DEF TypeOK
  <2>4. QED BY <1>1, <1>3, <2>2, <2>3 DEF TypeOK
<1>10. SetupInv'
  BY <1>3 DEF SetupInv, CommandLineConfig
<1>11. NetInv'
  <2>1. t = "behavior3" =>
          nat.mapping \in {"AddressDependentMapping", "AddressAndPortDependentMapping"}
    BY <1>1, <1>3 DEF MappingInv, IsReadyToRun
  <2>2. Dst(t) = AA => t = "behavior3"
    BY AddressesDiffer DEF Dst
  <2>3. QED BY <1>2, <1>3, <1>4, <1>8, <2>1, <2>2 DEF NetInv
<1>12. MappingInv' /\ MappingSound' /\ FilteringSound'
  BY <1>3, <1>4 DEF MappingInv, MappingSound, FilteringSound
<1>13. QED BY <1>1, <1>9, <1>10, <1>11, <1>12

(* TcpSend preserves the invariant. *)
LEMMA TcpSendInv ==
  ASSUME ClientInv, NEW t \in Test, TcpSend(t)
  PROVE  ClientInv'
<1> USE DEF ClientInv
<1>1. LogicTypeOK' /\ ProgressInv' /\ ResultsInv' /\ DestInv'
  BY GetMessageInv DEF TcpSend
<1>2. /\ proto = "tcp" /\ config' = config /\ results' = results
      /\ sock' = IF fixedPort THEN sock ELSE sock + 1
      /\ UNCHANGED <<proto, fixedPort, nat, hasOther, contacted, requests, replies, exited>>
  BY DEF TcpSend, GetMessage, envVars
<1>3. /\ \A l, d : Mapped(l, d)' = Mapped(l, d)
      /\ \A q : GoodRequest(q)' = GoodRequest(q)
      /\ \A m, l : GoodReply(m, l)' = GoodReply(m, l)
  BY <1>2, Frame
<1>4. TypeOK'
  BY <1>1, <1>2 DEF TypeOK
<1>5. SetupInv'
  BY <1>2 DEF SetupInv, CommandLineConfig
<1>6. NetInv'
  BY <1>2, <1>3 DEF NetInv
<1>7. MappingInv' /\ MappingSound' /\ FilteringSound'
  BY <1>2, <1>3 DEF MappingInv, MappingSound, FilteringSound
<1>8. QED BY <1>1, <1>4, <1>5, <1>6, <1>7

(* The server's reply to a good request is a good reply. *)
LEMMA GoodReplies ==
  ASSUME NEW q, NEW l, q.id \in Test, q.dst = Dst(q.id), q.ext = Mapped(l, Dst(q.id)),
         q.changeIP = ChangeIP(q.id), q.changePort = ChangePort(q.id), hasOther \in BOOLEAN
  PROVE  GoodReply(ProcessBindingRequest(q), l)
<1>1. /\ ProcessBindingRequest(q).id = q.id /\ ProcessBindingRequest(q).mapped = q.ext
      /\ ProcessBindingRequest(q).hasOther = hasOther
      /\ ProcessBindingRequest(q).other = [ip |-> Swap(q.dst.ip), port |-> Swap(q.dst.port)]
      /\ ProcessBindingRequest(q).src =
           [ip |-> IF q.changeIP THEN Swap(q.dst.ip) ELSE q.dst.ip,
            port |-> IF q.changePort THEN Swap(q.dst.port) ELSE q.dst.port]
  BY DEF ProcessBindingRequest
<1>2. /\ addrServer.ip = "P" /\ addrServer.port = "P" /\ AP.ip = "A" /\ AP.port = "P"
      /\ AA.ip = "A" /\ AA.port = "A"
  BY DEF addrServer, AP, AA
<1>3. Swap("P") = "A" /\ Swap("A") = "P"
  BY DEF Swap
<1>4. ProcessBindingRequest(q).src = Src(q.id)
  <2>1. CASE q.id = "filtering2"
    <3>1. q.changeIP /\ q.changePort /\ q.dst = addrServer
      BY <2>1 DEF ChangeIP, ChangePort, Dst
    <3>2. ProcessBindingRequest(q).src = [ip |-> "A", port |-> "A"]
      BY <1>1, <1>2, <1>3, <3>1
    <3>3. QED BY <2>1, <3>2 DEF Src, AA
  <2>2. CASE q.id = "filtering3"
    BY <1>1, <1>2, <1>3, <2>2 DEF ChangeIP, ChangePort, Dst, Src, PA
  <2>3. CASE q.id = "behavior2"
    BY <1>1, <1>2, <1>3, <2>3 DEF ChangeIP, ChangePort, Dst, Src, AP
  <2>4. CASE q.id = "behavior3"
    BY <1>1, <1>2, <1>3, <2>4 DEF ChangeIP, ChangePort, Dst, Src, AA
  <2>5. CASE q.id = "binding"
    BY <1>1, <1>2, <1>3, <2>5 DEF ChangeIP, ChangePort, Dst, Src, addrServer
  <2>6. QED BY <2>1, <2>2, <2>3, <2>4, <2>5 DEF Test
<1>5. q.id = "binding" => ProcessBindingRequest(q).other = AA
  <2>1. q.id = "binding" => q.dst.ip = "P" /\ q.dst.port = "P"
    BY <1>2 DEF Dst
  <2>2. QED BY <1>1, <1>3, <2>1 DEF AA
<1>6. QED BY <1>1, <1>4, <1>5 DEF GoodReply

(* ServerResponds preserves the invariant. *)
LEMMA ServerRespondsInv ==
  ASSUME ClientInv, NEW q \in requests, ServerResponds(q)
  PROVE  ClientInv'
<1> USE DEF ClientInv
<1>1. /\ replies' = replies \cup {ProcessBindingRequest(q)}
      /\ UNCHANGED <<logicVars, proto, fixedPort, nat, hasOther, sock, contacted, requests, exited>>
  BY DEF ServerResponds, envVars
<1>2. /\ testlist' = testlist /\ MaxAttempts' = MaxAttempts /\ Timeout' = Timeout
      /\ \A l, d : Mapped(l, d)' = Mapped(l, d)
      /\ \A r : GoodRequest(r)' = GoodRequest(r)
      /\ \A m, l : GoodReply(m, l)' = GoodReply(m, l)
  BY <1>1, Frame DEF logicVars
<1>3. GoodReply(ProcessBindingRequest(q), 1)
  BY GoodReplies DEF NetInv, GoodRequest, TypeOK
<1>4. TypeOK'
  <2>1. ProcessBindingRequest(q).mapped = q.ext
    BY DEF ProcessBindingRequest
  <2>2. addrServer \in Addr /\ AP \in Addr /\ AA \in Addr /\ PA \in Addr
    BY DEF addrServer, AP, AA, PA, Addr
  <2>3. \A m \in replies' : m.id \in Test /\ m.src \in Addr /\ m.mapped \in Endpoint
    BY <1>1, <1>3, <2>1, <2>2 DEF TypeOK, GoodReply, Src
  <2>4. QED BY <1>1, <1>2, <2>3 DEF TypeOK, LogicTypeOK, logicVars
<1>5. SetupInv'
  BY <1>1 DEF SetupInv, CommandLineConfig, logicVars
<1>6. ProgressInv' /\ ResultsInv' /\ DestInv'
  BY <1>1, <1>2 DEF ProgressInv, ResultsInv, DestInv, IsReadyToRun, logicVars
<1>7. NetInv'
  BY <1>1, <1>2, <1>3 DEF NetInv
<1>8. MappingInv' /\ MappingSound' /\ FilteringSound'
  BY <1>1, <1>2 DEF MappingInv, MappingSound, FilteringSound, logicVars
<1>9. QED BY <1>4, <1>5, <1>6, <1>7, <1>8

-----------------------------------------------------------------------------
(***************************************************************************)
(* Steps that complete the current test: a reply, the last timeout or the  *)
(* pre-run check.  Each writes only its own part of the results.           *)
(***************************************************************************)
KeepsBinding ==
  /\ results'.fBindingTestSuccess <=> results.fBindingTestSuccess
  /\ results'.fIsDirect <=> results.fIsDirect
  /\ results'.addrMapped = results.addrMapped
  /\ results'.fHasOtherAddress <=> results.fHasOtherAddress
  /\ results'.addrAP = results.addrAP /\ results'.addrAA = results.addrAA

KeepsBehavior ==
  /\ results'.fBehaviorTestSuccess <=> results.fBehaviorTestSuccess
  /\ results'.behavior = results.behavior /\ results'.addrMappingAP = results.addrMappingAP

KeepsFiltering ==
  /\ results'.fFilteringTestSuccess <=> results.fFilteringTestSuccess
  /\ results'.filtering = results.filtering
  /\ results'.fGotTest2Response <=> results.fGotTest2Response

(* What every way of completing test t leaves in the results. *)
Concludes(t) ==
  /\ results' \in Results
  /\ sends[t] > 0 \/ (t \in {"behavior2", "filtering2"} /\ results.fIsDirect)
  /\ t # "binding" => KeepsBinding
  /\ t \notin {"behavior2", "behavior3"} => KeepsBehavior
  /\ t \notin {"filtering2", "filtering3"} => KeepsFiltering
  /\ t = "binding" =>
       /\ results'.fBindingTestSuccess \/ sends["binding"] = MaxAttempts
       /\ results'.fHasOtherAddress => results'.addrAP = AP /\ results'.addrAA = AA
  /\ t \in {"behavior2", "behavior3"} =>
       /\ results'.behavior # "UnknownBehavior" => results'.fBehaviorTestSuccess
       /\ results'.fBehaviorTestSuccess
            \/ ~(results.fBindingTestSuccess /\ results.fIsDirect)
  /\ t = "behavior3" => results'.addrMappingAP = results.addrMappingAP
  /\ t \in {"filtering2", "filtering3"} =>
       (results'.filtering # "UnknownFiltering" => results'.fFilteringTestSuccess)
  /\ t = "filtering2" =>
       /\ results'.fFilteringTestSuccess \/ sends["filtering2"] = MaxAttempts
       /\ results'.filtering # "AddressAndPortDependentFiltering"
  /\ t = "filtering3" =>
       /\ results'.fFilteringTestSuccess
       /\ results'.filtering = "AddressAndPortDependentFiltering" =>
            sends["filtering2"] = MaxAttempts /\ sends["filtering3"] = MaxAttempts

(* What ClassifiedOnce asks of a step. *)
StaysClassified ==
  /\ results.behavior # "UnknownBehavior" =>
       results'.behavior = results.behavior /\ results'.fBehaviorTestSuccess
  /\ results.filtering # "UnknownFiltering" =>
       results'.filtering = results.filtering /\ results'.fFilteringTestSuccess

(* What the completion of a test, however it ended, preserves. *)
LEMMA CompletionInv ==
  ASSUME ClientInv, NEW t \in Test, nTestIndex <= Len(testlist), t = testlist[nTestIndex],
         ~completed[t], completed' = [completed EXCEPT ![t] = TRUE], Concludes(t),
         IsReadyToRun(t) \/ t \in {"behavior2", "filtering2"},
         preChecked' = TRUE, call' = "loop",
         UNCHANGED <<config, nTestIndex, sendCount, elapsed, addrDest, sends>>,
         UNCHANGED <<envVars, netVars>>
  PROVE  TypeOK' /\ SetupInv' /\ ProgressInv' /\ ResultsInv' /\ DestInv' /\ NetInv' /\ StaysClassified
<1> USE DEF ClientInv
<1>0. /\ testlist' = testlist /\ MaxAttempts' = MaxAttempts /\ Timeout' = Timeout
      /\ \A q : GoodRequest(q)' = GoodRequest(q)
      /\ \A m, l : GoodReply(m, l)' = GoodReply(m, l)
  BY Frame DEF envVars
<1>1. /\ Ord(t) = nTestIndex /\ nTestIndex \in 1 .. 5 /\ sends[t] = sendCount
  BY CurrentTest
<1>2. /\ completed' \in [Test -> BOOLEAN] /\ completed'[t]
      /\ \A u \in Test : u # t => completed'[u] = completed[u]
  BY DEF TypeOK, LogicTypeOK
<1>3. TypeOK'
  BY <1>0, <1>2 DEF TypeOK, LogicTypeOK, Concludes, envVars, netVars
<1>4. SetupInv'
  BY DEF SetupInv, CommandLineConfig, envVars, netVars
<1>5. t = "binding" => nTestIndex = 1
  BY <1>1, OrdFacts
<1>6. ProgressInv'
  <2>1. nTestIndex > 1 => completed'["binding"]
    BY <1>2 DEF ProgressInv, Test
  <2>2. ASSUME NEW u \in Test
        PROVE  /\ Ord(u) > nTestIndex => ~completed'[u] /\ sends[u] = 0
               /\ Ord(u) = nTestIndex => sends[u] = sendCount
               /\ sends[u] <= MaxAttempts
               /\ completed'[u] => sends[u] > 0 \/ (u \in {"behavior2", "filtering2"} /\ results'.fIsDirect)
    <3>1. CASE u = t
      <4>1. t \in {"behavior2", "filtering2"} => (results'.fIsDirect <=> results.fIsDirect)
        BY DEF Concludes, KeepsBinding
      <4>2. QED BY <1>1, <3>1, <4>1 DEF ProgressInv, Concludes
    <3>2. CASE u # t
      <4>1. Ord(u) # nTestIndex /\ completed'[u] = completed[u] /\ Ord(u) \in 1 .. 5
        BY <1>1, <1>2, <3>2, OrdFacts
      <4>2. t = "binding" => ~completed[u]
        BY <1>1, <1>5, <4>1 DEF ProgressInv
      <4>3. t # "binding" => (results'.fIsDirect <=> results.fIsDirect)
        BY DEF Concludes, KeepsBinding
      <4>4. QED BY <4>1, <4>2, <4>3 DEF ProgressInv
    <3>3. QED BY <3>1, <3>2
  <2>3. QED BY <1>0, <2>1, <2>2 DEF ProgressInv
<1>7. DestInv'
  <2>1. CASE t = "binding"
    <3>1. ~results.fBindingTestSuccess
      BY <2>1 DEF ResultsInv
    <3>2. QED BY <1>0, <3>1 DEF DestInv
  <2>2. CASE t # "binding"
    BY <1>0, <2>2 DEF DestInv, Concludes, KeepsBinding
  <2>3. QED BY <2>1, <2>2
<1>8. NetInv'
  BY <1>0 DEF NetInv, envVars, netVars
<1>9. ResultsInv'
  <2>0. /\ completed'["binding"] <=> (completed["binding"] \/ t = "binding")
        /\ completed'["behavior2"] <=> (completed["behavior2"] \/ t = "behavior2")
        /\ completed'["behavior3"] <=> (completed["behavior3"] \/ t = "behavior3")
        /\ completed'["filtering2"] <=> (completed["filtering2"] \/ t = "filtering2")
        /\ completed'["filtering3"] <=> (completed["filtering3"] \/ t = "filtering3")
    BY <1>2 DEF Test, TypeOK, LogicTypeOK
  <2>1. CASE t = "binding"
    <3>1. nTestIndex = 1
      BY <1>5, <2>1
    <3>2. ~completed["behavior2"] /\ ~completed["filtering2"]
      BY <3>1, OrdFacts DEF ProgressInv, Test
    <3>3. QED BY <1>0, <2>0, <2>1, <3>1, <3>2 DEF ResultsInv, Concludes, KeepsBehavior, KeepsFiltering
  <2>2. CASE t = "behavior2"
    <3>1. nTestIndex = 2
      BY <1>1, <2>2, OrdFacts
    <3>2. QED BY <1>0, <2>0, <2>2, <3>1 DEF ResultsInv, Concludes, KeepsBinding, KeepsFiltering
  <2>6. CASE t = "behavior3"
    <3>1. nTestIndex = 3
      BY <1>1, <2>6, OrdFacts
    <3>2. QED BY <1>0, <2>0, <2>6, <3>1 DEF ResultsInv, Concludes, KeepsBinding, KeepsFiltering
  <2>3. CASE t = "filtering2"
    <3>1. nTestIndex = 4
      BY <1>1, <2>3, OrdFacts
    <3>2. QED BY <1>0, <2>0, <2>3, <3>1 DEF ResultsInv, Concludes, KeepsBinding, KeepsBehavior
  <2>4. CASE t = "filtering3"
    <3>1. nTestIndex = 5
      BY <1>1, <2>4, OrdFacts
    <3>2. QED BY <1>0, <2>0, <2>4, <3>1 DEF ResultsInv, Concludes, KeepsBinding, KeepsBehavior
  <2>5. QED BY <2>1, <2>2, <2>3, <2>4, <2>6 DEF Test
<1>10. StaysClassified
  <2>1. /\ results.behavior # "UnknownBehavior" => results.fBehaviorTestSuccess
        /\ results.filtering # "UnknownFiltering" => results.fFilteringTestSuccess
    BY DEF ResultsInv
  <2>2. t \in {"behavior2", "behavior3"} => results.behavior = "UnknownBehavior"
    <3>1. t = "behavior2" => ~completed["behavior2"] /\ ~completed["behavior3"]
      BY <1>1, OrdFacts DEF ProgressInv, Test
    <3>2. QED BY <2>1, <3>1 DEF ResultsInv, IsReadyToRun
  <2>3. t \in {"filtering2", "filtering3"} => results.filtering = "UnknownFiltering"
    <3>1. t = "filtering2" => ~completed["filtering2"] /\ ~completed["filtering3"]
      BY <1>1, OrdFacts DEF ProgressInv, Test
    <3>2. QED BY <2>1, <3>1 DEF ResultsInv, IsReadyToRun
  <2>4. QED BY <2>1, <2>2, <2>3 DEF StaysClassified, Concludes, KeepsBehavior, KeepsFiltering
<1>11. QED BY <1>3, <1>4, <1>6, <1>7, <1>8, <1>9, <1>10

(* A step that leaves the results alone. *)
LEMMA SameResults ==
  ASSUME ClientInv, results' = results
  PROVE  StaysClassified
BY DEF ClientInv, ResultsInv, StaysClassified

(* What PreRunCheck, NotifyTimeout and ProcessResponse assign. *)
LEMMA PreRunFacts ==
  ASSUME results \in Results, NEW t \in {"behavior2", "filtering2"}, results' = PreRunResults(t)
  PROVE  /\ results' \in Results /\ KeepsBinding
         /\ t = "behavior2" =>
              /\ results'.behavior = "DirectMapping" /\ results'.fBehaviorTestSuccess
              /\ results'.addrMappingAP = results.addrMappingAP /\ KeepsFiltering
         /\ t = "filtering2" =>
              /\ results'.filtering = "EndpointIndependentFiltering"
              /\ results'.fFilteringTestSuccess /\ KeepsBehavior
<1>1. CASE t = "behavior2"
  <2>1. results' = [results EXCEPT !.behavior = "DirectMapping", !.fBehaviorTestSuccess = TRUE]
    BY <1>1 DEF PreRunResults
  <2>2. results' \in Results
    BY <2>1 DEF Results, Behavior
  <2>3. /\ results'.behavior = "DirectMapping" /\ results'.fBehaviorTestSuccess
        /\ results'.addrMappingAP = results.addrMappingAP /\ KeepsFiltering /\ KeepsBinding
    BY <2>1 DEF Results, KeepsFiltering, KeepsBinding
  <2>4. QED BY <1>1, <2>2, <2>3
<1>2. CASE t = "filtering2"
  <2>1. results' = [results EXCEPT !.filtering = "EndpointIndependentFiltering",
                                   !.fFilteringTestSuccess = TRUE]
    BY <1>2 DEF PreRunResults
  <2>2. results' \in Results
    BY <2>1 DEF Results, Filtering
  <2>3. /\ results'.filtering = "EndpointIndependentFiltering"
        /\ results'.fFilteringTestSuccess /\ KeepsBehavior /\ KeepsBinding
    BY <2>1 DEF Results, KeepsBehavior, KeepsBinding
  <2>4. QED BY <1>2, <2>2, <2>3
<1>3. QED BY <1>1, <1>2

(* What a timeout does to the results, test by test. *)
LEMMA TimeoutFacts ==
  ASSUME results \in Results, NEW t \in Test, results' = TimeoutResults(t)
  PROVE  /\ results' \in Results
         /\ results'.behavior = results.behavior /\ results'.addrMappingAP = results.addrMappingAP
         /\ t # "binding" => KeepsBinding
         /\ t = "binding" =>
              /\ ~results'.fBindingTestSuccess /\ KeepsBehavior /\ KeepsFiltering
              /\ results'.fHasOtherAddress <=> results.fHasOtherAddress
              /\ results'.addrAP = results.addrAP /\ results'.addrAA = results.addrAA
         /\ t \in {"behavior2", "behavior3"} => ~results'.fBehaviorTestSuccess /\ KeepsFiltering
         /\ t = "filtering2" => KeepsBehavior /\ KeepsFiltering
         /\ t = "filtering3" =>
              /\ results'.filtering = "AddressAndPortDependentFiltering"
              /\ results'.fFilteringTestSuccess /\ KeepsBehavior
<1>1. CASE t = "binding"
  <2>1. results' = [results EXCEPT !.fBindingTestSuccess = FALSE]
    BY <1>1 DEF TimeoutResults
  <2>2. QED BY <1>1, <2>1 DEF Results, KeepsBehavior, KeepsFiltering
<1>2. CASE t \in {"behavior2", "behavior3"}
  <2>1. results' = [results EXCEPT !.fBehaviorTestSuccess = FALSE]
    BY <1>2 DEF TimeoutResults
  <2>2. QED BY <1>2, <2>1 DEF Results, KeepsBinding, KeepsFiltering
<1>3. CASE t = "filtering2"
  <2>1. results' = results
    BY <1>3 DEF TimeoutResults
  <2>2. QED BY <1>3, <2>1 DEF KeepsBinding, KeepsBehavior, KeepsFiltering
<1>4. CASE t = "filtering3"
  <2>1. results' = [results EXCEPT !.fFilteringTestSuccess = TRUE,
                                   !.filtering = "AddressAndPortDependentFiltering"]
    BY <1>4 DEF TimeoutResults
  <2>2. QED BY <1>4, <2>1 DEF Results, Filtering, KeepsBinding, KeepsBehavior
<1>5. QED BY <1>1, <1>2, <1>3, <1>4 DEF Test

(* What a response does to the results, test by test. *)
LEMMA ResponseFacts ==
  ASSUME results \in Results, NEW t \in Test, NEW local, NEW m, m.mapped \in Endpoint,
         t = "binding" => m.other = AA /\ m.hasOther \in BOOLEAN,
         results' = ResponseResults(t, local, m)
  PROVE  /\ results' \in Results
         /\ t # "binding" => KeepsBinding
         /\ t = "binding" =>
              /\ results'.fBindingTestSuccess /\ (results'.fIsDirect <=> local = m.mapped)
              /\ results'.addrMapped = m.mapped /\ KeepsBehavior /\ KeepsFiltering
              /\ results'.fHasOtherAddress => results'.addrAP = AP /\ results'.addrAA = AA
         /\ t = "behavior2" =>
              /\ results'.addrMappingAP = m.mapped /\ KeepsFiltering
              /\ m.mapped = results.addrMapped =>
                   /\ results'.fBehaviorTestSuccess
                   /\ results'.behavior = "EndpointIndependentMapping"
              /\ m.mapped # results.addrMapped =>
                   /\ results'.fBehaviorTestSuccess <=> results.fBehaviorTestSuccess
                   /\ results'.behavior = results.behavior
         /\ t = "behavior3" =>
              /\ results'.fBehaviorTestSuccess /\ KeepsFiltering
              /\ results'.addrMappingAP = results.addrMappingAP
              /\ results'.behavior = IF m.mapped = results.addrMappingAP
                                     THEN "AddressDependentMapping"
                                     ELSE "AddressAndPortDependentMapping"
         /\ t \in {"filtering2", "filtering3"} => results'.fFilteringTestSuccess /\ KeepsBehavior
         /\ t = "filtering2" => results'.filtering = "EndpointIndependentFiltering"
         /\ t = "filtering3" => results'.filtering = "AddressDependentFiltering"
<1>1. CASE t = "binding"
  <2>1. [m.other EXCEPT !.port = addrServer.port] = AP
    BY <1>1 DEF AA, AP, addrServer
  <2>2. CASE m.hasOther
    <3>1. results' = [results EXCEPT
                        !.fBindingTestSuccess = TRUE, !.fIsDirect = (local = m.mapped),
                        !.addrMapped = m.mapped, !.fHasOtherAddress = TRUE,
                        !.addrAA = AA, !.addrAP = AP]
      BY <1>1, <2>1, <2>2 DEF ResponseResults, BindingResponse
    <3>2. AP \in Addr /\ AA \in Addr /\ (local = m.mapped) \in BOOLEAN
      BY DEF AP, AA, Addr
    <3>3. results' \in Results
      BY <3>1, <3>2 DEF Results
    <3>4. /\ results'.fBindingTestSuccess /\ (results'.fIsDirect <=> local = m.mapped)
          /\ results'.addrMapped = m.mapped /\ results'.addrAP = AP /\ results'.addrAA = AA
      BY <3>1 DEF Results
    <3>5. KeepsBehavior /\ KeepsFiltering
      BY <3>1 DEF Results, KeepsBehavior, KeepsFiltering
    <3>6. QED BY <1>1, <3>3, <3>4, <3>5
  <2>3. CASE ~m.hasOther
    <3>1. results' = [results EXCEPT
                        !.fBindingTestSuccess = TRUE, !.fIsDirect = (local = m.mapped),
                        !.addrMapped = m.mapped, !.fHasOtherAddress = FALSE,
                        !.addrAA = results.addrAA, !.addrAP = results.addrAP]
      BY <1>1, <2>3 DEF ResponseResults, BindingResponse
    <3>2. (local = m.mapped) \in BOOLEAN
      OBVIOUS
    <3>3. results' \in Results
      BY <3>1, <3>2 DEF Results
    <3>4. /\ results'.fBindingTestSuccess /\ (results'.fIsDirect <=> local = m.mapped)
          /\ results'.addrMapped = m.mapped /\ ~results'.fHasOtherAddress
      BY <3>1 DEF Results
    <3>5. KeepsBehavior /\ KeepsFiltering
      BY <3>1 DEF Results, KeepsBehavior, KeepsFiltering
    <3>6. QED BY <1>1, <3>3, <3>4, <3>5
  <2>4. QED BY <2>2, <2>3
<1>2. CASE t = "behavior2"
  <2>1. results' = BehaviorResponse2(m)
    BY <1>2 DEF ResponseResults
  <2>2. CASE m.mapped = results.addrMapped
    <3>1. results' = [results EXCEPT !.addrMappingAP = m.mapped, !.fBehaviorTestSuccess = TRUE,
                                     !.behavior = "EndpointIndependentMapping"]
      BY <2>1, <2>2 DEF BehaviorResponse2
    <3>2. results' \in Results
      BY <3>1 DEF Results, Behavior
    <3>3. /\ results'.addrMappingAP = m.mapped /\ results'.fBehaviorTestSuccess
          /\ results'.behavior = "EndpointIndependentMapping"
      BY <3>1 DEF Results
    <3>4. KeepsBinding /\ KeepsFiltering
      BY <3>1 DEF Results, KeepsBinding, KeepsFiltering
    <3>5. QED BY <1>2, <2>2, <3>2, <3>3, <3>4
  <2>3. CASE m.mapped # results.addrMapped
    <3>1. results' = [results EXCEPT !.addrMappingAP = m.mapped]
      BY <2>1, <2>3 DEF BehaviorResponse2
    <3>2. results' \in Results
      BY <3>1 DEF Results
    <3>3. /\ results'.addrMappingAP = m.mapped /\ results'.behavior = results.behavior
          /\ results'.fBehaviorTestSuccess <=> results.fBehaviorTestSuccess
      BY <3>1 DEF Results
    <3>4. KeepsBinding /\ KeepsFiltering
      BY <3>1 DEF Results, KeepsBinding, KeepsFiltering
    <3>5. QED BY <1>2, <2>3, <3>2, <3>3, <3>4
  <2>4. QED BY <2>2, <2>3
<1>3. CASE t = "behavior3"
  <2>1. results' = BehaviorResponse3(m)
    BY <1>3 DEF ResponseResults
  <2> DEFINE b == IF m.mapped = results.addrMappingAP THEN "AddressDependentMapping"
                                                      ELSE "AddressAndPortDependentMapping"
  <2>2. b \in Behavior
    BY DEF Behavior
  <2>3. results' = [results EXCEPT !.fBehaviorTestSuccess = TRUE, !.behavior = b]
    BY <2>1 DEF BehaviorResponse3
  <2> HIDE DEF b
  <2>4. results' \in Results
    BY <2>2, <2>3 DEF Results
  <2>5. /\ results'.fBehaviorTestSuccess /\ results'.behavior = b
        /\ results'.addrMappingAP = results.addrMappingAP
    BY <2>3 DEF Results
  <2>6. KeepsBinding /\ KeepsFiltering
    BY <2>3 DEF Results, KeepsBinding, KeepsFiltering
  <2>7. QED BY <1>3, <2>4, <2>5, <2>6 DEF b
<1>4. CASE t \in {"filtering2", "filtering3"}
  <2>1. results' = FilteringResponse(t)
    BY <1>4 DEF ResponseResults
  <2>2. CASE t = "filtering2"
    <3>1. results' = [results EXCEPT !.fFilteringTestSuccess = TRUE, !.fGotTest2Response = TRUE,
                                     !.filtering = "EndpointIndependentFiltering"]
      BY <2>1, <2>2 DEF FilteringResponse
    <3>2. results' \in Results
      BY <3>1 DEF Results, Filtering
    <3>3. /\ results'.fFilteringTestSuccess /\ KeepsBinding /\ KeepsBehavior
          /\ results'.filtering = "EndpointIndependentFiltering"
      BY <3>1 DEF Results, KeepsBinding, KeepsBehavior
    <3>4. QED BY <2>2, <3>2, <3>3
  <2>3. CASE t = "filtering3"
    <3>1. results' = [results EXCEPT !.fFilteringTestSuccess = TRUE,
                                     !.fGotTest2Response = results.fGotTest2Response,
                                     !.filtering = "AddressDependentFiltering"]
      BY <2>1, <2>3 DEF FilteringResponse, Results
    <3>2. results' \in Results
      BY <3>1 DEF Results, Filtering
    <3>3. /\ results'.fFilteringTestSuccess /\ KeepsBinding /\ KeepsBehavior
          /\ results'.filtering = "AddressDependentFiltering"
      BY <3>1 DEF Results, KeepsBinding, KeepsBehavior
    <3>4. QED BY <2>3, <3>2, <3>3
  <2>4. QED BY <1>4, <2>2, <2>3
<1>5. QED BY <1>1, <1>2, <1>3, <1>4 DEF Test

-----------------------------------------------------------------------------
(* PreRunCheck preserves the invariant. *)
LEMMA PreRunCheckInv ==
  ASSUME ClientInv, NEW t \in Test, PreRunCheck(t), UNCHANGED <<envVars, netVars>>
  PROVE  ClientInv' /\ StaysClassified
<1> USE DEF ClientInv
<1>0. /\ testlist' = testlist /\ MaxAttempts' = MaxAttempts /\ Timeout' = Timeout
      /\ \A l, d : Mapped(l, d)' = Mapped(l, d)
      /\ \A q : GoodRequest(q)' = GoodRequest(q)
      /\ \A m, l : GoodReply(m, l)' = GoodReply(m, l)
  BY Frame DEF envVars, PreRunCheck
<1>1. /\ nTestIndex <= Len(testlist) /\ t = testlist[nTestIndex] /\ call = "loop" /\ ~preChecked
      /\ preChecked' = TRUE
      /\ UNCHANGED <<config, nTestIndex, sendCount, elapsed, call, addrDest, sends>>
  BY DEF PreRunCheck, InTest
<1>2. Ord(t) = nTestIndex /\ ~completed[t]
  BY <1>1, CurrentTest
<1>3. CASE KnownDirect(t)
  <2>1. /\ completed' = [completed EXCEPT ![t] = TRUE] /\ results' = PreRunResults(t)
        /\ results.fBindingTestSuccess /\ results.fIsDirect /\ t \in {"behavior2", "filtering2"}
    BY <1>3 DEF PreRunCheck, KnownDirect
  <2>2. results \in Results
    BY DEF TypeOK, LogicTypeOK
  <2>3. /\ results' \in Results /\ KeepsBinding
        /\ t = "behavior2" =>
             /\ results'.behavior = "DirectMapping" /\ results'.fBehaviorTestSuccess
             /\ results'.addrMappingAP = results.addrMappingAP /\ KeepsFiltering
        /\ t = "filtering2" =>
             /\ results'.filtering = "EndpointIndependentFiltering"
             /\ results'.fFilteringTestSuccess /\ KeepsBehavior
    BY <2>1, <2>2, PreRunFacts
  <2>4. Concludes(t)
    BY <2>1, <2>3 DEF Concludes
  <2>5. TypeOK' /\ SetupInv' /\ ProgressInv' /\ ResultsInv' /\ DestInv' /\ NetInv' /\ StaysClassified
    BY <1>1, <1>2, <2>1, <2>4, CompletionInv
  <2>6. CASE t = "behavior2"
    <3>1. results.addrMappingAP = Zero
      BY <1>2, <2>6 DEF ResultsInv
    <3>2. MappingInv' /\ MappingSound'
      BY <1>0, <2>1, <2>3, <2>6, <3>1 DEF MappingInv, MappingSound, KeepsBinding, envVars
    <3>3. FilteringSound'
      BY <2>3, <2>6 DEF FilteringSound, KeepsFiltering, KeepsBinding, envVars
    <3>4. QED BY <2>5, <3>2, <3>3
  <2>7. CASE t = "filtering2"
    <3>1. MappingInv' /\ MappingSound'
      BY <1>0, <2>3, <2>7 DEF MappingInv, MappingSound, KeepsBinding, KeepsBehavior, envVars
    <3>2. FilteringSound'
      BY <2>1, <2>3, <2>7 DEF FilteringSound, KeepsBinding, envVars
    <3>3. QED BY <2>5, <3>1, <3>2
  <2>8. QED BY <2>1, <2>6, <2>7
<1>4. CASE ~KnownDirect(t)
  <2>1. completed' = completed /\ results' = results
    BY <1>4 DEF PreRunCheck
  <2>2. nTestIndex = 2 => ~(results.fBindingTestSuccess /\ results.fIsDirect)
    <3>1. nTestIndex = 2 => t = "behavior2"
      BY <1>2, OrdFacts DEF Test
    <3>2. QED BY <1>4, <3>1 DEF KnownDirect
  <2>3. TypeOK'
    BY <1>0, <1>1, <2>1 DEF TypeOK, LogicTypeOK, envVars, netVars
  <2>4. SetupInv'
    BY <1>1 DEF SetupInv, CommandLineConfig, envVars, netVars
  <2>5. ProgressInv'
    BY <1>0, <1>1, <2>1 DEF ProgressInv
  <2>6. ResultsInv'
    BY <1>0, <1>1, <2>1, <2>2 DEF ResultsInv
  <2>7. DestInv' /\ NetInv'
    BY <1>0, <1>1, <2>1 DEF DestInv, NetInv, envVars, netVars
  <2>8. MappingInv' /\ MappingSound' /\ FilteringSound'
    BY <1>0, <2>1 DEF MappingInv, MappingSound, FilteringSound, envVars
  <2>9. StaysClassified
    BY <2>1, SameResults
  <2>10. QED BY <2>3, <2>4, <2>5, <2>6, <2>7, <2>8, <2>9
<1>5. QED BY <1>3, <1>4

(* NotifyTimeout preserves the invariant. *)
LEMMA NotifyTimeoutInv ==
  ASSUME ClientInv, NEW t \in Test, NotifyTimeout(t), UNCHANGED <<envVars, netVars>>
  PROVE  ClientInv' /\ StaysClassified
<1> USE DEF ClientInv
<1>0. \A l, d : Mapped(l, d)' = Mapped(l, d)
  BY Frame DEF envVars, NotifyTimeout
<1>1. /\ nTestIndex <= Len(testlist) /\ t = testlist[nTestIndex] /\ call = "loop" /\ preChecked
      /\ ~completed[t] /\ IsReadyToRun(t) /\ sendCount >= MaxAttempts
      /\ completed' = [completed EXCEPT ![t] = TRUE] /\ results' = TimeoutResults(t)
      /\ UNCHANGED <<config, nTestIndex, sendCount, preChecked, elapsed, call, addrDest, sends>>
  BY DEF NotifyTimeout, Running, InTest, NoAttemptsLeft
<1>2. /\ Ord(t) = nTestIndex /\ sends[t] = sendCount /\ MaxAttempts \in {1, 2}
  BY <1>1, CurrentTest
<1>3. results \in Results /\ sendCount \in 0 .. MaxAttempts
  BY DEF TypeOK, LogicTypeOK
<1>4. sends[t] = MaxAttempts /\ sends[t] > 0
  BY <1>1, <1>2, <1>3
<1>5. /\ results' \in Results
      /\ results'.behavior = results.behavior /\ results'.addrMappingAP = results.addrMappingAP
      /\ t # "binding" => KeepsBinding
      /\ t = "binding" =>
           /\ ~results'.fBindingTestSuccess /\ KeepsBehavior /\ KeepsFiltering
           /\ results'.fHasOtherAddress <=> results.fHasOtherAddress
           /\ results'.addrAP = results.addrAP /\ results'.addrAA = results.addrAA
      /\ t \in {"behavior2", "behavior3"} => ~results'.fBehaviorTestSuccess /\ KeepsFiltering
      /\ t = "filtering2" => KeepsBehavior /\ KeepsFiltering
      /\ t = "filtering3" =>
           /\ results'.filtering = "AddressAndPortDependentFiltering"
           /\ results'.fFilteringTestSuccess /\ KeepsBehavior
  BY <1>1, <1>3, TimeoutFacts
<1>6. Concludes(t)
  <2>1. CASE t = "binding"
    BY <1>4, <1>5, <2>1 DEF Concludes, ResultsInv
  <2>2. CASE t = "behavior2"
    <3>1. nTestIndex = 2
      BY <1>2, <2>2, OrdFacts
    <3>2. ~(results.fBindingTestSuccess /\ results.fIsDirect) /\ results.behavior = "UnknownBehavior"
      BY <1>1, <2>2, <3>1 DEF ResultsInv, IsReadyToRun
    <3>3. QED BY <1>4, <1>5, <2>2, <3>2 DEF Concludes
  <2>3. CASE t = "behavior3"
    <3>1. ~results.fBehaviorTestSuccess /\ completed["behavior2"]
      BY <1>1, <2>3 DEF ResultsInv, IsReadyToRun
    <3>2. ~(results.fBindingTestSuccess /\ results.fIsDirect) /\ results.behavior = "UnknownBehavior"
      BY <3>1 DEF ResultsInv
    <3>3. QED BY <1>4, <1>5, <2>3, <3>2 DEF Concludes
  <2>4. CASE t = "filtering2"
    <3>1. ~results.fFilteringTestSuccess
      BY <1>1, <2>4 DEF IsReadyToRun
    <3>2. results.filtering = "UnknownFiltering"
      BY <3>1 DEF ResultsInv
    <3>3. QED BY <1>4, <1>5, <2>4, <3>2 DEF Concludes, KeepsFiltering
  <2>5. CASE t = "filtering3"
    <3>1. nTestIndex = 5
      BY <1>2, <2>5, OrdFacts
    <3>2. /\ results.fBindingTestSuccess /\ results.fHasOtherAddress
          /\ ~results.fFilteringTestSuccess /\ ~results.fGotTest2Response
      BY <1>1, <2>5 DEF IsReadyToRun
    <3>3. sends["filtering2"] = MaxAttempts
      BY <3>1, <3>2 DEF ResultsInv
    <3>4. QED BY <1>4, <1>5, <2>5, <3>3 DEF Concludes
  <2>6. QED BY <2>1, <2>2, <2>3, <2>4, <2>5 DEF Test
<1>7. TypeOK' /\ SetupInv' /\ ProgressInv' /\ ResultsInv' /\ DestInv' /\ NetInv' /\ StaysClassified
  <2>1. preChecked' = TRUE
    BY <1>1 DEF TypeOK, LogicTypeOK
  <2>2. QED BY <1>1, <1>6, <2>1, CompletionInv
<1>8. MappingInv' /\ MappingSound'
  <2>1. t \in {"behavior2", "behavior3"} => ~results.fBehaviorTestSuccess
    BY <1>1 DEF IsReadyToRun
  <2>2. CASE t = "binding"
    BY <1>0, <1>5, <2>2 DEF MappingInv, MappingSound, KeepsBehavior, envVars
  <2>3. CASE t \in {"behavior2", "behavior3"}
    BY <1>0, <1>5, <2>1, <2>3 DEF MappingInv, MappingSound, KeepsBinding, envVars
  <2>4. CASE t \in {"filtering2", "filtering3"}
    BY <1>0, <1>5, <2>4 DEF MappingInv, MappingSound, KeepsBinding, KeepsBehavior, envVars
  <2>5. QED BY <2>2, <2>3, <2>4 DEF Test
<1>9. FilteringSound'
  <2>1. CASE t = "binding"
    <3>1. ~completed["filtering2"] /\ ~completed["filtering3"]
      BY <1>2, <2>1, OrdFacts DEF ProgressInv, Test
    <3>2. results'.filtering = "UnknownFiltering"
      BY <1>5, <2>1, <3>1 DEF ResultsInv, KeepsFiltering
    <3>3. QED BY <3>2 DEF FilteringSound
  <2>2. CASE t \in {"behavior2", "behavior3", "filtering2"}
    BY <1>5, <2>2 DEF FilteringSound, KeepsFiltering, KeepsBinding, envVars
  <2>3. CASE t = "filtering3"
    BY <1>5, <2>3 DEF FilteringSound
  <2>4. QED BY <2>1, <2>2, <2>3 DEF Test
<1>10. QED BY <1>7, <1>8, <1>9

(* A reply that is dropped, or no reply. *)
LEMMA NothingHeard ==
  ASSUME ClientInv, call \in {"S_OK", "STILL_WAITING"}, call' = "loop",
         UNCHANGED <<config, nTestIndex, sendCount, preChecked, elapsed, completed, results,
                     addrDest, sends>>,
         UNCHANGED <<envVars, netVars>>
  PROVE  ClientInv'
<1>1. elapsed' \in 0 .. Timeout /\ exited' \in BOOLEAN
  BY DEF ClientInv, TypeOK, LogicTypeOK, netVars
<1>2. QED BY <1>1, QuietInv DEF netVars

(***************************************************************************)
(* A reply of the server, to whichever request: the client takes it only   *)
(* for the current test, and what it then concludes is true of the NAT.    *)
(***************************************************************************)
LEMMA ProcessResponseInv ==
  ASSUME ClientInv, NEW m, GoodReply(m, sock), ProcessResponse(LocalEndpoint(sock), m),
         proto = "udp" => Admits(m.src, m.mapped),
         UNCHANGED <<envVars, netVars>>
  PROVE  ClientInv' /\ StaysClassified
<1> USE DEF ClientInv
<1> DEFINE t == testlist[nTestIndex]
<1>0. \A l, d : Mapped(l, d)' = Mapped(l, d)
  BY Frame DEF envVars, ProcessResponse
<1>1. /\ call \in {"S_OK", "STILL_WAITING"} /\ call' = "loop"
      /\ UNCHANGED <<config, nTestIndex, sendCount, preChecked, elapsed, addrDest, sends>>
      /\ IF ~completed[t] /\ Accepts(t, m)
         THEN /\ completed' = [completed EXCEPT ![t] = TRUE]
              /\ results' = ResponseResults(t, LocalEndpoint(sock), m)
         ELSE UNCHANGED <<completed, results>>
  BY DEF ProcessResponse
<1>2. CASE ~(~completed[t] /\ Accepts(t, m))
  BY <1>1, <1>2, NothingHeard, SameResults
<1>3. CASE ~completed[t] /\ Accepts(t, m)
  <2>1. /\ completed' = [completed EXCEPT ![t] = TRUE] /\ m.id = t
        /\ results' = ResponseResults(t, LocalEndpoint(sock), m)
    BY <1>1, <1>3 DEF Accepts
  <2>2. nTestIndex <= Len(testlist) /\ preChecked /\ sendCount > 0 /\ IsReadyToRun(t)
    BY <1>1 DEF ProgressInv
  <2>3. /\ t \in Test /\ Ord(t) = nTestIndex /\ sends[t] = sendCount
        /\ proto # "udp" => nTestIndex <= 3
    BY <2>2, CurrentTest
  <2> HIDE DEF t
  <2>4. /\ results \in Results /\ preChecked \in BOOLEAN /\ proto \in {"udp", "tcp"}
        /\ nat \in [mapping : Mapping, filtering : NatFilter] /\ sock \in Nat
    BY DEF TypeOK, LogicTypeOK
  <2>5. /\ m.mapped = Mapped(sock, Dst(t)) /\ m.src = Src(t)
        /\ t = "binding" => m.other = AA /\ m.hasOther \in BOOLEAN
    BY <2>1 DEF GoodReply
  <2>6. Dst(t) \in Addr /\ addrServer \in Addr
    BY <2>2, <2>3, ReadyDestination DEF addrServer, Addr
  <2>7. m.mapped \in Endpoint
    BY <2>4, <2>5, <2>6, MappedFacts
  <2>8. /\ results' \in Results
        /\ t # "binding" => KeepsBinding
        /\ t = "binding" =>
             /\ results'.fBindingTestSuccess /\ (results'.fIsDirect <=> LocalEndpoint(sock) = m.mapped)
             /\ results'.addrMapped = m.mapped /\ KeepsBehavior /\ KeepsFiltering
             /\ results'.fHasOtherAddress => results'.addrAP = AP /\ results'.addrAA = AA
        /\ t = "behavior2" =>
             /\ results'.addrMappingAP = m.mapped /\ KeepsFiltering
             /\ m.mapped = results.addrMapped =>
                  /\ results'.fBehaviorTestSuccess
                  /\ results'.behavior = "EndpointIndependentMapping"
             /\ m.mapped # results.addrMapped =>
                  /\ results'.fBehaviorTestSuccess <=> results.fBehaviorTestSuccess
                  /\ results'.behavior = results.behavior
        /\ t = "behavior3" =>
             /\ results'.fBehaviorTestSuccess /\ KeepsFiltering
             /\ results'.addrMappingAP = results.addrMappingAP
             /\ results'.behavior = IF m.mapped = results.addrMappingAP
                                    THEN "AddressDependentMapping"
                                    ELSE "AddressAndPortDependentMapping"
        /\ t \in {"filtering2", "filtering3"} => results'.fFilteringTestSuccess /\ KeepsBehavior
        /\ t = "filtering2" => results'.filtering = "EndpointIndependentFiltering"
        /\ t = "filtering3" => results'.filtering = "AddressDependentFiltering"
    BY <2>1, <2>3, <2>4, <2>5, <2>7, ResponseFacts
  <2>9. t = "behavior2" =>
          /\ results.behavior = "UnknownBehavior" /\ results.addrMappingAP = Zero
          /\ ~(results.fBindingTestSuccess /\ results.fIsDirect)
    <3>1. t = "behavior2" => nTestIndex = 2 /\ ~completed["behavior2"]
      BY <1>3, <2>3, OrdFacts
    <3>2. t = "behavior2" => ~results.fBehaviorTestSuccess
      BY <2>2 DEF IsReadyToRun
    <3>3. QED BY <2>2, <3>1, <3>2 DEF ResultsInv
  <2>10. Concludes(t)
    <3>1. sends[t] > 0
      BY <2>2, <2>3
    <3>2. CASE t = "binding"
      BY <2>8, <3>1, <3>2 DEF Concludes
    <3>3. CASE t = "behavior2"
      BY <2>8, <2>9, <3>1, <3>3 DEF Concludes
    <3>4. CASE t = "behavior3"
      BY <2>8, <3>1, <3>4 DEF Concludes
    <3>5. CASE t \in {"filtering2", "filtering3"}
      BY <2>8, <3>1, <3>5 DEF Concludes
    <3>6. QED BY <2>3, <3>2, <3>3, <3>4, <3>5 DEF Test
  <2>11. TypeOK' /\ SetupInv' /\ ProgressInv' /\ ResultsInv' /\ DestInv' /\ NetInv' /\ StaysClassified
    <3>1. preChecked' = TRUE
      BY <1>1, <2>2, <2>4
    <3>2. QED BY <1>1, <1>3, <2>1, <2>2, <2>3, <2>10, <3>1, CompletionInv DEF t
  <2>12. MappingInv' /\ MappingSound'
    <3>1. SUFFICES ASSUME proto = "udp" \/ fixedPort PROVE MappingInv' /\ MappingSound'
      BY DEF MappingInv, MappingSound, envVars
    <3>2. sock = 1 /\ m.mapped = Mapped(1, Dst(t)) /\ Mapped(1, Dst(t)) # Zero
      BY <2>4, <2>5, <2>6, <3>1, MappedFacts DEF SetupInv
    <3>3. nat' = nat /\ proto' = proto /\ fixedPort' = fixedPort
      BY DEF envVars
    <3>4. CASE t = "binding"
      <4>1. ~completed["behavior2"] /\ ~completed["behavior3"]
        BY <2>3, <3>4, OrdFacts DEF ProgressInv, Test
      <4>2. results'.addrMappingAP = Zero /\ results'.behavior = "UnknownBehavior"
        BY <2>8, <3>4, <4>1 DEF ResultsInv, KeepsBehavior
      <4>3. Dst(t) = addrServer
        BY <3>4 DEF Dst
      <4>4. results'.fIsDirect <=> nat.mapping = "DirectMapping"
        BY <2>4, <2>6, <2>8, <3>2, <3>4, MappedFacts
      <4>5. QED BY <1>0, <2>8, <3>2, <3>3, <3>4, <4>2, <4>3, <4>4 DEF MappingInv, MappingSound
    <3>5. CASE t = "behavior2"
      <4>1. results.fBindingTestSuccess /\ ~results.fBehaviorTestSuccess
        BY <2>2, <3>5 DEF IsReadyToRun
      <4>2. results.addrMapped = Mapped(1, addrServer) /\ nat.mapping # "DirectMapping"
        BY <2>9, <3>1, <3>5, <4>1 DEF MappingInv
      <4>3. m.mapped = Mapped(1, AP)
        BY <3>2, <3>5 DEF Dst
      <4>4. m.mapped = results.addrMapped <=> nat.mapping = "EndpointIndependentMapping"
        BY <2>4, <4>2, <4>3, MappedFacts
      <4>5. nat.mapping \in {"EndpointIndependentMapping", "AddressDependentMapping",
                             "AddressAndPortDependentMapping"}
        BY <2>4, <4>2 DEF Mapping, Behavior
      <4>6. CASE m.mapped = results.addrMapped
        BY <1>0, <2>8, <3>1, <3>3, <3>5, <4>3, <4>4, <4>6 DEF MappingInv, MappingSound, KeepsBinding
      <4>7. CASE m.mapped # results.addrMapped
        BY <1>0, <2>8, <2>9, <3>1, <3>3, <3>5, <4>1, <4>3, <4>4, <4>5, <4>7
        DEF MappingInv, MappingSound, KeepsBinding
      <4>8. QED BY <4>6, <4>7
    <3>6. CASE t = "behavior3"
      <4>1. ~results.fBehaviorTestSuccess /\ results.addrMappingAP # Zero
        BY <2>2, <3>6 DEF IsReadyToRun
      <4>2. /\ results.addrMappingAP = Mapped(1, AP)
            /\ nat.mapping \in {"AddressDependentMapping", "AddressAndPortDependentMapping"}
        BY <3>1, <4>1 DEF MappingInv
      <4>3. m.mapped = Mapped(1, AA)
        BY <3>2, <3>6 DEF Dst
      <4>4. m.mapped = results.addrMappingAP <=> nat.mapping # "AddressAndPortDependentMapping"
        BY <2>4, <4>2, <4>3, MappedFacts
      <4>5. results'.behavior = nat.mapping
        BY <2>8, <3>6, <4>2, <4>4
      <4>6. QED BY <1>0, <2>8, <3>1, <3>3, <3>6, <4>5 DEF MappingInv, MappingSound, KeepsBinding
    <3>7. CASE t \in {"filtering2", "filtering3"}
      BY <1>0, <2>8, <3>1, <3>3, <3>7 DEF MappingInv, MappingSound, KeepsBinding, KeepsBehavior
    <3>8. QED BY <2>3, <3>4, <3>5, <3>6, <3>7 DEF Test
  <2>13. FilteringSound'
    <3>1. nat' = nat
      BY DEF envVars
    <3>2. CASE t = "binding"
      <4>1. ~completed["filtering2"] /\ ~completed["filtering3"]
        BY <2>3, <3>2, OrdFacts DEF ProgressInv, Test
      <4>2. results'.filtering = "UnknownFiltering"
        BY <2>8, <3>2, <4>1 DEF ResultsInv, KeepsFiltering
      <4>3. QED BY <4>2 DEF FilteringSound
    <3>3. CASE t \in {"behavior2", "behavior3"}
      BY <2>8, <3>1, <3>3 DEF FilteringSound, KeepsFiltering, KeepsBinding
    <3>4. CASE t \in {"filtering2", "filtering3"}
      <4>1. proto = "udp"
        BY <2>3, <3>4, OrdFacts
      <4>2. sock = 1 /\ m.mapped = Mapped(1, addrServer) /\ Admits(m.src, m.mapped)
        BY <2>5, <3>4, <4>1 DEF SetupInv, Dst
      <4>3. m.src = IF t = "filtering2" THEN AA ELSE PA
        BY <2>5, <3>4 DEF Src
      <4>4. /\ Admits(PA, Mapped(1, addrServer)) =>
                 nat.filtering # "AddressAndPortDependentFiltering"
            /\ Admits(AA, Mapped(1, addrServer)) =>
                 \/ nat.filtering = "EndpointIndependentFiltering"
                 \/ /\ nat.filtering = "AddressDependentFiltering"
                    /\ nat.mapping \in {"DirectMapping", "EndpointIndependentMapping"}
        BY <2>4, <4>2, AdmitsFacts DEF NetInv
      <4>5. CASE t = "filtering3"
        BY <2>8, <3>1, <4>2, <4>3, <4>4, <4>5 DEF FilteringSound
      <4>6. CASE t = "filtering2"
        <5>1. results.fBindingTestSuccess
          BY <2>2, <4>6 DEF IsReadyToRun
        <5>2. results'.fIsDirect <=> nat.mapping = "DirectMapping"
          BY <2>8, <4>1, <4>6, <5>1 DEF MappingInv, KeepsBinding
        <5>3. QED BY <2>8, <3>1, <4>2, <4>3, <4>4, <4>6, <5>2 DEF FilteringSound
      <4>7. QED BY <3>4, <4>5, <4>6
    <3>5. QED BY <2>3, <3>2, <3>3, <3>4 DEF Test
  <2>14. QED BY <2>11, <2>12, <2>13
<1>4. QED BY <1>2, <1>3

-----------------------------------------------------------------------------
(* The invariant holds initially, and every step preserves it. *)
LEMMA InitInv == Init => ClientInv
<1> SUFFICES ASSUME Init PROVE ClientInv
  OBVIOUS
<1>1. /\ proto \in {"udp", "tcp"} /\ fixedPort \in BOOLEAN /\ hasOther \in BOOLEAN
      /\ nat \in [mapping : Mapping, filtering : NatFilter]
      /\ sock = IF proto = "tcp" /\ ~fixedPort THEN 0 ELSE 1
      /\ contacted = {} /\ requests = {} /\ replies = {} /\ exited = FALSE
      /\ nTestIndex = 1 /\ sendCount = 0 /\ preChecked = FALSE /\ elapsed = 0
      /\ completed = [t \in Test |-> FALSE] /\ results = InitResults /\ call = "loop"
      /\ addrDest = addrZero /\ sends = [t \in Test |-> 0]
  BY DEF Init, Initialize
<1>2. SetupInv
  BY <1>1 DEF Init, SetupInv
<1>3. /\ Len(testlist) \in {1, 3, 5} /\ config \in Config /\ MaxAttempts \in {1, 2}
      /\ Timeout \in Nat
  BY <1>1, <1>2, ListFacts, TimeoutAssumption
<1>4. /\ results \in Results /\ ~results.fBindingTestSuccess /\ ~results.fHasOtherAddress
      /\ results.addrMappingAP = Zero /\ results.behavior = "UnknownBehavior"
      /\ ~results.fBehaviorTestSuccess /\ results.filtering = "UnknownFiltering"
      /\ ~results.fFilteringTestSuccess /\ ~results.fGotTest2Response
  BY <1>1 DEF InitResults, Results, Zero, Endpoint, Behavior, Filtering
<1>5. TypeOK
  <2>1. LogicTypeOK
    <3>1. nTestIndex \in 1 .. Len(testlist) + 1 /\ sendCount \in 0 .. MaxAttempts
          /\ elapsed \in 0 .. Timeout
      BY <1>1, <1>3
    <3>2. completed \in [Test -> BOOLEAN] /\ sends \in [Test -> Nat]
      BY <1>1
    <3>3. QED BY <1>1, <1>3, <1>4, <3>1, <3>2 DEF LogicTypeOK
  <2>2. QED BY <1>1, <2>1 DEF TypeOK
<1>6. ProgressInv
  BY <1>1, <1>3 DEF ProgressInv
<1>7. ResultsInv
  BY <1>1, <1>3, <1>4 DEF ResultsInv, Test
<1>8. DestInv
  BY <1>1 DEF DestInv, Test
<1>9. NetInv
  BY <1>1 DEF NetInv
<1>10. MappingInv /\ MappingSound /\ FilteringSound
  BY <1>4 DEF MappingInv, MappingSound, FilteringSound
<1>11. QED BY <1>2, <1>5, <1>6, <1>7, <1>8, <1>9, <1>10 DEF ClientInv

(* Every step preserves the invariant. *)
LEMMA NextInv ==
  ASSUME ClientInv, [Next]_vars
  PROVE  ClientInv' /\ StaysClassified
<1>0. /\ elapsed \in 0 .. Timeout /\ exited \in BOOLEAN /\ Timeout \in Nat
      /\ call \in {"loop", "S_OK", "STILL_WAITING", "RESULTS_READY"}
      /\ sendCount \in 0 .. MaxAttempts /\ MaxAttempts \in {1, 2}
      /\ hasOther \in BOOLEAN
  <2>1. SetupInv /\ proto \in {"udp", "tcp"}
    BY DEF ClientInv, TypeOK
  <2>2. MaxAttempts \in {1, 2} /\ Timeout \in Nat
    BY <2>1, ListFacts, TimeoutAssumption
  <2>3. QED BY <2>2 DEF ClientInv, TypeOK, LogicTypeOK
<1>W. call \in {"S_OK", "STILL_WAITING"} =>
        /\ nTestIndex <= Len(testlist) /\ preChecked /\ sendCount > 0
        /\ IsReadyToRun(testlist[nTestIndex])
  BY DEF ClientInv, ProgressInv
<1>R. call = "RESULTS_READY" => nTestIndex > Len(testlist)
  BY DEF ClientInv, ProgressInv
<1>1. CASE ResultsReady /\ UNCHANGED <<envVars, netVars>>
  BY <1>0, <1>1, QuietInv, SameResults DEF ResultsReady, netVars
<1>2. ASSUME NEW t \in Test, PreRunCheck(t), UNCHANGED <<envVars, netVars>>
      PROVE  ClientInv' /\ StaysClassified
  BY <1>2, PreRunCheckInv
<1>3. ASSUME NEW t \in Test, NextTest(t), UNCHANGED <<envVars, netVars>>
      PROVE  ClientInv' /\ StaysClassified
  <2>1. results' = results
    BY <1>3 DEF NextTest
  <2>2. QED BY <1>3, <2>1, NextTestInv, SameResults
<1>4. ASSUME NEW t \in Test, StillWaiting(t), UNCHANGED <<envVars, netVars>>
      PROVE  ClientInv' /\ StaysClassified
  <2>1. nTestIndex <= Len(testlist) /\ preChecked /\ IsReadyToRun(testlist[nTestIndex])
    BY <1>4 DEF StillWaiting, Running, InTest
  <2>2. sendCount > 0
    BY <1>0, <1>4 DEF StillWaiting, WaitingForResponse
  <2>3. QED BY <1>0, <1>4, <2>1, <2>2, QuietInv, SameResults DEF StillWaiting, netVars
<1>5. ASSUME NEW t \in Test, NotifyTimeout(t), UNCHANGED <<envVars, netVars>>
      PROVE  ClientInv' /\ StaysClassified
  BY <1>5, NotifyTimeoutInv
<1>6. ASSUME NEW t \in Test, UdpSend(t)
      PROVE  ClientInv' /\ StaysClassified
  <2>1. results' = results
    BY <1>6 DEF UdpSend, GetMessage
  <2>2. QED BY <1>6, <2>1, UdpSendInv, SameResults
<1>7. ASSUME NEW m \in replies, UdpReceive(m)
      PROVE  ClientInv' /\ StaysClassified
  <2>1. proto = "udp" /\ sock = 1
    BY <1>7 DEF UdpReceive, ClientInv, SetupInv
  <2>2. GoodReply(m, sock)
    BY <2>1 DEF ClientInv, NetInv
  <2>3. QED BY <1>7, <2>2, ProcessResponseInv DEF UdpReceive
<1>8. CASE UdpNoData
  <2>1. results' = results
    BY <1>8 DEF UdpNoData, NoResponse
  <2>2. QED BY <1>8, <2>1, NothingHeard, SameResults DEF UdpNoData, NoResponse
<1>9. ASSUME NEW t \in Test, TcpSend(t)
      PROVE  ClientInv' /\ StaysClassified
  <2>1. results' = results
    BY <1>9 DEF TcpSend, GetMessage
  <2>2. QED BY <1>9, <2>1, TcpSendInv, SameResults
<1>10. CASE TcpReceive
  <2> DEFINE t == testlist[nTestIndex]
             q == Request(t, sock)
  <2>1. proto = "tcp" /\ call = "S_OK" /\ UNCHANGED <<envVars, netVars>>
        /\ ProcessResponse(LocalEndpoint(sock), ProcessBindingRequest(q))
    BY <1>10 DEF TcpReceive
  <2>2. t \in Test /\ IsReadyToRun(t)
    BY <1>W, <2>1, CurrentTest
  <2>3. Destination(t) = Dst(t)
    BY <2>2, ReadyDestination
  <2>4. /\ q.id = t /\ q.dst = Dst(t) /\ q.ext = Mapped(sock, Dst(t))
        /\ q.changeIP = ChangeIP(t) /\ q.changePort = ChangePort(t)
    BY <2>3 DEF Request
  <2> HIDE DEF t, q
  <2>5. GoodReply(ProcessBindingRequest(q), sock)
    BY <1>0, <2>2, <2>4, GoodReplies
  <2>6. QED BY <2>1, <2>5, ProcessResponseInv
<1>11. CASE TcpCutOff
  <2>1. /\ call = "S_OK" /\ UNCHANGED <<envVars, netVars>>
        /\ ProcessResponse(LocalEndpoint(sock), Truncated)
    BY <1>11 DEF TcpCutOff
  <2>2. testlist[nTestIndex] \in Test
    BY <1>W, <2>1, CurrentTest
  <2>3. ~Accepts(testlist[nTestIndex], Truncated)
    BY <2>2 DEF Accepts, Truncated, Test
  <2>4. /\ call' = "loop"
        /\ UNCHANGED <<config, nTestIndex, sendCount, preChecked, elapsed, completed, results,
                       addrDest, sends>>
    BY <2>1, <2>3 DEF ProcessResponse
  <2>5. QED BY <2>1, <2>4, NothingHeard, SameResults
<1>12. CASE TcpExit
  BY <1>0, <1>12, <1>W, <1>R, QuietInv, SameResults DEF TcpExit, logicVars
<1>13. ASSUME NEW q \in requests, ServerResponds(q)
       PROVE  ClientInv' /\ StaysClassified
  <2>1. results' = results
    BY <1>13 DEF ServerResponds, logicVars
  <2>2. QED BY <1>13, <2>1, ServerRespondsInv, SameResults
<1>14. CASE ClockTick
  <2>1. elapsed' \in 0 .. Timeout
    BY <1>0, <1>14 DEF ClockTick, Tick
  <2>2. QED BY <1>0, <1>14, <1>W, <2>1, QuietInv, SameResults DEF ClockTick, Tick, netVars
<1>15. CASE UNCHANGED vars
  BY <1>0, <1>15, <1>W, <1>R, QuietInv, SameResults DEF vars, logicVars, netVars
<1>16. QED
  BY <1>1, <1>2, <1>3, <1>4, <1>5, <1>6, <1>7, <1>8, <1>9, <1>10, <1>11, <1>12, <1>13, <1>14, <1>15
  DEF Next, UdpStep, TcpStep, GetNextMessage

-----------------------------------------------------------------------------
(***************************************************************************)
(* The invariant holds in every reachable state: for both protocols, with  *)
(* and without a fixed local port, for every mapping and filtering of the  *)
(* NAT and for any timeout.                                                *)
(***************************************************************************)
THEOREM InvariantHolds == Spec => []ClientInv
<1>1. ClientInv /\ [Next]_vars => ClientInv'
  BY NextInv
<1>2. QED BY <1>1, InitInv, PTL DEF Spec

(* Every variable of CStunClientLogic, the driver and the network keeps its
   type. *)
THEOREM TypeCorrect == Spec => []TypeOK
<1>1. ClientInv => TypeOK
  BY DEF ClientInv
<1>2. QED BY <1>1, InvariantHolds, PTL

(* The mapping behaviour that the behaviour tests of stunclienttests.cpp
   report is the NAT's, however late and often replies arrive. *)
THEOREM MappingIsSound == Spec => []MappingSound
<1>1. ClientInv => MappingSound
  BY DEF ClientInv
<1>2. QED BY <1>1, InvariantHolds, PTL

(* The filtering behaviour the filtering tests report misses no restriction
   of the NAT, but for the two cases FilteringSound names. *)
THEOREM FilteringIsSound == Spec => []FilteringSound
<1>1. ClientInv => FilteringSound
  BY DEF ClientInv
<1>2. QED BY <1>1, InvariantHolds, PTL

(* When GetNextMessage reports that the results are ready, the last request
   went to the configured server, where UdpClientLoop registers. *)
THEOREM RegistersAtServer == Spec => []RegistersWithServer
<1>1. ASSUME ClientInv PROVE RegistersWithServer
  <2> USE <1>1 DEF ClientInv
  <2>1. SUFFICES ASSUME proto = "udp", call = "RESULTS_READY" PROVE addrDest = addrServer
    BY DEF RegistersWithServer
  <2>2. Len(testlist) \in {1, 5} /\ nTestIndex > Len(testlist) /\ nTestIndex \in Nat
    <3>1. SetupInv /\ nTestIndex \in 1 .. Len(testlist) + 1
      BY DEF TypeOK, LogicTypeOK
    <3>2. Len(testlist) \in {1, 5}
      BY <2>1, <3>1, ListFacts
    <3>3. QED BY <2>1, <3>1, <3>2 DEF ProgressInv
  <2>3. completed["binding"]
    BY <2>2 DEF ProgressInv
  <2>4. sends["binding"] > 0
    BY <2>3 DEF ProgressInv, Test
  <2>5. ~(Len(testlist) > 1 /\ nTestIndex <= 4)
    <3>1. CASE Len(testlist) = 1
      BY <3>1
    <3>2. CASE Len(testlist) = 5
      BY <2>2, <3>2
    <3>3. QED BY <2>2, <3>1, <3>2
  <2>6. addrDest # addrZero
    BY <2>4 DEF DestInv
  <2>7. QED BY <2>5, <2>6 DEF DestInv
<1>2. QED BY <1>1, InvariantHolds, PTL

(* A test gives up only after its last attempt, and GetNextMessage never
   sends a request more often than configured. *)
THEOREM AttemptsAreMade == Spec => []AllAttemptsMade
<1>1. ASSUME ClientInv PROVE AllAttemptsMade
  BY <1>1 DEF ClientInv, ProgressInv, ResultsInv, AllAttemptsMade
<1>2. QED BY <1>1, InvariantHolds, PTL

(* While the driver waits for a datagram there is a test that it can be for:
   ProcessResponse never takes its E_UNEXPECTED exits. *)
THEOREM ResponsesHaveTests == Spec => []ResponseHasTest
<1>1. ASSUME ClientInv PROVE ResponseHasTest
  BY <1>1 DEF ClientInv, ProgressInv, ResponseHasTest, IsReadyToRun
<1>2. QED BY <1>1, InvariantHolds, PTL

(* No step of a test, a timeout or a late reply changes a classification
   that has been made. *)
THEOREM ClassifiesOnce == Spec => ClassifiedOnce
<1>1. ASSUME ClientInv, [Next]_vars
      PROVE  [ /\ results.behavior # "UnknownBehavior" =>
                    results'.behavior = results.behavior /\ results'.fBehaviorTestSuccess
               /\ results.filtering # "UnknownFiltering" =>
                    results'.filtering = results.filtering /\ results'.fFilteringTestSuccess ]_vars
  BY <1>1, NextInv DEF StaysClassified
<1>2. QED BY <1>1, InvariantHolds, PTL DEF Spec, ClassifiedOnce
=============================================================================
