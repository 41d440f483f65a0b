-------------------------- MODULE StunClientLogic --------------------------
(***************************************************************************)
(* CStunClientLogic and its five tests (stuncore/stunclientlogic.cpp,      *)
(* stunclienttests.cpp): a binding test and, in "full" mode, two tests of  *)
(* the mapping behaviour and two of the filtering behaviour of the NAT     *)
(* between the client and the server.  The class has no thread of its own: *)
(* a driver loop calls GetNextMessage, whose while loop is taken one       *)
(* iteration at a time here (call = "loop" during the call, its result     *)
(* after it), and ProcessResponse.  StunClient adds the driver loops, the  *)
(* NAT and the server.                                                     *)
(***************************************************************************)
EXTENDS Integers, Sequences

CONSTANT DefaultTimeout  \* the 3 seconds of Initialize, in clock ticks

ASSUME TimeoutAssumption == DefaultTimeout \in Nat \ {0}

VARIABLES
  config,      \* the StunClientLogicConfig
  nTestIndex,  \* 1 .. Len(testlist) + 1
  sendCount,   \* _sendCount
  preChecked,  \* _fPreCheckRunOnTest
  elapsed,     \* ticks since _timeLastMessageSent, at most Timeout
  completed,   \* completed[t]: _fCompleted of test t
  results,     \* _results
  call,        \* "loop" inside GetNextMessage, otherwise what it returned
  addrDest,    \* where the driver sent its last message
  sends        \* sends[t]: requests sent by test t (history)

logicVars == <<config, nTestIndex, sendCount, preChecked, elapsed, completed,
               results, call, addrDest, sends>>

-----------------------------------------------------------------------------
(***************************************************************************)
(* Addresses.  The server's four sockets have a primary or alternate IP    *)
(* address and a primary or alternate port.  An endpoint of the client, as *)
(* the client or the server sees it, tells which local port it belongs to  *)
(* and, outside a NAT, which destinations share it.                        *)
(***************************************************************************)
Addr == [ip : {"P", "A"}, port : {"P", "A"}]

addrServer == [ip |-> "P", port |-> "P"]

addrZero == [ip |-> "0", port |-> "0"]

Endpoint == [local : Nat, nat : BOOLEAN, ip : {"P", "A", "any"}, port : {"P", "A", "any"}]

Zero == [local |-> 0, nat |-> FALSE, ip |-> "any", port |-> "any"]

Test == {"binding", "behavior2", "behavior3", "filtering2", "filtering3"}

Behavior == {"UnknownBehavior", "DirectMapping", "EndpointIndependentMapping",
             "AddressDependentMapping", "AddressAndPortDependentMapping"}

Filtering == {"UnknownFiltering", "EndpointIndependentFiltering",
              "AddressDependentFiltering", "AddressAndPortDependentFiltering"}

Results == [fBindingTestSuccess : BOOLEAN, fIsDirect : BOOLEAN, addrMapped : Endpoint,
            fHasOtherAddress : BOOLEAN, addrAP : Addr \cup {addrZero},
            addrAA : Addr \cup {addrZero},
            fBehaviorTestSuccess : BOOLEAN, behavior : Behavior, addrMappingAP : Endpoint,
            fFilteringTestSuccess : BOOLEAN, filtering : Filtering,
            fGotTest2Response : BOOLEAN]

Config == [fBehaviorTest : BOOLEAN, fFilteringTest : BOOLEAN, fTimeoutIsInstant : BOOLEAN,
           timeoutSeconds : Nat, uMaxAttempts : Nat]

(* Initialize: the values a zero stands for, and the tests to run. *)
Timeout == CASE config.fTimeoutIsInstant -> 0
             [] ~config.fTimeoutIsInstant /\ config.timeoutSeconds = 0 -> DefaultTimeout
             [] OTHER -> config.timeoutSeconds

MaxAttempts == IF config.uMaxAttempts = 0 THEN 2 ELSE config.uMaxAttempts

(* Mutant: the filtering tests come first. *)
FilteringTestsFirst ==
  <<"binding">>
    \o (IF config.fFilteringTest THEN <<"filtering2", "filtering3">> ELSE <<>>)
    \o (IF config.fBehaviorTest THEN <<"behavior2", "behavior3">> ELSE <<>>)

testlist ==
  <<"binding">>
    \o (IF config.fBehaviorTest THEN <<"behavior2", "behavior3">> ELSE <<>>)
    \o (IF config.fFilteringTest THEN <<"filtering2", "filtering3">> ELSE <<>>)

InitResults ==
  [fBindingTestSuccess |-> FALSE, fIsDirect |-> FALSE, addrMapped |-> Zero,
   fHasOtherAddress |-> FALSE, addrAP |-> addrZero, addrAA |-> addrZero,
   fBehaviorTestSuccess |-> FALSE, behavior |-> "UnknownBehavior", addrMappingAP |-> Zero,
   fFilteringTestSuccess |-> FALSE, filtering |-> "UnknownFiltering",
   fGotTest2Response |-> FALSE]

Initialize ==
  /\ nTestIndex = 1
  /\ sendCount = 0
  /\ preChecked = FALSE
  /\ elapsed = 0
  /\ completed = [t \in Test |-> FALSE]
  /\ results = InitResults
  /\ call = "loop"
  /\ addrDest = addrZero
  /\ sends = [t \in Test |-> 0]

-----------------------------------------------------------------------------
(***************************************************************************)
(* The tests.                                                              *)
(***************************************************************************)
(* Mutant: a test runs although the question is answered. *)
ReadyAlthoughAnswered(t) ==
  /\ ~completed[t]
  /\ t # "binding" => results.fBindingTestSuccess /\ results.fHasOtherAddress
  /\ t = "behavior3" => results.addrMappingAP # Zero

(* IsReadyToRun. *)
IsReadyToRun(t) ==
  /\ ~completed[t]
  /\ t # "binding" => results.fBindingTestSuccess /\ results.fHasOtherAddress
  /\ t \in {"behavior2", "behavior3"} => ~results.fBehaviorTestSuccess
  /\ t = "behavior3" => results.addrMappingAP # Zero
  /\ t \in {"filtering2", "filtering3"} =>
       ~results.fFilteringTestSuccess /\ ~results.fGotTest2Response

(* PreRunCheck: a direct connection needs neither kind of test. *)
KnownDirect(t) ==
  /\ results.fBindingTestSuccess
  /\ results.fIsDirect
  /\ t \in {"behavior2", "filtering2"}

PreRunResults(t) ==
  IF t = "behavior2"
  THEN [results EXCEPT !.behavior = "DirectMapping", !.fBehaviorTestSuccess = TRUE]
  ELSE [results EXCEPT !.filtering = "EndpointIndependentFiltering",
                       !.fFilteringTestSuccess = TRUE]

(* GetMessage: where a test sends its request, and the CHANGE-REQUEST in it. *)
Destination(t) ==
  CASE t = "behavior2" -> results.addrAP
    [] t = "behavior3" -> results.addrAA
    [] OTHER -> addrServer

ChangeIP(t) == t = "filtering2"

(* Mutant: the third filtering test asks for no change. *)
ChangePortOnce(t) == t = "filtering2"

ChangePort(t) == t \in {"filtering2", "filtering3"}

(* NotifyTimeout. *)
TimeoutResults(t) ==
  CASE t = "binding" -> [results EXCEPT !.fBindingTestSuccess = FALSE]
    [] t \in {"behavior2", "behavior3"} -> [results EXCEPT !.fBehaviorTestSuccess = FALSE]
    [] t = "filtering3" ->
         [results EXCEPT !.fFilteringTestSuccess = TRUE,
                         !.filtering = "AddressAndPortDependentFiltering"]
    [] OTHER -> results

(* ProcessResponse of each test: what a binding response that reports the
   mapped address, and the other address if the server has one, adds. *)
BindingResponse(local, m) ==
  [results EXCEPT
     !.fBindingTestSuccess = TRUE,
     !.fIsDirect = (local = m.mapped),
     !.addrMapped = m.mapped,
     !.fHasOtherAddress = m.hasOther,
     !.addrAA = IF m.hasOther THEN m.other ELSE @,
     !.addrAP = IF m.hasOther THEN [m.other EXCEPT !.port = addrServer.port] ELSE @]

BehaviorResponse2(m) ==
  IF m.mapped = results.addrMapped
  THEN [results EXCEPT !.addrMappingAP = m.mapped,
                       !.fBehaviorTestSuccess = TRUE,
                       !.behavior = "EndpointIndependentMapping"]
  ELSE [results EXCEPT !.addrMappingAP = m.mapped]

BehaviorResponse3(m) ==
  [results EXCEPT !.fBehaviorTestSuccess = TRUE,
                  !.behavior = IF m.mapped = results.addrMappingAP
                               THEN "AddressDependentMapping"
                               ELSE "AddressAndPortDependentMapping"]

FilteringResponse(t) ==
  [results EXCEPT !.fFilteringTestSuccess = TRUE,
                  !.fGotTest2Response = @ \/ t = "filtering2",
                  !.filtering = IF t = "filtering3" THEN "AddressDependentFiltering"
                                ELSE "EndpointIndependentFiltering"]

ResponseResults(t, local, m) ==
  CASE t = "binding" -> BindingResponse(local, m)
    [] t = "behavior2" -> BehaviorResponse2(m)
    [] t = "behavior3" -> BehaviorResponse3(m)
    [] OTHER -> FilteringResponse(t)

-----------------------------------------------------------------------------
(***************************************************************************)
(* One call of GetNextMessage: iterations of its loop on the current test. *)
(***************************************************************************)
InTest(t) ==
  /\ call = "loop"
  /\ nTestIndex <= Len(testlist)
  /\ t = testlist[nTestIndex]

ResultsReady ==
  /\ call = "loop"
  /\ nTestIndex > Len(testlist)
  /\ call' = "RESULTS_READY"
  /\ UNCHANGED <<config, nTestIndex, sendCount, preChecked, elapsed, completed,
                 results, addrDest, sends>>

PreRunCheck(t) ==
  /\ InTest(t)
  /\ ~preChecked
  /\ preChecked' = TRUE
  /\ IF KnownDirect(t)
     THEN /\ completed' = [completed EXCEPT ![t] = TRUE]
          /\ results' = PreRunResults(t)
     ELSE UNCHANGED <<completed, results>>
  /\ UNCHANGED <<config, nTestIndex, sendCount, elapsed, call, addrDest, sends>>

(* Mutant: _sendCount is not reset. *)
NextTestKeepsCount(t) ==
  /\ InTest(t)
  /\ preChecked
  /\ completed[t] \/ ~IsReadyToRun(t)
  /\ nTestIndex' = nTestIndex + 1
  /\ preChecked' = FALSE
  /\ UNCHANGED <<config, sendCount, elapsed, completed, results, call, addrDest, sends>>

NextTest(t) ==
  /\ InTest(t)
  /\ preChecked
  /\ completed[t] \/ ~IsReadyToRun(t)
  /\ nTestIndex' = nTestIndex + 1
  /\ sendCount' = 0
  /\ preChecked' = FALSE
  /\ UNCHANGED <<config, elapsed, completed, results, call, addrDest, sends>>

Running(t) == InTest(t) /\ preChecked /\ ~completed[t] /\ IsReadyToRun(t)

WaitingForResponse == elapsed < Timeout /\ sendCount # 0

(* Mutant: every call restarts the wait. *)
WaitAgain(t) ==
  /\ Running(t)
  /\ WaitingForResponse
  /\ call' = "STILL_WAITING"
  /\ elapsed' = 0
  /\ UNCHANGED <<config, nTestIndex, sendCount, preChecked, completed, results,
                 addrDest, sends>>

StillWaiting(t) ==
  /\ Running(t)
  /\ WaitingForResponse
  /\ call' = "STILL_WAITING"
  /\ UNCHANGED <<config, nTestIndex, sendCount, preChecked, elapsed, completed,
                 results, addrDest, sends>>

(* Mutant: off by one. *)
OneAttemptMore == sendCount > MaxAttempts

NoAttemptsLeft == sendCount >= MaxAttempts

NotifyTimeout(t) ==
  /\ Running(t)
  /\ ~WaitingForResponse
  /\ NoAttemptsLeft
  /\ completed' = [completed EXCEPT ![t] = TRUE]
  /\ results' = TimeoutResults(t)
  /\ UNCHANGED <<config, nTestIndex, sendCount, preChecked, elapsed, call, addrDest, sends>>

(* The test's request is returned to the driver. *)
GetMessage(t) ==
  /\ Running(t)
  /\ ~WaitingForResponse
  /\ ~NoAttemptsLeft
  /\ addrDest' = Destination(t)
  /\ sendCount' = sendCount + 1
  /\ sends' = [sends EXCEPT ![t] = @ + 1]
  /\ elapsed' = 0
  /\ call' = "S_OK"
  /\ UNCHANGED <<config, nTestIndex, preChecked, completed, results>>

-----------------------------------------------------------------------------
(* Mutant: the transaction id is not compared. *)
AcceptsAnyId(t, m) == m.id \in Test

(* BasicReaderValidation: a well-formed message with the transaction id of
   the current test, which is not completed (every test has its own id and
   keeps it when it sends again).  Anything else is dropped. *)
Accepts(t, m) == m.id = t

(* Mutant: the driver reads on before it calls GetNextMessage. *)
ProcessAndReadOn(local, m) ==
  /\ call \in {"S_OK", "STILL_WAITING"}
  /\ LET t == testlist[nTestIndex]
     IN  /\ ~completed[t] /\ Accepts(t, m)
         /\ completed' = [completed EXCEPT ![t] = TRUE]
         /\ results' = ResponseResults(t, local, m)
  /\ UNCHANGED <<config, nTestIndex, sendCount, preChecked, elapsed, call, addrDest, sends>>

(* The driver hands over a message received on the endpoint local, and calls
   GetNextMessage again. *)
ProcessResponse(local, m) ==
  /\ call \in {"S_OK", "STILL_WAITING"}
  /\ call' = "loop"
  /\ LET t == testlist[nTestIndex]
     IN  IF ~completed[t] /\ Accepts(t, m)
         THEN /\ completed' = [completed EXCEPT ![t] = TRUE]
              /\ results' = ResponseResults(t, local, m)
         ELSE UNCHANGED <<completed, results>>
  /\ UNCHANGED <<config, nTestIndex, sendCount, preChecked, elapsed, addrDest, sends>>

(* The driver got nothing and calls GetNextMessage again. *)
NoResponse ==
  /\ call \in {"S_OK", "STILL_WAITING"}
  /\ call' = "loop"
  /\ UNCHANGED <<config, nTestIndex, sendCount, preChecked, elapsed, completed,
                 results, addrDest, sends>>

(* GetMillisecondCounter advances; the time is read once per call. *)
Tick ==
  /\ call \in {"S_OK", "STILL_WAITING"}
  /\ elapsed < Timeout
  /\ elapsed' = elapsed + 1
  /\ UNCHANGED <<config, nTestIndex, sendCount, preChecked, completed, results,
                 call, addrDest, sends>>

LogicTypeOK ==
  /\ config \in Config
  /\ nTestIndex \in 1 .. Len(testlist) + 1
  /\ sendCount \in 0 .. MaxAttempts
  /\ preChecked \in BOOLEAN
  /\ elapsed \in 0 .. Timeout
  /\ completed \in [Test -> BOOLEAN]
  /\ results \in Results
  /\ call \in {"loop", "S_OK", "STILL_WAITING", "RESULTS_READY"}
  /\ addrDest \in Addr \cup {addrZero}
  /\ sends \in [Test -> Nat]
=============================================================================
