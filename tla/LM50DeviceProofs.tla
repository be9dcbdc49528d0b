-------------------------- MODULE LM50DeviceProofs --------------------------
(* Theorems about the device object for any number of transaction numbers,   *)
(* requests and answers under way, and advances of the counters, and for a   *)
(* device that does any of the things a device may do wrong.                 *)
(*                                                                           *)
(* The inductive invariant is CurrentIsOurs: whatever is under way with the  *)
(* current transaction number was asked for by the latest request.  A step   *)
(* that takes from the stream, or forgets it, cannot disturb it; the two     *)
(* that add to it are a request, whose number nothing under way bears, and   *)
(* an answer, which bears the number and the register of its request.        *)

EXTENDS LM50Device, SequenceTheorems, TLAPS

IInv == TypeOK /\ asked <= meter /\ CurrentIsOurs /\ RegistersNotMixed

(* What is in an empty queue, and in one with a new last element.            *)
LEMMA RangeOfEmpty == Range(<<>>) = {}
BY DEF Range

(* See above.                                                                *)
LEMMA RangeOfAppend ==
  ASSUME NEW S, NEW s \in Seq(S), NEW e \in S
  PROVE  /\ Append(s, e) \in Seq(S)
         /\ \A x \in Range(Append(s, e)) : x = e \/ x \in Range(s)
BY DEF Range

(* Taking from the front of a queue adds nothing to it.                      *)
LEMMA RangeOfRest ==
  ASSUME NEW S, NEW s \in Seq(S), NEW k \in 1 .. Len(s)
  PROVE  /\ SubSeq(s, k + 1, Len(s)) \in Seq(S)
         /\ Range(SubSeq(s, k + 1, Len(s))) \subseteq Range(s)
<1> DEFINE r == SubSeq(s, k + 1, Len(s))
<1>1. k \in Nat /\ Len(s) \in Nat /\ k <= Len(s)
  OBVIOUS
<1>2. \A i \in k + 1 .. Len(s) : i \in 1 .. Len(s) /\ s[i] \in S
  BY <1>1
<1>3. /\ r \in Seq(S)
      /\ Len(r) = IF k + 1 <= Len(s) THEN Len(s) - (k + 1) + 1 ELSE 0
      /\ \A i \in 1 .. Len(s) - (k + 1) + 1 : r[i] = s[k + 1 + i - 1]
  BY <1>1, <1>2, SubSeqProperties
<1>4. \A i \in 1 .. Len(r) : r[i] = s[k + i] /\ k + i \in 1 .. Len(s)
  BY <1>1, <1>3
<1>5. DOMAIN r = 1 .. Len(r) /\ DOMAIN s = 1 .. Len(s)
  BY <1>3
<1>6. ASSUME NEW x \in Range(r)
      PROVE  x \in Range(s)
  <2>1. PICK i \in DOMAIN r : x = r[i]
    BY <1>6 DEF Range
  <2>2. x = s[k + i] /\ k + i \in DOMAIN s
    BY <1>4, <1>5, <2>1
  <2>3. QED
    BY <2>2 DEF Range
<1>7. QED
  BY <1>3, <1>6

(* The head of a queue is in it, and its tail adds nothing.                  *)
LEMMA RangeOfHeadTail ==
  ASSUME NEW S, NEW s \in Seq(S), s # <<>>
  PROVE  /\ Head(s) \in S /\ Head(s) \in Range(s)
         /\ Tail(s) \in Seq(S) /\ Range(Tail(s)) \subseteq Range(s)
<1>1. Len(s) \in Nat /\ 1 \in 1 .. Len(s) /\ Head(s) = s[1]
  OBVIOUS
<1>2. Head(s) \in S /\ Head(s) \in Range(s)
  BY <1>1 DEF Range
<1>3. Tail(s) = SubSeq(s, 1 + 1, Len(s))
  BY TailIsSubSeq
<1>4. QED
  BY <1>1, <1>2, <1>3, RangeOfRest

-----------------------------------------------------------------------------
(* Numbers wrap around within their modulus.                                 *)
LEMMA NextIdIsId ==
  ASSUME lastRequestId \in TransactionIds
  PROVE  NextId \in TransactionIds
BY LM50DeviceAssumption DEF LM50DeviceAssumption, TransactionIds, NextId

(* Init satisfies the invariant: nothing is under way.                       *)
LEMMA Initially == Init => IInv
<1> SUFFICES ASSUME Init PROVE IInv
  OBVIOUS
<1>1. 0 \in TransactionIds
  BY LM50DeviceAssumption DEF LM50DeviceAssumption, TransactionIds
<1>2. <<>> \in Seq(Requests) /\ <<>> \in Seq(Answers)
  OBVIOUS
<1>3. 0 <= 1 /\ 0 \in Nat /\ 1 \in Nat
  OBVIOUS
<1>4. TypeOK /\ asked <= meter
  BY <1>1, <1>2, <1>3, Zenon DEF Init, TypeOK
<1>5. CurrentIsOurs /\ RegistersNotMixed
  BY RangeOfEmpty, Zenon DEF Init, CurrentIsOurs, RegistersNotMixed, UnderWay
<1>6. QED
  BY <1>4, <1>5, Zenon DEF IInv

(* A step that only takes away from what is under way, and begins no other   *)
(* exchange, keeps CurrentIsOurs.                                            *)
LEMMA FewerUnderWay ==
  ASSUME CurrentIsOurs,
         Range(requests') \subseteq Range(requests),
         Range(answers') \subseteq Range(answers),
         UNCHANGED <<meter, lastRequestId, asked>>,
         pc' \in Registers => pc' = pc
  PROVE  CurrentIsOurs'
BY DEF CurrentIsOurs, UnderWay, Waiting

(* Reading at least one answer to its end leaves a rest of the stream.       *)
LEMMA TakeOffLeavesARest ==
  ASSUME TypeOK, TakeOff
  PROVE  /\ Head(answers) \in Answers /\ Head(answers) \in Range(answers)
         /\ answers' \in Seq(Answers)
         /\ Range(answers') \subseteq Range(answers)
         /\ torn' \in BOOLEAN
<1>1. PICK k \in 1 .. Len(answers) :
        /\ answers' = SubSeq(answers, k + 1, Len(answers))
        /\ torn' \in BOOLEAN
  BY DEF TakeOff
<1>2. answers \in Seq(Answers)
  BY DEF TypeOK
<1>3. answers # <<>>
  <2>1. Len(<<>>) = 0
    OBVIOUS
  <2>2. QED
    BY <1>2, <2>1
<1>4. QED
  BY <1>1, <1>2, <1>3, RangeOfRest, RangeOfHeadTail

(* An exchange that takes an answer does so.                                 *)
LEMMA TakeLeavesARest ==
  ASSUME TypeOK, Take
  PROVE  /\ Waiting
         /\ Head(answers) \in Answers /\ Head(answers) \in Range(answers)
         /\ answers' \in Seq(Answers)
         /\ Range(answers') \subseteq Range(answers)
         /\ torn' \in BOOLEAN
BY TakeOffLeavesARest DEF Take

-----------------------------------------------------------------------------
(* The device and the network.                                               *)

(* Counting keeps the invariant: what was measured after the latest request  *)
(* still was.                                                                *)
LEMMA CountKeeps == ASSUME IInv, Count PROVE IInv'
<1>1. meter \in Nat /\ asked \in Nat /\ asked <= meter
  BY Zenon DEF IInv, TypeOK
<1>2. /\ meter' = meter + 1
      /\ UNCHANGED <<conn, requests, answers, torn, pc, lastRequestId, revision,
                     serialNo, channels, lastUpdate, ended, asked>>
  BY DEF Count, link, values
<1>3. meter' \in Nat /\ (asked <= meter)'
  BY <1>1, <1>2
<1>4. TypeOK' /\ (asked <= meter)' /\ RegistersNotMixed'
  BY <1>2, <1>3, Zenon DEF IInv, TypeOK, RegistersNotMixed
<1>5. ASSUME NEW m \in UnderWay', m.id = lastRequestId'
      PROVE  (Waiting' => m.reg = pc')
             /\ (m \in Range(answers') => m.at \in (asked .. meter)')
  <2>1. /\ m \in UnderWay /\ m.id = lastRequestId
        /\ pc' = pc /\ asked' = asked /\ answers' = answers
        /\ meter' = meter + 1 /\ Waiting' = Waiting
    BY <1>5 DEF Count, link, UnderWay, Waiting
  <2>2. (Waiting => m.reg = pc) /\ (m \in Range(answers) => m.at \in asked .. meter)
    BY <2>1 DEF IInv, CurrentIsOurs
  <2>3. asked .. meter \subseteq (asked .. meter)'
    BY <1>1, <1>2
  <2>4. QED
    BY <2>1, <2>2, <2>3, Zenon
<1>6. CurrentIsOurs'
  BY <1>5 DEF CurrentIsOurs
<1>7. QED
  BY <1>4, <1>6 DEF IInv

(* An answer bears the number and the register of its request, and what the  *)
(* device measures as it answers.                                            *)
LEMMA DeviceAnswersKeeps == ASSUME IInv, DeviceAnswers PROVE IInv'
<1>1. /\ requests \in Seq(Requests) /\ answers \in Seq(Answers)
      /\ requests # <<>> /\ meter \in Nat /\ asked \in Nat /\ asked <= meter
  BY DEF IInv, TypeOK, DeviceAnswers
<1> DEFINE r == Head(requests)
<1>2. /\ r \in Requests /\ r \in Range(requests)
      /\ Tail(requests) \in Seq(Requests)
      /\ Range(Tail(requests)) \subseteq Range(requests)
  BY <1>1, RangeOfHeadTail
<1>3. PICK a \in AnswersTo(r) : answers' = Append(answers, a)
  BY DEF DeviceAnswers
<1>4. a \in Answers /\ a.id = r.id /\ a.reg = r.reg /\ a.at = meter
  BY <1>1, <1>2, <1>3 DEF AnswersTo, Answers, Requests, Shapes
<1>5. /\ answers' \in Seq(Answers)
      /\ \A x \in Range(answers') : x = a \/ x \in Range(answers)
  BY <1>1, <1>3, <1>4, RangeOfAppend
<1>6. requests' \in Seq(Requests) /\ Range(requests') \subseteq Range(requests)
  BY <1>1, <1>2 DEF DeviceAnswers
<1>7. UNCHANGED <<conn, torn, meter, pc, lastRequestId, revision, serialNo,
                  channels, lastUpdate, ended, asked>>
  BY DEF DeviceAnswers, values
<1>8. TypeOK' /\ (asked <= meter)' /\ RegistersNotMixed'
  BY <1>5, <1>6, <1>7 DEF IInv, TypeOK, RegistersNotMixed
<1>9. r.id = lastRequestId => (Waiting => r.reg = pc)
  BY <1>2 DEF IInv, CurrentIsOurs, UnderWay
<1>10. \A m \in UnderWay : m.id = lastRequestId =>
         /\ Waiting => m.reg = pc
         /\ m \in Range(answers) => m.at \in asked .. meter
  BY DEF IInv, CurrentIsOurs
<1>11. meter \in asked .. meter
  BY <1>1
<1>12. ASSUME NEW m \in UnderWay', m.id = lastRequestId
       PROVE  (Waiting => m.reg = pc)
              /\ (m \in Range(answers') => m.at \in asked .. meter)
  <2>1. m = a \/ m \in UnderWay
    BY <1>5, <1>6, <1>12 DEF UnderWay
  <2>2. CASE m = a
    BY <1>4, <1>9, <1>11, <1>12, <2>2, Zenon
  <2>3. CASE m \in UnderWay /\ m # a
    BY <1>5, <1>10, <1>12, <2>3
  <2>4. QED
    BY <2>1, <2>2, <2>3
<1>13. CurrentIsOurs'
  BY <1>7, <1>12 DEF CurrentIsOurs, Waiting
<1>14. QED
  BY <1>8, <1>13 DEF IInv

(* A request that is not answered is forgotten.                              *)
LEMMA DeviceIgnoresKeeps == ASSUME IInv, DeviceIgnores PROVE IInv'
<1>1. requests \in Seq(Requests) /\ requests # <<>> /\ requests' = Tail(requests)
  BY DEF IInv, TypeOK, DeviceIgnores
<1>2. requests' \in Seq(Requests) /\ Range(requests') \subseteq Range(requests)
  BY <1>1, RangeOfHeadTail
<1>3. UNCHANGED <<conn, answers, torn, meter, pc, lastRequestId, revision,
                  serialNo, channels, lastUpdate, ended, asked>>
  BY DEF DeviceIgnores, values
<1>4. TypeOK' /\ (asked <= meter)' /\ RegistersNotMixed'
  BY <1>2, <1>3 DEF IInv, TypeOK, RegistersNotMixed
<1>5. CurrentIsOurs'
  BY <1>2, <1>3, FewerUnderWay DEF IInv
<1>6. QED
  BY <1>4, <1>5 DEF IInv

(* So is every request when the device closes the connection.                *)
LEMMA DeviceClosesKeeps == ASSUME IInv, DeviceCloses PROVE IInv'
<1>1. /\ requests' = <<>> /\ conn' = "broken"
      /\ UNCHANGED <<answers, torn, meter, pc, lastRequestId, revision,
                     serialNo, channels, lastUpdate, ended, asked>>
  BY DEF DeviceCloses, values
<1>2. <<>> \in Seq(Requests)
  OBVIOUS
<1>3. TypeOK' /\ (asked <= meter)' /\ RegistersNotMixed'
  BY <1>1, <1>2, Zenon DEF IInv, TypeOK, RegistersNotMixed
<1>4. Range(requests') \subseteq Range(requests)
  BY <1>1, RangeOfEmpty
<1>5. CurrentIsOurs'
  BY <1>1, <1>4, FewerUnderWay DEF IInv
<1>6. QED
  BY <1>3, <1>5 DEF IInv

-----------------------------------------------------------------------------
(* The calls.                                                                *)

(* Connecting and disconnecting forget everything that was under way.        *)
LEMMA RelinkKeeps == ASSUME IInv, Connect \/ Disconnect PROVE IInv'
<1>1. /\ requests' = <<>> /\ answers' = <<>> /\ torn' = FALSE
      /\ conn' \in {"closed", "opened", "connected"}
      /\ ended' \in {"returned", "runtime_error"}
      /\ UNCHANGED <<meter, pc, lastRequestId, revision, serialNo, channels,
                     lastUpdate, asked>>
  BY DEF Connect, Disconnect, NewLink, values
<1>2. <<>> \in Seq(Requests) /\ <<>> \in Seq(Answers)
  OBVIOUS
<1>3. TypeOK' /\ (asked <= meter)' /\ RegistersNotMixed'
  BY <1>1, <1>2, Zenon DEF IInv, TypeOK, RegistersNotMixed
<1>4. Range(requests') \subseteq Range(requests) /\ Range(answers') \subseteq Range(answers)
  BY <1>1, RangeOfEmpty
<1>5. CurrentIsOurs'
  BY <1>1, <1>4, FewerUnderWay DEF IInv
<1>6. QED
  BY <1>3, <1>5 DEF IInv

(* A request takes a number that nothing under way bears.                    *)
LEMMA AskKeeps ==
  ASSUME IInv, NEW reg \in Registers, Ask(reg)
  PROVE  IInv'
<1> DEFINE r == [id |-> NextId, reg |-> reg]
<1>1. NextId \in TransactionIds /\ r \in Requests
  BY NextIdIsId DEF IInv, TypeOK, Requests
<1>2. requests \in Seq(Requests)
  BY DEF IInv, TypeOK
<1>3. /\ lastRequestId' = NextId /\ asked' = meter
      /\ requests' \in {requests, Append(requests, r)}
      /\ pc' \in {reg, "idle"} /\ ended' \in {ended, "other"}
      /\ UNCHANGED <<conn, answers, torn, meter, revision, serialNo, channels,
                     lastUpdate>>
  BY DEF Ask, Ends, values
<1>4. /\ requests' \in Seq(Requests)
      /\ \A x \in Range(requests') : x = r \/ x \in Range(requests)
  BY <1>1, <1>2, <1>3, RangeOfAppend
<1>5. meter \in Nat /\ meter <= meter
  <2>1. meter \in Nat
    BY Zenon DEF IInv, TypeOK
  <2>2. QED
    BY <2>1
<1>6. TypeOK' /\ (asked <= meter)' /\ RegistersNotMixed'
  BY <1>1, <1>3, <1>4, <1>5, Zenon DEF IInv, TypeOK, RegistersNotMixed
<1>7. \A m \in UnderWay : m.id # NextId
  BY DEF Ask
<1>8. ASSUME NEW m \in UnderWay', m.id = lastRequestId'
      PROVE  m = r /\ m \notin Range(answers')
  <2>1. m = r \/ m \in UnderWay
    BY <1>3, <1>4, <1>8 DEF UnderWay
  <2>2. m \notin UnderWay
    BY <1>3, <1>7, <1>8
  <2>3. QED
    BY <1>3, <2>1, <2>2 DEF UnderWay
<1>9. r.reg = reg
  OBVIOUS
<1>10. "idle" \notin Registers
  BY DEF Registers
<1>11. CurrentIsOurs'
  BY <1>3, <1>8, <1>9, <1>10 DEF CurrentIsOurs, Waiting
<1>12. QED
  BY <1>6, <1>11 DEF IInv

-----------------------------------------------------------------------------
(* The ends of an exchange.                                                  *)

(* One that fails without a datagram adds nothing to the stream.             *)
LEMMA NothingTakenKeeps ==
  ASSUME IInv, TimesOut \/ Breaks \/ ReceivesTorn
  PROVE  IInv'
<1>1. /\ pc' = "idle" /\ ended' \in {"runtime_error", "other"}
      /\ UNCHANGED <<conn, requests, meter, lastRequestId, revision, serialNo,
                     channels, lastUpdate, asked>>
  BY DEF TimesOut, Breaks, ReceivesTorn, Ends, link, values
<1>2. (answers' = answers /\ torn' \in {torn, TRUE}) \/ TakeOff
  BY DEF TimesOut, Breaks, ReceivesTorn, link
<1>3. answers \in Seq(Answers) /\ torn \in BOOLEAN
  BY Zenon DEF IInv, TypeOK
<1>4. /\ answers' \in Seq(Answers) /\ torn' \in BOOLEAN
      /\ Range(answers') \subseteq Range(answers)
  <2>1. CASE answers' = answers /\ torn' \in {torn, TRUE}
    BY <1>3, <2>1, Zenon
  <2>2. CASE TakeOff
    BY <2>2, TakeOffLeavesARest DEF IInv
  <2>3. QED
    BY <1>2, <2>1, <2>2
<1>5. TypeOK' /\ (asked <= meter)' /\ RegistersNotMixed'
  BY <1>1, <1>4, Zenon DEF IInv, TypeOK, RegistersNotMixed
<1>6. CurrentIsOurs'
  BY <1>1, <1>4, FewerUnderWay DEF IInv, Registers
<1>7. QED
  BY <1>5, <1>6 DEF IInv

(* One whose datagram is refused stores nothing.                             *)
LEMMA RefusedKeeps ==
  ASSUME IInv, \/ ReceivesMalformed \/ ReceivesError
               \/ ReceivesUnexpected \/ ReceivesForeign
  PROVE  IInv'
<1>1. /\ Take
      /\ pc' = "idle" /\ ended' \in {"runtime_error", "other"}
      /\ UNCHANGED <<conn, requests, meter, lastRequestId, revision, serialNo,
                     channels, lastUpdate, asked>>
  BY DEF ReceivesMalformed, ReceivesError, ReceivesUnexpected, ReceivesForeign, Ends, values
<1>2. /\ answers' \in Seq(Answers) /\ torn' \in BOOLEAN
      /\ Range(answers') \subseteq Range(answers)
  BY <1>1, TakeLeavesARest DEF IInv
<1>3. TypeOK' /\ (asked <= meter)' /\ RegistersNotMixed'
  BY <1>1, <1>2 DEF IInv, TypeOK, RegistersNotMixed
<1>4. CurrentIsOurs'
  BY <1>1, <1>2, FewerUnderWay DEF IInv, Registers
<1>5. QED
  BY <1>3, <1>4 DEF IInv

(* The datagram that is taken for the answer is an answer to the latest      *)
(* request, given after it was sent.                                         *)
LEMMA AcceptedIsOurs ==
  ASSUME IInv, Receives
  PROVE  LET a == Head(answers) IN
           a \in Answers /\ a.reg = pc /\ a.at \in asked .. meter
<1> DEFINE a == Head(answers)
<1>1. Take /\ Belongs(a)
  BY DEF Receives
<1>2. Waiting /\ a \in Answers /\ a \in Range(answers)
  BY <1>1, TakeLeavesARest DEF IInv
<1>3. QED
  BY <1>1, <1>2 DEF IInv, CurrentIsOurs, UnderWay, Belongs

(* Storing it keeps the invariant.                                           *)
LEMMA ReceivesKeeps == ASSUME IInv, Receives PROVE IInv'
<1> DEFINE a == Head(answers)
<1>1. /\ Take
      /\ StoreRevision(a) \/ StoreSerial(a) \/ StoreChannels(a)
      /\ UNCHANGED <<conn, requests, meter, lastRequestId, asked>>
  BY DEF Receives
<1>2. /\ answers' \in Seq(Answers) /\ torn' \in BOOLEAN
      /\ Range(answers') \subseteq Range(answers)
  BY <1>1, TakeLeavesARest DEF IInv
<1>3. a \in Answers /\ a.reg = pc
  BY AcceptedIsOurs
<1>4. a.at \in Nat
  BY <1>3 DEF Answers
<1>5. /\ pc' \in {"idle", "steady"}
      /\ ended' \in {ended, "returned", "runtime_error", "other"}
      /\ revision' \in {revision, "revision", ""}
      /\ serialNo' \in {serialNo, "serial"}
      /\ channels' \in {channels, a.at} /\ lastUpdate' \in {lastUpdate, meter}
  <2>1. CASE StoreRevision(a)
    BY <1>3, <2>1 DEF StoreRevision
  <2>2. CASE StoreSerial(a)
    BY <1>3, <2>2 DEF StoreSerial, Ends
  <2>3. CASE StoreChannels(a)
    BY <2>3 DEF StoreChannels, Ends
  <2>4. QED
    BY <1>1, <2>1, <2>2, <2>3
<1>6. "revision" \in Registers /\ "serial" \in Registers
  BY DEF Registers
<1>7. TypeOK' /\ (asked <= meter)' /\ RegistersNotMixed'
  <2>1. channels' \in Nat /\ lastUpdate' \in Nat
    BY <1>4, <1>5, Zenon DEF IInv, TypeOK
  <2>2. /\ revision' \in Registers \cup {""}
        /\ serialNo' \in Registers \cup {""}
    BY <1>5, <1>6, Zenon DEF IInv, TypeOK
  <2>3. /\ pc' \in Registers \cup {"idle", "steady"}
        /\ ended' \in {"returned", "runtime_error", "other"}
    BY <1>5, Zenon DEF IInv, TypeOK
  <2>4. TypeOK' /\ (asked <= meter)'
    BY <1>1, <1>2, <2>1, <2>2, <2>3, Zenon DEF IInv, TypeOK
  <2>5. RegistersNotMixed'
    BY <1>5, Zenon DEF IInv, RegistersNotMixed
  <2>6. QED
    BY <2>4, <2>5
<1>8. CurrentIsOurs'
  BY <1>1, <1>2, <1>5, FewerUnderWay DEF IInv, Registers
<1>9. QED
  BY <1>7, <1>8 DEF IInv

-----------------------------------------------------------------------------
(* Every step keeps the invariant.                                           *)
LEMMA Keeps == ASSUME IInv, Next PROVE IInv'
<1>1. CASE Caller
  BY <1>1, RelinkKeeps, AskKeeps
     DEF Caller, ReadSteadyValues, AskSerial, UpdateVolatileValues, Registers
<1>2. CASE Exchange
  BY <1>2, NothingTakenKeeps, RefusedKeeps, ReceivesKeeps DEF Exchange
<1>3. CASE Device
  BY <1>3, CountKeeps, DeviceAnswersKeeps, DeviceIgnoresKeeps,
     DeviceClosesKeeps DEF Device
<1>4. QED
  BY <1>1, <1>2, <1>3 DEF Next

(* A step that changes nothing does, too.                                    *)
LEMMA StutterKeeps == ASSUME IInv, UNCHANGED vars PROVE IInv'
<1>1. UNCHANGED <<conn, requests, answers, torn, meter, pc, lastRequestId,
                  revision, serialNo, channels, lastUpdate, ended, asked>>
  BY DEF vars, link, values
<1>2. TypeOK' /\ (asked <= meter)' /\ RegistersNotMixed'
  BY <1>1 DEF IInv, TypeOK, RegistersNotMixed
<1>3. CurrentIsOurs'
  BY <1>1, FewerUnderWay DEF IInv
<1>4. QED
  BY <1>2, <1>3 DEF IInv

(* The invariant holds throughout.                                           *)
LEMMA Inductive == Spec => []IInv
<1>1. IInv /\ [Next]_vars => IInv'
  BY Keeps, StutterKeeps
<1>2. QED
  BY <1>1, Initially, PTL DEF Spec

(* Every variable keeps its type.                                            *)
THEOREM Types == Spec => []TypeOK
<1>1. IInv => TypeOK
  BY DEF IInv
<1>2. QED
  BY <1>1, Inductive, PTL

(* Whatever is under way with the current number was asked for last.         *)
THEOREM CurrentNumberIsOurs == Spec => []CurrentIsOurs
<1>1. IInv => CurrentIsOurs
  BY DEF IInv
<1>2. QED
  BY <1>1, Inductive, PTL

(* readSteadyValues never takes one of its two registers for the other, nor  *)
(* an answer to an earlier call for an answer to its own.                    *)
THEOREM RegistersAreNotMixed == Spec => []RegistersNotMixed
<1>1. IInv => RegistersNotMixed
  BY DEF IInv
<1>2. QED
  BY <1>1, Inductive, PTL

-----------------------------------------------------------------------------
(* Every step is one of Readings, or leaves its variables alone.             *)
LEMMA PromiseStep ==
  ASSUME IInv, [Next]_vars
  PROVE  [Promise!Next]_(Promise!vars)
<1>1. CASE Count
  <2>1. meter \in Nat
    BY Zenon DEF IInv, TypeOK
  <2>2. /\ meter' = meter + 1
        /\ UNCHANGED <<pc, asked, channels, lastUpdate>>
    BY <1>1 DEF Count, values
  <2>3. meter' > meter
    BY <2>1, <2>2
  <2>4. QED
    BY <2>2, <2>3 DEF Promise!Next, Promise!Count
<1>2. ASSUME UNCHANGED <<meter, channels, lastUpdate, asked, pc>>
      PROVE  UNCHANGED Promise!vars
  BY <1>2 DEF Promise!vars
<1>3. CASE DeviceAnswers \/ DeviceIgnores \/ DeviceCloses
  BY <1>2, <1>3 DEF DeviceAnswers, DeviceIgnores, DeviceCloses, values
<1>4. CASE Connect \/ Disconnect
  BY <1>2, <1>4 DEF Connect, Disconnect, values
<1>5. ASSUME pc # "channels", pc' # "channels",
             UNCHANGED <<meter, channels, lastUpdate>>
      PROVE  UNCHANGED Promise!vars
  BY <1>5 DEF Promise!vars
<1>6. CASE ReadSteadyValues \/ AskSerial
  BY <1>5, <1>6
     DEF ReadSteadyValues, AskSerial, Free, Ask, Ends, values
<1>7. CASE UpdateVolatileValues
  <2>1. /\ pc = "idle" /\ asked' = meter
        /\ pc' \in {"channels", "idle"}
        /\ UNCHANGED <<meter, channels, lastUpdate>>
    BY <1>7 DEF UpdateVolatileValues, Free, Ask, Ends, values
  <2>2. CASE pc' = "channels"
    BY <2>1, <2>2 DEF Promise!Next, Promise!Call
  <2>3. CASE pc' = "idle"
    BY <1>5, <2>1, <2>3
  <2>4. QED
    BY <2>1, <2>2, <2>3
<1>8. ASSUME pc' = "idle", UNCHANGED <<meter, channels, lastUpdate>>
      PROVE  [Promise!Next]_(Promise!vars)
  <2>1. CASE pc = "channels"
    BY <1>8, <2>1 DEF Promise!Next, Promise!Fail
  <2>2. CASE pc # "channels"
    BY <1>5, <1>8, <2>2
  <2>3. QED
    BY <2>1, <2>2
<1>9. CASE TimesOut \/ Breaks \/ ReceivesTorn \/ ReceivesMalformed
           \/ ReceivesError \/ ReceivesUnexpected \/ ReceivesForeign
  BY <1>8, <1>9 DEF TimesOut, Breaks, ReceivesTorn, ReceivesMalformed, ReceivesError,
                    ReceivesUnexpected, ReceivesForeign, Ends, values
<1>10. CASE Receives
  <2> DEFINE a == Head(answers)
  <2>1. UNCHANGED <<meter, asked>>
    BY <1>10 DEF Receives
  <2>2. CASE StoreRevision(a) \/ StoreSerial(a)
    BY <1>5, <2>1, <2>2 DEF StoreRevision, StoreSerial, Ends
  <2>3. CASE StoreChannels(a) /\ a.shape = "good"
    <3>1. a.at \in asked .. meter
      BY <1>10, AcceptedIsOurs
    <3>2. /\ pc = "channels" /\ pc' = "idle" /\ channels' = a.at
          /\ lastUpdate' = meter
      BY <2>3 DEF StoreChannels, Ends
    <3>3. QED
      BY <2>1, <3>1, <3>2 DEF Promise!Next, Promise!Update
  <2>4. CASE StoreChannels(a) /\ a.shape # "good"
    BY <1>8, <2>1, <2>4 DEF StoreChannels, Ends
  <2>5. QED
    BY <1>10, <2>2, <2>3, <2>4 DEF Receives
<1>11. CASE UNCHANGED vars
  BY <1>2, <1>11 DEF vars, values
<1>12. QED
  BY <1>1, <1>3, <1>4, <1>6, <1>7, <1>9, <1>10, <1>11
     DEF Next, Caller, Exchange, Device

(* A successful updateVolatileValues stores what the device measured after   *)
(* it was asked, and the time it ended; a failed one stores nothing.         *)
THEOREM ImplementsReadings == Spec => KeepsReadings
<1>1. Init => Promise!Init
  <2>1. 1 \in Nat
    OBVIOUS
  <2>2. QED
    BY <2>1, Zenon DEF Init, Promise!Init
<1>2. QED
  BY <1>1, PromiseStep, Inductive, PTL DEF Spec, KeepsReadings, Promise!Spec

=============================================================================
