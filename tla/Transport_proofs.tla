-------------------------- MODULE Transport_proofs --------------------------
(***************************************************************************)
(* Proofs about Transport, for every configuration, answer and limit: what *)
(* a safe retry and a deadline are worth does not depend on what the bytes *)
(* say, nor on how they are cut; and however they are cut, what a consumer *)
(* receives is the stream the answer says.                                 *)
(***************************************************************************)
EXTENDS Transport, TLAPS, FiniteSetTheorems, WellFoundedInduction

NetType == [conn : {"none", "connecting", "open", "closed"}, sent : BOOLEAN, arrived : Int,
            end : {"open", "closed", "reset"}]

\* A request that was handed over is past connecting, and only a stream of the synchronous
\* transport waits for its consumer after that; until the answer begins there is no result.
Sent == /\ net.sent => /\ pc \notin {"start", "connect"}
                       /\ pc = "idle" => ~Async
        /\ pc \in {"start", "idle", "connect", "exchange"} => result = None

\* The clock of the asynchronous transport is never turned back while a call lasts.
OneClock == /\ time \in [left : 0..Timeout, spent : 0..Timeout]
            /\ Async => time.left + time.spent = Timeout

Inv == net \in NetType /\ Sent /\ RetrySafeIsUnsent /\ OneClock

LEMMA TimeoutNat == Timeout \in Nat \ {0}
BY TransportAssumption

\* A call that fails without a certificate.
LEMMA FailsKeeps == ASSUME Inv, NEW failure, Fails(failure) PROVE Inv'
<1>1. net' \in NetType
  BY DEF Inv, Fails, Ends, NetType
<1>2. pc' = "done" /\ UNCHANGED <<time, call>> /\ result' = [outcome |-> failure, safe |-> FALSE]
  BY DEF Fails, Ends
<1>3. Sent' /\ RetrySafeIsUnsent'
  BY <1>2 DEF Sent, RetrySafeIsUnsent
<1> QED BY <1>1, <1>2, <1>3 DEF Inv, OneClock, Async

\* What neither turns the clock back nor sends, and ends no call with a certificate.
LEMMA QuietKeeps ==
    ASSUME Inv, UNCHANGED call, net' \in NetType, net'.sent = net.sent,
           time' = time \/ Waiting,
           pc' \in {"read", "decode", "paused", "done"} \/ pc' = pc 
           \/ (pc' = "idle" /\ (Async => ~net.sent) /\ result' = None),
           result' = result \/ (pc' = "done" /\ result'.safe = FALSE)
    PROVE  Inv'
<1>1. Async' = Async
  BY DEF Async
<1>2. Sent'
  BY <1>1 DEF Inv, Sent
<1>3. RetrySafeIsUnsent'
  BY DEF Inv, RetrySafeIsUnsent
<1>4. CASE time' = time
  BY <1>1, <1>2, <1>3, <1>4 DEF Inv, OneClock
<1>5. CASE time' # time
  <2>1. ~Async /\ time' = [time EXCEPT !.left = Timeout]
    BY <1>5 DEF Waiting
  <2>2. OneClock'
    BY <1>1, <2>1, TimeoutNat DEF Inv, OneClock
  <2> QED BY <1>2, <1>3, <2>2 DEF Inv
<1> QED BY <1>4, <1>5

LEMMA DialKeeps == ASSUME Inv, Dial, ~net.sent, result = None PROVE Inv'
<1>1. CASE BadRequest
  BY <1>1, FailsKeeps DEF Dial
<1>2. CASE ~BadRequest
  <2>1. /\ pc' = "connect" /\ net' = [net EXCEPT !.conn = "connecting"] /\ time' = [left |-> Timeout, spent |-> 0]
        /\ UNCHANGED <<call, result>>
    BY <1>2 DEF Dial
  <2>2. net' \in NetType /\ ~net'.sent
    BY <2>1 DEF Inv, NetType
  <2>3. OneClock'
    BY <2>1, TimeoutNat DEF OneClock
  <2> QED BY <2>1, <2>2, <2>3 DEF Inv, Sent, RetrySafeIsUnsent
<1> QED BY <1>1, <1>2

LEMMA OpeningKeeps == ASSUME Inv, Begin \/ Connected \/ ConnectFails \/ ExchangeFails \/ ResponseHead PROVE Inv'
<1>1. CASE Begin
  <2>1. ~net.sent /\ result = None
    BY <1>1 DEF Begin, Inv, Sent
  <2>2. CASE pc' = "idle" /\ UNCHANGED <<call, net, dec, time, delivered, result>>
    BY <2>1, <2>2, QuietKeeps DEF Inv
  <2> QED BY <1>1, <2>1, <2>2, DialKeeps, FailsKeeps DEF Begin
<1>2. CASE Connected
  <2>1. /\ pc' = "exchange" /\ net' = [net EXCEPT !.conn = "open", !.sent = TRUE] /\ Waiting
        /\ UNCHANGED <<call, result>> /\ pc = "connect"
    BY <1>2 DEF Connected
  <2>2. net' \in NetType
    BY <2>1 DEF Inv, NetType
  <2>3. OneClock'
    BY <2>1, TimeoutNat DEF Inv, OneClock, Waiting, Async
  <2>4. Sent' /\ RetrySafeIsUnsent'
    BY <2>1 DEF Inv, Sent, RetrySafeIsUnsent
  <2> QED BY <2>2, <2>3, <2>4 DEF Inv
<1>3. CASE ConnectFails
  <2>1. /\ pc = "connect" /\ pc' = "done" /\ UNCHANGED <<call, time>>
        /\ net' = [net EXCEPT !.conn = IF @ = "none" THEN @ ELSE "closed"]
    BY <1>3 DEF ConnectFails, Ends
  <2>2. net' \in NetType /\ ~net'.sent
    BY <2>1 DEF Inv, Sent, NetType
  <2> QED BY <2>1, <2>2 DEF Inv, Sent, RetrySafeIsUnsent, OneClock, Async
<1>4. CASE ExchangeFails
  <2>1. PICK failure : Ends(failure, FALSE)
    BY <1>4 DEF ExchangeFails
  <2> QED BY <1>4, <2>1, FailsKeeps DEF ExchangeFails, Fails
<1>5. CASE ResponseHead
  BY <1>5, FailsKeeps, QuietKeeps DEF ResponseHead, Inv, Sent, Streaming
<1> QED BY <1>1, <1>2, <1>3, <1>4, <1>5

LEMMA TakeKeeps ==
    ASSUME Inv, NEW line, NEW size, NEW next \in {"read", "decode"}, Take(line, size, next)
    PROVE  Inv'
<1>1. CASE Meaning(line, size) = "malformed"
  BY <1>1, FailsKeeps DEF Take
<1>2. CASE Meaning(line, size) = "done"
  <2>1. /\ pc' = "done" /\ UNCHANGED <<call, time>> /\ result' = [outcome |-> "ok", safe |-> FALSE]
        /\ net' = [net EXCEPT !.conn = IF @ = "none" THEN @ ELSE "closed"]
    BY <1>2 DEF Take, Ends
  <2>2. net' \in NetType /\ net'.sent = net.sent
    BY <2>1 DEF Inv, NetType
  <2> QED BY <2>1, <2>2, QuietKeeps
<1>3. CASE Meaning(line, size) \notin {"malformed", "done"}
  <2>1. pc' \in {"read", "decode", "paused"} /\ UNCHANGED <<call, net, result>> /\ (time' = time \/ Waiting)
    BY <1>3 DEF Take
  <2> QED BY <2>1, QuietKeeps DEF Inv
<1> QED BY <1>1, <1>2, <1>3

LEMMA ReadingKeeps == ASSUME Inv, ReadFails \/ Body \/ ReadLine \/ Feed \/ Decode PROVE Inv'
<1>1. CASE \E failure : Fails(failure)
  BY <1>1, FailsKeeps
<1>2. CASE \E line, size : \E next \in {"read", "decode"} : Take(line, size, next)
  BY <1>2, TakeKeeps
<1>3. CASE ReadFails
  BY <1>1, <1>3 DEF ReadFails
<1>4. CASE Body
  <2>1. CASE Ends("ok", FALSE) /\ UNCHANGED <<call, dec, time>>
    <3>1. net' \in NetType /\ net'.sent = net.sent
      BY <2>1 DEF Inv, Ends, NetType
    <3> QED BY <2>1, <3>1, QuietKeeps DEF Ends
  <2> QED BY <1>1, <1>4, <2>1 DEF Body
<1>5. CASE ReadLine
  BY <1>1, <1>2, <1>5 DEF ReadLine
<1>6. CASE Feed
  <2>1. CASE pc' = "decode" /\ UNCHANGED <<call, net, time, result>>
    BY <2>1, QuietKeeps DEF Inv
  <2> QED BY <1>1, <1>6, <2>1 DEF Feed
<1>7. CASE Decode
  <2>1. CASE pc' = "read" /\ UNCHANGED <<call, net, time, result>>
    BY <2>1, QuietKeeps DEF Inv
  <2> QED BY <1>1, <1>2, <1>7, <2>1 DEF Decode
<1> QED BY <1>3, <1>4, <1>5, <1>6, <1>7

LEMMA UpstreamKeeps == ASSUME Inv, Arrive \/ Stop PROVE Inv'
<1>1. net' \in NetType /\ net'.sent = net.sent
  BY DEF Inv, Arrive, Stop, NetType
<1> QED BY <1>1, QuietKeeps DEF Arrive, Stop

LEMMA ConsumerKeeps == ASSUME Inv, Pull \/ Close \/ Cancel PROVE Inv'
<1>1. CASE pc = "idle" /\ Async /\ Dial
  BY <1>1, DialKeeps DEF Inv, Sent
<1>2. CASE Pull /\ ~(pc = "idle" /\ Async /\ Dial)
  BY <1>2, QuietKeeps DEF Pull, Inv
<1>3. CASE Close
  <2>1. net' \in NetType /\ net'.sent = net.sent
    BY <1>3 DEF Inv, Close, NetType
  <2> QED BY <1>3, <2>1, QuietKeeps DEF Close
<1>4. CASE Cancel
  BY <1>4, FailsKeeps DEF Cancel
<1> QED BY <1>1, <1>2, <1>3, <1>4

LEMMA TickKeeps == ASSUME Inv, Tick PROVE Inv'
<1>1. time \in [left : 0..Timeout, spent : 0..Timeout] /\ Timeout \in Nat
  BY TimeoutNat DEF Inv, OneClock
<1>2. PICK l \in 0..Timeout, s \in 0..Timeout :
          /\ l = IF time.left > 0 THEN time.left - 1 ELSE 0
          /\ s = IF time.spent < Timeout THEN time.spent + 1 ELSE Timeout
  BY <1>1
<1>3. time' = [left |-> l, spent |-> s] /\ UNCHANGED <<call, net, pc, result>>
  BY <1>2 DEF Tick
<1>4. time.left + time.spent = Timeout => l + s = Timeout
  BY <1>1, <1>2 DEF Tick
<1>5. OneClock'
  BY <1>3, <1>4 DEF Inv, OneClock, Async
<1> QED BY <1>3, <1>5 DEF Inv, Sent, RetrySafeIsUnsent, Async

LEMMA Step == Inv /\ [Next]_vars => Inv'
<1>1. ASSUME Inv, UNCHANGED vars PROVE Inv'
  BY <1>1, QuietKeeps DEF vars, Inv
<1> QED BY <1>1, OpeningKeeps, ReadingKeeps, UpstreamKeeps, ConsumerKeeps, TickKeeps DEF Next, Own

LEMMA InitInv == Init => Inv
<1>1. SUFFICES ASSUME Init PROVE Inv
  OBVIOUS
<1>2. /\ net = [conn |-> "none", sent |-> FALSE, arrived |-> 0, end |-> "open"]
      /\ time = [left |-> Timeout, spent |-> 0] /\ result = None
  BY <1>1 DEF Init
<1>3. net \in NetType /\ ~net.sent /\ OneClock
  BY <1>2, TimeoutNat DEF NetType, OneClock
<1> QED BY <1>2, <1>3 DEF Inv, Sent, RetrySafeIsUnsent

\* RetrySafeIsUnsent, for every configuration, answer and consumer.
THEOREM RetryIsSafe == Spec => []RetrySafeIsUnsent
<1>1. Inv => RetrySafeIsUnsent
  BY DEF Inv
<1> QED BY <1>1, InitInv, Step, PTL DEF Spec

\* Only a body that is complete or an event that is decoded in time reaches the consumer.
LEMMA DeliveryStep == Inv /\ [Next]_vars /\ Async /\ delivered' # delivered => time.spent < Timeout
<1>1. SUFFICES ASSUME Inv, [Next]_vars, Async, delivered' # delivered PROVE time.left > 0
  BY TimeoutNat DEF Inv, OneClock
<1>2. \A failure : ~Fails(failure)
  BY <1>1 DEF Fails
<1>3. CASE Body
  BY <1>1, <1>3 DEF Body, Fails
<1>4. CASE Decode
  <2>1. ~(Meaning(NextLine, NextSize) \in {"chunk", "done"} /\ time.left = 0)
    BY <1>1, <1>2, <1>4 DEF Decode
  <2>2. Meaning(NextLine, NextSize) = "chunk"
    BY <1>1, <1>2, <1>4, <2>1 DEF Decode, Take
  <2> QED BY <1>1, <2>1, <2>2 DEF Inv, OneClock
<1>5. CASE ~Body /\ ~Decode
  BY <1>1, <1>2, <1>5 DEF Next, Own, vars, Begin, Dial, Connected, ConnectFails, ExchangeFails, ResponseHead,
     ReadFails, ReadLine, Feed, Arrive, Stop, Pull, Close, Cancel, Tick
<1> QED BY <1>3, <1>4, <1>5

\* NothingAfterDeadline, whatever the pauses of the consumer and the cuts of the upstream.
THEOREM DeadlineHolds == Spec => NothingAfterDeadline
<1>1. Inv /\ [Next]_vars => [Async /\ delivered' # delivered => time.spent < Timeout]_vars
  BY DeliveryStep
<1> QED BY <1>1, InitInv, Step, PTL DEF Spec, NothingAfterDeadline

-----------------------------------------------------------------------------
(* Sets of lines in order *)

\* A non-empty set of natural numbers has a least member.
LEMMA LeastNatural ==
    ASSUME NEW T \in SUBSET Nat, T # {}
    PROVE  \E x \in T : \A y \in T : x <= y
<1>1. IsWellFoundedOn(OpToRel(<, Nat), Nat)
  BY NatLessThanWellFounded
<1>2. PICK x \in T : \A y \in T : <<y, x>> \notin OpToRel(<, Nat)
  BY <1>1, WFMin
<1>3. ASSUME NEW y \in T PROVE x <= y
  <2>1. x \in Nat /\ y \in Nat
    BY <1>2, <1>3
  <2>2. ~(y < x)
    BY <1>2, <2>1 DEF OpToRel
  <2> QED
    BY <2>1, <2>2
<1> QED
  BY <1>2, <1>3

\* What comes first in a set is not reordered by what comes later.
LEMMA EarlierFirst ==
    ASSUME NEW T, \A x \in T : x \in Int, IsFiniteSet(T), NEW n \in Int
    PROVE  LET S == {x \in T : x <= n} IN
           /\ IsFiniteSet(S) /\ Cardinality(S) \in Nat /\ Cardinality(T) \in Nat /\ Cardinality(S) <= Cardinality(T)
           /\ \A k \in 1..Cardinality(S) : InOrder(S)[k] = InOrder(T)[k]
<1> DEFINE S == {x \in T : x <= n}
<1>1. /\ IsFiniteSet(S) /\ Cardinality(S) \in Nat /\ Cardinality(T) \in Nat /\ Cardinality(S) <= Cardinality(T)
  BY FS_Subset, FS_CardinalityType
<1>2. ASSUME NEW k \in 1..Cardinality(S) PROVE InOrder(S)[k] = InOrder(T)[k]
  <2> DEFINE A == {y \in S : Cardinality({z \in S : z <= y}) = k}
             B == {y \in T : Cardinality({z \in T : z <= y}) = k}
  <2>1. ASSUME NEW y \in S PROVE {z \in T : z <= y} = {z \in S : z <= y}
    <3>1. y \in Int /\ y <= n
      BY <2>1
    <3>2. ASSUME NEW z \in T, z <= y PROVE z \in S
      BY <3>1, <3>2
    <3> QED BY <3>2
  <2>2. ASSUME NEW y \in T, y \notin S PROVE Cardinality({z \in T : z <= y}) # k
    <3>1. S \cup {y} \subseteq {z \in T : z <= y} /\ IsFiniteSet({z \in T : z <= y})
      BY <2>2, FS_Subset
    <3>2. Cardinality(S \cup {y}) = Cardinality(S) + 1
      BY <1>1, <2>2, FS_AddElement
    <3>3. Cardinality(S \cup {y}) <= Cardinality({z \in T : z <= y})
      BY <3>1, FS_Subset
    <3>4. Cardinality({z \in T : z <= y}) \in Nat
      BY <3>1, FS_CardinalityType
    <3> QED BY <1>1, <1>2, <3>2, <3>3, <3>4
  <2>3. A = B
    BY <2>1, <2>2
  <2>4. InOrder(S)[k] = CHOOSE x \in A : TRUE
    BY DEF InOrder
  <2>5. k \in 1..Cardinality(T)
    BY <1>1
  <2>6. InOrder(T)[k] = CHOOSE x \in B : TRUE
    BY <2>5 DEF InOrder
  <2> QED BY <2>3, <2>4, <2>6
<1> QED BY <1>1, <1>2

\* A member above all others comes last.
LEMMA LatestLast ==
    ASSUME NEW S, \A x \in S : x \in Int, IsFiniteSet(S), NEW m \in Int, \A x \in S : x < m
    PROVE  /\ Cardinality(S) \in Nat
           /\ Cardinality(S \cup {m}) = Cardinality(S) + 1
           /\ \A k \in 1..Cardinality(S) : InOrder(S \cup {m})[k] = InOrder(S)[k]
           /\ InOrder(S \cup {m})[Cardinality(S) + 1] = m
<1> DEFINE T == S \cup {m}
<1>1. m \notin S /\ Cardinality(S) \in Nat
  BY FS_CardinalityType
<1>2. IsFiniteSet(T) /\ Cardinality(T) = Cardinality(S) + 1
  BY <1>1, FS_AddElement
<1>3. S = {x \in T : x <= m - 1}
  OBVIOUS
<1>4. \A k \in 1..Cardinality(S) : InOrder(T)[k] = InOrder(S)[k]
  BY <1>2, <1>3, EarlierFirst
<1>5. InOrder(T)[Cardinality(S) + 1] = m
  <2> DEFINE k == Cardinality(S) + 1
             B == {y \in T : Cardinality({z \in T : z <= y}) = k}
  <2>1. ASSUME NEW y \in S PROVE Cardinality({z \in T : z <= y}) # k
    <3>1. {z \in T : z <= y} \subseteq S
      BY <2>1
    <3>2. Cardinality({z \in T : z <= y}) <= Cardinality(S) /\ Cardinality({z \in T : z <= y}) \in Nat
      BY <3>1, FS_Subset, FS_CardinalityType
    <3> QED BY <1>1, <3>2
  <2>2. {z \in T : z <= m} = T
    OBVIOUS
  <2>3. B = {m}
    BY <1>2, <2>1, <2>2
  <2>4. k \in 1..Cardinality(T)
    BY <1>1, <1>2
  <2>5. InOrder(T)[k] = CHOOSE x \in B : TRUE
    BY <2>4 DEF InOrder
  <2> QED BY <2>3, <2>5
<1> QED BY <1>1, <1>2, <1>4, <1>5

-----------------------------------------------------------------------------
\* A sequence given by its members.
LEMMA SequenceOf ==
    ASSUME NEW f, NEW n \in Nat, f = [k \in 1..n |-> f[k]]
    PROVE  f \in Seq({f[k] : k \in 1..n}) /\ Len(f) = n
<1>1. f \in [1..n -> {f[k] : k \in 1..n}]
  OBVIOUS
<1> QED BY <1>1

LEMMA Appended ==
    ASSUME NEW A, NEW n \in Nat, NEW f \in [1..n -> A], NEW e \in A, NEW g \in [1..(n + 1) -> A],
           \A k \in 1..n : g[k] = f[k], g[n + 1] = e
    PROVE  g = Append(f, e)
<1>1. f \in Seq(A) /\ Len(f) = n
  OBVIOUS
<1>2. Append(f, e) \in Seq(A) /\ Len(Append(f, e)) = n + 1
  BY <1>1
<1>3. Append(f, e) \in [1..(n + 1) -> A]
  <2>1. ASSUME NEW h \in Seq(A) PROVE h \in [1..Len(h) -> A]
    OBVIOUS
  <2> QED BY <1>2, <2>1
<1>4. ASSUME NEW k \in 1..(n + 1) PROVE g[k] = Append(f, e)[k]
  <2>1. CASE k <= n
    <3>1. k \in 1..n
      BY <2>1
    <3> QED BY <1>1, <3>1
  <2>2. CASE ~(k <= n)
    <3>1. k = n + 1
      BY <2>2
    <3> QED BY <1>1, <3>1
  <2> QED BY <2>1, <2>2
<1> QED BY <1>3, <1>4

LEMMA Prefix ==
    ASSUME NEW f, NEW g, NEW m \in Nat, NEW n \in Nat, m <= n, f = [k \in 1..m |-> f[k]], g = [k \in 1..n |-> g[k]],
           \A k \in 1..m : f[k] = g[k]
    PROVE  IsPrefix(f, g)
<1>1. Len(f) = m /\ Len(g) = n
  BY SequenceOf
<1>2. SubSeq(f, 1, m) = [k \in 1..m |-> f[k]]
  <2>1. f \in Seq({f[k] : k \in 1..m})
    BY SequenceOf
  <2> QED BY <2>1, <1>1
<1>3. SubSeq(g, 1, m) = [k \in 1..m |-> g[k]]
  <2>1. g \in Seq({g[k] : k \in 1..n})
    BY SequenceOf
  <2> QED BY <2>1, <1>1
<1>4. SubSeq(f, 1, m) = SubSeq(g, 1, m)
  BY <1>2, <1>3
<1> QED BY <1>1, <1>4 DEF IsPrefix

-----------------------------------------------------------------------------
(* The events of an answer, line by line *)

AnAnswer == call.wire \in Wires

LEMMA LinesTyped ==
    ASSUME AnAnswer
    PROVE  /\ Len(call.wire) \in Nat /\ DOMAIN call.wire = 1..Len(call.wire)
           /\ \A i \in 1..Len(call.wire) : call.wire[i].ends \in Nat \ {0}
           /\ \A i, j \in 1..Len(call.wire) : i < j => call.wire[i].ends < call.wire[j].ends
<1>1. call.wire \in Seq([kind : STRING, ends : Nat \ {0}, piece : STRING \cup {None}])
  BY AnswerAssumption DEF AnAnswer, WiresAssumption
<1>2. \A i, j \in DOMAIN call.wire : i < j => call.wire[i].ends < call.wire[j].ends
  BY AnswerAssumption DEF AnAnswer, WiresAssumption
<1>3. ASSUME NEW i \in 1..Len(call.wire) PROVE call.wire[i] \in [kind : STRING, ends : Nat \ {0}, piece : STRING \cup {None}]
  <2> DEFINE S == [kind : STRING, ends : Nat \ {0}, piece : STRING \cup {None}]
  <2>1. call.wire \in Seq(S)
    BY <1>1
  <2> HIDE DEF S
  <2>2. call.wire[i] \in S
    BY <2>1
  <2> QED BY <2>2 DEF S
<1>4. Len(call.wire) \in Nat /\ DOMAIN call.wire = 1..Len(call.wire)
  BY <1>1
<1> QED BY <1>2, <1>3, <1>4

LEMMA EndsGrow ==
    ASSUME AnAnswer, NEW i \in 0..Len(call.wire)
    PROVE  EndOf(i) \in Nat /\ (i < Len(call.wire) => EndOf(i) < EndOf(i + 1))
BY LinesTyped DEF EndOf

LEMMA BlankLines == ASSUME AnAnswer PROVE Blanks = {i \in 1..Len(call.wire) : call.wire[i].kind = "blank"}
BY LinesTyped DEF Blanks

\* After a line the current event begins behind it, if it is blank, and where it did otherwise.
LEMMA OpensAfter ==
    ASSUME AnAnswer, NEW i \in 1..Len(call.wire)
    PROVE  Opens(i + 1) = IF i \in Blanks THEN i ELSE Opens(i)
<1>0. \A j \in Blanks : j \in Int /\ j > 0
  BY LinesTyped, BlankLines
<1> DEFINE A == {0} \cup {j \in Blanks : j < i}
           B == {0} \cup {j \in Blanks : j < i + 1}
<1>1. CASE i \in Blanks
  <2>1. \A k \in B : (\A j \in B : k >= j) <=> k = i
    BY <1>0, <1>1
  <2>2. i \in B
    BY <1>1
  <2> QED BY <1>1, <2>1, <2>2 DEF Opens, Max
<1>2. CASE i \notin Blanks
  <2>1. A = B
    BY <1>0, <1>2
  <2> QED BY <1>2, <2>1 DEF Opens
<1> QED BY <1>1, <1>2

LEMMA OpensFirst == ASSUME AnAnswer PROVE Opens(1) = 0
<1>1. \A j \in Blanks : j \in Int /\ j > 0
  BY LinesTyped, BlankLines
<1>2. {0} \cup {j \in Blanks : j < 1} = {0}
  BY <1>1
<1> QED BY <1>2 DEF Opens, Max

LEMMA DataFinite ==
    ASSUME AnAnswer, NEW i
    PROVE  IsFiniteSet(DataOf(i)) /\ \A j \in DataOf(i) : j \in 1..Len(call.wire)
<1>1. DataOf(i) \subseteq 1..Len(call.wire)
  BY LinesTyped DEF DataOf
<1>2. IsFiniteSet(1..Len(call.wire))
  BY LinesTyped, FS_Interval
<1>3. IsFiniteSet(DataOf(i))
  BY <1>1, <1>2, FS_Subset
<1> QED BY <1>1, <1>3

LEMMA EventIs ==
    ASSUME AnAnswer, NEW i
    PROVE  /\ Cardinality(DataOf(i)) \in Nat
           /\ Event(i) = [k \in 1..Cardinality(DataOf(i)) |-> call.wire[InOrder(DataOf(i))[k]].piece]
<1>1. DOMAIN InOrder(DataOf(i)) = 1..Cardinality(DataOf(i))
  BY DEF InOrder
<1> QED BY <1>1, DataFinite, FS_CardinalityType DEF Event

LEMMA EventAfter ==
    ASSUME AnAnswer, NEW i \in 1..Len(call.wire), Opens(i) \in 0..(i - 1)
    PROVE  Event(i + 1) = CASE call.wire[i].kind = "data" -> Append(Event(i), call.wire[i].piece)
                            [] call.wire[i].kind = "blank" -> <<>>
                            [] OTHER -> Event(i)
<1>1. CASE call.wire[i].kind = "blank"
  <2>1. DataOf(i + 1) = {}
    <3>1. Opens(i + 1) = i
      BY <1>1, OpensAfter, LinesTyped DEF Blanks
    <3>2. \A j \in 1..Len(call.wire) : ~(i < j /\ j < i + 1)
      OBVIOUS
    <3> QED BY <3>1, <3>2, LinesTyped DEF DataOf
  <2>2. Event(i + 1) = [k \in 1..0 |-> call.wire[InOrder(DataOf(i + 1))[k]].piece]
    <3>1. Cardinality(DataOf(i + 1)) = 0
      BY <2>1, FS_EmptySet
    <3> QED BY <3>1, EventIs
  <2>3. Event(i + 1) = <<>>
    BY <2>2
  <2> QED BY <1>1, <2>3
<1>2. CASE call.wire[i].kind = "data"
  <2>0. Opens(i + 1) = Opens(i)
    BY <1>2, OpensAfter DEF Blanks
  <2>1. DataOf(i + 1) = DataOf(i) \cup {i}
    BY <1>2, <2>0, LinesTyped DEF DataOf
  <2>2. \A j \in DataOf(i) : j \in Int /\ j < i
    BY LinesTyped DEF DataOf
  <2> DEFINE c == Cardinality(DataOf(i))
  <2>3. /\ c \in Nat /\ Cardinality(DataOf(i + 1)) = c + 1
        /\ \A k \in 1..c : InOrder(DataOf(i + 1))[k] = InOrder(DataOf(i))[k]
        /\ InOrder(DataOf(i + 1))[c + 1] = i
    <3>1. IsFiniteSet(DataOf(i)) /\ i \in Int
      BY DataFinite
    <3>2. \A j \in DataOf(i) : j \in Int
      BY <2>2
    <3>3. \A j \in DataOf(i) : j < i
      BY <2>2
    <3>4. /\ Cardinality(DataOf(i)) \in Nat /\ Cardinality(DataOf(i) \cup {i}) = Cardinality(DataOf(i)) + 1
          /\ \A k \in 1..Cardinality(DataOf(i)) : InOrder(DataOf(i) \cup {i})[k] = InOrder(DataOf(i))[k]
          /\ InOrder(DataOf(i) \cup {i})[Cardinality(DataOf(i)) + 1] = i
      BY <3>1, <3>2, <3>3, LatestLast
    <3> QED BY <2>1, <3>4
  <2>4. Event(i) = [k \in 1..c |-> call.wire[InOrder(DataOf(i))[k]].piece]
    BY EventIs
  <2>5. Event(i + 1) = [k \in 1..(c + 1) |-> call.wire[InOrder(DataOf(i + 1))[k]].piece]
    BY <2>3, EventIs
  <2> DEFINE A == {Event(i + 1)[k] : k \in 1..(c + 1)}
  <2> HIDE DEF c
  <2>6. c + 1 \in 1..(c + 1) /\ 1..c \subseteq 1..(c + 1)
    BY <2>3
  <2>7. ASSUME NEW k \in 1..c PROVE Event(i + 1)[k] = Event(i)[k]
    BY <2>3, <2>4, <2>5, <2>6
  <2>8. Event(i + 1)[c + 1] = call.wire[i].piece
    BY <2>3, <2>5, <2>6
  <2>9. Event(i + 1) \in [1..(c + 1) -> A]
    BY <2>5
  <2>10. Event(i) \in [1..c -> A]
    BY <2>4, <2>6, <2>7
  <2>11. call.wire[i].piece \in A
    BY <2>6, <2>8
  <2> HIDE DEF A
  <2>12. Event(i + 1) = Append(Event(i), call.wire[i].piece)
    BY <2>3, <2>7, <2>8, <2>9, <2>10, <2>11, Appended
  <2> QED BY <1>2, <2>12
<1>3. CASE call.wire[i].kind \notin {"blank", "data"}
  <2>1. Opens(i + 1) = Opens(i)
    BY <1>3, OpensAfter DEF Blanks
  <2>2. DataOf(i + 1) = DataOf(i)
    BY <1>3, <2>1, LinesTyped DEF DataOf
  <2>3. Event(i + 1) = Event(i)
    BY <2>2 DEF Event
  <2> QED BY <1>3, <2>3
<1> QED BY <1>1, <1>2, <1>3

-----------------------------------------------------------------------------
(* What was decoded so far *)

\* No line up to n ends the stream.
Clean(n) == \A i \in 1..n : ~Breaks(i) /\ ~Finishes(i)

\* Line n ends it well.
Closing(n) == n > 0 /\ Clean(n - 1) /\ Finishes(n)

\* The chunks of the first n lines.
ChunksTo(n) == {i \in Blanks : i <= n /\ Event(i) # <<>> /\ ~Finishes(i)}
Yielded(n) == LET blank == InOrder(ChunksTo(n)) IN [k \in DOMAIN blank |-> Event(blank[k])]

\* A decoder knows no more and no less than what the lines it took say.
Remembers ==
    /\ AnAnswer
    /\ dec = [fed |-> dec.fed, lines |-> dec.lines, data |-> dec.data, bytes |-> dec.bytes]
    /\ dec.lines \in 0..Len(call.wire)
    /\ Opens(dec.lines + 1) \in 0..dec.lines
    /\ dec.data = Event(dec.lines + 1)
    /\ dec.bytes = Taken - EndOf(Opens(dec.lines + 1))
    /\ dec.fed \in Nat /\ dec.fed <= MaxStream
    /\ Async => Taken <= dec.fed

\* No more arrives than was sent.
Arrived == net.arrived \in Int /\ net.arrived <= WireSize

Finished == result # None /\ result.outcome = "ok"

Decoding ==
    /\ Remembers
    /\ Arrived
    /\ delivered = Yielded(dec.lines)
    /\ pc # "done" => result = None /\ Clean(dec.lines)
    /\ Clean(dec.lines) \/ Closing(dec.lines)
    /\ Finished => Closing(dec.lines)

StreamInv == Streaming => Decoding

LEMMA SameAnswer ==
    ASSUME UNCHANGED call
    PROVE  /\ Async' = Async /\ Streaming' = Streaming /\ AnAnswer' = AnAnswer /\ Blanks' = Blanks /\ StreamOf' = StreamOf
           /\ \A i : /\ EndOf(i)' = EndOf(i) /\ Opens(i)' = Opens(i) /\ Event(i)' = Event(i)
                     /\ Breaks(i)' = Breaks(i) /\ Finishes(i)' = Finishes(i)
           /\ \A n : Clean(n)' = Clean(n) /\ Closing(n)' = Closing(n) /\ Yielded(n)' = Yielded(n)
<1>1. Async' = Async /\ Streaming' = Streaming /\ AnAnswer' = AnAnswer /\ Blanks' = Blanks
  BY DEF Async, Streaming, AnAnswer, Blanks
<1>2. ASSUME NEW i PROVE EndOf(i)' = EndOf(i) /\ Opens(i)' = Opens(i)
  BY <1>1 DEF EndOf, Opens
<1>3. ASSUME NEW i PROVE Event(i)' = Event(i)
  <2>1. DataOf(i)' = DataOf(i)
    BY <1>2 DEF DataOf
  <2>2. InOrder(DataOf(i))' = InOrder(DataOf(i))
    BY <2>1
  <2> QED BY <2>2 DEF Event
<1>4. ASSUME NEW i PROVE Breaks(i)' = Breaks(i) /\ Finishes(i)' = Finishes(i)
  BY <1>1, <1>2, <1>3 DEF Breaks, Finishes, Counted
<1>5. StreamOf' = StreamOf
  <2>1. LastLine' = LastLine
    BY <1>4 DEF LastLine
  <2>2. Chunks' = Chunks
    BY <1>1, <1>3, <2>1 DEF Chunks
  <2>3. InOrder(Chunks)' = InOrder(Chunks)
    BY <2>2
  <2> QED BY <2>3, <1>3 DEF StreamOf
<1>6. ASSUME NEW n PROVE Clean(n)' = Clean(n)
  BY <1>4 DEF Clean
<1>7. ASSUME NEW n PROVE Closing(n)' = Closing(n)
  BY <1>4, <1>6 DEF Closing
<1>8. ASSUME NEW n PROVE Yielded(n)' = Yielded(n)
  <2>1. ChunksTo(n)' = ChunksTo(n)
    BY <1>1, <1>3, <1>4 DEF ChunksTo
  <2>2. InOrder(ChunksTo(n))' = InOrder(ChunksTo(n))
    BY <2>1
  <2> QED BY <2>2, <1>3 DEF Yielded
<1> QED BY <1>1, <1>2, <1>3, <1>4, <1>5, <1>6, <1>7, <1>8

LEMMA ChunksFinite ==
    ASSUME AnAnswer, NEW n
    PROVE  /\ IsFiniteSet(ChunksTo(n)) /\ IsFiniteSet(Chunks)
           /\ \A i \in ChunksTo(n) \cup Chunks : i \in Int
<1>1. ChunksTo(n) \subseteq 1..Len(call.wire) /\ Chunks \subseteq 1..Len(call.wire)
  BY BlankLines DEF ChunksTo, Chunks
<1>2. IsFiniteSet(1..Len(call.wire))
  BY LinesTyped, FS_Interval
<1>3. IsFiniteSet(ChunksTo(n)) /\ IsFiniteSet(Chunks)
  BY <1>1, <1>2, FS_Subset
<1>4. \A i \in ChunksTo(n) \cup Chunks : i \in 1..Len(call.wire)
  BY <1>1
<1> QED BY <1>3, <1>4

LEMMA YieldedIs ==
    ASSUME AnAnswer, NEW n
    PROVE  /\ Cardinality(ChunksTo(n)) \in Nat
           /\ Yielded(n) = [k \in 1..Cardinality(ChunksTo(n)) |-> Event(InOrder(ChunksTo(n))[k])]
<1>1. DOMAIN InOrder(ChunksTo(n)) = 1..Cardinality(ChunksTo(n))
  BY DEF InOrder
<1> QED BY <1>1, ChunksFinite, FS_CardinalityType DEF Yielded

LEMMA NothingYielded == ASSUME AnAnswer PROVE Yielded(0) = <<>>
<1>1. ChunksTo(0) = {}
  BY BlankLines DEF ChunksTo
<1>2. Cardinality(ChunksTo(0)) = 0
  BY <1>1, FS_EmptySet
<1>3. Yielded(0) = [k \in 1..0 |-> Event(InOrder(ChunksTo(0))[k])]
  BY <1>2, YieldedIs
<1> QED BY <1>3

LEMMA NothingGathered == ASSUME AnAnswer PROVE Event(1) = <<>>
<1>1. DataOf(1) = {}
  BY LinesTyped, OpensFirst DEF DataOf
<1>2. Cardinality(DataOf(1)) = 0
  BY <1>1, FS_EmptySet
<1>3. Event(1) = [k \in 1..0 |-> call.wire[InOrder(DataOf(1))[k]].piece]
  BY <1>2, EventIs
<1> QED BY <1>3

LEMMA YieldedAfter ==
    ASSUME AnAnswer, NEW n \in 1..Len(call.wire)
    PROVE  Yielded(n) = IF n \in Blanks /\ Event(n) # <<>> /\ ~Finishes(n)
                        THEN Append(Yielded(n - 1), Event(n))
                        ELSE Yielded(n - 1)
<1>1. CASE ~(n \in Blanks /\ Event(n) # <<>> /\ ~Finishes(n))
  <2>1. ChunksTo(n) = ChunksTo(n - 1)
    BY <1>1, BlankLines DEF ChunksTo
  <2>2. Yielded(n) = Yielded(n - 1)
    BY <2>1 DEF Yielded
  <2> QED BY <1>1, <2>2
<1>2. CASE n \in Blanks /\ Event(n) # <<>> /\ ~Finishes(n)
  <2> DEFINE S == ChunksTo(n - 1)
             c == Cardinality(S)
  <2>1. ChunksTo(n) = S \cup {n}
    BY <1>2, BlankLines DEF ChunksTo
  <2>2. \A i \in S : i \in Int
    BY ChunksFinite
  <2>3. \A i \in S : i < n
    BY <2>2 DEF ChunksTo
  <2>4. /\ c \in Nat /\ Cardinality(S \cup {n}) = c + 1
        /\ \A k \in 1..c : InOrder(S \cup {n})[k] = InOrder(S)[k]
        /\ InOrder(S \cup {n})[c + 1] = n
    <3>1. IsFiniteSet(S) /\ n \in Int
      BY ChunksFinite
    <3> HIDE DEF S
    <3> QED BY <2>2, <2>3, <3>1, LatestLast
  <2>5. Yielded(n - 1) = [k \in 1..c |-> Event(InOrder(S)[k])]
    BY YieldedIs
  <2>6. Yielded(n) = [k \in 1..(c + 1) |-> Event(InOrder(S \cup {n})[k])]
    <3>1. Cardinality(ChunksTo(n)) = c + 1
      BY <2>1, <2>4
    <3>2. Yielded(n) = [k \in 1..(c + 1) |-> Event(InOrder(ChunksTo(n))[k])]
      BY <3>1, YieldedIs
    <3> QED BY <2>1, <3>2
  <2>7. c + 1 \in 1..(c + 1) /\ 1..c \subseteq 1..(c + 1)
    BY <2>4
  <2> HIDE DEF c
  <2> DEFINE A == {Yielded(n)[k] : k \in 1..(c + 1)}
  <2>8. ASSUME NEW k \in 1..c PROVE Yielded(n)[k] = Yielded(n - 1)[k]
    BY <2>4, <2>5, <2>6, <2>7
  <2>9. Yielded(n)[c + 1] = Event(n)
    BY <2>4, <2>6, <2>7
  <2>10. Yielded(n) \in [1..(c + 1) -> A]
    BY <2>6
  <2>11. Yielded(n - 1) \in [1..c -> A]
    BY <2>5, <2>7, <2>8
  <2>12. Event(n) \in A
    BY <2>7, <2>9
  <2> HIDE DEF A
  <2>13. Yielded(n) = Append(Yielded(n - 1), Event(n))
    BY <2>4, <2>8, <2>9, <2>10, <2>11, <2>12, Appended
  <2> QED BY <1>2, <2>13
<1> QED BY <1>1, <1>2

-----------------------------------------------------------------------------
(* The steps of a stream *)

LEMMA KeepsDecoding ==
    ASSUME Streaming, Decoding, UNCHANGED <<call, dec, delivered>>, Arrived',
           pc # "done" \/ pc' = "done",
           \/ result' = result /\ (pc' = "done" \/ pc # "done")
           \/ pc # "done" /\ pc' = "done" /\ result'.outcome # "ok"
    PROVE  Decoding'
<1>1. Remembers'
  BY SameAnswer DEF Decoding, Remembers, Taken
<1>2. /\ delivered' = Yielded(dec.lines)'
      /\ (Clean(dec.lines) \/ Closing(dec.lines))'
  <2>1. delivered = Yielded(dec.lines) /\ (Clean(dec.lines) \/ Closing(dec.lines))
    BY DEF Decoding
  <2> QED BY <2>1, SameAnswer
<1>3. (pc # "done" => result = None /\ Clean(dec.lines))'
  <2>1. pc' # "done" => pc # "done" /\ result' = None /\ Clean(dec.lines)
    BY DEF Decoding
  <2> QED BY <2>1, SameAnswer
<1>4. (Finished => Closing(dec.lines))'
  <2>1. Finished' => Finished
    BY DEF Decoding, Finished
  <2>2. Finished' => Closing(dec.lines)
    BY <2>1 DEF Decoding
  <2> QED BY <2>2, SameAnswer
<1> QED BY <1>1, <1>2, <1>3, <1>4 DEF Decoding

LEMMA ArrivedStays == ASSUME Arrived, UNCHANGED call, net'.arrived = net.arrived PROVE Arrived'
BY DEF Arrived, WireSize, EndOf

LEMMA EndsArrived ==
    ASSUME Arrived, net \in NetType, UNCHANGED call, NEW outcome, NEW safe, Ends(outcome, safe)
    PROVE  Arrived'
<1>1. net'.arrived = net.arrived
  BY DEF NetType, Ends
<1> QED BY <1>1 DEF Arrived, WireSize, EndOf

LEMMA FailsDecodes ==
    ASSUME Streaming, Decoding, net \in NetType, pc # "done", NEW failure, failure # "ok", Fails(failure)
    PROVE  Decoding'
<1>1. pc' = "done" /\ UNCHANGED <<call, dec, delivered>> /\ result' = [outcome |-> failure, safe |-> FALSE]
  BY DEF Fails, Ends
<1>2. Arrived'
  BY EndsArrived DEF Fails, Decoding
<1> QED BY <1>1, <1>2, KeepsDecoding

\* What a line says is what it does to the events of the answer.
LEMMA MeaningIs ==
    ASSUME Remembers, dec.lines < Len(call.wire), NEW size \in Nat \ {0}, Taken + size <= MaxStream,
           size = NextSize \/ (~Async /\ NextLine.kind = "blank"),
           Meaning(NextLine, size) # "malformed"
    PROVE  LET n == dec.lines + 1 IN
           /\ ~Breaks(n)
           /\ Finishes(n) <=> Meaning(NextLine, size) = "done"
           /\ (n \in Blanks /\ Event(n) # <<>> /\ ~Finishes(n)) <=> Meaning(NextLine, size) = "chunk"
<1> DEFINE n == dec.lines + 1
<1>1. /\ n \in 1..Len(call.wire) /\ NextLine = call.wire[n] /\ dec.data = Event(n)
      /\ n \in Blanks <=> call.wire[n].kind = "blank"
  BY LinesTyped, BlankLines DEF Remembers, NextLine
<1>2. /\ ~TooLong(size) /\ NextLine.kind \in {"comment", "data", "blank"}
      /\ NextLine.kind = "blank" /\ dec.data # <<>> => Parsed(dec.data) = Meaning(NextLine, size)
      /\ ~(NextLine.kind = "blank" /\ dec.data # <<>>) => Meaning(NextLine, size) = "continue"
  BY DEF Meaning
<1>3. /\ Taken \in Nat /\ EndOf(Opens(n)) \in Nat /\ dec.bytes = Taken - EndOf(Opens(n))
      /\ Taken = EndOf(n - 1) /\ EndOf(n) \in Nat /\ NextSize = EndOf(n) - Taken
  BY <1>1, LinesTyped, EndsGrow DEF Remembers, Taken, NextSize, NextLine, EndOf
<1>0. MaxEvent \in Nat /\ MaxStream \in Nat
  BY TransportAssumption
<1>4. Counted(n) <= Taken + size /\ Counted(n) \in Int
  BY <1>1, <1>3 DEF Counted
<1>5. Counted(n) - EndOf(Opens(n)) <= MaxEvent /\ Counted(n) <= MaxStream
  <2>1. dec.bytes + size <= MaxEvent
    BY <1>0, <1>2, <1>3 DEF TooLong
  <2>2. Counted(n) - EndOf(Opens(n)) <= dec.bytes + size
    BY <1>3, <1>4
  <2>3. Counted(n) - EndOf(Opens(n)) <= MaxEvent
    BY <2>1, <2>2, <1>0, <1>3, <1>4
  <2>4. Counted(n) <= MaxStream
    BY <1>0, <1>3, <1>4
  <2> QED BY <2>3, <2>4
<1>6. ~Breaks(n)
  <2>1. ~(Counted(n) - EndOf(Opens(n)) > MaxEvent) /\ ~(Counted(n) > MaxStream)
    BY <1>0, <1>3, <1>4, <1>5
  <2>2. call.wire[n].kind \in {"data", "comment", "blank"}
    BY <1>1, <1>2
  <2>3. ~(n \in Blanks /\ Event(n) # <<>> /\ Parsed(Event(n)) = "malformed")
    BY <1>1, <1>2
  <2> QED BY <2>1, <2>2, <2>3 DEF Breaks
<1>7. Parsed(dec.data) = "done" <=> dec.data = <<"[DONE]">>
  BY DEF Parsed
<1>8. Parsed(dec.data) \in {"done", "chunk", "malformed"}
  BY DEF Parsed
<1>9. Finishes(n) <=> Meaning(NextLine, size) = "done"
  <2>1. <<"[DONE]">> # <<>>
    OBVIOUS
  <2>2. CASE NextLine.kind = "blank" /\ dec.data # <<>>
    BY <2>2, <1>1, <1>2, <1>7 DEF Finishes
  <2>3. CASE ~(NextLine.kind = "blank" /\ dec.data # <<>>)
    BY <2>1, <2>3, <1>1, <1>2 DEF Finishes
  <2> QED BY <2>2, <2>3
<1>10. (n \in Blanks /\ Event(n) # <<>> /\ ~Finishes(n)) <=> Meaning(NextLine, size) = "chunk"
  BY <1>1, <1>2, <1>8, <1>9
<1> QED BY <1>6, <1>9, <1>10

LEMMA RemembersMore ==
    ASSUME Remembers, UNCHANGED call, dec.lines < Len(call.wire), NEW size \in Nat \ {0},
           Async => NextLine.ends <= dec.fed,
           size = NextSize \/ (~Async /\ NextLine.kind = "blank"),
           dec' = After(NextLine, size)
    PROVE  Remembers' /\ dec'.lines = dec.lines + 1
<1> DEFINE n == dec.lines + 1
<1>1. /\ n \in 1..Len(call.wire) /\ NextLine = call.wire[n] /\ dec.data = Event(n)
      /\ n \in Blanks <=> call.wire[n].kind = "blank"
      /\ Opens(n) \in 0..(n - 1)
  BY LinesTyped, BlankLines DEF Remembers, NextLine
<1>2. /\ dec'.lines = n /\ dec'.fed = dec.fed
      /\ dec'.data = CASE NextLine.kind = "data" -> Append(dec.data, NextLine.piece)
                      [] NextLine.kind = "blank" -> <<>>
                      [] OTHER -> dec.data
      /\ dec'.bytes = IF NextLine.kind = "blank" THEN 0 ELSE dec.bytes + size
      /\ dec' = [fed |-> dec'.fed, lines |-> dec'.lines, data |-> dec'.data, bytes |-> dec'.bytes]
  <2>1. dec = [fed |-> dec.fed, lines |-> dec.lines, data |-> dec.data, bytes |-> dec.bytes]
    BY DEF Remembers
  <2> QED BY <2>1 DEF After
<1>3. dec'.data = Event(n + 1)
  BY <1>1, <1>2, EventAfter DEF Remembers
<1>4. Opens(n + 1) = (IF n \in Blanks THEN n ELSE Opens(n)) /\ Opens(n + 1) \in 0..n
  BY <1>1, OpensAfter DEF Remembers
<1>5. dec'.bytes = EndOf(n) - EndOf(Opens(n + 1))
  <2>1. /\ Taken \in Nat /\ EndOf(Opens(n)) \in Nat /\ dec.bytes = Taken - EndOf(Opens(n))
        /\ EndOf(n) \in Nat /\ NextSize = EndOf(n) - Taken
    BY <1>1, LinesTyped, EndsGrow DEF Remembers, Taken, NextSize, NextLine, EndOf
  <2> QED BY <2>1, <1>1, <1>2, <1>4
<1>6. Async => EndOf(n) <= dec.fed
  BY <1>1 DEF EndOf, NextLine
<1>7. dec.fed \in Nat /\ dec.fed <= MaxStream /\ AnAnswer /\ n \in 0..Len(call.wire)
  BY <1>1 DEF Remembers
<1>8. /\ AnAnswer' /\ Async' = Async /\ Len(call.wire)' = Len(call.wire) /\ Taken' = EndOf(n)
      /\ Opens(dec.lines + 1)' = Opens(n + 1) /\ Event(dec.lines + 1)' = Event(n + 1)
      /\ EndOf(Opens(dec.lines + 1))' = EndOf(Opens(n + 1))
  BY <1>2, <1>7, SameAnswer DEF Taken
<1> QED BY <1>2, <1>3, <1>4, <1>5, <1>6, <1>7, <1>8 DEF Remembers

LEMMA CleanAfter ==
    ASSUME AnAnswer, NEW n \in 1..Len(call.wire), Clean(n - 1), ~Breaks(n), ~Finishes(n)
    PROVE  Clean(n)
<1>1. \A i \in 1..n : i \in 1..(n - 1) \/ i = n
  BY LinesTyped
<1> QED BY <1>1 DEF Clean

LEMMA TakeDecodes ==
    ASSUME Streaming, Decoding, net \in NetType, pc # "done", dec.lines < Len(call.wire),
           NEW size \in Nat \ {0}, Taken + size <= MaxStream, NEW next \in {"read", "decode"},
           Async => NextLine.ends <= dec.fed,
           size = NextSize \/ (~Async /\ NextLine.kind = "blank"),
           Take(NextLine, size, next)
    PROVE  Decoding'
<1> DEFINE n == dec.lines + 1
<1>1. Remembers /\ AnAnswer /\ n \in 1..Len(call.wire) /\ n - 1 = dec.lines
  BY LinesTyped DEF Decoding, Remembers
<1>2. result = None /\ Clean(n - 1) /\ delivered = Yielded(n - 1)
  BY <1>1 DEF Decoding
<1>3. CASE Meaning(NextLine, size) = "malformed"
  BY <1>3, FailsDecodes DEF Take
<1>4. CASE Meaning(NextLine, size) # "malformed"
  <2>1. /\ ~Breaks(n)
        /\ Finishes(n) <=> Meaning(NextLine, size) = "done"
        /\ (n \in Blanks /\ Event(n) # <<>> /\ ~Finishes(n)) <=> Meaning(NextLine, size) = "chunk"
    BY <1>1, <1>4, MeaningIs
  <2>2. dec' = After(NextLine, size) /\ UNCHANGED call
    BY <1>4 DEF Take
  <2>3. Remembers' /\ dec'.lines = n
    BY <1>1, <2>2, RemembersMore
  <2>4. \A m : Clean(m)' = Clean(m) /\ Closing(m)' = Closing(m) /\ Yielded(m)' = Yielded(m)
    BY <2>2, SameAnswer
  <2>5. /\ Yielded(dec.lines)' = Yielded(n)
        /\ Clean(dec.lines)' = Clean(n) /\ Closing(dec.lines)' = Closing(n)
    BY <2>3, <2>4
  <2>6. Yielded(n) = IF n \in Blanks /\ Event(n) # <<>> /\ ~Finishes(n)
                     THEN Append(Yielded(n - 1), Event(n)) ELSE Yielded(n - 1)
    BY <1>1, YieldedAfter
  <2>7. dec.data = Event(n)
    BY <1>1 DEF Remembers
  <2>8. Arrived'
    BY <1>4, <2>2, ArrivedStays, EndsArrived DEF Take, Decoding
  <2>9. CASE Meaning(NextLine, size) = "done"
    <3>1. pc' = "done" /\ delivered' = delivered
      BY <2>9, <1>4 DEF Take, Ends
    <3>2. Closing(n)
      BY <1>1, <1>2, <2>1, <2>9 DEF Closing
    <3>3. delivered' = Yielded(n)
      BY <3>1, <1>2, <2>1, <2>6, <2>9
    <3> QED BY <2>3, <2>5, <2>8, <3>1, <3>2, <3>3 DEF Decoding
  <2>10. CASE Meaning(NextLine, size) = "chunk"
    <3>1. pc' = "paused" /\ delivered' = Append(delivered, dec.data) /\ result' = result
      BY <2>10 DEF Take
    <3>2. Clean(n)
      BY <1>1, <1>2, <2>1, <2>10, CleanAfter
    <3>3. delivered' = Yielded(n)
      BY <3>1, <1>2, <2>1, <2>6, <2>7, <2>10
    <3>4. (Finished => Closing(dec.lines))'
      BY <3>1, <1>2 DEF Finished
    <3> QED BY <2>3, <2>5, <2>8, <3>1, <3>2, <3>3, <3>4, <1>2 DEF Decoding
  <2>11. CASE Meaning(NextLine, size) \notin {"done", "chunk"}
    <3>1. pc' = next /\ delivered' = delivered /\ result' = result
      BY <2>11, <1>4 DEF Take
    <3>2. Clean(n)
      BY <1>1, <1>2, <2>1, <2>11, CleanAfter
    <3>3. delivered' = Yielded(n)
      BY <3>1, <1>2, <2>1, <2>6, <2>11
    <3>4. (Finished => Closing(dec.lines))'
      BY <3>1, <1>2 DEF Finished
    <3> QED BY <2>3, <2>5, <2>8, <3>1, <3>2, <3>3, <3>4, <1>2 DEF Decoding
  <2> QED BY <2>9, <2>10, <2>11
<1> QED BY <1>3, <1>4

LEMMA ReadLineDecodes == ASSUME Streaming, Decoding, net \in NetType, ReadLine PROVE Decoding'
<1>1. pc = "read" /\ ~Async
  BY DEF ReadLine
<1>2. /\ Len(call.wire) \in Nat /\ dec.lines \in 0..Len(call.wire) /\ Taken \in Nat
      /\ dec.lines < Len(call.wire) => NextLine.ends \in Nat /\ NextLine.ends > Taken /\ NextSize = NextLine.ends - Taken
  <2>1. AnAnswer /\ dec.lines \in 0..Len(call.wire)
    BY DEF Decoding, Remembers
  <2>2. dec.lines < Len(call.wire) => dec.lines + 1 # 0 /\ EndOf(dec.lines + 1) = NextLine.ends
    BY <2>1, LinesTyped DEF EndOf, NextLine
  <2>3. dec.lines < Len(call.wire) => dec.lines + 1 \in 0..Len(call.wire)
    BY <2>1, LinesTyped
  <2> QED BY <2>1, <2>2, <2>3, LinesTyped, EndsGrow DEF Taken, NextSize
<1>3. CASE /\ HasLine(net.arrived)
           /\ IF NextLine.ends > MaxStream THEN Fails("MALFORMED") ELSE Take(NextLine, NextSize, "read")
  <2>1. dec.lines < Len(call.wire) /\ NextSize \in Nat \ {0} /\ Taken + NextSize = NextLine.ends
    BY <1>2, <1>3 DEF HasLine
  <2>2. CASE NextLine.ends > MaxStream
    BY <1>1, <1>3, <2>2, FailsDecodes
  <2>3. CASE ~(NextLine.ends > MaxStream)
    <3>1. Taken + NextSize <= MaxStream
      BY <1>2, <2>1, <2>3, TransportAssumption
    <3> QED BY <1>1, <1>3, <2>1, <2>3, <3>1, TakeDecodes
  <2> QED BY <2>2, <2>3
<1>4. CASE /\ ~HasLine(net.arrived)
           /\ Pending(net.arrived) = 1 /\ NextLine.kind = "blank" /\ Taken + 1 <= MaxStream
           /\ Take(NextLine, 1, "read")
  <2>1. dec.lines < Len(call.wire)
    <3>1. net.arrived \in Int /\ net.arrived <= WireSize /\ net.arrived = Taken + 1
      BY <1>2, <1>4 DEF Pending, Decoding, Arrived, NetType
    <3>2. dec.lines = Len(call.wire) => WireSize = Taken
      BY DEF WireSize, Taken
    <3> QED BY <1>2, <3>1, <3>2
  <2>2. 1 \in Nat \ {0} /\ "read" \in {"read", "decode"}
    OBVIOUS
  <2> QED BY <1>1, <1>4, <2>1, <2>2, TakeDecodes
<1>5. CASE Fails("MALFORMED")
  BY <1>1, <1>5, FailsDecodes
<1> QED BY <1>3, <1>4, <1>5 DEF ReadLine

LEMMA FeedDecodes == ASSUME Streaming, Decoding, net \in NetType, Feed PROVE Decoding'
<1>1. CASE Fails("MALFORMED")
  BY <1>1, FailsDecodes DEF Feed
<1>2. CASE ~Fails("MALFORMED")
  <2>1. PICK n \in (dec.fed + 1)..net.arrived : ~(n > MaxStream) /\ dec' = [dec EXCEPT !.fed = n]
    BY <1>2 DEF Feed
  <2>2. pc = "read" /\ pc' = "decode" /\ UNCHANGED <<call, net, time, delivered, result>>
    BY <1>2 DEF Feed
  <2>3. n \in Nat /\ n <= MaxStream /\ (Async => Taken <= n)
    <3>1. dec.fed \in Nat /\ (Async => Taken <= dec.fed) /\ Taken \in Nat
      BY EndsGrow DEF Decoding, Remembers, Taken
    <3> QED BY <2>1, <3>1, TransportAssumption
  <2>4. Remembers'
    <3>1. /\ dec'.fed = n /\ dec'.lines = dec.lines /\ dec'.data = dec.data /\ dec'.bytes = dec.bytes
          /\ dec' = [fed |-> n, lines |-> dec.lines, data |-> dec.data, bytes |-> dec.bytes]
      <4>1. dec = [fed |-> dec.fed, lines |-> dec.lines, data |-> dec.data, bytes |-> dec.bytes]
        BY DEF Decoding, Remembers
      <4> QED BY <2>1, <4>1
    <3>2. Opens(dec.lines + 1) \in 0..dec.lines /\ dec.data = Event(dec.lines + 1)
          /\ dec.bytes = Taken - EndOf(Opens(dec.lines + 1)) /\ AnAnswer /\ dec.lines \in 0..Len(call.wire)
      BY DEF Decoding, Remembers
    <3>3. /\ Opens(dec.lines + 1)' = Opens(dec.lines + 1) /\ Event(dec.lines + 1)' = Event(dec.lines + 1)
          /\ AnAnswer' = AnAnswer /\ Async' = Async /\ Len(call.wire)' = Len(call.wire)
          /\ Taken' = Taken /\ EndOf(Opens(dec.lines + 1))' = EndOf(Opens(dec.lines + 1))
      BY <2>2, <3>1, SameAnswer DEF Taken
    <3>4. (dec = [fed |-> dec.fed, lines |-> dec.lines, data |-> dec.data, bytes |-> dec.bytes])'
      BY <3>1
    <3>5. /\ AnAnswer' /\ (dec.lines \in 0..Len(call.wire))' /\ (Opens(dec.lines + 1) \in 0..dec.lines)'
          /\ (dec.data = Event(dec.lines + 1))' /\ (dec.bytes = Taken - EndOf(Opens(dec.lines + 1)))'
      BY <3>1, <3>2, <3>3
    <3>6. (dec.fed \in Nat /\ dec.fed <= MaxStream)' /\ (Async => Taken <= dec.fed)'
      BY <2>3, <3>1, <3>3
    <3> QED BY <3>4, <3>5, <3>6 DEF Remembers
  <2>5. Arrived'
    BY <2>2, ArrivedStays DEF Decoding
  <2>6. dec'.lines = dec.lines
    BY <2>1 DEF Decoding, Remembers
  <2>7. /\ Yielded(dec.lines)' = Yielded(dec.lines) /\ Clean(dec.lines)' = Clean(dec.lines)
        /\ Closing(dec.lines)' = Closing(dec.lines)
    BY <2>2, <2>6, SameAnswer
  <2>8. delivered = Yielded(dec.lines) /\ result = None /\ Clean(dec.lines)
    BY <2>2 DEF Decoding
  <2> QED BY <2>2, <2>4, <2>5, <2>7, <2>8 DEF Decoding, Finished
<1> QED BY <1>1, <1>2

LEMMA DecodeDecodes == ASSUME Streaming, Decoding, net \in NetType, Decode PROVE Decoding'
<1>1. pc = "decode"
  BY DEF Decode
<1>2. CASE Fails("TIMEOUT") \/ Fails("MALFORMED")
  BY <1>1, <1>2, FailsDecodes
<1>3. CASE HasLine(dec.fed) /\ Take(NextLine, NextSize, "decode")
  <2>1. AnAnswer /\ dec.lines \in 0..Len(call.wire) /\ Len(call.wire) \in Nat /\ dec.fed \in Nat /\ dec.fed <= MaxStream
    BY LinesTyped DEF Decoding, Remembers
  <2>2. dec.lines < Len(call.wire) /\ NextLine.ends <= dec.fed
    <3>1. dec.lines < Len(call.wire) /\ dec.fed >= NextLine.ends
      BY <1>3 DEF HasLine
    <3>2. NextLine.ends \in Nat
      BY <2>1, <3>1, LinesTyped DEF NextLine
    <3> QED BY <2>1, <3>1, <3>2
  <2>3. EndOf(dec.lines + 1) = NextLine.ends /\ dec.lines + 1 \in 0..Len(call.wire)
    BY <2>1, <2>2 DEF EndOf, NextLine
  <2>4. Taken \in Nat /\ NextLine.ends \in Nat /\ Taken < NextLine.ends
    BY <2>1, <2>2, <2>3, EndsGrow DEF Taken
  <2>5. NextSize \in Nat \ {0} /\ Taken + NextSize = NextLine.ends /\ Taken + NextSize <= MaxStream
    BY <2>1, <2>2, <2>4, TransportAssumption DEF NextSize
  <2>6. "decode" \in {"read", "decode"}
    OBVIOUS
  <2> QED BY <1>1, <1>3, <2>2, <2>5, <2>6, TakeDecodes
<1>4. CASE pc' = "read" /\ UNCHANGED <<call, net, dec, time, delivered, result>>
  BY <1>1, <1>4, KeepsDecoding, ArrivedStays DEF Decoding
<1> QED BY <1>2, <1>3, <1>4 DEF Decode

\* Everything else leaves the decoder and the consumer's chunks alone.
LEMMA OthersDecode ==
    ASSUME Streaming, Decoding, net \in NetType, [Next]_vars, ~ReadLine, ~Feed, ~Decode
    PROVE  Decoding'
<1>1. CASE \E failure \in {"ConfigurationError", "NOT_CONFIGURED", "RATE_LIMITED", "TIMEOUT", "UNAVAILABLE", "REJECTED",
                           "MALFORMED", "FAILED", "cancelled"} : pc # "done" /\ Fails(failure)
  BY <1>1, FailsDecodes
<1>2. CASE /\ pc # "done" /\ UNCHANGED <<call, dec, delivered>>
           /\ \E failure \in {"UNAVAILABLE", "TIMEOUT", "FAILED"}, safe \in BOOLEAN : Ends(failure, safe)
  <2>1. Arrived'
    BY <1>2, EndsArrived DEF Decoding
  <2>2. pc' = "done" /\ result'.outcome # "ok"
    BY <1>2 DEF Ends
  <2> QED BY <1>2, <2>1, <2>2, KeepsDecoding
<1>3. CASE /\ UNCHANGED <<call, dec, delivered, result>> /\ net'.arrived = net.arrived
           /\ pc' = pc \/ pc # "done" 
  <2>1. Arrived'
    BY <1>3, ArrivedStays DEF Decoding
  <2> QED BY <1>3, <2>1, KeepsDecoding
<1>4. CASE Dial /\ pc \in {"start", "idle"}
  <2>1. net' = [net EXCEPT !.conn = "connecting"] => net'.arrived = net.arrived
    BY DEF NetType
  <2> QED BY <1>1, <1>3, <1>4, <2>1 DEF Dial
<1>5. CASE Begin
  <2>0. pc = "start"
    BY <1>5 DEF Begin
  <2>1. CASE Fails("NOT_CONFIGURED")
    BY <1>1, <2>0, <2>1
  <2>2. CASE Dial
    BY <1>4, <2>0, <2>2
  <2>3. CASE UNCHANGED <<call, net, dec, time, delivered, result>>
    BY <1>3, <1>5, <2>3 DEF Begin
  <2> QED BY <1>5, <2>1, <2>2, <2>3 DEF Begin
<1>6. CASE Connected
  <2>1. net'.arrived = net.arrived
    BY <1>6 DEF Connected, NetType
  <2> QED BY <1>3, <1>6, <2>1 DEF Connected
<1>7. CASE ConnectFails
  BY <1>2, <1>7 DEF ConnectFails
<1>8. CASE ExchangeFails
  BY <1>2, <1>8 DEF ExchangeFails
<1>9. CASE ResponseHead
  <2>1. StatusFailure(call.status) \in {"RATE_LIMITED", "TIMEOUT", "UNAVAILABLE", "REJECTED"}
    BY DEF StatusFailure
  <2> QED BY <1>1, <1>3, <1>9, <2>1 DEF ResponseHead
<1>10. CASE ReadFails
  BY <1>1, <1>10 DEF ReadFails
<1>11. CASE Arrive
  <2>1. PICK n \in (net.arrived + 1)..WireSize : net' = [net EXCEPT !.arrived = n]
    BY <1>11 DEF Arrive
  <2>2. net'.arrived = n /\ n \in Int /\ n <= WireSize
    BY <2>1, LinesTyped, EndsGrow DEF NetType, Decoding, Remembers, WireSize
  <2>3. UNCHANGED <<call, dec, delivered, result, pc>>
    BY <1>11 DEF Arrive
  <2>4. Arrived'
    BY <2>2, <2>3 DEF Arrived, WireSize, EndOf
  <2> QED BY <2>3, <2>4, KeepsDecoding
<1>12. CASE Stop
  <2>1. net'.arrived = net.arrived
    BY <1>12 DEF Stop, NetType
  <2> QED BY <1>3, <1>12, <2>1 DEF Stop
<1>13. CASE Pull
  BY <1>3, <1>4, <1>13 DEF Pull
<1>14. CASE Close
  <2>1. net'.arrived = net.arrived
    BY <1>14 DEF Close, NetType
  <2>2. Arrived'
    BY <1>14, <2>1, ArrivedStays DEF Close, Decoding
  <2>3. pc # "done" /\ pc' = "done" /\ result'.outcome # "ok" /\ UNCHANGED <<call, dec, delivered>>
    BY <1>14 DEF Close
  <2> QED BY <2>2, <2>3, KeepsDecoding
<1>15. CASE Cancel
  BY <1>1, <1>15 DEF Cancel
<1>16. CASE Tick
  BY <1>3, <1>16 DEF Tick
<1>17. CASE UNCHANGED vars
  BY <1>3, <1>17 DEF vars
<1>18. ~Body
  BY DEF Body
<1> QED BY <1>5, <1>6, <1>7, <1>8, <1>9, <1>10, <1>11, <1>12, <1>13, <1>14, <1>15, <1>16, <1>17, <1>18 DEF Next, Own

LEMMA SameCall == [Next]_vars => UNCHANGED call
<1>1. \A failure : Fails(failure) => UNCHANGED call
  BY DEF Fails
<1>2. Dial => UNCHANGED call
  BY <1>1 DEF Dial
<1>3. \A line, size, next : Take(line, size, next) => UNCHANGED call
  BY <1>1 DEF Take
<1> QED BY <1>1, <1>2, <1>3 DEF Next, Own, vars, Begin, Connected, ConnectFails, ExchangeFails, ResponseHead, ReadFails, Body,
     ReadLine, Feed, Decode, Arrive, Stop, Pull, Close, Cancel, Tick

LEMMA StreamStep == net \in NetType /\ StreamInv /\ [Next]_vars => StreamInv'
<1>1. SUFFICES ASSUME net \in NetType, StreamInv, [Next]_vars, Streaming' PROVE Decoding'
  BY DEF StreamInv
<1>2. Streaming
  BY <1>1, SameCall DEF Streaming
<1> QED BY <1>1, <1>2, ReadLineDecodes, FeedDecodes, DecodeDecodes, OthersDecode DEF StreamInv

LEMMA StreamInit == Init => StreamInv
<1>1. SUFFICES ASSUME Init PROVE Decoding
  BY DEF StreamInv
<1>2. AnAnswer
  BY <1>1 DEF Init, AnAnswer
<1>3. /\ dec = [fed |-> 0, lines |-> 0, data |-> <<>>, bytes |-> 0] /\ delivered = <<>> /\ result = None /\ pc = "start"
      /\ net.arrived = 0
  BY <1>1 DEF Init
<1>4. Len(call.wire) \in Nat /\ EndOf(0) = 0 /\ WireSize \in Nat
  BY <1>2, LinesTyped, EndsGrow DEF EndOf, WireSize
<1>5. Remembers
  <2>1. Opens(0 + 1) = 0 /\ Event(0 + 1) = <<>>
    BY <1>2, OpensFirst, NothingGathered
  <2> QED BY <1>2, <1>3, <1>4, <2>1, TransportAssumption DEF Remembers, Taken
<1>6. Clean(0)
  BY DEF Clean
<1>7. Arrived
  BY <1>3, <1>4 DEF Arrived
<1>8. delivered = Yielded(dec.lines) /\ Clean(dec.lines)
  BY <1>2, <1>3, <1>6, NothingYielded
<1> QED BY <1>3, <1>5, <1>7, <1>8 DEF Decoding, Finished

-----------------------------------------------------------------------------
LEMMA LastLineIs ==
    ASSUME AnAnswer
    PROVE  /\ LastLine \in 1..(Len(call.wire) + 1)
           /\ \A i \in 1..Len(call.wire) : Breaks(i) \/ Finishes(i) => LastLine <= i
           /\ LastLine <= Len(call.wire) => Breaks(LastLine) \/ Finishes(LastLine)
<1> DEFINE ending == {Len(call.wire) + 1} \cup {i \in DOMAIN call.wire : Breaks(i) \/ Finishes(i)}
<1>1. ending \in SUBSET Nat /\ ending # {} /\ Len(call.wire) \in Nat /\ DOMAIN call.wire = 1..Len(call.wire)
  BY LinesTyped
<1>2. \E x \in ending : \A y \in ending : x <= y
  BY <1>1, LeastNatural
<1>3. LastLine \in ending /\ \A y \in ending : LastLine <= y
  BY <1>2 DEF LastLine, Min
<1> QED BY <1>1, <1>3

\* What was delivered begins the stream, and is all of it once the stream is closed.
LEMMA StreamHolds == StreamInv => DeliveredIsTheStream
<1>1. SUFFICES ASSUME Streaming, Decoding
               PROVE  /\ IsPrefix(delivered, StreamOf)
                      /\ Finished => delivered = StreamOf /\ LastLine <= Len(call.wire) /\ Finishes(LastLine)
  BY DEF StreamInv, DeliveredIsTheStream, Finished
<1> DEFINE n == dec.lines
           S == ChunksTo(n)
<1>2. AnAnswer /\ n \in 0..Len(call.wire) /\ Len(call.wire) \in Nat /\ delivered = Yielded(n)
  BY <1>1, LinesTyped DEF Decoding, Remembers
<1>3. S = {i \in Chunks : i <= n}
  <2>1. CASE Clean(n)
    <3>1. LastLine > n
      BY <1>2, <2>1, LastLineIs DEF Clean
    <3>2. ASSUME NEW i \in Blanks, i <= n PROVE i < LastLine /\ ~Finishes(i)
      <4>1. i \in 1..n
        BY <1>2, <3>2, BlankLines
      <4> QED BY <1>2, <2>1, <3>1, <3>2, <4>1, LastLineIs DEF Clean
    <3> QED BY <3>2 DEF ChunksTo, Chunks
  <2>2. CASE Closing(n)
    <3>1. LastLine = n
      <4>1. LastLine <= n
        BY <1>2, <2>2, LastLineIs DEF Closing
      <4>2. ~(LastLine < n)
        BY <1>2, <2>2, LastLineIs DEF Closing, Clean
      <4> QED BY <1>2, <4>1, <4>2, LastLineIs
    <3>2. ASSUME NEW i \in Blanks, i <= n PROVE i < LastLine <=> ~Finishes(i)
      <4>1. i \in 1..n
        BY <1>2, <3>2, BlankLines
      <4>2. i \in 1..(n - 1) \/ i = n
        BY <1>2, <4>1
      <4> QED BY <1>2, <2>2, <3>1, <4>1, <4>2 DEF Closing, Clean
    <3> QED BY <3>2 DEF ChunksTo, Chunks
  <2> QED BY <1>1, <2>1, <2>2 DEF Decoding
<1>4. /\ IsFiniteSet(Chunks) /\ \A i \in Chunks : i \in Int
  BY <1>2, ChunksFinite
<1>5. /\ Cardinality(S) \in Nat /\ Cardinality(Chunks) \in Nat /\ Cardinality(S) <= Cardinality(Chunks)
      /\ \A k \in 1..Cardinality(S) : InOrder(S)[k] = InOrder(Chunks)[k]
  <2>1. n \in Int
    BY <1>2
  <2> HIDE DEF S, n
  <2> QED BY <1>3, <1>4, <2>1, EarlierFirst
<1>6. StreamOf = [k \in 1..Cardinality(Chunks) |-> Event(InOrder(Chunks)[k])]
  <2>1. DOMAIN InOrder(Chunks) = 1..Cardinality(Chunks)
    BY DEF InOrder
  <2> QED BY <2>1 DEF StreamOf
<1>7. delivered = [k \in 1..Cardinality(S) |-> Event(InOrder(S)[k])]
  BY <1>2, YieldedIs
<1>8. IsPrefix(delivered, StreamOf)
  <2>1. 1..Cardinality(S) \subseteq 1..Cardinality(Chunks)
    BY <1>5
  <2>2. \A k \in 1..Cardinality(S) : delivered[k] = StreamOf[k]
    BY <1>5, <1>6, <1>7, <2>1
  <2>3. delivered = [k \in 1..Cardinality(S) |-> delivered[k]]
    BY <1>7
  <2>4. StreamOf = [k \in 1..Cardinality(Chunks) |-> StreamOf[k]]
    BY <1>6
  <2> QED BY <1>5, <2>2, <2>3, <2>4, Prefix
<1>9. ASSUME Finished PROVE delivered = StreamOf /\ LastLine <= Len(call.wire) /\ Finishes(LastLine)
  <2>1. Closing(n)
    BY <1>1, <1>9 DEF Decoding
  <2>2. LastLine = n
    <3>1. LastLine <= n
      BY <1>2, <2>1, LastLineIs DEF Closing
    <3>2. ~(LastLine < n)
      BY <1>2, <2>1, LastLineIs DEF Closing, Clean
    <3> QED BY <1>2, <3>1, <3>2, LastLineIs
  <2>3. Chunks = S
    <3>1. \A i \in Chunks : i < LastLine
      BY DEF Chunks
    <3> QED BY <1>2, <1>3, <1>4, <2>2, <3>1
  <2>4. Finishes(LastLine)
    BY <2>1, <2>2 DEF Closing
  <2> QED BY <1>2, <1>6, <1>7, <2>2, <2>3, <2>4
<1> QED BY <1>8, <1>9

\* DeliveredIsTheStream, for every answer, limit, pace of the upstream and consumer, and both transports.
THEOREM StreamIsDelivered == Spec => []DeliveredIsTheStream
<1>1. Inv => net \in NetType
  BY DEF Inv
<1>2. Inv /\ StreamInv /\ [Next]_vars => Inv' /\ StreamInv'
  BY <1>1, Step, StreamStep
<1>3. Init => Inv /\ StreamInv
  BY InitInv, StreamInit
<1>4. Inv /\ StreamInv => DeliveredIsTheStream
  BY StreamHolds
<1> QED BY <1>2, <1>3, <1>4, PTL DEF Spec
=============================================================================
