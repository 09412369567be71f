-------------------------- MODULE HttpServer_proofs --------------------------
(***************************************************************************)
(* HttpServer for every number of connections, even one without bound.     *)
(*                                                                         *)
(* Its capacity: a permit is taken where a connection is accepted, and     *)
(* comes back where its thread did not start or has shut it, nowhere else. *)
(*                                                                         *)
(* Its answers: the place of a worker, the state of its handler and what   *)
(* is on the wire go together (FramingInv), so that no connection is used  *)
(* again with a rest of a POST on it or after a write that was too late,   *)
(* and every client that keeps up with an answer can tell where it ends.   *)
(***************************************************************************)
EXTENDS HttpServer, FiniteSetTheorems, SequenceTheorems, TLAPS

Serving == Working \cup {"starting"}
Served  == {k \in Conns : pc[k] \in Serving}

CapacityInv ==
    /\ pc \in [Conns -> Places]
    /\ permits \in Nat
    /\ IsFiniteSet(Served)
    /\ permits + Cardinality(Served) = Capacity

\* A connection goes on being served, or not being served.
LEMMA SamePermits ==
    ASSUME CapacityInv, NEW k \in Conns, NEW place \in Places, GoTo(k, place), UNCHANGED permits,
           pc[k] \in Serving <=> place \in Serving
    PROVE  CapacityInv'
<1>1. \A j \in Conns : pc'[j] = IF j = k THEN place ELSE pc[j]
  BY DEF GoTo, CapacityInv
<1>2. Served' = Served
  BY <1>1 DEF Served
<1> QED BY <1>2 DEF CapacityInv, GoTo

\* Exceptions lead to an answer or to the end of the connection.
LEMMA RaiseStaysInside ==
    ASSUME CapacityInv, NEW k \in Conns, pc[k] \in Working, RaiseTimeout(k), UNCHANGED permits
    PROVE  CapacityInv'
<1>1. PICK place \in {"answering", "closing"} : GoTo(k, place)
  BY DEF RaiseTimeout
<1>2. place \in Places /\ place \in Serving /\ pc[k] \in Serving
  BY DEF Places, Serving, Working, Guarded, Bare
<1> QED BY <1>1, <1>2, SamePermits

LEMMA WritingIsServed == /\ Writes \subseteq Working /\ Heads \subseteq Writes
                         /\ Working \subseteq Serving /\ Serving \subseteq Places
BY DEF Writes, Heads, Working, Guarded, Bare, Serving, Places

LEMMA FollowStaysInside ==
    ASSUME CapacityInv, NEW k \in Conns, pc[k] \in Writes, Follow(k), UNCHANGED permits
    PROVE  CapacityInv'
<1>1. CASE At(k, "finishing") /\ handler[k].raising
  BY <1>1, WritingIsServed, RaiseStaysInside DEF Follow
<1>2. CASE ~(At(k, "finishing") /\ handler[k].raising)
  <2> DEFINE place == CASE pc[k] = "answering"  -> "replying"
                        [] pc[k] = "completing" -> "delivering"
                        [] pc[k] = "opening"    -> "emitting"
                        [] pc[k] = "emitting"   -> "pulling"
                        [] pc[k] \in {"ending", "failing"} -> "finishing"
                        [] pc[k] \in {"replying", "delivering"} -> Return(k, handler[k].close_connection)
                        [] pc[k] = "finishing"  -> Return(k, Closes(k))
  <2>1. Return(k, handler[k].close_connection) \in {"closing", "ready"} /\ Return(k, Closes(k)) \in {"closing", "ready"}
    BY DEF Return
  <2>2. place \in {"replying", "delivering", "emitting", "pulling", "finishing", "closing", "ready"}
    BY <2>1 DEF Writes
  <2>3. place \in Working
    BY <2>2 DEF Working, Guarded, Bare
  <2>4. PICK next \in Working : next = place
    BY <2>3
  <2>5. GoTo(k, next)
    BY <1>2, <2>4 DEF Follow
  <2> QED BY <2>4, <2>5, WritingIsServed, SamePermits
<1> QED BY <1>1, <1>2

LEMMA ServingStep ==
    ASSUME CapacityInv, NEW k \in Conns,
           \/ StartThread(k) \/ StopWaiting(k) \/ Get(k) \/ RefusePost(k) \/ Post(k) \/ ReadBody(k)
           \/ ReadHalf(k) \/ Misfit(k) \/ Decide(k) \/ Pull(k) \/ Shut(k)
    PROVE  CapacityInv'
<1>1. PICK place \in Working : GoTo(k, place)
  BY DEF StartThread, StopWaiting, Get, RefusePost, Post, Request, ReadBody, ReadHalf, Misfit, Answer, Decide,
     Pull, Shut, Working, Guarded, Bare
<1>2. pc[k] \in Serving /\ UNCHANGED permits
  BY DEF StartThread, StopWaiting, Get, RefusePost, Post, Request, ReadBody, ReadHalf, Misfit, Answer, Decide,
     Pull, Shut, At, serverVars, Serving, Working, Guarded, Bare
<1> QED BY <1>1, <1>2, WritingIsServed, SamePermits

LEMMA WritingStep ==
    ASSUME CapacityInv, NEW k \in Conns, WriteDone(k) \/ WriteTimesOut(k) \/ WriteBreaks(k)
    PROVE  CapacityInv'
<1>1. pc[k] \in Writes /\ UNCHANGED permits
  BY DEF WriteDone, WriteTimesOut, WriteBreaks, serverVars
<1>2. ASSUME NEW place \in {"failing", "finishing", "answering", "closing"}, GoTo(k, place) PROVE CapacityInv'
  <2>1. place \in Working
    BY DEF Working, Guarded, Bare
  <2> QED BY <1>1, <1>2, <2>1, WritingIsServed, SamePermits
<1>3. CASE WriteDone(k)
  BY <1>1, <1>3, FollowStaysInside DEF WriteDone
<1>4. CASE WriteTimesOut(k)
  <2>1. CASE pc[k] \in {"emitting", "ending", "failing"}
    BY <1>2, <1>4, <2>1 DEF WriteTimesOut
  <2>2. CASE pc[k] \notin {"emitting", "ending", "failing"}
    BY <1>1, <1>4, <2>2, WritingIsServed, RaiseStaysInside DEF WriteTimesOut
  <2> QED BY <2>1, <2>2
<1>5. CASE WriteBreaks(k)
  <2>1. CASE pc[k] \in {"failing", "finishing"}
    BY <1>1, <1>5, <2>1, FollowStaysInside DEF WriteBreaks
  <2>2. CASE pc[k] \notin {"failing", "finishing"}
    BY <1>1, <1>2, <1>5, <2>2 DEF WriteBreaks, Writes
  <2> QED BY <2>1, <2>2
<1> QED BY <1>3, <1>4, <1>5

\* Connections that wait, are turned away or come back.
LEMMA OutsideStep ==
    ASSUME CapacityInv, NEW k \in Conns,
           Connect(k) \/ Disconnect(k) \/ AcceptBusy(k) \/ RejectRequest(k) \/ RejectSilence(k)
    PROVE  CapacityInv'
<1>1. CASE Disconnect(k)
  BY <1>1 DEF Disconnect, serverVars, CapacityInv, Served
<1>2. CASE ~Disconnect(k)
  <2>1. PICK place \in {"away", "queued", "rejecting"} : GoTo(k, place)
    BY <1>2 DEF Connect, AcceptBusy, RejectRequest, RejectSilence, Rejected
  <2>2. pc[k] \in {"away", "queued", "rejecting"} /\ UNCHANGED permits
    BY <1>2 DEF Connect, AcceptBusy, RejectRequest, RejectSilence, Rejected, At, serverVars
  <2>3. \A s \in {"away", "queued", "rejecting"} : s \in Places /\ s \notin Serving
    BY DEF Places, Serving, Working, Guarded, Bare
  <2> QED BY <2>1, <2>2, <2>3, SamePermits
<1> QED BY <1>1, <1>2

LEMMA AcceptStep == ASSUME CapacityInv, NEW k \in Conns, Accept(k) PROVE CapacityInv'
<1>1. /\ pc[k] = "queued" /\ "queued" \notin Serving /\ "starting" \in Serving /\ "starting" \in Places
      /\ pc' = [pc EXCEPT ![k] = "starting"] /\ permits' = permits - 1 /\ permits > 0
  BY DEF Accept, At, GoTo, Serving, Places, Working, Guarded, Bare
<1>2. Served' = Served \cup {k} /\ k \notin Served
  BY <1>1 DEF Served, CapacityInv
<1>3. IsFiniteSet(Served') /\ Cardinality(Served') = Cardinality(Served) + 1 /\ Cardinality(Served) \in Nat
  BY <1>2, FS_AddElement, FS_CardinalityType DEF CapacityInv
<1>4. pc' \in [Conns -> Places]
  BY <1>1 DEF CapacityInv
<1> QED BY <1>1, <1>3, <1>4, CapacityAssumption DEF CapacityInv

\* The permit comes back once.
LEMMA ReturnStep == ASSUME CapacityInv, NEW k \in Conns, StartFails(k) \/ Release(k) PROVE CapacityInv'
<1>1. /\ pc[k] \in Serving /\ "away" \notin Serving /\ "away" \in Places
      /\ pc' = [pc EXCEPT ![k] = "away"] /\ permits' = permits + 1
  BY DEF StartFails, Release, At, GoTo, Serving, Places, Working, Guarded, Bare
<1>2. Served' = Served \ {k} /\ k \in Served
  BY <1>1 DEF Served, CapacityInv
<1>3. IsFiniteSet(Served') /\ Cardinality(Served') = Cardinality(Served) - 1 /\ Cardinality(Served) \in Nat
  BY <1>2, FS_RemoveElement, FS_CardinalityType DEF CapacityInv
<1>4. pc' \in [Conns -> Places]
  BY <1>1 DEF CapacityInv
<1> QED BY <1>1, <1>3, <1>4, CapacityAssumption DEF CapacityInv

\* The capacity adds up in every run.
THEOREM CapacityInvariant == Spec => []CapacityInv
<1>1. Init => CapacityInv
  <2>1. SUFFICES ASSUME Init PROVE CapacityInv
    OBVIOUS
  <2>2. pc \in [Conns -> Places] /\ permits = Capacity
    BY <2>1 DEF Init, Places
  <2>3. Served = {}
    BY <2>1 DEF Init, Served, Serving, Working, Guarded, Bare
  <2>4. IsFiniteSet(Served) /\ Cardinality(Served) = 0
    BY <2>3, FS_EmptySet
  <2> QED BY <2>2, <2>4, CapacityAssumption DEF CapacityInv
<1>2. CapacityInv /\ [Next]_vars => CapacityInv'
  <2>1. ASSUME CapacityInv, UNCHANGED vars PROVE CapacityInv'
    BY <2>1 DEF vars, CapacityInv, Served
  <2> QED BY <2>1, ServingStep, WritingStep, OutsideStep, AcceptStep, ReturnStep DEF Next, Serve
<1> QED BY <1>1, <1>2, PTL DEF Spec

\* CapacityConserved, for every number of connections and every capacity.
THEOREM NoPermitIsLost == Spec => []CapacityConserved
<1>1. CapacityInv => CapacityConserved
  BY DEF CapacityInv, CapacityConserved, Served, Serving
<1> QED BY <1>1, CapacityInvariant, PTL

-----------------------------------------------------------------------------
\* What a stream puts on the wire: its status line and so many chunks.
Data(n)  == [i \in 1 .. n |-> "data"]
Begun(n) == <<"head">> \o Data(n)

LEMMA DataTyped == ASSUME NEW n \in Nat PROVE Data(n) \in Seq(Items) /\ Len(Data(n)) = n
BY DEF Data, Items

LEMMA BegunTyped == ASSUME NEW n \in Nat PROVE Begun(n) \in Seq(Items)
<1>1. <<"head">> \in Seq(Items)
  BY DEF Items
<1> QED BY <1>1, DataTyped DEF Begun

LEMMA BegunNone == Begun(0) = <<"head">>
<1>1. Data(0) = <<>>
  BY DEF Data
<1>2. <<"head">> \o <<>> = <<"head">>
  OBVIOUS
<1> QED BY <1>1, <1>2 DEF Begun

LEMMA BegunMore == ASSUME NEW n \in Nat PROVE Begun(n) \o <<"data">> = Begun(n + 1)
<1>1. Data(n) \in Seq(Items) /\ Data(n + 1) \in Seq(Items) /\ Len(Data(n)) = n /\ Len(Data(n + 1)) = n + 1
  BY DataTyped
<1>2. <<"data">> \in Seq(Items) /\ <<"head">> \in Seq(Items) /\ Len(<<"data">>) = 1
  BY DEF Items
<1>3. Data(n) \o <<"data">> \in Seq(Items) /\ Len(Data(n) \o <<"data">>) = n + 1
  BY <1>1, <1>2
<1>4. ASSUME NEW i \in 1 .. n + 1 PROVE (Data(n) \o <<"data">>)[i] = Data(n + 1)[i]
  BY <1>1, <1>2 DEF Data
<1>5. Data(n) \o <<"data">> = Data(n + 1)
  BY <1>1, <1>3, <1>4, SeqEqual
<1> QED BY <1>1, <1>2, <1>5, ConcatAssociative DEF Begun

\* The tails a stream may have, and what is whole.
Tails == {<<>>, <<"done">>, <<"done", "end">>, <<"error">>, <<"error", "end">>}

LEMMA FramedStream ==
    ASSUME NEW n \in 1 .. MaxChunks, NEW t \in Tails
    PROVE  Framed(Begun(n) \o t)
BY DEF Framed, Begun, Data, Tails

LEMMA FramedBegun == ASSUME NEW n \in 0 .. MaxChunks PROVE Framed(Begun(n))
<1>1. CASE n = 0
  <2>1. Begun(n) = <<"head">> \o <<>>
    BY <1>1 , BegunNone
  <2> QED BY <2>1 DEF Framed
<1>2. CASE n # 0
  <2>1. Begun(n) \o <<>> = Begun(n)
    BY BegunTyped, ConcatEmptySeq, ChunksAssumption
  <2>2. n \in 1 .. MaxChunks
    BY <1>2
  <2> QED BY <2>1, <2>2, FramedStream DEF Tails
<1> QED BY <1>1, <1>2

LEMMA Pair == ASSUME NEW a \in Items, NEW b \in Items PROVE <<a>> \o <<b>> = <<a, b>>
<1>1. <<a>> \in Seq(Items) /\ <<b>> \in Seq(Items) /\ <<a, b>> \in Seq(Items)
  OBVIOUS
<1>2. Len(<<a>> \o <<b>>) = 2 /\ <<a>> \o <<b>> \in Seq(Items) /\ Len(<<a, b>>) = 2
  BY <1>1
<1>3. \A i \in 1 .. 2 : (<<a>> \o <<b>>)[i] = <<a, b>>[i]
  <2>1. (<<a>> \o <<b>>)[1] = a
    BY <1>1
  <2>2. (<<a>> \o <<b>>)[2] = b
    BY <1>1
  <2> QED BY <2>1, <2>2
<1> QED BY <1>1, <1>2, <1>3, SeqEqual

LEMMA FramedAnswer == Framed(<<"head">>) /\ Framed(<<"head">> \o <<"body">>) /\ <<"head">> \o <<"body">> = <<"head", "body">>
<1>1. <<"head">> = <<"head">> \o <<>>
  OBVIOUS
<1>2. <<"head">> \o <<"body">> = <<"head", "body">>
  BY Pair DEF Items
<1> QED BY <1>1, <1>2 DEF Framed

LEMMA EndOfStream ==
    ASSUME NEW n \in Nat
    PROVE  /\ (Begun(n) \o <<"done">>) \o <<"end">> = Begun(n) \o <<"done", "end">>
           /\ (Begun(n) \o <<"error">>) \o <<"end">> = Begun(n) \o <<"error", "end">>
<1>1. <<"done">> \in Seq(Items) /\ <<"error">> \in Seq(Items) /\ <<"end">> \in Seq(Items)
  BY DEF Items
<1>2. <<"done">> \o <<"end">> = <<"done", "end">> /\ <<"error">> \o <<"end">> = <<"error", "end">>
  BY Pair DEF Items
<1>3. Begun(n) \in Seq(Items)
  BY BegunTyped
<1> QED BY <1>1, <1>2, <1>3, ConcatAssociative

LEMMA CompleteIsFramed == ASSUME NEW s, Complete(s), s # <<>> PROVE Framed(s)
<1>1. CASE s = <<"head", "body">>
  BY <1>1, FramedAnswer
<1>2. ASSUME NEW n \in 1 .. MaxChunks, s = Begun(n) \o <<"done", "end">> PROVE Framed(s)
  BY <1>2, FramedStream DEF Tails
<1> QED BY <1>1, <1>2 DEF Complete, Begun, Data

Outside == {"away", "queued", "starting", "rejecting", "releasing"}

\* How the state h of a handler goes with its place p; s is on the wire, g: is the client gone,
\* l: has a write been too late?
HandlerFits(p, h, s, g, l) ==
    /\ p \in Outside => h = NewHandler /\ s = <<>> /\ ~l
    /\ p = "ready" => (h.request = "post" => ~h.unread) /\ ~h.close_connection /\ ~h.failed
    /\ h.heads = 0 \/ (h.heads = 1 /\ l /\ p \in {"answering", "closing"})
    /\ h.request = "post" /\ h.unread =>
           p = "reading" \/ h.close_connection \/ (g /\ p \in {"answering", "closing"})
    /\ h.failed => \/ p \in {"failing", "finishing", "closing"}
                   \/ h.close_connection /\ p \in {"answering", "replying"}
    /\ p = "failing" => h.failed
    /\ h.raising => l
    /\ l => h.close_connection \/ p = "closing" \/ (h.failed /\ p \in {"failing", "finishing"})

\* What is on the wire, as long as no write has been too late.
WireFits(p, h, s, g) ==
    /\ p \in {"reading", "deciding", "completing", "opening"} => s = <<>>
    /\ p = "opening" => h.chunks = 1
    /\ p = "answering" => s = <<>> \/ (g /\ Framed(s))
    /\ p \in {"replying", "delivering"} => s = <<"head">>
    /\ p = "emitting" => h.chunks > 0 /\ s = Begun(h.chunks - 1)
    /\ p \in {"pulling", "ending", "failing"} => h.chunks > 0 /\ s = Begun(h.chunks)
    /\ p = "finishing" => /\ h.chunks > 0
                          /\ \/ ~h.failed /\ s = Begun(h.chunks) \o <<"done">>
                             \/ h.failed /\ s = Begun(h.chunks) \o <<"error">>
                             \/ h.failed /\ g /\ Framed(s)
    /\ p = "ready" => Complete(s) \/ (g /\ Framed(s))
    /\ p = "closing" => s = <<>> \/ Framed(s)

Legal(p, h, s, g, l) ==
    /\ p \in Places /\ h \in Handlers /\ s \in Seq(Items) /\ g \in BOOLEAN /\ l \in BOOLEAN
    /\ HandlerFits(p, h, s, g, l)
    /\ ~l => WireFits(p, h, s, g)

Shape ==
    /\ pc \in [Conns -> Places]
    /\ handler \in [Conns -> Handlers]
    /\ wire \in [Conns -> Seq(Items)]
    /\ gone \in [Conns -> BOOLEAN]
    /\ slow \in [Conns -> BOOLEAN]

FramingInv == Shape /\ \A k \in Conns : Legal(pc[k], handler[k], wire[k], gone[k], slow[k])

\* A step that is about one connection, and what it leads to.
Becomes(k, p, h, s, g, l) ==
    /\ pc' = [pc EXCEPT ![k] = p]
    /\ handler' = [handler EXCEPT ![k] = h]
    /\ wire' = [wire EXCEPT ![k] = s]
    /\ gone' = [gone EXCEPT ![k] = g]
    /\ slow' = [slow EXCEPT ![k] = l]

Legally(k) == \E p, h, s, g, l : Becomes(k, p, h, s, g, l) /\ Legal(p, h, s, g, l)

LEMMA LegalStep == ASSUME FramingInv, NEW k \in Conns, Legally(k) PROVE FramingInv'
<1>1. PICK p, h, s, g, l : Becomes(k, p, h, s, g, l) /\ Legal(p, h, s, g, l)
  BY DEF Legally
<1>2. Shape'
  BY <1>1 DEF FramingInv, Shape, Becomes, Legal
<1>3. ASSUME NEW j \in Conns PROVE Legal(pc'[j], handler'[j], wire'[j], gone'[j], slow'[j])
  <2>1. CASE j = k
    BY <1>1, <2>1 DEF FramingInv, Shape, Becomes
  <2>2. CASE j # k
    <3>1. /\ pc'[j] = pc[j] /\ handler'[j] = handler[j] /\ wire'[j] = wire[j]
          /\ gone'[j] = gone[j] /\ slow'[j] = slow[j]
      BY <1>1, <2>2 DEF FramingInv, Shape, Becomes
    <3> QED BY <3>1 DEF FramingInv
  <2> QED BY <2>1, <2>2
<1> QED BY <1>2, <1>3 DEF FramingInv

\* What a step that is not about them leaves as it was.
LEMMA Same ==
    ASSUME Shape, NEW k \in Conns
    PROVE  /\ handler = [handler EXCEPT ![k] = handler[k]] /\ wire = [wire EXCEPT ![k] = wire[k]]
           /\ gone = [gone EXCEPT ![k] = gone[k]] /\ slow = [slow EXCEPT ![k] = slow[k]]
           /\ pc = [pc EXCEPT ![k] = pc[k]]
BY DEF Shape

LEMMA NewHandlerTyped == NewHandler \in Handlers
BY ChunksAssumption DEF NewHandler, Handlers, Requests

\* Before and after a worker has the connection.
LEMMA OutsideLegal ==
    ASSUME FramingInv, NEW k \in Conns,
           \/ Connect(k) \/ Disconnect(k) \/ Accept(k) \/ AcceptBusy(k) \/ StartThread(k) \/ StartFails(k)
           \/ RejectRequest(k) \/ RejectSilence(k) \/ Shut(k) \/ Release(k)
    PROVE  Legally(k)
<1>0. Shape /\ Legal(pc[k], handler[k], wire[k], gone[k], slow[k])
  BY DEF FramingInv
<1>1. CASE Disconnect(k)
  <2>1. Becomes(k, pc[k], handler[k], wire[k], TRUE, slow[k])
    BY <1>0, <1>1, Same DEF Disconnect, Becomes
  <2>2. Legal(pc[k], handler[k], wire[k], TRUE, slow[k])
    BY <1>0 DEF Legal, HandlerFits, WireFits
  <2> QED BY <2>1, <2>2 DEF Legally
<1>2. ASSUME NEW p \in Outside \cup {"ready"}, NEW g \in BOOLEAN PROVE Legal(p, NewHandler, <<>>, g, FALSE)
  <2>1. p \in Places
    BY DEF Outside, Places, Working, Guarded, Bare
  <2>2. HandlerFits(p, NewHandler, <<>>, g, FALSE)
    BY DEF HandlerFits, NewHandler, Outside
  <2>3. WireFits(p, NewHandler, <<>>, g)
    BY DEF WireFits, Complete, Outside
  <2>4. <<>> \in Seq(Items)
    OBVIOUS
  <2> QED BY <2>1, <2>2, <2>3, <2>4, NewHandlerTyped DEF Legal
<1>3. CASE Connect(k) \/ Accept(k) \/ AcceptBusy(k) \/ StartThread(k) \/ Release(k)
  <2>1. pc[k] \in Outside
    BY <1>3 DEF Connect, Accept, AcceptBusy, StartThread, Release, At, Outside
  <2>2. handler[k] = NewHandler /\ wire[k] = <<>> /\ slow[k] = FALSE
    BY <1>0, <2>1 DEF Legal, HandlerFits
  <2>3. \E p \in Outside \cup {"ready"} : Becomes(k, p, handler[k], wire[k], gone[k], slow[k])
    BY <1>0, <1>3, Same
    DEF Connect, Accept, AcceptBusy, StartThread, Release, GoTo, clientVars, Becomes, Outside
  <2> QED BY <1>0, <1>2, <2>2, <2>3 DEF Legally, Legal
<1>4. CASE StartFails(k) \/ RejectRequest(k) \/ RejectSilence(k) \/ Shut(k)
  <2>1. \E p \in Outside \cup {"ready"} : Becomes(k, p, NewHandler, <<>>, FALSE, FALSE)
    BY <1>4 DEF StartFails, RejectRequest, RejectSilence, Rejected, Shut, GoTo, Forget, Becomes, Outside
  <2> QED BY <1>2, <2>1 DEF Legally
<1> QED BY <1>1, <1>3, <1>4

LEMMA HandlerShape ==
    ASSUME NEW h \in Handlers
    PROVE  /\ h.request \in Requests /\ h.unread \in BOOLEAN /\ h.close_connection \in BOOLEAN
           /\ h.heads \in 0 .. 2 /\ h.chunks \in 0 .. MaxChunks /\ h.failed \in BOOLEAN /\ h.raising \in BOOLEAN
BY DEF Handlers

\* A handler with one part of its state changed.
LEMMA Changed ==
    ASSUME NEW h \in Handlers, NEW b \in BOOLEAN, NEW n \in 0 .. MaxChunks, NEW m \in 0 .. 2
    PROVE  /\ [h EXCEPT !.unread = b] \in Handlers /\ [h EXCEPT !.close_connection = b] \in Handlers
           /\ [h EXCEPT !.failed = b] \in Handlers /\ [h EXCEPT !.raising = b] \in Handlers
           /\ [h EXCEPT !.chunks = n] \in Handlers /\ [h EXCEPT !.heads = m] \in Handlers
BY DEF Handlers

\* A request is taken, and its body read.
LEMMA RequestLegal ==
    ASSUME FramingInv, NEW k \in Conns, Get(k) \/ RefusePost(k) \/ Post(k)
    PROVE  Legally(k)
<1>0. Shape /\ Legal(pc[k], handler[k], wire[k], gone[k], slow[k])
  BY DEF FramingInv
<1>1. PICK kind \in Requests, p \in {"answering", "reading"}, body \in BOOLEAN, last \in BOOLEAN :
          /\ Request(k, kind, p, body, last)
          /\ kind = "post" /\ body => p = "reading" \/ last
  BY DEF Get, RefusePost, Post, Requests
<1> DEFINE h == [NewHandler EXCEPT !.request = kind, !.unread = body, !.close_connection = last]
<1>2. Becomes(k, p, h, <<>>, gone[k], slow[k])
  BY <1>0, <1>1, Same DEF Request, GoTo, clientVars, Becomes
<1>3. ~slow[k] /\ gone[k] \in BOOLEAN
  BY <1>0, <1>1, HandlerShape DEF Request, At, Legal, HandlerFits
<1>4. h \in Handlers
  BY NewHandlerTyped DEF Handlers
<1>8. p \in Places
  BY <1>1 DEF Places, Working, Guarded, Bare
<1>9. <<>> \in Seq(Items)
  OBVIOUS
<1>5. HandlerFits(p, h, <<>>, gone[k], slow[k])
  BY <1>1, <1>3 DEF HandlerFits, NewHandler, Outside
<1>6. WireFits(p, h, <<>>, gone[k])
  BY <1>1 DEF WireFits
<1>10. slow[k] \in BOOLEAN
  BY <1>0 DEF Legal
<1> HIDE DEF h
<1>7. Legal(p, h, <<>>, gone[k], slow[k])
  BY <1>3, <1>4, <1>5, <1>6, <1>8, <1>9, <1>10 DEF Legal
<1> QED BY <1>2, <1>7 DEF Legally

\* Steps of a handler that send nothing.
LEMMA QuietLegal ==
    ASSUME FramingInv, NEW k \in Conns,
           StopWaiting(k) \/ ReadBody(k) \/ ReadHalf(k) \/ Misfit(k) \/ Decide(k) \/ Pull(k)
    PROVE  Legally(k)
<1>0. Shape /\ Legal(pc[k], handler[k], wire[k], gone[k], slow[k])
  BY DEF FramingInv
<1>1. /\ handler[k] \in Handlers /\ wire[k] \in Seq(Items) /\ gone[k] \in BOOLEAN /\ slow[k] \in BOOLEAN
      /\ handler[k].unread \in BOOLEAN /\ handler[k].close_connection \in BOOLEAN /\ handler[k].heads \in 0 .. 2
      /\ handler[k].chunks \in 0 .. MaxChunks /\ handler[k].failed \in BOOLEAN /\ handler[k].raising \in BOOLEAN
  BY <1>0, HandlerShape DEF Legal
<1>2. CASE StopWaiting(k)
  <2>1. Becomes(k, "closing", handler[k], wire[k], gone[k], slow[k])
    BY <1>0, <1>2, Same DEF StopWaiting, GoTo, clientVars, Becomes
  <2>2. Legal("closing", handler[k], wire[k], gone[k], slow[k])
    BY <1>0, <1>1, <1>2, CompleteIsFramed
    DEF StopWaiting, At, Legal, HandlerFits, WireFits, Outside, Places, Working, Bare
  <2> QED BY <2>1, <2>2 DEF Legally
<1>3. CASE ReadBody(k)
  <2> DEFINE h == [handler[k] EXCEPT !.unread = FALSE]
  <2>1. PICK p \in {"deciding", "answering"} : Becomes(k, p, h, wire[k], gone[k], slow[k])
    BY <1>0, <1>3, Same DEF ReadBody, Set, GoTo, clientVars, Becomes
  <2>2. Legal(p, h, wire[k], gone[k], slow[k])
    BY <1>0, <1>1, <1>3, Changed
    DEF ReadBody, At, Legal, HandlerFits, WireFits, Outside, Places, Working, Guarded, Bare, Handlers
  <2> QED BY <2>1, <2>2 DEF Legally
<1>4. CASE ReadHalf(k)
  <2>1. PICK h \in {handler[k], [handler[k] EXCEPT !.close_connection = TRUE]} :
            Becomes(k, "answering", h, wire[k], gone[k], slow[k]) /\ (h = handler[k] => gone[k] \/ h.close_connection)
    BY <1>0, <1>1, <1>4, Same DEF ReadHalf, Set, GoTo, clientVars, Becomes, Handlers
  <2>2. h \in Handlers /\ h.heads = handler[k].heads /\ h.failed = handler[k].failed
        /\ h.request = handler[k].request /\ h.raising = handler[k].raising /\ (gone[k] \/ h.close_connection)
        /\ (handler[k].close_connection => h.close_connection)
    <3>1. CASE h = handler[k]
      BY <1>1, <2>1, <3>1
    <3>2. CASE h = [handler[k] EXCEPT !.close_connection = TRUE]
      BY <1>1, <3>2 DEF Handlers
    <3> QED BY <2>1, <3>1, <3>2
  <2>3. HandlerFits("answering", h, wire[k], gone[k], slow[k])
    BY <1>0, <1>4, <2>2 DEF ReadHalf, At, Legal, HandlerFits, Outside
  <2>4. ~slow[k] => WireFits("answering", h, wire[k], gone[k])
    BY <1>0, <1>4 DEF ReadHalf, At, Legal, WireFits
  <2>5. Legal("answering", h, wire[k], gone[k], slow[k])
    BY <1>1, <2>2, <2>3, <2>4 DEF Legal, Places, Working, Bare
  <2> QED BY <2>1, <2>5 DEF Legally
<1>5. CASE Answer(k)
  <2>1. Becomes(k, "answering", handler[k], wire[k], gone[k], slow[k])
    BY <1>0, <1>5, Same DEF Answer, GoTo, clientVars, Becomes
  <2>2. Legal("answering", handler[k], wire[k], gone[k], slow[k])
    BY <1>0, <1>1, <1>5
    DEF Answer, At, Legal, HandlerFits, WireFits, Outside, Places, Working, Bare
  <2> QED BY <2>1, <2>2 DEF Legally
<1>6. CASE Decide(k) /\ ~Answer(k)
  <2>1. \/ Becomes(k, "completing", handler[k], wire[k], gone[k], slow[k])
        \/ Becomes(k, "opening", [handler[k] EXCEPT !.chunks = 1], wire[k], gone[k], slow[k])
    BY <1>0, <1>6, Same DEF Decide, Set, GoTo, clientVars, Becomes
  <2>2. Legal("completing", handler[k], wire[k], gone[k], slow[k])
    BY <1>0, <1>1, <1>6
    DEF Decide, At, Legal, HandlerFits, WireFits, Outside, Places, Working, Guarded
  <2>3. [handler[k] EXCEPT !.chunks = 1] \in Handlers
    <3>1. 1 \in 0 .. MaxChunks
      BY ChunksAssumption
    <3> QED BY <1>1, <3>1, Changed
  <2>4. Legal("opening", [handler[k] EXCEPT !.chunks = 1], wire[k], gone[k], slow[k])
    BY <1>0, <1>1, <1>6, <2>3
    DEF Decide, At, Legal, HandlerFits, WireFits, Outside, Places, Working, Guarded, Handlers
  <2> QED BY <2>1, <2>2, <2>4 DEF Legally
<1>7. CASE Pull(k)
  <2>1. \/ /\ handler[k].chunks < MaxChunks
           /\ Becomes(k, "emitting", [handler[k] EXCEPT !.chunks = handler[k].chunks + 1],
                      wire[k], gone[k], slow[k])
        \/ Becomes(k, "ending", handler[k], wire[k], gone[k], slow[k])
        \/ Becomes(k, "failing", [handler[k] EXCEPT !.failed = TRUE], wire[k], gone[k], slow[k])
    BY <1>0, <1>7, Same DEF Pull, Set, GoTo, clientVars, Becomes
  <2>2. ASSUME handler[k].chunks < MaxChunks
        PROVE  Legal("emitting", [handler[k] EXCEPT !.chunks = handler[k].chunks + 1], wire[k], gone[k], slow[k])
    <3>1. handler[k].chunks + 1 \in 0 .. MaxChunks
      BY <1>1, <2>2, ChunksAssumption
    <3>2. [handler[k] EXCEPT !.chunks = handler[k].chunks + 1] \in Handlers
      BY <1>1, <3>1, Changed
    <3> QED BY <1>0, <1>1, <1>7, <3>1, <3>2
            DEF Pull, At, Legal, HandlerFits, WireFits, Outside, Places, Working, Guarded, Handlers
  <2>3. Legal("ending", handler[k], wire[k], gone[k], slow[k])
    BY <1>0, <1>1, <1>7 DEF Pull, At, Legal, HandlerFits, WireFits, Outside, Places, Working, Guarded
  <2>4. [handler[k] EXCEPT !.failed = TRUE] \in Handlers
    BY <1>1, Changed
  <2>5. Legal("failing", [handler[k] EXCEPT !.failed = TRUE], wire[k], gone[k], slow[k])
    BY <1>0, <1>1, <1>7, <2>4
    DEF Pull, At, Legal, HandlerFits, WireFits, Outside, Places, Working, Guarded, Handlers
  <2> QED BY <2>1, <2>2, <2>3, <2>5 DEF Legally
<1> QED BY <1>2, <1>3, <1>4, <1>5, <1>6, <1>7 DEF Misfit

\* RaiseTimeout: the handler answers, or the connection ends; nothing more is promised of the wire.
LEMMA RaiseLegal ==
    ASSUME FramingInv, NEW k \in Conns, pc[k] \in Writes, RaiseTimeout(k), NEW s \in Seq(Items),
           wire' = [wire EXCEPT ![k] = s], UNCHANGED gone, slow' = [slow EXCEPT ![k] = TRUE]
    PROVE  Legally(k)
<1>0. Shape /\ Legal(pc[k], handler[k], wire[k], gone[k], slow[k])
  BY DEF FramingInv
<1>1. /\ handler[k] \in Handlers /\ gone[k] \in BOOLEAN
      /\ handler[k].unread \in BOOLEAN /\ handler[k].close_connection \in BOOLEAN /\ handler[k].heads \in 0 .. 2
      /\ handler[k].failed \in BOOLEAN /\ handler[k].raising \in BOOLEAN
  BY <1>0, HandlerShape DEF Legal
<1>2. CASE pc[k] \in Guarded
  <2> DEFINE m == IF pc[k] \in Heads THEN handler[k].heads + 1 ELSE handler[k].heads
             h == [handler[k] EXCEPT !.close_connection = TRUE, !.heads = m]
  <2>1. handler[k].heads = 0
    BY <1>0, <1>2 DEF Legal, HandlerFits, Guarded
  <2>2. Becomes(k, "answering", h, s, gone[k], TRUE)
    BY <1>0, <1>2, Same DEF RaiseTimeout, GoTo, Becomes
  <2>3. m \in {0, 1} /\ m \in 0 .. 2
    BY <2>1
  <2> HIDE DEF m
  <2>4. /\ h \in Handlers /\ h.close_connection /\ h.heads = m /\ h.failed = handler[k].failed
        /\ h.request = handler[k].request /\ h.unread = handler[k].unread /\ h.raising = handler[k].raising
    BY <1>1, <2>3 DEF Handlers
  <2> HIDE DEF h
  <2>5. HandlerFits("answering", h, s, gone[k], TRUE)
    BY <1>1, <2>3, <2>4 DEF HandlerFits, Outside
  <2>6. Legal("answering", h, s, gone[k], TRUE)
    BY <1>1, <2>4, <2>5 DEF Legal, Places, Working, Bare
  <2> QED BY <2>2, <2>6 DEF Legally
<1>3. CASE pc[k] \notin Guarded
  <2>1. Becomes(k, "closing", handler[k], s, gone[k], TRUE)
    BY <1>0, <1>3, Same DEF RaiseTimeout, GoTo, Becomes
  <2>2. pc[k] \in {"answering", "replying"}
    BY <1>3 DEF Writes, Guarded
  <2>3. HandlerFits("closing", handler[k], s, gone[k], TRUE)
    BY <1>0, <1>1, <2>2 DEF Legal, HandlerFits, Outside
  <2>4. Legal("closing", handler[k], s, gone[k], TRUE)
    BY <1>1, <2>3 DEF Legal, Places, Working, Bare
  <2> QED BY <2>1, <2>4 DEF Legally
<1> QED BY <1>2, <1>3

LEMMA WrittenTyped ==
    ASSUME FramingInv, NEW k \in Conns, pc[k] \in Writes
    PROVE  Written(k) \in Seq(Items)
<1>1. handler[k].heads \in 0 .. 2
  BY HandlerShape DEF FramingInv, Shape
<1>2. HeadItems(k) \in Seq(Items)
  BY <1>1 DEF HeadItems, Items
<1>3. <<"body">> \in Seq(Items) /\ <<"data">> \in Seq(Items) /\ <<"done">> \in Seq(Items)
      /\ <<"error">> \in Seq(Items) /\ <<"end">> \in Seq(Items)
  BY DEF Items
<1>4. CASE pc[k] \in Heads
  BY <1>2, <1>4 DEF Written, Heads
<1>5. CASE pc[k] \notin Heads
  <2>1. pc[k] \in {"replying", "delivering", "emitting", "ending", "failing", "finishing"}
    BY <1>5 DEF Writes, Heads
  <2> QED BY <1>3, <2>1 DEF Written, Heads
<1> QED BY <1>4, <1>5

\* A write that succeeds sends what it should, and its handler goes on.
LEMMA DoneLegal == ASSUME FramingInv, NEW k \in Conns, WriteDone(k) PROVE Legally(k)
<1> DEFINE h == handler[k]
           s == wire[k]
           t == wire[k] \o Written(k)
<1>0. Shape /\ Legal(pc[k], h, s, gone[k], slow[k]) /\ pc[k] \in Writes /\ gone[k] = FALSE
  BY DEF FramingInv, WriteDone, Shape
<1>1. /\ h \in Handlers /\ s \in Seq(Items) /\ slow[k] \in BOOLEAN
      /\ h.unread \in BOOLEAN /\ h.close_connection \in BOOLEAN /\ h.heads \in 0 .. 2
      /\ h.chunks \in 0 .. MaxChunks /\ h.failed \in BOOLEAN /\ h.raising \in BOOLEAN
  BY <1>0, HandlerShape DEF Legal
<1>2. t \in Seq(Items)
  BY <1>0, <1>1, WrittenTyped, ConcatProperties
<1>3. wire' = [wire EXCEPT ![k] = t] /\ UNCHANGED <<gone, slow>>
  BY DEF WriteDone, Send, clientVars
<1>4. HandlerFits(pc[k], h, s, FALSE, slow[k]) /\ (~slow[k] => WireFits(pc[k], h, s, FALSE))
  BY <1>0 DEF Legal
<1>5. ASSUME NEW p, NEW g \in Handlers, GoTo(k, p), handler' = [handler EXCEPT ![k] = g]
      PROVE  Becomes(k, p, g, t, FALSE, slow[k])
  BY <1>0, <1>3, <1>5, Same DEF Becomes, GoTo
<1> HIDE DEF h, s
<1>6. CASE At(k, "finishing") /\ h.raising
  <2>1. RaiseTimeout(k) /\ slow[k]
    BY <1>4, <1>6 DEF WriteDone, Follow, HandlerFits, h
  <2>2. slow' = [slow EXCEPT ![k] = TRUE]
    BY <1>0, <1>3, <2>1, Same DEF Shape
  <2> QED BY <1>0, <1>2, <1>3, <2>1, <2>2, RaiseLegal
<1>7. CASE pc[k] \in Heads
  <2> DEFINE g == [h EXCEPT !.heads = 0]
             p == CASE pc[k] = "answering" -> "replying"
                    [] pc[k] = "completing" -> "delivering"
                    [] pc[k] = "opening" -> "emitting"
  <2>1. g \in Handlers /\ g.request = h.request /\ g.unread = h.unread /\ g.close_connection = h.close_connection /\ g.heads = 0
        /\ g.chunks = h.chunks /\ g.failed = h.failed /\ g.raising = h.raising
    BY <1>1 DEF Handlers
  <2>2. GoTo(k, p) /\ handler' = [handler EXCEPT ![k] = g]
    BY <1>7 DEF WriteDone, Follow, At, Heads, h
  <2>3. ~slow[k] => t = <<"head">>
    <3>1. SUFFICES ASSUME ~slow[k] PROVE t = <<"head">>
      OBVIOUS
    <3>2. s = <<>> /\ h.heads = 0
      BY <1>4, <1>7, <3>1 DEF Heads, WireFits, HandlerFits
    <3>3. Written(k) = <<"head">>
      <4>1. [i \in 1 .. 1 |-> "head"] = <<"head">>
        OBVIOUS
      <4> QED BY <1>7, <3>2, <4>1 DEF Written, HeadItems, Heads, h
    <3> QED BY <3>2, <3>3 DEF s
  <2> HIDE DEF g, t
  <2>4. CASE pc[k] = "answering"
    <3>1. Legal("replying", g, t, FALSE, slow[k])
      BY <1>1, <1>2, <1>4, <2>1, <2>3, <2>4
      DEF Legal, HandlerFits, WireFits, Outside, Places, Working, Bare
    <3> QED BY <1>5, <2>1, <2>2, <2>4, <3>1 DEF Legally
  <2>5. CASE pc[k] = "completing"
    <3>1. Legal("delivering", g, t, FALSE, slow[k])
      BY <1>1, <1>2, <1>4, <2>1, <2>3, <2>5
      DEF Legal, HandlerFits, WireFits, Outside, Places, Working, Guarded
    <3> QED BY <1>5, <2>1, <2>2, <2>5, <3>1 DEF Legally
  <2>6. CASE pc[k] = "opening"
    <3>1. Legal("emitting", g, t, FALSE, slow[k])
      BY <1>1, <1>2, <1>4, <2>1, <2>3, <2>6, BegunNone
      DEF Legal, HandlerFits, WireFits, Outside, Places, Working, Guarded
    <3> QED BY <1>5, <2>1, <2>2, <2>6, <3>1 DEF Legally
  <2> QED BY <1>7, <2>4, <2>5, <2>6 DEF Heads
<1>8. CASE pc[k] \notin Heads /\ ~(At(k, "finishing") /\ h.raising)
  <2>1. handler' = [handler EXCEPT ![k] = h]
    BY <1>0, <1>8, Same DEF WriteDone, Follow, h
  <2>2. ASSUME NEW p, GoTo(k, p), Legal(p, h, t, FALSE, slow[k]) PROVE Legally(k)
    BY <1>1, <1>5, <2>1, <2>2 DEF Legally
  <2>3. CASE pc[k] \in {"replying", "delivering"}
    <3>1. PICK p \in {"closing", "ready"} : GoTo(k, p) /\ (p = "ready" => ~h.close_connection)
      BY <1>8, <2>3 DEF WriteDone, Follow, At, Return, h
    <3>2. ~slow[k] => t = <<"head", "body">> /\ Framed(t)
      <4>1. Written(k) = <<"body">>
        BY <2>3 DEF Written, Heads
      <4> QED BY <1>4, <2>3, <4>1, FramedAnswer DEF WireFits, s
    <3> HIDE DEF t
    <3>3. HandlerFits(p, h, t, FALSE, slow[k])
      BY <1>1, <1>4, <2>3, <3>1 DEF HandlerFits, Outside
    <3>4. ~slow[k] => WireFits(p, h, t, FALSE)
      BY <3>1, <3>2 DEF WireFits, Complete
    <3>5. Legal(p, h, t, FALSE, slow[k])
      BY <1>1, <1>2, <3>1, <3>3, <3>4 DEF Legal, Places, Working, Bare
    <3> QED BY <2>2, <3>1, <3>5
  <2>4. CASE pc[k] = "emitting"
    <3>1. GoTo(k, "pulling")
      BY <1>8, <2>4 DEF WriteDone, Follow, At
    <3>2. ~slow[k] => h.chunks > 0 /\ t = Begun(h.chunks)
      <4>1. Written(k) = <<"data">>
        BY <2>4 DEF Written, Heads
      <4>2. ASSUME ~slow[k] PROVE h.chunks > 0 /\ t = Begun(h.chunks)
        <5>1. h.chunks > 0 /\ s = Begun(h.chunks - 1)
          BY <1>4, <2>4, <4>2 DEF WireFits
        <5>2. h.chunks - 1 \in Nat /\ (h.chunks - 1) + 1 = h.chunks
          BY <1>1, <5>1, ChunksAssumption
        <5>3. Begun(h.chunks - 1) \o <<"data">> = Begun((h.chunks - 1) + 1)
          BY <5>2, BegunMore
        <5> QED BY <4>1, <5>1, <5>2, <5>3 DEF s
      <4> QED BY <4>2
    <3> HIDE DEF t
    <3>3. Legal("pulling", h, t, FALSE, slow[k])
      BY <1>1, <1>2, <1>4, <2>4, <3>2
      DEF Legal, HandlerFits, WireFits, Outside, Places, Working, Guarded
    <3> QED BY <2>2, <3>1, <3>3
  <2>5. CASE pc[k] \in {"ending", "failing"}
    <3>1. GoTo(k, "finishing")
      BY <1>8, <2>5 DEF WriteDone, Follow, At
    <3>2. Written(k) = <<IF pc[k] = "ending" THEN "done" ELSE "error">>
      BY <2>5 DEF Written, Heads
    <3>3. ~slow[k] => h.chunks > 0 /\ t = Begun(h.chunks) \o <<IF h.failed THEN "error" ELSE "done">>
      <4>1. pc[k] = "failing" <=> h.failed
        BY <1>4, <2>5 DEF HandlerFits
      <4> QED BY <1>1, <1>4, <2>5, <3>2, <4>1 DEF WireFits, s
    <3> HIDE DEF t
    <3>4. HandlerFits("finishing", h, t, FALSE, slow[k])
      BY <1>1, <1>4, <2>5 DEF HandlerFits, Outside
    <3>5. ~slow[k] => WireFits("finishing", h, t, FALSE)
      BY <1>1, <3>3 DEF WireFits
    <3>6. Legal("finishing", h, t, FALSE, slow[k])
      BY <1>1, <1>2, <3>4, <3>5 DEF Legal, Places, Working, Guarded
    <3> QED BY <2>2, <3>1, <3>6
  <2>6. CASE pc[k] = "finishing"
    <3>1. PICK p \in {"closing", "ready"} :
              GoTo(k, p) /\ (p = "ready" => ~h.close_connection /\ ~h.failed)
      BY <1>8, <2>6 DEF WriteDone, Follow, At, Return, Closes, h
    <3>2. Written(k) = <<"end">>
      BY <2>6 DEF Written, Heads
    <3>3. ASSUME ~slow[k]
          PROVE  \/ ~h.failed /\ t = Begun(h.chunks) \o <<"done", "end">>
                 \/ h.failed /\ t = Begun(h.chunks) \o <<"error", "end">>
      <4>1. \/ ~h.failed /\ s = Begun(h.chunks) \o <<"done">>
            \/ h.failed /\ s = Begun(h.chunks) \o <<"error">>
        BY <1>4, <2>6, <3>3 DEF WireFits
      <4>2. h.chunks \in Nat
        BY <1>1, ChunksAssumption
      <4>3. t = s \o <<"end">>
        BY <3>2 DEF s
      <4> QED BY <4>1, <4>2, <4>3, EndOfStream
    <3>4. ~slow[k] => h.chunks \in 1 .. MaxChunks
      BY <1>1, <1>4, <2>6 DEF WireFits
    <3> HIDE DEF t
    <3>5. ~slow[k] => Framed(t) /\ (~h.failed => Complete(t))
      BY <3>3, <3>4, FramedStream DEF Tails, Complete, Begun, Data
    <3>6. HandlerFits(p, h, t, FALSE, slow[k])
      BY <1>1, <1>4, <2>6, <3>1 DEF HandlerFits, Outside
    <3>7. ~slow[k] => WireFits(p, h, t, FALSE)
      BY <3>1, <3>5 DEF WireFits
    <3>8. Legal(p, h, t, FALSE, slow[k])
      BY <1>1, <1>2, <3>1, <3>6, <3>7 DEF Legal, Places, Working, Bare
    <3> QED BY <2>2, <3>1, <3>8
  <2> QED BY <1>0, <1>8, <2>3, <2>4, <2>5, <2>6 DEF Writes, Heads
<1> QED BY <1>6, <1>7, <1>8 DEF h

\* A write that is too late.
LEMMA LateLegal == ASSUME FramingInv, NEW k \in Conns, WriteTimesOut(k) PROVE Legally(k)
<1> DEFINE h == handler[k]
<1>0. Shape /\ Legal(pc[k], h, wire[k], gone[k], slow[k]) /\ pc[k] \in Writes
  BY DEF FramingInv, WriteTimesOut
<1>1. /\ h \in Handlers /\ wire[k] \in Seq(Items) /\ gone[k] \in BOOLEAN
      /\ h.unread \in BOOLEAN /\ h.close_connection \in BOOLEAN /\ h.heads \in 0 .. 2
      /\ h.chunks \in 0 .. MaxChunks /\ h.failed \in BOOLEAN /\ h.raising \in BOOLEAN
  BY <1>0, HandlerShape DEF Legal
<1>2. PICK t \in Seq(Items) : wire' = [wire EXCEPT ![k] = t]
  <2>1. wire[k] \o Written(k) \in Seq(Items)
    BY <1>0, <1>1, WrittenTyped, ConcatProperties
  <2> QED BY <1>0, <1>1, <2>1, Same DEF WriteTimesOut, Send
<1>3. slow' = [slow EXCEPT ![k] = TRUE] /\ UNCHANGED gone
  BY DEF WriteTimesOut
<1>4. HandlerFits(pc[k], h, wire[k], gone[k], slow[k])
  BY <1>0 DEF Legal
<1>5. ASSUME NEW p, NEW g \in Handlers, GoTo(k, p), handler' = [handler EXCEPT ![k] = g]
      PROVE  Becomes(k, p, g, t, gone[k], TRUE)
  BY <1>0, <1>2, <1>3, <1>5, Same DEF Becomes, GoTo
<1>6. CASE pc[k] \in {"emitting", "ending"}
  <2> DEFINE g == [h EXCEPT !.failed = TRUE]
  <2>1. GoTo(k, "failing") /\ handler' = [handler EXCEPT ![k] = g]
    BY <1>6 DEF WriteTimesOut, Set
  <2>2. /\ g \in Handlers /\ g.request = h.request /\ g.unread = h.unread /\ g.close_connection = h.close_connection
        /\ g.heads = h.heads /\ g.failed
    BY <1>1 DEF Handlers
  <2> HIDE DEF g, h
  <2>3. HandlerFits("failing", g, t, gone[k], TRUE)
    BY <1>1, <1>4, <1>6, <2>2 DEF HandlerFits, Outside
  <2>4. Legal("failing", g, t, gone[k], TRUE)
    BY <1>1, <2>2, <2>3 DEF Legal, Places, Working, Guarded
  <2> QED BY <1>5, <2>1, <2>2, <2>4 DEF Legally
<1>7. CASE pc[k] = "failing"
  <2> DEFINE g == [h EXCEPT !.raising = TRUE]
  <2>1. GoTo(k, "finishing") /\ handler' = [handler EXCEPT ![k] = g]
    BY <1>7 DEF WriteTimesOut, Set
  <2>2. /\ g \in Handlers /\ g.request = h.request /\ g.unread = h.unread /\ g.close_connection = h.close_connection
        /\ g.heads = h.heads /\ g.failed = h.failed
    BY <1>1 DEF Handlers
  <2> HIDE DEF g, h
  <2>3. HandlerFits("finishing", g, t, gone[k], TRUE)
    BY <1>1, <1>4, <1>7, <2>2 DEF HandlerFits, Outside
  <2>4. Legal("finishing", g, t, gone[k], TRUE)
    BY <1>1, <2>2, <2>3 DEF Legal, Places, Working, Guarded
  <2> QED BY <1>5, <2>1, <2>2, <2>4 DEF Legally
<1>8. CASE pc[k] \notin {"emitting", "ending", "failing"}
  <2>1. RaiseTimeout(k)
    BY <1>8 DEF WriteTimesOut
  <2> QED BY <1>0, <1>2, <1>3, <2>1, RaiseLegal
<1> QED BY <1>6, <1>7, <1>8

\* A write to a client that is gone.
LEMMA BrokenLegal == ASSUME FramingInv, NEW k \in Conns, WriteBreaks(k) PROVE Legally(k)
<1> DEFINE h == handler[k]
           s == wire[k]
<1>0. Shape /\ Legal(pc[k], h, s, TRUE, slow[k]) /\ pc[k] \in Writes /\ gone[k] = TRUE
  BY DEF FramingInv, WriteBreaks, Shape
<1>1. /\ h \in Handlers /\ s \in Seq(Items) /\ slow[k] \in BOOLEAN
      /\ h.unread \in BOOLEAN /\ h.close_connection \in BOOLEAN /\ h.heads \in 0 .. 2
      /\ h.chunks \in 0 .. MaxChunks /\ h.failed \in BOOLEAN /\ h.raising \in BOOLEAN
  BY <1>0, HandlerShape DEF Legal
<1>2. UNCHANGED <<wire, gone, slow>>
  BY DEF WriteBreaks, clientVars
<1>3. HandlerFits(pc[k], h, s, TRUE, slow[k]) /\ (~slow[k] => WireFits(pc[k], h, s, TRUE))
  BY <1>0 DEF Legal
<1>4. ASSUME NEW p, NEW g \in Handlers, GoTo(k, p), handler' = [handler EXCEPT ![k] = g]
      PROVE  Becomes(k, p, g, s, TRUE, slow[k])
  BY <1>0, <1>2, <1>4, Same DEF Becomes, GoTo
<1>5. ASSUME NEW p, GoTo(k, p), UNCHANGED handler, Legal(p, h, s, TRUE, slow[k]) PROVE Legally(k)
  BY <1>0, <1>1, <1>4, <1>5, Same DEF Legally
<1> HIDE DEF h, s
<1>6. CASE pc[k] \in {"emitting", "ending"}
  <2> DEFINE g == [h EXCEPT !.failed = TRUE]
  <2>1. GoTo(k, "finishing") /\ handler' = [handler EXCEPT ![k] = g]
    BY <1>6 DEF WriteBreaks, Set, h
  <2>2. /\ g \in Handlers /\ g.request = h.request /\ g.unread = h.unread /\ g.close_connection = h.close_connection
        /\ g.heads = h.heads /\ g.chunks = h.chunks /\ g.failed /\ g.raising = h.raising
    BY <1>1 DEF Handlers
  <2>3. ~slow[k] => h.chunks > 0 /\ Framed(s)
    <3>1. CASE pc[k] = "emitting"
      <4>1. ASSUME ~slow[k] PROVE h.chunks > 0 /\ s = Begun(h.chunks - 1) /\ h.chunks - 1 \in 0 .. MaxChunks
        BY <1>1, <1>3, <3>1, <4>1, ChunksAssumption DEF WireFits
      <4> QED BY <4>1, FramedBegun
    <3>2. CASE pc[k] = "ending"
      BY <1>1, <1>3, <3>2, FramedBegun DEF WireFits
    <3> QED BY <1>6, <3>1, <3>2
  <2> HIDE DEF g
  <2>4. HandlerFits("finishing", g, s, TRUE, slow[k])
    BY <1>1, <1>3, <1>6, <2>2 DEF HandlerFits, Outside
  <2>5. ~slow[k] => WireFits("finishing", g, s, TRUE)
    BY <2>2, <2>3 DEF WireFits
  <2>6. Legal("finishing", g, s, TRUE, slow[k])
    BY <1>1, <2>2, <2>4, <2>5 DEF Legal, Places, Working, Guarded
  <2> QED BY <1>4, <2>1, <2>2, <2>6 DEF Legally
<1>7. CASE pc[k] = "failing"
  <2>1. GoTo(k, "finishing") /\ UNCHANGED handler
    BY <1>7 DEF WriteBreaks, Follow, At, Heads
  <2>2. ~slow[k] => h.chunks > 0 /\ Framed(s)
    BY <1>1, <1>3, <1>7, FramedBegun DEF WireFits
  <2>3. Legal("finishing", h, s, TRUE, slow[k])
    BY <1>1, <1>3, <1>7, <2>2 DEF Legal, HandlerFits, WireFits, Outside, Places, Working, Guarded
  <2> QED BY <1>5, <2>1, <2>3
<1>8. CASE pc[k] = "finishing" /\ h.raising
  <2>1. RaiseTimeout(k) /\ slow[k] /\ slow' = [slow EXCEPT ![k] = TRUE]
    BY <1>0, <1>2, <1>3, <1>8, Same DEF WriteBreaks, Follow, At, HandlerFits, Shape, h
  <2>2. wire' = [wire EXCEPT ![k] = s]
    BY <1>0, <1>2, Same DEF s
  <2> QED BY <1>0, <1>1, <1>2, <2>1, <2>2, RaiseLegal
<1>9. CASE pc[k] = "finishing" /\ ~h.raising
  <2>1. PICK p \in {"closing", "ready"} :
            GoTo(k, p) /\ UNCHANGED handler /\ (p = "ready" => ~h.close_connection /\ ~h.failed)
    BY <1>9 DEF WriteBreaks, Follow, At, Return, Closes, Heads, h
  <2>2. ~slow[k] => Framed(s)
    <3>1. ~slow[k] => h.chunks \in 1 .. MaxChunks
      BY <1>1, <1>3, <1>9 DEF WireFits
    <3> QED BY <1>3, <1>9, <3>1, FramedStream DEF WireFits, Tails
  <2>3. HandlerFits(p, h, s, TRUE, slow[k])
    BY <1>1, <1>3, <1>9, <2>1 DEF HandlerFits, Outside
  <2>4. Legal(p, h, s, TRUE, slow[k])
    BY <1>1, <2>1, <2>2, <2>3 DEF Legal, WireFits, Places, Working, Bare
  <2> QED BY <1>5, <2>1, <2>4
<1>10. CASE pc[k] \in {"completing", "delivering", "opening"}
  <2>1. GoTo(k, "answering") /\ UNCHANGED handler
    BY <1>10 DEF WriteBreaks
  <2>2. Legal("answering", h, s, TRUE, slow[k])
    BY <1>1, <1>3, <1>10, FramedAnswer DEF Legal, HandlerFits, WireFits, Outside, Places, Working, Bare
  <2> QED BY <1>5, <2>1, <2>2
<1>11. CASE pc[k] \in {"answering", "replying"}
  <2>1. GoTo(k, "closing") /\ UNCHANGED handler
    BY <1>11 DEF WriteBreaks
  <2>2. Legal("closing", h, s, TRUE, slow[k])
    BY <1>1, <1>3, <1>11, FramedAnswer DEF Legal, HandlerFits, WireFits, Outside, Places, Working, Bare
  <2> QED BY <1>5, <2>1, <2>2
<1> QED BY <1>0, <1>6, <1>7, <1>8, <1>9, <1>10, <1>11 DEF Writes

LEMMA FramingInit == Init => FramingInv
<1> SUFFICES ASSUME Init PROVE FramingInv
  OBVIOUS
<1>1. <<>> \in Seq(Items)
  OBVIOUS
<1>2. Shape
  BY <1>1, NewHandlerTyped DEF Init, Shape, Places
<1>3. ASSUME NEW k \in Conns PROVE Legal(pc[k], handler[k], wire[k], gone[k], slow[k])
  <2>1. pc[k] = "away" /\ handler[k] = NewHandler /\ wire[k] = <<>> /\ ~gone[k] /\ ~slow[k]
    BY DEF Init
  <2>2. HandlerFits(pc[k], handler[k], wire[k], gone[k], slow[k])
    BY <2>1 DEF HandlerFits, NewHandler, Outside
  <2>3. WireFits(pc[k], handler[k], wire[k], gone[k])
    BY <2>1 DEF WireFits
  <2> QED BY <1>2, <2>2, <2>3 DEF Shape, Legal
<1> QED BY <1>2, <1>3 DEF FramingInv

LEMMA FramingStep == FramingInv /\ [Next]_vars => FramingInv'
<1>1. ASSUME FramingInv, UNCHANGED vars PROVE FramingInv'
  BY <1>1 DEF vars, FramingInv, Shape
<1> QED BY <1>1, LegalStep, OutsideLegal, RequestLegal, QuietLegal, DoneLegal, LateLegal, BrokenLegal
        DEF Next, Serve

\* Every connection is where its handler and its wire say, in every run.
THEOREM FramingInvariant == Spec => []FramingInv
BY FramingInit, FramingStep, PTL DEF Spec

\* ReusedClean: a worker goes back to waiting for a request only when its answer to the last one went
\* out to the last byte or there is nobody left to take it, and nothing of a POST is left to be read;
\* not so the body of a GET, nor of a POST whose length int() refuses.
THEOREM ConnectionsReusedClean == Spec => []ReusedClean
<1>1. FramingInv => ReusedClean
  BY DEF FramingInv, Legal, HandlerFits, WireFits, ReusedClean, At, Shape
<1> QED BY <1>1, FramingInvariant, PTL

\* A connection on which a write was too late serves no other request.
LateIsLast == \A k \in Conns : At(k, "ready") => ~slow[k]

\* WellFramed: what was sent follows the grammar of answers and streams on every connection on which
\* no write was too late; a connection on which one was, and which may have got a second status line
\* for it, is never used again.
THEOREM AnswersWellFramed == Spec => [](WellFramed /\ LateIsLast)
<1>1. FramingInv => WellFramed
  <2> SUFFICES ASSUME FramingInv, NEW k \in Conns, ~slow[k], wire[k] # <<>> PROVE Framed(wire[k])
    BY DEF WellFramed
  <2> DEFINE h == handler[k]
             s == wire[k]
  <2>1. /\ h.chunks \in 0 .. MaxChunks /\ pc[k] \in Places
        /\ HandlerFits(pc[k], h, s, gone[k], slow[k]) /\ WireFits(pc[k], h, s, gone[k])
    BY HandlerShape DEF FramingInv, Legal
  <2> HIDE DEF h, s
  <2>2. CASE pc[k] \in Outside \cup {"reading", "deciding", "completing", "opening"}
    BY <2>1, <2>2 DEF HandlerFits, WireFits, s
  <2>3. CASE pc[k] \in {"answering", "replying", "delivering", "ready", "closing"}
    BY <2>1, <2>3, CompleteIsFramed, FramedAnswer DEF WireFits, s
  <2>4. CASE pc[k] = "emitting"
    <3>1. s = Begun(h.chunks - 1) /\ h.chunks - 1 \in 0 .. MaxChunks
      BY <2>1, <2>4, ChunksAssumption DEF WireFits
    <3> QED BY <3>1, FramedBegun DEF s
  <2>5. CASE pc[k] \in {"pulling", "ending", "failing"}
    BY <2>1, <2>5, FramedBegun DEF WireFits, s
  <2>6. CASE pc[k] = "finishing"
    <3>1. h.chunks \in 1 .. MaxChunks
      BY <2>1, <2>6 DEF WireFits
    <3> QED BY <2>1, <2>6, <3>1, FramedStream DEF WireFits, Tails, s
  <2> QED BY <2>1, <2>2, <2>3, <2>4, <2>5, <2>6 DEF Places, Working, Guarded, Bare, Outside
<1>2. FramingInv => LateIsLast
  BY DEF FramingInv, Legal, HandlerFits, LateIsLast, At
<1> QED BY <1>1, <1>2, FramingInvariant, PTL
-----------------------------------------------------------------------------
\* Every variable keeps its shape: the handlers and wires by FramingInv, the permits by CapacityInv.
THEOREM ServerTypeCorrect == Spec => []TypeOK
<1> DEFINE Rest == acceptor \in Conns \cup {NoConn} /\ faults \in 0 .. MaxFaults
<1>1. Init => Rest
  BY FaultsAssumption DEF Init
<1>2. Rest /\ [Next]_vars => Rest'
  <2> SUFFICES ASSUME Rest, [Next]_vars PROVE Rest'
    OBVIOUS
  <2>1. CASE UNCHANGED vars
    BY <2>1 DEF vars
  <2>2. ASSUME NEW k \in Conns, StartFails(k) \/ WriteTimesOut(k) PROVE Rest'
    <3>1. faults < MaxFaults /\ faults' = faults + 1
      BY <2>2 DEF StartFails, WriteTimesOut, Fault
    <3>2. acceptor' \in {acceptor, NoConn}
      BY <2>2 DEF StartFails, WriteTimesOut, serverVars
    <3>3. faults' \in 0 .. MaxFaults
      BY <3>1, FaultsAssumption
    <3> QED BY <3>2, <3>3
  <2>3. ASSUME NEW k \in Conns,
               \/ Connect(k) \/ Disconnect(k) \/ Accept(k) \/ AcceptBusy(k) \/ RejectRequest(k)
               \/ Get(k) \/ RefusePost(k) \/ Post(k) \/ ReadBody(k) \/ StartThread(k) \/ RejectSilence(k)
               \/ StopWaiting(k) \/ ReadHalf(k) \/ Misfit(k) \/ Decide(k) \/ WriteDone(k)
               \/ WriteBreaks(k) \/ Pull(k) \/ Shut(k) \/ Release(k)
        PROVE  Rest'
    BY <2>3 DEF Connect, Disconnect, Accept, AcceptBusy, RejectRequest, Rejected, Get, RefusePost, Post,
       Request, ReadBody, StartThread, RejectSilence, StopWaiting, ReadHalf, Misfit, Answer, Decide,
       WriteDone, WriteBreaks, Pull, Shut, Release, serverVars, clientVars
  <2> QED BY <2>1, <2>2, <2>3 DEF Next, Serve
<1>3. CapacityInv /\ FramingInv /\ Rest => TypeOK
  <2> SUFFICES ASSUME CapacityInv, FramingInv, Rest PROVE TypeOK
    OBVIOUS
  <2>1. Cardinality(Served) \in Nat
    BY FS_CardinalityType DEF CapacityInv
  <2>2. permits \in 0 .. Capacity
    BY <2>1, CapacityAssumption DEF CapacityInv
  <2> QED BY <2>2 DEF FramingInv, Shape, TypeOK
<1> QED BY <1>1, <1>2, <1>3, CapacityInvariant, FramingInvariant, PTL DEF Spec
=============================================================================
