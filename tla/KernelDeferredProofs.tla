------------------------ MODULE KernelDeferredProofs ------------------------
(***************************************************************************)
(* A run of a driver function is cut short exactly by a nested host call,  *)
(* and calls stay within their limits, whatever the depth limit, the       *)
(* rounds of a drain and the driver.                                       *)
(***************************************************************************)
EXTENDS KernelDeferred, FiniteSetTheorems, SequenceTheorems, TLAPS

CallFrames == [is : {"call"}, returned : BOOLEAN, nested : BOOLEAN]
DrainFrames == [is : {"drain"}, rounds : Int]
Frames == CallFrames \union DrainFrames
Places == {retpad} \union [at : {"driver"}, ops : Int, callee : BOOLEAN]

Innermost(h, i) == i \in Calls(h) /\ \A j \in Calls(h) : j <= i

\* A call that made another one has not returned, and will not.
Outer(f) == f.nested /\ ~ f.returned

\* The innermost call f, at place r: it is nested or returned once the guest is on the
\* pad; before that it has not returned, and the guest is in its function exactly if it
\* has made no call.
Inner(f, r) ==
    /\ f.returned => ~ f.nested
    /\ r = retpad => f.returned \/ f.nested
    /\ r # retpad => ~ f.returned /\ (f.nested <=> ~ r.callee)

Stack(h, r) ==
    /\ h \in Seq(Frames)
    /\ \A i \in Calls(h) : ~ Innermost(h, i) => Outer(h[i])
    /\ \A i \in Calls(h) : Innermost(h, i) => Inner(h[i], r)
    /\ \A i \in Calls(h) : h[i].returned => i = Len(h)

IInv == Stack(host, rip) /\ rip \in Places

\* The places a step moves rip to.
LEMMA PlaceType ==
    /\ retpad \in Places
    /\ Code(0, TRUE) \in Places /\ Code(0, TRUE) # retpad /\ Code(0, TRUE).callee
    /\ Code(0, FALSE) \in Places /\ Code(0, FALSE) # retpad /\ ~ Code(0, FALSE).callee
BY DEF Places, retpad, Code

\* Pushing a drain changes no call.
LEMMA PushDrain ==
    ASSUME NEW h, NEW r \in Places, r # retpad, Stack(h, r)
    PROVE  Stack(Append(h, [is |-> "drain", rounds |-> MAX_ROUNDS]), r)
<1> DEFINE d == [is |-> "drain", rounds |-> MAX_ROUNDS]
           g == Append(h, d)
<1>1. h \in Seq(Frames) /\ d \in Frames
  BY KernelDeferredAssumption DEF Stack, Frames, DrainFrames
<1>2. g \in Seq(Frames) /\ Len(g) = Len(h) + 1 /\ g[Len(g)] = d
      /\ \A i \in 1 .. Len(h) : g[i] = h[i]
  BY <1>1
<1>3. Calls(g) = Calls(h)
  BY <1>1, <1>2 DEF Calls
<1>4. \A i \in Calls(h) : g[i] = h[i] /\ (Innermost(g, i) <=> Innermost(h, i))
  BY <1>1, <1>2, <1>3 DEF Calls, Innermost
<1>5. \A i \in Calls(h) : ~ h[i].returned
  BY DEF Stack, Inner, Outer
<1> QED
  BY <1>2, <1>3, <1>4, <1>5, Zenon DEF Stack

\* The stack without its innermost frame.
LEMMA FrontFrames ==
    ASSUME NEW h \in Seq(Frames), h # <<>>
    PROVE  /\ Front(h) \in Seq(Frames) /\ Len(Front(h)) = Len(h) - 1
           /\ \A i \in 1 .. Len(Front(h)) : Front(h)[i] = h[i]
           /\ Calls(Front(h)) = Calls(h) \ {Len(h)}
<1> DEFINE g == Front(h)
           n == Len(h) - 1
<1>1. Len(h) \in Nat /\ Len(h) # 0
  OBVIOUS
<1>2. n \in Int /\ \A i \in 1 .. n : h[i] \in Frames
  BY <1>1
<1>3. /\ SubSeq(h, 1, n) \in Seq(Frames)
      /\ Len(SubSeq(h, 1, n)) = IF 1 <= n THEN n - 1 + 1 ELSE 0
      /\ \A i \in 1 .. n - 1 + 1 : SubSeq(h, 1, n)[i] = h[1 + i - 1]
  <2> HIDE DEF n
  <2> QED
    BY <1>2, SubSeqProperties
<1>4. g = SubSeq(h, 1, n)
  BY DEF Front
<1>5. n \in Nat
  BY <1>1
<1> HIDE DEF g, n
<1>6. Len(g) = n /\ g \in Seq(Frames) /\ \A i \in 1 .. n : g[i] = h[i]
  BY <1>3, <1>4, <1>5
<1>7. g \in Seq(Frames) /\ Len(g) = Len(h) - 1 /\ \A i \in 1 .. Len(g) : g[i] = h[i]
  BY <1>6 DEF n
<1>8. Calls(g) = Calls(h) \ {Len(h)}
  BY <1>1, <1>7 DEF Calls
<1> QED
  BY <1>7, <1>8 DEF g

\* Popping a drain, or a call whose run is over, leaves the other calls as they were;
\* the call that becomes innermost has been waiting for a nested one, on the pad.
LEMMA Pop ==
    ASSUME NEW h, NEW r, Stack(h, r), h # <<>>,
           h[Len(h)].is = "call" => r = retpad
    PROVE  Stack(Front(h), r)
<1> DEFINE g == Front(h)
<1>1. h \in Seq(Frames)
  BY DEF Stack
<1>2. g \in Seq(Frames) /\ Len(g) = Len(h) - 1 /\ \A i \in 1 .. Len(g) : g[i] = h[i]
  BY <1>1, FrontFrames
<1>3. Calls(g) = Calls(h) \ {Len(h)}
  BY <1>1, FrontFrames
<1> HIDE DEF g
<1>4. \A i \in Calls(g) : g[i] = h[i] /\ i \in Int /\ i < Len(h) /\ ~ h[i].returned
  BY <1>1, <1>2, <1>3 DEF Calls, Stack
<1>5. CASE h[Len(h)].is = "call"
  <2>1. Innermost(h, Len(h))
    BY <1>1, <1>5 DEF Innermost, Calls
  <2>2. \A i \in Calls(g) : Outer(g[i])
    BY <1>1, <1>3, <1>4, <2>1 DEF Stack, Innermost
  <2> QED
    BY <1>2, <1>4, <1>5, <2>2 DEF Stack, Outer, Inner, g
<1>6. CASE h[Len(h)].is # "call"
  <2>1. Calls(g) = Calls(h)
    BY <1>3, <1>6 DEF Calls
  <2>2. \A i \in Calls(g) : Innermost(g, i) <=> Innermost(h, i)
    BY <2>1 DEF Innermost
  <2> QED
    BY <1>2, <1>4, <2>1, <2>2 DEF Stack, g
<1> QED
  BY <1>5, <1>6 DEF g

\* A host call from a handler: every call below it is then an outer one.
LEMMA NestingOuter ==
    ASSUME NEW h, NEW r, Stack(h, r),
           \A i \in Calls(h) : ~ h[i].returned
    PROVE  /\ Nesting(h) \in Seq(Frames)
           /\ Calls(Nesting(h)) = Calls(h)
           /\ \A i \in Calls(h) : Outer(Nesting(h)[i])
           /\ DOMAIN Nesting(h) = DOMAIN h
           /\ \A i \in DOMAIN h : h[i].is = "drain" => Nesting(h)[i] = h[i]
<1> DEFINE g == Nesting(h)
<1>1. h \in Seq(Frames)
  BY DEF Stack
<1>2. \A i \in DOMAIN h :
         g[i] = IF Innermost(h, i) THEN [h[i] EXCEPT !.nested = TRUE] ELSE h[i]
  BY DEF Nesting, Innermost
<1>3. DOMAIN g = 1 .. Len(h)
  BY <1>1 DEF Nesting
<1>4. \A i \in DOMAIN h : i \in Calls(h) => h[i] \in CallFrames
  BY <1>1 DEF Calls, Frames, DrainFrames
<1>5. \A i \in DOMAIN h : g[i] \in Frames /\ g[i].is = h[i].is
  <2> SUFFICES ASSUME NEW i \in DOMAIN h PROVE g[i] \in Frames /\ g[i].is = h[i].is
    OBVIOUS
  <2>1. h[i] \in Frames
    BY <1>1
  <2>2. CASE Innermost(h, i)
    <3>1. h[i] \in CallFrames
      BY <1>4, <2>2 DEF Innermost
    <3>2. g[i] = [h[i] EXCEPT !.nested = TRUE]
      BY <1>2, <2>2
    <3> HIDE DEF g
    <3>3. [h[i] EXCEPT !.nested = TRUE] \in CallFrames /\ [h[i] EXCEPT !.nested = TRUE].is = h[i].is
      BY <3>1, Zenon DEF CallFrames
    <3> QED
      BY <3>2, <3>3 DEF Frames
  <2>3. CASE ~ Innermost(h, i)
    BY <1>2, <2>1, <2>3, Zenon
  <2> QED
    BY <2>2, <2>3
<1>6. g \in Seq(Frames)
  <2>1. g = [i \in 1 .. Len(h) |-> g[i]]
    BY <1>1 DEF Nesting
  <2>2. Len(h) \in Nat /\ \A i \in 1 .. Len(h) : g[i] \in Frames
    BY <1>1, <1>5
  <2> HIDE DEF g
  <2>3. g \in [1 .. Len(h) -> Frames]
    BY <2>1, <2>2
  <2> QED
    BY <2>2, <2>3, SeqDef
<1>7. Calls(g) = Calls(h)
  BY <1>1, <1>3, <1>5 DEF Calls
<1>8. ASSUME NEW i \in Calls(h)
      PROVE  Outer(g[i])
  <2>1. i \in DOMAIN h /\ h[i] \in CallFrames /\ ~ h[i].returned
    BY <1>4 DEF Calls
  <2>2. CASE Innermost(h, i)
    BY <1>2, <2>1, <2>2, Zenon DEF Outer, CallFrames
  <2>3. CASE ~ Innermost(h, i)
    BY <1>2, <2>1, <2>3, Zenon DEF Outer, Stack
  <2> QED
    BY <2>2, <2>3
<1>9. \A i \in DOMAIN h : h[i].is = "drain" => g[i] = h[i]
  BY <1>2, Zenon DEF Innermost, Calls
<1> QED
  BY <1>1, <1>3, <1>6, <1>7, <1>8, <1>9

\* kernel_call leaves a sound stack, whether it enters the function or fails.
LEMMA KernelCall ==
    ASSUME NEW h, NEW r, Stack(h, r),
           \A i \in Calls(h) : ~ h[i].returned,
           kernel_call(h)
    PROVE  Stack(host', rip') /\ rip' \in Places
<1> DEFINE g == Nesting(h)
           k == Append(g, Call)
<1>1. g \in Seq(Frames) /\ Calls(g) = Calls(h) /\ \A i \in Calls(g) : Outer(g[i])
  BY NestingOuter
<1>2. Call \in Frames /\ Call.is = "call" /\ ~ Call.returned /\ ~ Call.nested
  BY DEF Call, Frames, CallFrames
<1>3. CASE rip' = Code(0, TRUE) /\ host' = k
  <2>1. k \in Seq(Frames) /\ Len(k) = Len(g) + 1 /\ k[Len(k)] = Call
        /\ \A i \in 1 .. Len(g) : k[i] = g[i]
    BY <1>1, <1>2
  <2>2. Calls(k) = Calls(g) \union {Len(k)} /\ Calls(g) \subseteq 1 .. Len(g)
    BY <1>1, <1>2, <2>1 DEF Calls
  <2>3. Innermost(k, Len(k)) /\ \A i \in Calls(g) : ~ Innermost(k, i) /\ Outer(k[i])
    BY <1>1, <2>1, <2>2 DEF Innermost
  <2>4. Inner(Call, Code(0, TRUE))
    BY <1>2, PlaceType, Zenon DEF Inner
  <2>5. Stack(k, Code(0, TRUE))
    BY <1>2, <2>1, <2>2, <2>3, <2>4, Zenon DEF Stack, Outer
  <2> QED
    BY <1>3, <2>5, PlaceType, Zenon
<1>4. CASE rip' = Code(0, FALSE) /\ host' = g
  <2>1. \A i \in Calls(g) : Inner(g[i], Code(0, FALSE))
    BY <1>1, PlaceType, Zenon DEF Inner, Outer
  <2>2. Stack(g, Code(0, FALSE))
    BY <1>1, <2>1, Zenon DEF Stack, Outer
  <2> QED
    BY <1>4, <2>2, PlaceType, Zenon
<1> QED
  BY <1>3, <1>4, Zenon DEF kernel_call

\* Initially there is no call.
LEMMA InitIInv == Init => IInv
<1> SUFFICES ASSUME Init PROVE IInv
  OBVIOUS
<1>1. host \in Seq(Frames) /\ Calls(host) = {}
  BY DEF Init, Calls
<1> QED
  BY <1>1, PlaceType DEF IInv, Stack, Init

\* Every step keeps the stack sound.
LEMMA NextIInv == IInv /\ [Next]_vars => IInv'
<1> SUFFICES ASSUME IInv, [Next]_vars PROVE Stack(host', rip') /\ rip' \in Places
  BY DEF IInv, Stack, Innermost, Inner, Outer, Calls
<1>0. Stack(host, rip) /\ host \in Seq(Frames) /\ rip \in Places
  BY DEF IInv, Stack
<1>1. ASSUME rip.at = "driver"
      PROVE  rip # retpad /\ rip \in [at : {"driver"}, ops : Int, callee : BOOLEAN]
  BY <1>0, <1>1 DEF Places, retpad
<1>2. ASSUME rip.at = "driver"
      PROVE  \A i \in Calls(host) : ~ host[i].returned
  BY <1>0, <1>1, <1>2 DEF Stack, Inner, Outer
<1>3. ASSUME KernelFunction
      PROVE  /\ Behind \in Places
             /\ Behind # retpad
             /\ Stack(host, Behind)
  <2>1. rip.at = "driver"
    BY <1>3 DEF KernelFunction
  <2>2. Behind \in Places /\ Behind # retpad /\ Behind.callee = rip.callee
    BY <1>1, <2>1 DEF Behind, Code, Places, retpad
  <2> QED
    BY <1>0, <1>1, <2>1, <2>2 DEF Stack, Inner
<1>4. CASE kernel_defer
  BY <1>3, <1>4 DEF kernel_defer
<1>5. CASE Flush
  BY <1>3, <1>5, PushDrain DEF Flush, Drain
<1>6. CASE kref_put
  <2>1. rip.at = "driver" /\ kernel_call(host)
    BY <1>6 DEF kref_put, KernelFunction
  <2> QED
    BY <1>0, <1>2, <2>1, KernelCall
<1>7. CASE Ret
  <2> DEFINE n == Len(host)
             f == [host[n] EXCEPT !.returned = rip.callee]
  <2>1. rip.at = "driver" /\ n \in 1 .. Len(host) /\ host[n].is = "call"
    BY <1>0, <1>7 DEF Ret, InGuest, Idle, Last
  <2>2. host[n] \in CallFrames
    BY <1>0, <2>1 DEF Frames, DrainFrames
  <2>3. f \in CallFrames /\ f.returned = rip.callee /\ f.nested = host[n].nested
    BY <1>1, <2>1, <2>2 DEF CallFrames
  <2>4. host' = [host EXCEPT ![n] = f] /\ rip' = retpad
    BY <1>7 DEF Ret
  <2>5. host' \in Seq(Frames) /\ Len(host') = n /\ host'[n] = f
        /\ \A i \in 1 .. n : i # n => host'[i] = host[i]
    BY <1>0, <2>1, <2>3, <2>4 DEF Frames
  <2>6. Calls(host') = Calls(host)
    BY <1>0, <2>1, <2>2, <2>3, <2>5 DEF Calls, CallFrames
  <2>7. Innermost(host, n) /\ Innermost(host', n)
    BY <1>0, <2>1, <2>5, <2>6 DEF Innermost, Calls
  <2>8. \A i \in Calls(host) : i # n => host'[i] = host[i] /\ Outer(host[i])
                                         /\ ~ Innermost(host', i)
    BY <1>0, <2>1, <2>5, <2>6, <2>7 DEF Stack, Innermost, Calls
  <2>9. Inner(f, retpad)
    BY <1>0, <1>1, <2>1, <2>3, <2>7 DEF Stack, Inner, Innermost
  <2> QED
    BY <2>4, <2>5, <2>6, <2>7, <2>8, <2>9, PlaceType, Zenon DEF Stack, Outer
<1>8. CASE EndOfRun
  BY <1>0, <1>8, Pop DEF EndOfRun, InGuest, Idle
<1>9. CASE RunCallback
  <2> DEFINE h == Spent(host)
             n == Len(host)
  <2>1. n \in 1 .. Len(host) /\ host[n].is = "drain" /\ kernel_call(h)
    BY <1>0, <1>9 DEF RunCallback, Draining, Idle, Last
  <2>2. host[n] \in DrainFrames
    BY <1>0, <2>1 DEF Frames, CallFrames
  <2>3. [host[n] EXCEPT !.rounds = @ - 1] \in DrainFrames
    BY <2>2 DEF DrainFrames
  <2>4. h \in Seq(Frames) /\ Len(h) = n /\ h[n] \in DrainFrames
        /\ \A i \in 1 .. n : i # n => h[i] = host[i]
    BY <1>0, <2>1, <2>3 DEF Spent, Frames
  <2>5. Calls(h) = Calls(host) /\ n \notin Calls(host)
    BY <1>0, <2>1, <2>4 DEF Calls, DrainFrames
  <2>6. \A i \in Calls(host) : h[i] = host[i] /\ ~ host[i].returned
                               /\ (Innermost(h, i) <=> Innermost(host, i))
    BY <1>0, <2>1, <2>4, <2>5 DEF Stack, Innermost, Calls
  <2>7. Stack(h, rip)
    BY <1>0, <2>4, <2>5, <2>6 DEF Stack
  <2> QED
    BY <2>1, <2>5, <2>6, <2>7, KernelCall
<1>10. CASE EndOfDrain
  BY <1>0, <1>10, Pop DEF EndOfDrain, Draining, Idle, Last
<1>11. CASE CallModule
  <2>1. \A i \in Calls(host) : ~ host[i].returned
    BY <1>11 DEF CallModule, Idle, Calls
  <2> QED
    BY <1>0, <1>11, <2>1, KernelCall DEF CallModule
<1>12. CASE kernel_run_deferred
  <2>1. host' \in Seq(Frames) /\ Calls(host') = {}
    BY <1>12, KernelDeferredAssumption
    DEF kernel_run_deferred, Drain, Frames, DrainFrames, Calls
  <2> QED
    BY <1>0, <1>12, <2>1 DEF Stack, kernel_run_deferred
<1>13. CASE UNCHANGED vars
  BY <1>0, <1>13 DEF vars
<1> QED
  BY <1>4, <1>5, <1>6, <1>7, <1>8, <1>9, <1>10, <1>11, <1>12, <1>13 DEF Next, Step

\* kernel_call and run_host_call: a run of a driver function that ends on the return pad
\* has come to its ret if, and only if, no kernel function that it called entered the
\* driver again, for every depth limit, every MAX_ROUNDS and every driver.
THEOREM CutShort == Spec => []CutShortIffNested
<1>1. IInv => CutShortIffNested
  <2> SUFFICES ASSUME IInv, InGuest, rip = retpad
               PROVE  Last(host).returned <=> ~ Last(host).nested
    BY DEF CutShortIffNested
  <2>1. host \in Seq(Frames) /\ Len(host) \in 1 .. Len(host) /\ host[Len(host)].is = "call"
    BY DEF IInv, Stack, InGuest, Idle, Last
  <2>2. Innermost(host, Len(host))
    BY <2>1 DEF Innermost, Calls
  <2> QED
    BY <2>2 DEF IInv, Stack, Inner, Innermost, Last
<1> QED
  BY <1>1, InitIInv, NextIInv, PTL DEF Spec

-----------------------------------------------------------------------------
(* Limits *)

Depth(h) == Cardinality(Calls(h))

\* A drain has at most MAX_ROUNDS callbacks left to run.
RoundsOK(h) == \A i \in DOMAIN h : h[i].is = "drain" => h[i].rounds \in 0 .. MAX_ROUNDS

\* The driver functions are within the bound on their kernel calls.
OpsOK(r) == r # retpad => r.ops \in 0 .. MaxOps

\* The inductive invariant: rip is on a callback that failed only at the depth limit, and
\* stays there until the drain ends.
LimitsInv ==
    /\ IInv
    /\ RoundsOK(host)
    /\ OpsOK(rip)
    /\ deferred \in 0 .. MaxDeferred
    /\ Depth(host) <= MAX_CALL_DEPTH
    /\ rip = Code(0, FALSE) => Depth(host) = MAX_CALL_DEPTH

\* The depth is a number.
LEMMA DepthType ==
    ASSUME NEW h \in Seq(Frames)
    PROVE  IsFiniteSet(Calls(h)) /\ Depth(h) \in Nat
<1>1. IsFiniteSet(1 .. Len(h)) /\ Calls(h) \in SUBSET (1 .. Len(h))
  BY FS_Interval DEF Calls
<1>2. IsFiniteSet(Calls(h))
  BY <1>1, FS_Subset
<1> QED
  BY <1>2, FS_CardinalityType DEF Depth

\* kernel_call never exceeds the limit.
LEMMA CallLimits ==
    ASSUME NEW h, NEW r, Stack(h, r), \A i \in Calls(h) : ~ h[i].returned, RoundsOK(h),
           Depth(h) = call_depth, call_depth <= MAX_CALL_DEPTH, kernel_call(h)
    PROVE  /\ RoundsOK(host') /\ OpsOK(rip')
           /\ Depth(host') <= MAX_CALL_DEPTH
           /\ rip' = Code(0, FALSE) => Depth(host') = MAX_CALL_DEPTH
<1> DEFINE g == Nesting(h)
           k == Append(g, Call)
<1>1. /\ g \in Seq(Frames) /\ Calls(g) = Calls(h) /\ DOMAIN g = DOMAIN h
      /\ \A i \in DOMAIN h : h[i].is = "drain" => g[i] = h[i]
  BY NestingOuter
<1>2. h \in Seq(Frames) /\ Depth(h) \in Nat /\ IsFiniteSet(Calls(h)) /\ MAX_CALL_DEPTH \in Nat
      /\ MaxOps \in Nat
  BY DepthType, KernelDeferredAssumption DEF Stack
<1>3. \A i \in DOMAIN h : g[i].is = "drain" => h[i].is = "drain"
  <2>1. \A i \in DOMAIN h : i \in Calls(h) => g[i].is = "call"
    BY <1>1 DEF Calls
  <2>2. \A i \in DOMAIN h : h[i].is \in {"call", "drain"}
    BY <1>2 DEF Frames, CallFrames, DrainFrames
  <2> QED
    BY <2>1, <2>2 DEF Calls
<1>4. RoundsOK(g)
  BY <1>1, <1>3 DEF RoundsOK
<1>5. Call \in Frames /\ Call.is = "call"
  BY DEF Call, Frames, CallFrames
<1>6. Code(0, TRUE) # Code(0, FALSE) /\ OpsOK(Code(0, TRUE)) /\ OpsOK(Code(0, FALSE))
  BY <1>2 DEF Code, OpsOK
<1>7. CASE call_depth < MAX_CALL_DEPTH /\ rip' = Code(0, TRUE) /\ host' = k
  <2> HIDE DEF g
  <2>1. k \in Seq(Frames) /\ DOMAIN k = 1 .. Len(g) + 1 /\ k[Len(g) + 1] = Call
        /\ DOMAIN g = 1 .. Len(g) /\ Len(g) \in Nat /\ \A i \in 1 .. Len(g) : k[i] = g[i]
    BY <1>1, <1>5
  <2> HIDE DEF k
  <2>2. RoundsOK(k)
    BY <1>4, <1>5, <2>1 DEF RoundsOK
  <2>3. Calls(k) = Calls(h) \cup {Len(g) + 1}
    <3>1. Calls(k) = Calls(g) \cup {Len(g) + 1}
      BY <1>5, <2>1 DEF Calls
    <3> QED
      BY <1>1, <3>1
  <2>4. Len(g) + 1 \notin Calls(h)
    BY <1>1, <2>1 DEF Calls
  <2>5. Depth(k) = Depth(h) + 1
    BY <1>2, <2>3, <2>4, FS_AddElement, Zenon DEF Depth
  <2>6. Depth(k) <= MAX_CALL_DEPTH
    BY <1>2, <1>7, <2>5
  <2> QED
    BY <1>6, <1>7, <2>2, <2>6, Zenon
<1>8. CASE call_depth >= MAX_CALL_DEPTH /\ rip' = Code(0, FALSE) /\ host' = g
  <2>1. Depth(g) = Depth(h)
    BY <1>1 DEF Depth
  <2>2. Depth(g) = MAX_CALL_DEPTH
    BY <1>2, <1>8, <2>1
  <2>3. Depth(g) <= MAX_CALL_DEPTH
    BY <1>2, <2>2
  <2> HIDE DEF g
  <2> QED
    BY <1>4, <1>6, <1>8, <2>2, <2>3, Zenon
<1> QED
  BY <1>7, <1>8, Zenon DEF kernel_call

\* The invariant is inductive.
LEMMA LimitsInvariant == Spec => []LimitsInv
<1>1. Init => LimitsInv
  <2> SUFFICES ASSUME Init PROVE LimitsInv
    OBVIOUS
  <2>1. Calls(host) = {} /\ RoundsOK(host)
    BY DEF Init, Calls, RoundsOK
  <2>2. Depth(host) = 0
    BY <2>1, FS_EmptySet DEF Depth
  <2>3. rip # Code(0, FALSE) /\ OpsOK(rip) /\ IInv
    BY InitIInv, PlaceType, Zenon DEF Init, OpsOK
  <2>4. deferred \in 0 .. MaxDeferred /\ Depth(host) <= MAX_CALL_DEPTH
    BY <2>2, KernelDeferredAssumption DEF Init
  <2> QED
    BY <2>1, <2>3, <2>4, Zenon DEF LimitsInv
<1>2. LimitsInv /\ [Next]_vars => LimitsInv'
  <2> SUFFICES ASSUME LimitsInv, [Next]_vars PROVE LimitsInv'
    OBVIOUS
  <2> DEFINE Goal == /\ RoundsOK(host') /\ OpsOK(rip')
                     /\ Depth(host') <= MAX_CALL_DEPTH
                     /\ rip' = Code(0, FALSE) => Depth(host') = MAX_CALL_DEPTH
  <2>0. /\ IInv /\ IInv' /\ Stack(host, rip) /\ host \in Seq(Frames) /\ rip \in Places
        /\ Depth(host) \in Nat /\ Depth(host) = call_depth /\ IsFiniteSet(Calls(host))
    BY NextIInv, DepthType, Zenon DEF LimitsInv, IInv, Stack, Depth, call_depth
  <2>1. ASSUME rip.at = "driver"
        PROVE  rip # retpad /\ \A i \in Calls(host) : ~ host[i].returned
    BY <2>0, <2>1 DEF retpad, Stack, Inner, Outer
  <2>2. ASSUME KernelFunction
        PROVE  OpsOK(Behind) /\ Behind # Code(0, FALSE)
    <3>1. rip # retpad /\ rip.ops \in 0 .. MaxOps /\ rip.ops < MaxOps
      BY <2>1, <2>2 DEF KernelFunction, LimitsInv, OpsOK
    <3>2. Behind.ops = rip.ops + 1 /\ Code(0, FALSE).ops = 0
      BY DEF Behind, Code
    <3>3. rip.ops + 1 \in 0 .. MaxOps /\ rip.ops + 1 # 0
      BY <3>1, KernelDeferredAssumption
    <3>4. OpsOK(Behind)
      BY <3>2, <3>3 DEF OpsOK
    <3>5. Behind # Code(0, FALSE)
      <4> HIDE DEF Behind
      <4> QED
        BY <3>2, <3>3, Zenon
    <3> QED
      BY <3>4, <3>5, Zenon
  <2>3. ASSUME Draining \/ InGuest
        PROVE  /\ host # <<>> /\ Len(host) \in DOMAIN host /\ DOMAIN host = 1 .. Len(host)
               /\ Len(host) \in Nat /\ Last(host) = host[Len(host)]
    BY <2>0, <2>3 DEF Draining, InGuest, Idle, Last
  \* Frames that are popped.
  <2>4. ASSUME Draining \/ InGuest PROVE RoundsOK(Front(host))
    <3>1. Front(host) \in Seq(Frames) /\ Len(Front(host)) = Len(host) - 1
          /\ \A i \in 1 .. Len(Front(host)) : Front(host)[i] = host[i]
      BY <2>0, <2>3, <2>4, FrontFrames
    <3>2. DOMAIN Front(host) = 1 .. Len(host) - 1 /\ \A i \in DOMAIN Front(host) : i \in DOMAIN host
      BY <2>3, <2>4, <3>1
    <3> QED
      BY <3>1, <3>2 DEF RoundsOK, LimitsInv
  <2>5. CASE kernel_defer
    <3>1. host' = host /\ rip' = Behind /\ KernelFunction
      BY <2>5 DEF kernel_defer
    <3>2. deferred' \in 0 .. MaxDeferred
      BY <2>5, KernelDeferredAssumption DEF kernel_defer, LimitsInv
    <3> QED
      BY <2>0, <2>2, <3>1, <3>2, Zenon DEF LimitsInv
  <2>6. CASE Flush
    <3> DEFINE k == Append(host, Drain)
    <3>1. Drain \in Frames /\ Drain.is = "drain" /\ Drain.rounds = MAX_ROUNDS
      BY KernelDeferredAssumption DEF Drain, Frames, DrainFrames
    <3>2. DOMAIN k = 1 .. Len(host) + 1 /\ k[Len(host) + 1] = Drain /\ DOMAIN host = 1 .. Len(host)
          /\ Len(host) \in Nat /\ \A i \in 1 .. Len(host) : k[i] = host[i]
      BY <2>0, <3>1
    <3> HIDE DEF k
    <3>3. Calls(k) = Calls(host)
      BY <3>1, <3>2 DEF Calls
    <3>4. RoundsOK(k)
      BY <3>1, <3>2, KernelDeferredAssumption DEF RoundsOK, LimitsInv
    <3>5. host' = k /\ rip' = Behind /\ deferred' = deferred /\ KernelFunction
      BY <2>6 DEF Flush, k
    <3> QED
      BY <2>0, <2>2, <3>3, <3>4, <3>5, Zenon DEF LimitsInv, Depth
  <2>7. CASE kref_put
    <3>1. rip.at = "driver" /\ kernel_call(host) /\ deferred' = deferred
      BY <2>7 DEF kref_put, KernelFunction
    <3>2. Goal
      BY <2>0, <2>1, <3>1, CallLimits, Zenon DEF LimitsInv
    <3> QED
      BY <2>0, <3>1, <3>2, Zenon DEF LimitsInv
  <2>8. CASE Ret
    <3> DEFINE n == Len(host)
               f == [host[n] EXCEPT !.returned = rip.callee]
    <3>1. host[n].is = "call" /\ n \in DOMAIN host /\ rip' = retpad /\ deferred' = deferred
          /\ host' = [host EXCEPT ![n] = f]
      BY <2>3, <2>8 DEF Ret, InGuest
    <3>2. host[n] \in CallFrames
      BY <2>0, <3>1 DEF Frames, DrainFrames
    <3>3. f.is = "call"
      BY <3>2 DEF CallFrames
    <3>4. DOMAIN host' = DOMAIN host /\ \A i \in DOMAIN host : host'[i] = IF i = n THEN f ELSE host[i]
      BY <2>0, <3>1
    <3> HIDE DEF f
    <3>5. Calls(host') = Calls(host) /\ RoundsOK(host')
      BY <3>1, <3>3, <3>4 DEF Calls, RoundsOK, LimitsInv
    <3> QED
      BY <2>0, <3>1, <3>5, PlaceType, Zenon DEF LimitsInv, Depth, OpsOK
  <2>9. CASE EndOfRun
    <3>1. Depth(Front(host)) = Depth(host) - 1
      <4>1. Calls(Front(host)) = Calls(host) \ {Len(host)}
        BY <2>0, <2>3, <2>9, FrontFrames DEF EndOfRun
      <4>2. Len(host) \in Calls(host)
        BY <2>3, <2>9 DEF EndOfRun, InGuest, Calls
      <4> QED
        BY <2>0, <4>1, <4>2, FS_RemoveElement, Zenon DEF Depth
    <3>2. Depth(Front(host)) <= MAX_CALL_DEPTH
      BY <2>0, <3>1, KernelDeferredAssumption DEF LimitsInv
    <3>3. host' = Front(host) /\ rip' = retpad /\ deferred' = deferred /\ InGuest
      BY <2>9 DEF EndOfRun
    <3> QED
      BY <2>0, <2>4, <3>2, <3>3, PlaceType, Zenon DEF LimitsInv, OpsOK
  <2>10. CASE RunCallback
    <3> DEFINE h == Spent(host)
               n == Len(host)
    <3>1. /\ n \in DOMAIN host /\ host[n].is = "drain" /\ host[n].rounds > 0 /\ kernel_call(h)
          /\ deferred > 0 /\ deferred' = deferred - 1
      BY <2>3, <2>10 DEF RunCallback, Draining
    <3>2. host[n] \in DrainFrames
      BY <2>0, <3>1 DEF Frames, CallFrames
    <3> DEFINE d == [host[n] EXCEPT !.rounds = @ - 1]
    <3>3. d \in DrainFrames /\ d.rounds = host[n].rounds - 1 /\ d.is = "drain"
      BY <3>2 DEF DrainFrames
    <3>4. h = [host EXCEPT ![n] = d]
      BY DEF Spent
    <3> HIDE DEF d
    <3>5. DOMAIN h = DOMAIN host /\ \A i \in DOMAIN host : h[i] = IF i = n THEN d ELSE host[i]
      BY <2>0, <3>1, <3>4
    <3>6. h \in Seq(Frames)
      BY <2>0, <3>1, <3>3, <3>4 DEF Frames
    <3> HIDE DEF h
    <3>7. Calls(h) = Calls(host) /\ n \notin Calls(host)
      BY <3>1, <3>3, <3>5 DEF Calls
    <3>8. RoundsOK(h)
      <4>1. host[n].rounds \in 0 .. MAX_ROUNDS
        BY <3>1 DEF LimitsInv, RoundsOK
      <4>2. d.rounds \in 0 .. MAX_ROUNDS
        BY <3>1, <3>3, <4>1, KernelDeferredAssumption
      <4> QED
        BY <3>5, <4>2 DEF LimitsInv, RoundsOK
    <3>9. \A i \in Calls(host) : h[i] = host[i] /\ ~ host[i].returned
                                 /\ (Innermost(h, i) <=> Innermost(host, i))
      BY <2>0, <2>3, <2>10, <3>5, <3>7 DEF Stack, Innermost, Calls, RunCallback
    <3>10. Stack(h, rip)
      BY <2>0, <3>6, <3>7, <3>9 DEF Stack
    <3>11. Goal
      BY <2>0, <3>1, <3>7, <3>8, <3>9, <3>10, CallLimits, Zenon DEF LimitsInv, Depth
    <3>12. deferred' \in 0 .. MaxDeferred
      BY <3>1, KernelDeferredAssumption DEF LimitsInv
    <3> QED
      BY <2>0, <3>11, <3>12, Zenon DEF LimitsInv
  <2>11. CASE EndOfDrain
    <3>1. Depth(Front(host)) = Depth(host)
      <4>1. Calls(Front(host)) = Calls(host) \ {Len(host)}
        BY <2>0, <2>3, <2>11, FrontFrames DEF EndOfDrain
      <4>2. Len(host) \notin Calls(host)
        BY <2>3, <2>11 DEF EndOfDrain, Draining, Calls
      <4>3. Calls(Front(host)) = Calls(host)
        BY <4>1, <4>2
      <4> QED
        BY <4>3 DEF Depth
    <3> QED
      BY <2>0, <2>4, <2>11, <3>1, Zenon DEF EndOfDrain, LimitsInv
  <2>12. CASE CallModule
    <3>1. kernel_call(host) /\ deferred' = deferred /\ \A i \in Calls(host) : ~ host[i].returned
      BY <2>12 DEF CallModule, Idle, Calls
    <3>2. Goal
      BY <2>0, <3>1, CallLimits, Zenon DEF LimitsInv
    <3> QED
      BY <2>0, <3>1, <3>2, Zenon DEF LimitsInv
  <2>13. CASE kernel_run_deferred
    <3>1. host' = <<Drain>> /\ rip' = rip /\ deferred' = deferred
      BY <2>13 DEF kernel_run_deferred
    <3>2. Calls(host) = {} /\ Calls(host') = {}
      BY <2>13, <3>1 DEF kernel_run_deferred, Idle, Calls, Drain
    <3>3. RoundsOK(host')
      BY <3>1, KernelDeferredAssumption DEF RoundsOK, Drain
    <3> QED
      BY <2>0, <3>1, <3>2, <3>3, Zenon DEF LimitsInv, Depth
  <2>14. CASE UNCHANGED vars
    BY <2>0, <2>14, Zenon DEF vars, LimitsInv
  <2> QED
    BY <2>5, <2>6, <2>7, <2>8, <2>9, <2>10, <2>11, <2>12, <2>13, <2>14 DEF Next, Step
<1> QED
  BY <1>1, <1>2, PTL DEF Spec

\* run_host_call: host calls never nest deeper than MAX_CALL_DEPTH, and a drain goes past a
\* callback without running it at that depth only, for every limit and every driver.
THEOREM LimitsAreKept == Spec => []LimitsHold
<1>1. LimitsInv => LimitsHold
  <2> SUFFICES ASSUME LimitsInv PROVE LimitsHold
    OBVIOUS
  <2>1. \A i \in DOMAIN host :
          host[i] \in [is : {"call"}, returned : BOOLEAN, nested : BOOLEAN]
                       \union [is : {"drain"}, rounds : 0 .. MAX_ROUNDS]
    <3> SUFFICES ASSUME NEW i \in DOMAIN host, host[i] \in DrainFrames
                 PROVE  host[i] \in [is : {"drain"}, rounds : 0 .. MAX_ROUNDS]
      BY DEF LimitsInv, IInv, Stack, Frames, CallFrames
    <3> QED
      BY DEF LimitsInv, RoundsOK, DrainFrames
  <2>2. rip \in {retpad} \union {Code(ops, callee) : ops \in 0 .. MaxOps, callee \in BOOLEAN}
    <3>1. CASE rip = retpad
      BY <3>1
    <3>2. CASE rip # retpad
      <4>1. rip \in [at : {"driver"}, ops : Int, callee : BOOLEAN] /\ rip.ops \in 0 .. MaxOps
        BY <3>2 DEF LimitsInv, IInv, Places, OpsOK
      <4>2. rip = Code(rip.ops, rip.callee) /\ rip.callee \in BOOLEAN
        BY <4>1 DEF Code
      <4> QED
        BY <4>1, <4>2
    <3> QED
      BY <3>1, <3>2
  <2>3. call_depth = Depth(host) /\ deferred \in 0 .. MaxDeferred /\ Depth(host) <= MAX_CALL_DEPTH
        /\ (rip = Code(0, FALSE) => Depth(host) = MAX_CALL_DEPTH)
    BY Zenon DEF LimitsInv, Depth, call_depth
  <2>4. TypeOK
    BY <2>1, <2>2, <2>3 DEF TypeOK
  <2>5. SkipsOnlyAtLimit
    BY <2>3 DEF SkipsOnlyAtLimit
  <2> QED
    BY <2>4, <2>5 DEF LimitsHold
<1> QED
  BY <1>1, LimitsInvariant, PTL
=============================================================================
