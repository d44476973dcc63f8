--------------------------- MODULE SameThreadProofs ---------------------------
(***************************************************************************)
(* Proofs about the same-thread runner, for any number of processes, calls *)
(* and callbacks: its type invariant, that a return pops its own           *)
(* invocation, and that calls and callbacks nest (NestedCalls).            *)
(***************************************************************************)
EXTENDS SameThread, SequenceLemmas, TLAPS

Frames == [kind : {"loop"}, for : Invocations] \cup [kind : {"function"}, for : Processes]

Labels == {"none", "body", "calling", "returning", "refused", "retrying", "returned",
           "done"}
FrameLabels == {"none", "active", "resumed"}

\* The n-th frame of the C stack is an interpreter.
IsLoop(n) == cstack[n].kind = "loop"

\* Functions and interpreters alternate on the C stack, above the function
\* that the first interpreter called; no process and no invocation has two
\* frames; a process with a frame waits for its function.
FrameInv ==
  /\ \A n \in 1..Len(cstack) :
       IF n = Len(cstack) THEN ~IsLoop(n) ELSE IsLoop(n) <=> ~IsLoop(n + 1)
  /\ \A m, n \in 1..Len(cstack) : cstack[m] = cstack[n] => m = n
  /\ \A n \in 1..Len(cstack) : ~IsLoop(n) => pc[cstack[n].for] = "calling"
  /\ \A n \in 1..Len(cstack) : IsLoop(n) => frame[cstack[n].for] # "none"

\* The invocation of the n-th frame if there is one.
InvocationAt(n) == IF n <= Len(cstack) THEN cstack[n].for ELSE NULL

\* callbackStack and previous link the interpreters, which are two frames apart.
ListInv ==
  /\ \A n \in 1..Len(cstack) : IsLoop(n) => previous[cstack[n].for] = InvocationAt(n + 2)
  /\ callbackStack = IF jumping # NULL THEN InvocationAt(3)
                     ELSE IF cstack # <<>> /\ IsLoop(1) THEN InvocationAt(1)
                     ELSE InvocationAt(2)

\* An invocation has a context as long as it has a frame on the C stack.
ContextInv ==
  \A i \in Invocations :
    i \in contexts <=> \E n \in 1..Len(cstack) : cstack[n] = Interpreter(i)

\* An invocation on its way to its handler is queued once and has no process.
QueueInv ==
  /\ \A n \in 1..Len(callbackQueue) :
       pc[callbackQueue[n]] = "none" /\ frame[callbackQueue[n]] # "none"
  /\ \A m, n \in 1..Len(callbackQueue) : callbackQueue[m] = callbackQueue[n] => m = n
  /\ fetched # NULL =>
       /\ pc[fetched] = "none" /\ frame[fetched] # "none"
       /\ \A n \in 1..Len(callbackQueue) : callbackQueue[n] # fetched
  /\ \A i \in Invocations : frame[i] = "none" => pc[i] = "none"

\* The process that returns is inside stackProtect until it popped.
ProtectInv == \A i \in Invocations : pc[i] = "returned" <=> stackProtect = i

\* A jump goes to the innermost frame.
JumpInv ==
  jumping # NULL => /\ cstack # <<>> /\ cstack[1] = Interpreter(jumping)
                    /\ pc[jumping] = "returned"

IInv ==
  /\ TypeOK
  /\ FrameInv
  /\ ListInv
  /\ ContextInv
  /\ QueueInv
  /\ ProtectInv
  /\ JumpInv
  /\ PopsItsOwn

------------------------------------------------------------------------------
\* The only frame a jump can go to is the innermost one.
LEMMA JumpPopsOne ==
  ASSUME IInv, Jump
  PROVE  /\ cstack # <<>> /\ cstack[1] = Interpreter(jumping)
         /\ cstack' \in Seq(Frames)
         /\ Len(cstack) \in Nat \ {0}
         /\ Len(cstack') = Len(cstack) - 1
         /\ \A n \in 1..Len(cstack') : cstack'[n] = cstack[n + 1]
         /\ jumping \in Invocations
<1>1. cstack \in Seq(Frames) /\ cstack # <<>> /\ cstack[1] = Interpreter(jumping)
      /\ jumping \in Invocations
  BY DEF IInv, TypeOK, Frames, JumpInv, Jump
<1>2. Len(cstack) \in Nat \ {0} /\ 1 \in 1..Len(cstack) /\ DOMAIN cstack = 1..Len(cstack)
  BY <1>1
<1>3. cstack' = SubSeq(cstack, 2, Len(cstack))
  <2>1. PICK k \in DOMAIN cstack : cstack[k] = Interpreter(jumping)
                                  /\ cstack' = SubSeq(cstack, k + 1, Len(cstack))
    BY DEF Jump
  <2>2. k = 1
    BY <1>1, <1>2, <2>1 DEF IInv, FrameInv
  <2> QED
    BY <2>1, <2>2
<1>4. \A n \in 2..Len(cstack) : cstack[n] \in Frames
  BY <1>1, <1>2, ElementOfSeq
<1> QED
  BY <1>1, <1>2, <1>3, <1>4, SubSeqProperties

\* The innermost frame when C runs, and the rest of the stack.
LEMMA InCFacts ==
  ASSUME IInv, InC
  PROVE  /\ cstack \in Seq(Frames) /\ Len(cstack) \in Nat \ {0} /\ 1 \in 1..Len(cstack)
         /\ Head(cstack) = cstack[1]
         /\ ~IsLoop(1)
         /\ cstack[1].for \in Processes
         /\ pc[cstack[1].for] = "calling"
         /\ jumping = NULL
<1>1. cstack \in Seq(Frames) /\ cstack # <<>> /\ jumping = NULL
  BY DEF IInv, TypeOK, Frames, InC
<1>2. Len(cstack) \in Nat \ {0} /\ 1 \in 1..Len(cstack) /\ Head(cstack) = cstack[1]
      /\ cstack[1] \in Frames
  BY <1>1
<1>3. ~IsLoop(1) /\ cstack[1].for \in Processes
  BY <1>1, <1>2 DEF InC, IsLoop, Frames
<1> QED
  BY <1>1, <1>2, <1>3 DEF IInv, FrameInv

\* The innermost frame when the image runs.
LEMMA InImageFacts ==
  ASSUME IInv, InImage
  PROVE  /\ cstack \in Seq(Frames) /\ Len(cstack) \in Nat
         /\ jumping = NULL
         /\ Len(cstack) > 0 => IsLoop(1) /\ Head(cstack) = cstack[1]
         /\ Len(cstack) = 0 <=> cstack = <<>>
<1>1. cstack \in Seq(Frames) /\ jumping = NULL
  BY DEF IInv, TypeOK, Frames, InImage
<1> QED
  BY <1>1 DEF InImage, IsLoop

\* The new invocation of EnterCallback and its frame.
LEMMA EnterFacts ==
  ASSUME IInv, EnterCallback
  PROVE  \E i \in Invocations :
           /\ frame[i] = "none" /\ pc[i] = "none"
           /\ frame' = [frame EXCEPT ![i] = "active"]
           /\ previous' = [previous EXCEPT ![i] = callbackStack]
           /\ callbackStack' = i
           /\ callbackQueue' = Append(callbackQueue, i)
           /\ contexts' = contexts \cup {i}
           /\ cstack' = <<Interpreter(i)>> \o cstack
           /\ Interpreter(i) \in Frames
           /\ cstack' \in Seq(Frames)
           /\ Len(cstack') = Len(cstack) + 1
           /\ cstack'[1] = Interpreter(i)
           /\ \A n \in 2..Len(cstack') : cstack'[n] = cstack[n - 1]
           /\ \A n \in 1..Len(cstack) : cstack'[n + 1] = cstack[n]
           /\ \A n \in 1..Len(cstack) : cstack[n] # Interpreter(i)
<1>1. PICK i \in Invocations :
           /\ frame[i] = "none"
           /\ frame' = [frame EXCEPT ![i] = "active"]
           /\ previous' = [previous EXCEPT ![i] = callbackStack]
           /\ callbackStack' = i
           /\ callbackQueue' = Append(callbackQueue, i)
           /\ contexts' = contexts \cup {i}
           /\ cstack' = <<Interpreter(i)>> \o cstack
  BY DEF EnterCallback
<1>2. pc[i] = "none"
  BY <1>1 DEF IInv, QueueInv
<1>3. Interpreter(i) \in Frames /\ cstack \in Seq(Frames) /\ Len(cstack) \in Nat
  BY <1>1, InCFacts DEF EnterCallback, Interpreter, Frames
<1>4. \A n \in 1..Len(cstack) : cstack[n] # Interpreter(i)
  BY <1>1 DEF IInv, FrameInv, IsLoop, Interpreter
<1>5. /\ cstack' \in Seq(Frames)
      /\ Len(cstack') = Len(cstack) + 1
      /\ cstack'[1] = Interpreter(i)
      /\ \A n \in 2..Len(cstack') : cstack'[n] = cstack[n - 1]
      /\ \A n \in 1..Len(cstack) : cstack'[n + 1] = cstack[n]
  BY <1>1, <1>3, PushProperties
<1> QED
  BY <1>1, <1>2, <1>3, <1>4, <1>5

\* The new frame of StartCallout.
LEMMA StartFacts ==
  ASSUME IInv, NEW p \in Processes, StartCallout(p)
  PROVE  /\ cstack' = <<Function(p)>> \o cstack
         /\ cstack' \in Seq(Frames)
         /\ Len(cstack) \in Nat
         /\ Len(cstack') = Len(cstack) + 1
         /\ cstack'[1] = Function(p)
         /\ \A n \in 2..Len(cstack') : cstack'[n] = cstack[n - 1]
         /\ \A n \in 1..Len(cstack) : cstack'[n + 1] = cstack[n]
         /\ \A n \in 1..Len(cstack) : cstack[n] # Function(p)
<1>1. Function(p) \in Frames /\ cstack \in Seq(Frames) /\ Len(cstack) \in Nat
  BY InImageFacts DEF StartCallout, Function, Frames
<1>2. cstack' = <<Function(p)>> \o cstack
  BY DEF StartCallout
<1>3. \A n \in 1..Len(cstack) : cstack[n] # Function(p)
  BY DEF StartCallout, IInv, FrameInv, IsLoop, Function
<1> QED
  BY <1>1, <1>2, <1>3, PushProperties

\* The C stack after EndCallout.
LEMMA EndFacts ==
  ASSUME IInv, EndCallout
  PROVE  /\ cstack' \in Seq(Frames)
         /\ Len(cstack) \in Nat \ {0}
         /\ Len(cstack') = Len(cstack) - 1
         /\ \A n \in 1..Len(cstack') : cstack'[n] = cstack[n + 1]
         /\ pc' = [pc EXCEPT ![cstack[1].for] = "body"]
<1>1. cstack \in Seq(Frames) /\ cstack # <<>> /\ Len(cstack) \in Nat \ {0}
      /\ Head(cstack) = cstack[1] /\ cstack' = Tail(cstack)
  BY InCFacts DEF EndCallout, InC
<1> QED
  BY <1>1, HeadTailProperties DEF EndCallout

\* Every step keeps the types.
LEMMA TypeStep == IInv /\ [Next]_vars => TypeOK'
<1> SUFFICES ASSUME IInv, [Next]_vars PROVE TypeOK'
  OBVIOUS
<1> USE SameThreadAssumption DEF IInv, TypeOK, Processes
<1>1. ASSUME NEW p \in Processes, StartCallout(p) PROVE TypeOK'
  <2>1. cstack' \in Seq(Frames)
    BY <1>1, StartFacts
  <2>2. calls' \in [Processes -> Nat]
    BY <1>1 DEF StartCallout
  <2> QED
    BY <1>1, <2>1, <2>2 DEF StartCallout, Frames
<1>2. CASE EndCallout
  BY <1>2, EndFacts, InCFacts DEF EndCallout, Frames, imageVars
<1>3. CASE EnterCallback
  <2>1. cstack' \in Seq(Frames)
    BY <1>3, EnterFacts
  <2>2. PICK i \in Invocations :
           /\ frame' = [frame EXCEPT ![i] = "active"]
           /\ previous' = [previous EXCEPT ![i] = callbackStack]
           /\ callbackStack' = i
           /\ callbackQueue' = Append(callbackQueue, i)
           /\ contexts' = contexts \cup {i}
    BY <1>3 DEF EnterCallback
  <2>3. callbackQueue' \in Seq(Invocations)
    BY <2>2
  <2> QED
    BY <1>3, <2>1, <2>2, <2>3 DEF EnterCallback, Frames, imageVars
<1>4. CASE Jump
  BY <1>4, JumpPopsOne DEF Jump, Frames, imageVars
<1>5. CASE FetchCallback
  <2>1. Head(callbackQueue) \in Invocations /\ Tail(callbackQueue) \in Seq(Invocations)
    BY <1>5, HeadTailProperties DEF FetchCallback
  <2> QED
    BY <1>5, <2>1 DEF FetchCallback, cVars
<1>6. CASE ExecuteCallback
  <2>1. invocationStack' \in Seq(Invocations)
    BY <1>6, PushProperties DEF ExecuteCallback
  <2> QED
    BY <1>6, <2>1 DEF ExecuteCallback, cVars
<1>7. ASSUME NEW i \in Invocations, WriteReturnValue(i) PROVE TypeOK'
  BY <1>7 DEF WriteReturnValue, cVars, imageVars
<1>8. ASSUME NEW i \in Invocations, ReturnAccepted(i) PROVE TypeOK'
  BY <1>8 DEF ReturnAccepted, cVars, imageVars
<1>9. ASSUME NEW i \in Invocations, ReturnRefused(i) PROVE TypeOK'
  BY <1>9 DEF ReturnRefused, cVars, imageVars
<1>10. ASSUME NEW i \in Invocations, WaitToRetry(i) PROVE TypeOK'
  BY <1>10 DEF WaitToRetry, cVars, imageVars
<1>11. ASSUME NEW i \in Invocations, PopInvocation(i) PROVE TypeOK'
  <2>1. invocationStack' \in Seq(Invocations)
    BY <1>11, HeadTailProperties DEF PopInvocation
  <2>2. pc' \in [Processes -> {"none", "body", "calling", "returning", "refused",
                            "retrying", "returned", "done"}]
    BY <1>11 DEF PopInvocation
  <2> QED
    BY <1>11, <2>1, <2>2 DEF PopInvocation, cVars
<1>12. CASE Rest \/ UNCHANGED vars
  BY <1>12 DEF Rest, vars, cVars, imageVars
<1> QED
  BY <1>1, <1>2, <1>3, <1>4, <1>5, <1>6, <1>7, <1>8, <1>9, <1>10, <1>11, <1>12 DEF Next

\* What the frames of the C stack are.
LEMMA FrameTypes ==
  ASSUME TypeOK
  PROVE  /\ Len(cstack) \in Nat
         /\ \A n \in 1..Len(cstack) : cstack[n] \in Frames
         /\ \A n \in 1..Len(cstack) : IsLoop(n) => cstack[n].for \in Invocations
         /\ \A n \in 1..Len(cstack) : ~IsLoop(n) => cstack[n].for \in Processes
         /\ pc \in [Processes -> Labels] /\ frame \in [Invocations -> FrameLabels]
<1>1. cstack \in Seq(Frames)
  BY DEF TypeOK, Frames
<1>2. \A n \in 1..Len(cstack) : cstack[n] \in Frames
  BY <1>1
<1>3. \A n \in 1..Len(cstack) : IsLoop(n) => cstack[n].for \in Invocations
  BY <1>2 DEF Frames, IsLoop
<1>4. \A n \in 1..Len(cstack) : ~IsLoop(n) => cstack[n].for \in Processes
  BY <1>2 DEF Frames, IsLoop
<1>5. pc \in [Processes -> Labels] /\ frame \in [Invocations -> FrameLabels]
  BY DEF TypeOK, Labels, FrameLabels
<1> QED
  BY <1>1, <1>2, <1>3, <1>4, <1>5

\* Two frames of the same kind for the same process are the same frame.
LEMMA FramesEqual ==
  ASSUME NEW f \in Frames, NEW g \in Frames, f.kind = g.kind, f.for = g.for
  PROVE  f = g
<1>1. CASE f \in [kind : {"loop"}, for : Invocations]
  BY <1>1 DEF Frames
<1>2. CASE f \in [kind : {"function"}, for : Processes]
  BY <1>2 DEF Frames
<1> QED
  BY <1>1, <1>2 DEF Frames

\* Functions and interpreters keep alternating.
LEMMA FrameStep == IInv /\ [Next]_vars => FrameInv'
<1> SUFFICES ASSUME IInv, [Next]_vars PROVE FrameInv'
  OBVIOUS
<1>1. ASSUME NEW p \in Processes, StartCallout(p) PROVE FrameInv'
  <2>1. /\ FrameInv
        /\ \A n \in 1..Len(cstack) : cstack[n] \in Frames
        /\ \A n \in 1..Len(cstack) : IsLoop(n) => cstack[n].for \in Invocations
        /\ \A n \in 1..Len(cstack) : ~IsLoop(n) => cstack[n].for \in Processes
        /\ pc \in [Processes -> Labels] /\ frame \in [Invocations -> FrameLabels]
    BY FrameTypes DEF IInv
  <2>2. Len(cstack) > 0 => IsLoop(1)
    BY <1>1, InImageFacts DEF StartCallout
  <2>3. /\ cstack'[1].kind = "function" /\ cstack'[1].for = p
        /\ Len(cstack) \in Nat
        /\ Len(cstack') = Len(cstack) + 1
        /\ \A k \in 2..Len(cstack') : cstack'[k] = cstack[k - 1]
        /\ \A k \in 2..Len(cstack') : cstack'[k] # cstack'[1]
    <3>1. /\ cstack'[1] = Function(p) /\ Len(cstack) \in Nat
          /\ Len(cstack') = Len(cstack) + 1
          /\ \A k \in 2..Len(cstack') : cstack'[k] = cstack[k - 1]
          /\ \A k \in 1..Len(cstack) : cstack[k] # Function(p)
      BY <1>1, StartFacts
    <3>2. Function(p).kind = "function" /\ Function(p).for = p
      BY DEF Function
    <3> QED
      BY <3>1, <3>2
  <2>4. pc' = [pc EXCEPT ![p] = "calling"] /\ frame' = frame
    BY <1>1 DEF StartCallout
  <2>10. \A m, n \in 1..Len(cstack) : cstack[m] = cstack[n] => m = n
    BY <2>1 DEF FrameInv
  <2>11. \A n \in 1..Len(cstack') :
           IF n = Len(cstack') THEN ~IsLoop(n)' ELSE IsLoop(n)' <=> ~IsLoop(n + 1)'
    <3> SUFFICES ASSUME NEW n \in 1..Len(cstack')
                 PROVE IF n = Len(cstack') THEN ~IsLoop(n)' ELSE IsLoop(n)' <=> ~IsLoop(n + 1)'
      OBVIOUS
    <3>1. CASE n = 1
      <4>1. Len(cstack') # 1 => cstack'[2] = cstack[1]
        BY <2>1, <2>2, <2>3
      <4> QED
        BY <2>1, <2>2, <2>3, <3>1, <4>1 DEF IsLoop
    <3>2. CASE n # 1
      <4>1. n - 1 \in 1..Len(cstack) /\ cstack'[n] = cstack[n - 1]
        BY <2>1, <2>2, <2>3, <3>2
      <4>2. n # Len(cstack') => cstack'[n + 1] = cstack[n] /\ n = (n - 1) + 1
        BY <2>1, <2>2, <2>3, <3>2
      <4>3. IF n - 1 = Len(cstack) THEN ~IsLoop(n - 1) ELSE IsLoop(n - 1) <=> ~IsLoop((n - 1) + 1)
        BY <2>1, <2>2, <2>3, <4>1 DEF FrameInv
      <4> QED
        BY <2>1, <2>2, <2>3, <4>1, <4>2, <4>3 DEF IsLoop
    <3> QED
      BY <3>1, <3>2
  <2>12. \A m, n \in 1..Len(cstack') : cstack'[m] = cstack'[n] => m = n
    BY <2>10, <2>3
  <2>13. \A n \in 1..Len(cstack') : ~IsLoop(n)' => pc'[cstack'[n].for] = "calling"
    BY <2>1, <2>3, <2>4 DEF IsLoop, FrameInv
  <2>14. \A n \in 1..Len(cstack') : IsLoop(n)' => frame'[cstack'[n].for] # "none"
    BY <2>1, <2>3, <2>4 DEF IsLoop, FrameInv
  <2> QED
    BY <2>11, <2>12, <2>13, <2>14 DEF FrameInv
<1>2. CASE EndCallout
  <2>1. /\ FrameInv
        /\ \A n \in 1..Len(cstack) : cstack[n] \in Frames
        /\ \A n \in 1..Len(cstack) : IsLoop(n) => cstack[n].for \in Invocations
        /\ \A n \in 1..Len(cstack) : ~IsLoop(n) => cstack[n].for \in Processes
        /\ pc \in [Processes -> Labels] /\ frame \in [Invocations -> FrameLabels]
    BY FrameTypes DEF IInv
  <2>2. /\ ~IsLoop(1) /\ 1 \in 1..Len(cstack)
        /\ Len(cstack) \in Nat \ {0}
        /\ Len(cstack') = Len(cstack) - 1
        /\ \A k \in 1..Len(cstack') : cstack'[k] = cstack[k + 1]
        /\ pc' = [pc EXCEPT ![cstack[1].for] = "body"]
    BY <1>2, InCFacts, EndFacts DEF EndCallout
  <2>3. frame' = frame
    BY <1>2 DEF EndCallout
  <2>4. \A k \in 2..Len(cstack) : ~IsLoop(k) => cstack[k].for # cstack[1].for
    <3> SUFFICES ASSUME NEW k \in 2..Len(cstack), ~IsLoop(k), cstack[k].for = cstack[1].for
                 PROVE FALSE
      OBVIOUS
    <3>1. k \in 1..Len(cstack) /\ cstack[k] \in Frames /\ cstack[1] \in Frames
      BY <2>1, <2>2
    <3>2. cstack[k].kind = cstack[1].kind
      BY <2>2, <3>1 DEF IsLoop, Frames
    <3>3. cstack[k] = cstack[1]
      BY <3>1, <3>2, FramesEqual
    <3> QED
      BY <2>1, <2>2, <3>1, <3>3 DEF FrameInv
  <2>10. \A m, n \in 1..Len(cstack) : cstack[m] = cstack[n] => m = n
    BY <2>1 DEF FrameInv
  <2>11. \A n \in 1..Len(cstack') :
           IF n = Len(cstack') THEN ~IsLoop(n)' ELSE IsLoop(n)' <=> ~IsLoop(n + 1)'
    <3> SUFFICES ASSUME NEW n \in 1..Len(cstack')
                 PROVE IF n = Len(cstack') THEN ~IsLoop(n)' ELSE IsLoop(n)' <=> ~IsLoop(n + 1)'
      OBVIOUS
    <3>1. n + 1 \in 1..Len(cstack) /\ cstack'[n] = cstack[n + 1]
      BY <2>1, <2>2
    <3>2. n # Len(cstack') => cstack'[n + 1] = cstack[(n + 1) + 1]
      BY <2>1, <2>2
    <3>3. IF n + 1 = Len(cstack) THEN ~IsLoop(n + 1) ELSE IsLoop(n + 1) <=> ~IsLoop((n + 1) + 1)
      BY <2>1, <2>2, <3>1 DEF FrameInv
    <3> QED
      BY <2>1, <2>2, <3>1, <3>2, <3>3 DEF IsLoop, FrameInv
  <2>12. \A m, n \in 1..Len(cstack') : cstack'[m] = cstack'[n] => m = n
    <3> SUFFICES ASSUME NEW m \in 1..Len(cstack'), NEW n \in 1..Len(cstack'),
                        cstack'[m] = cstack'[n]
                 PROVE m = n
      OBVIOUS
    <3>1. /\ m + 1 \in 1..Len(cstack) /\ cstack'[m] = cstack[m + 1]
          /\ n + 1 \in 1..Len(cstack) /\ cstack'[n] = cstack[n + 1]
      BY <2>2
    <3>2. m + 1 = n + 1
      BY <2>10, <3>1
    <3> QED
      BY <3>2
  <2>13. \A n \in 1..Len(cstack') : ~IsLoop(n)' => pc'[cstack'[n].for] = "calling"
    BY <2>1, <2>2, <2>4 DEF IsLoop, FrameInv
  <2>14. \A n \in 1..Len(cstack') : IsLoop(n)' => frame'[cstack'[n].for] # "none"
    BY <2>1, <2>2, <2>3 DEF IsLoop, FrameInv
  <2> QED
    BY <2>11, <2>12, <2>13, <2>14 DEF FrameInv
<1>3. CASE EnterCallback
  <2>1. /\ FrameInv
        /\ \A n \in 1..Len(cstack) : cstack[n] \in Frames
        /\ \A n \in 1..Len(cstack) : IsLoop(n) => cstack[n].for \in Invocations
        /\ \A n \in 1..Len(cstack) : ~IsLoop(n) => cstack[n].for \in Processes
        /\ pc \in [Processes -> Labels] /\ frame \in [Invocations -> FrameLabels]
    BY FrameTypes DEF IInv
  <2>2. PICK i \in Invocations :
           /\ frame' = [frame EXCEPT ![i] = "active"]
           /\ Len(cstack') = Len(cstack) + 1
           /\ cstack'[1] = Interpreter(i)
           /\ \A k \in 2..Len(cstack') : cstack'[k] = cstack[k - 1]
           /\ \A k \in 1..Len(cstack) : cstack[k] # Interpreter(i)
    BY <1>3, EnterFacts
  <2>3. /\ ~IsLoop(1) /\ Len(cstack) \in Nat \ {0}
        /\ \A k \in 2..Len(cstack') : cstack'[k] # cstack'[1]
    BY <1>3, <2>2, InCFacts DEF EnterCallback
  <2>4. cstack'[1].kind = "loop" /\ cstack'[1].for = i /\ pc' = pc
    BY <1>3, <2>2 DEF Interpreter, EnterCallback
  <2>5. \A k \in 1..Len(cstack) : IsLoop(k) => frame'[cstack[k].for] # "none"
    BY <2>1, <2>2 DEF FrameInv
  <2>10. \A m, n \in 1..Len(cstack) : cstack[m] = cstack[n] => m = n
    BY <2>1 DEF FrameInv
  <2>11. \A n \in 1..Len(cstack') :
           IF n = Len(cstack') THEN ~IsLoop(n)' ELSE IsLoop(n)' <=> ~IsLoop(n + 1)'
    <3> SUFFICES ASSUME NEW n \in 1..Len(cstack')
                 PROVE IF n = Len(cstack') THEN ~IsLoop(n)' ELSE IsLoop(n)' <=> ~IsLoop(n + 1)'
      OBVIOUS
    <3>1. CASE n = 1
      <4>1. Len(cstack') # 1 => cstack'[2] = cstack[1]
        BY <2>1, <2>2, <2>3, <2>4
      <4> QED
        BY <2>1, <2>2, <2>3, <2>4, <3>1, <4>1 DEF IsLoop
    <3>2. CASE n # 1
      <4>1. n - 1 \in 1..Len(cstack) /\ cstack'[n] = cstack[n - 1]
        BY <2>1, <2>2, <2>3, <2>4, <3>2
      <4>2. n # Len(cstack') => cstack'[n + 1] = cstack[n] /\ n = (n - 1) + 1
        BY <2>1, <2>2, <2>3, <2>4, <3>2
      <4>3. IF n - 1 = Len(cstack) THEN ~IsLoop(n - 1) ELSE IsLoop(n - 1) <=> ~IsLoop((n - 1) + 1)
        BY <2>1, <2>2, <2>3, <2>4, <4>1 DEF FrameInv
      <4> QED
        BY <2>1, <2>2, <2>3, <2>4, <4>1, <4>2, <4>3 DEF IsLoop
    <3> QED
      BY <3>1, <3>2
  <2>12. \A m, n \in 1..Len(cstack') : cstack'[m] = cstack'[n] => m = n
    BY <2>10, <2>2, <2>3
  <2>13. \A n \in 1..Len(cstack') : ~IsLoop(n)' => pc'[cstack'[n].for] = "calling"
    BY <2>1, <2>2, <2>3, <2>4 DEF IsLoop, FrameInv
  <2>14. \A n \in 1..Len(cstack') : IsLoop(n)' => frame'[cstack'[n].for] # "none"
    BY <2>1, <2>2, <2>3, <2>4, <2>5 DEF IsLoop, FrameInv
  <2> QED
    BY <2>11, <2>12, <2>13, <2>14 DEF FrameInv
<1>4. CASE Jump
  <2>1. /\ FrameInv
        /\ \A n \in 1..Len(cstack) : cstack[n] \in Frames
        /\ \A n \in 1..Len(cstack) : IsLoop(n) => cstack[n].for \in Invocations
        /\ \A n \in 1..Len(cstack) : ~IsLoop(n) => cstack[n].for \in Processes
        /\ pc \in [Processes -> Labels] /\ frame \in [Invocations -> FrameLabels]
    BY FrameTypes DEF IInv
  <2>2. /\ Len(cstack) \in Nat \ {0}
        /\ Len(cstack') = Len(cstack) - 1
        /\ \A k \in 1..Len(cstack') : cstack'[k] = cstack[k + 1]
        /\ jumping \in Invocations
    BY <1>4, JumpPopsOne
  <2>3. pc' = pc /\ frame' = [frame EXCEPT ![jumping] = "resumed"]
    BY <1>4 DEF Jump
  <2>10. \A m, n \in 1..Len(cstack) : cstack[m] = cstack[n] => m = n
    BY <2>1 DEF FrameInv
  <2>11. \A n \in 1..Len(cstack') :
           IF n = Len(cstack') THEN ~IsLoop(n)' ELSE IsLoop(n)' <=> ~IsLoop(n + 1)'
    <3> SUFFICES ASSUME NEW n \in 1..Len(cstack')
                 PROVE IF n = Len(cstack') THEN ~IsLoop(n)' ELSE IsLoop(n)' <=> ~IsLoop(n + 1)'
      OBVIOUS
    <3>1. n + 1 \in 1..Len(cstack) /\ cstack'[n] = cstack[n + 1]
      BY <2>1, <2>2
    <3>2. n # Len(cstack') => cstack'[n + 1] = cstack[(n + 1) + 1]
      BY <2>1, <2>2
    <3>3. IF n + 1 = Len(cstack) THEN ~IsLoop(n + 1) ELSE IsLoop(n + 1) <=> ~IsLoop((n + 1) + 1)
      BY <2>1, <2>2, <3>1 DEF FrameInv
    <3> QED
      BY <2>1, <2>2, <3>1, <3>2, <3>3 DEF IsLoop, FrameInv
  <2>12. \A m, n \in 1..Len(cstack') : cstack'[m] = cstack'[n] => m = n
    <3> SUFFICES ASSUME NEW m \in 1..Len(cstack'), NEW n \in 1..Len(cstack'),
                        cstack'[m] = cstack'[n]
                 PROVE m = n
      OBVIOUS
    <3>1. /\ m + 1 \in 1..Len(cstack) /\ cstack'[m] = cstack[m + 1]
          /\ n + 1 \in 1..Len(cstack) /\ cstack'[n] = cstack[n + 1]
      BY <2>2
    <3>2. m + 1 = n + 1
      BY <2>10, <3>1
    <3> QED
      BY <3>2
  <2>13. \A n \in 1..Len(cstack') : ~IsLoop(n)' => pc'[cstack'[n].for] = "calling"
    BY <2>1, <2>2, <2>3 DEF IsLoop, FrameInv
  <2>14. \A n \in 1..Len(cstack') : IsLoop(n)' => frame'[cstack'[n].for] # "none"
    BY <2>1, <2>2, <2>3 DEF IsLoop, FrameInv
  <2> QED
    BY <2>11, <2>12, <2>13, <2>14 DEF FrameInv
<1>5. CASE FetchCallback
  <2>1. /\ FrameInv
        /\ \A n \in 1..Len(cstack) : cstack[n] \in Frames
        /\ \A n \in 1..Len(cstack) : IsLoop(n) => cstack[n].for \in Invocations
        /\ \A n \in 1..Len(cstack) : ~IsLoop(n) => cstack[n].for \in Processes
        /\ pc \in [Processes -> Labels] /\ frame \in [Invocations -> FrameLabels]
    BY FrameTypes DEF IInv
  <2>2. cstack' = cstack /\ frame' = frame
    BY <1>5 DEF FetchCallback, cVars
  <2>3. \A q \in Processes : pc[q] = "calling" => pc'[q] = "calling"
    BY <1>5, <2>1 DEF FetchCallback, Processes, IInv, QueueInv
  <2> QED
    BY <2>1, <2>2, <2>3 DEF FrameInv, IsLoop
<1>6. CASE ExecuteCallback
  <2>1. /\ FrameInv
        /\ \A n \in 1..Len(cstack) : cstack[n] \in Frames
        /\ \A n \in 1..Len(cstack) : IsLoop(n) => cstack[n].for \in Invocations
        /\ \A n \in 1..Len(cstack) : ~IsLoop(n) => cstack[n].for \in Processes
        /\ pc \in [Processes -> Labels] /\ frame \in [Invocations -> FrameLabels]
    BY FrameTypes DEF IInv
  <2>2. cstack' = cstack /\ frame' = frame
    BY <1>6 DEF ExecuteCallback, cVars
  <2>3. \A q \in Processes : pc[q] = "calling" => pc'[q] = "calling"
    BY <1>6, <2>1 DEF ExecuteCallback, Processes, IInv, QueueInv
  <2> QED
    BY <2>1, <2>2, <2>3 DEF FrameInv, IsLoop
<1>7. ASSUME NEW i \in Invocations, WriteReturnValue(i) PROVE FrameInv'
  <2>1. /\ FrameInv
        /\ \A n \in 1..Len(cstack) : cstack[n] \in Frames
        /\ \A n \in 1..Len(cstack) : IsLoop(n) => cstack[n].for \in Invocations
        /\ \A n \in 1..Len(cstack) : ~IsLoop(n) => cstack[n].for \in Processes
        /\ pc \in [Processes -> Labels] /\ frame \in [Invocations -> FrameLabels]
    BY FrameTypes DEF IInv
  <2>2. cstack' = cstack /\ frame' = frame
    BY <1>7 DEF WriteReturnValue, cVars
  <2>3. \A q \in Processes : pc[q] = "calling" => pc'[q] = "calling"
    BY <1>7, <2>1 DEF WriteReturnValue, Processes, IInv, QueueInv
  <2> QED
    BY <2>1, <2>2, <2>3 DEF FrameInv, IsLoop
<1>8. ASSUME NEW i \in Invocations, ReturnAccepted(i) PROVE FrameInv'
  <2>1. /\ FrameInv
        /\ \A n \in 1..Len(cstack) : cstack[n] \in Frames
        /\ \A n \in 1..Len(cstack) : IsLoop(n) => cstack[n].for \in Invocations
        /\ \A n \in 1..Len(cstack) : ~IsLoop(n) => cstack[n].for \in Processes
        /\ pc \in [Processes -> Labels] /\ frame \in [Invocations -> FrameLabels]
    BY FrameTypes DEF IInv
  <2>2. cstack' = cstack /\ frame' = frame
    BY <1>8 DEF ReturnAccepted, cVars
  <2>3. \A q \in Processes : pc[q] = "calling" => pc'[q] = "calling"
    BY <1>8, <2>1 DEF ReturnAccepted, Processes, IInv, QueueInv
  <2> QED
    BY <2>1, <2>2, <2>3 DEF FrameInv, IsLoop
<1>9. ASSUME NEW i \in Invocations, ReturnRefused(i) PROVE FrameInv'
  <2>1. /\ FrameInv
        /\ \A n \in 1..Len(cstack) : cstack[n] \in Frames
        /\ \A n \in 1..Len(cstack) : IsLoop(n) => cstack[n].for \in Invocations
        /\ \A n \in 1..Len(cstack) : ~IsLoop(n) => cstack[n].for \in Processes
        /\ pc \in [Processes -> Labels] /\ frame \in [Invocations -> FrameLabels]
    BY FrameTypes DEF IInv
  <2>2. cstack' = cstack /\ frame' = frame
    BY <1>9 DEF ReturnRefused, cVars
  <2>3. \A q \in Processes : pc[q] = "calling" => pc'[q] = "calling"
    BY <1>9, <2>1 DEF ReturnRefused, Processes, IInv, QueueInv
  <2> QED
    BY <2>1, <2>2, <2>3 DEF FrameInv, IsLoop
<1>10. ASSUME NEW i \in Invocations, WaitToRetry(i) PROVE FrameInv'
  <2>1. /\ FrameInv
        /\ \A n \in 1..Len(cstack) : cstack[n] \in Frames
        /\ \A n \in 1..Len(cstack) : IsLoop(n) => cstack[n].for \in Invocations
        /\ \A n \in 1..Len(cstack) : ~IsLoop(n) => cstack[n].for \in Processes
        /\ pc \in [Processes -> Labels] /\ frame \in [Invocations -> FrameLabels]
    BY FrameTypes DEF IInv
  <2>2. cstack' = cstack /\ frame' = frame
    BY <1>10 DEF WaitToRetry, cVars
  <2>3. \A q \in Processes : pc[q] = "calling" => pc'[q] = "calling"
    BY <1>10, <2>1 DEF WaitToRetry, Processes, IInv, QueueInv
  <2> QED
    BY <2>1, <2>2, <2>3 DEF FrameInv, IsLoop
<1>11. ASSUME NEW i \in Invocations, PopInvocation(i) PROVE FrameInv'
  <2>1. /\ FrameInv
        /\ \A n \in 1..Len(cstack) : cstack[n] \in Frames
        /\ \A n \in 1..Len(cstack) : IsLoop(n) => cstack[n].for \in Invocations
        /\ \A n \in 1..Len(cstack) : ~IsLoop(n) => cstack[n].for \in Processes
        /\ pc \in [Processes -> Labels] /\ frame \in [Invocations -> FrameLabels]
    BY FrameTypes DEF IInv
  <2>2. cstack' = cstack /\ frame' = frame
    BY <1>11 DEF PopInvocation, cVars
  <2>3. \A q \in Processes : pc[q] = "calling" => pc'[q] = "calling"
    BY <1>11, <2>1 DEF PopInvocation, Processes, IInv, QueueInv
  <2> QED
    BY <2>1, <2>2, <2>3 DEF FrameInv, IsLoop
<1>12. CASE Rest \/ UNCHANGED vars
  BY <1>12 DEF Rest, vars, cVars, IInv, FrameInv, IsLoop
<1> QED
  BY <1>1, <1>2, <1>3, <1>4, <1>5, <1>6, <1>7, <1>8, <1>9, <1>10, <1>11, <1>12 DEF Next

\* Handlers are processes, and NULL is none.
LEMMA InvocationsProcesses ==
  Invocations \subseteq Processes /\ NULL \notin Invocations /\ NULL \notin Processes
BY SameThreadAssumption DEF Processes

\* The process that returns stays inside stackProtect until it popped.
LEMMA ProtectStep == IInv /\ [Next]_vars => ProtectInv'
<1> SUFFICES ASSUME IInv, [Next]_vars PROVE ProtectInv'
  OBVIOUS
<1>1. ASSUME NEW p \in Processes, StartCallout(p) PROVE ProtectInv'
  <2>1. \A q \in Invocations : pc'[q] = "returned" <=> pc[q] = "returned"
    BY <1>1, InvocationsProcesses DEF StartCallout, IInv, TypeOK
  <2>2. stackProtect' = stackProtect
    BY <1>1 DEF StartCallout, imageVars
  <2> QED
    BY <2>1, <2>2 DEF IInv, ProtectInv
<1>2. CASE EndCallout
  <2>1. \A q \in Invocations : pc'[q] = "returned" <=> pc[q] = "returned"
    BY <1>2, InCFacts, EndFacts, InvocationsProcesses DEF EndCallout, IInv, TypeOK
  <2>2. stackProtect' = stackProtect
    BY <1>2 DEF EndCallout, imageVars
  <2> QED
    BY <2>1, <2>2 DEF IInv, ProtectInv
<1>3. CASE EnterCallback
  <2>1. \A q \in Invocations : pc'[q] = "returned" <=> pc[q] = "returned"
    BY <1>3, InvocationsProcesses DEF EnterCallback, IInv, TypeOK
  <2>2. stackProtect' = stackProtect
    BY <1>3 DEF EnterCallback, imageVars
  <2> QED
    BY <2>1, <2>2 DEF IInv, ProtectInv
<1>4. CASE Jump
  <2>1. \A q \in Invocations : pc'[q] = "returned" <=> pc[q] = "returned"
    BY <1>4, InvocationsProcesses DEF Jump, IInv, TypeOK
  <2>2. stackProtect' = stackProtect
    BY <1>4 DEF Jump, imageVars
  <2> QED
    BY <2>1, <2>2 DEF IInv, ProtectInv
<1>5. CASE FetchCallback
  <2>1. \A q \in Invocations : pc'[q] = "returned" <=> pc[q] = "returned"
    BY <1>5, InvocationsProcesses DEF FetchCallback, IInv, TypeOK
  <2>2. stackProtect' = stackProtect
    BY <1>5 DEF FetchCallback, imageVars
  <2> QED
    BY <2>1, <2>2 DEF IInv, ProtectInv
<1>6. CASE ExecuteCallback
  <2>1. \A q \in Invocations : pc'[q] = "returned" <=> pc[q] = "returned"
    BY <1>6, InvocationsProcesses DEF ExecuteCallback, IInv, TypeOK, QueueInv
  <2>2. stackProtect' = stackProtect
    BY <1>6 DEF ExecuteCallback
  <2> QED
    BY <2>1, <2>2 DEF IInv, ProtectInv
<1>7. ASSUME NEW i \in Invocations, WriteReturnValue(i) PROVE ProtectInv'
  <2>1. \A q \in Invocations : pc'[q] = "returned" <=> pc[q] = "returned"
    BY <1>7, InvocationsProcesses DEF WriteReturnValue, IInv, TypeOK
  <2>2. stackProtect' = stackProtect
    BY <1>7 DEF WriteReturnValue, imageVars
  <2> QED
    BY <2>1, <2>2 DEF IInv, ProtectInv
<1>8. ASSUME NEW i \in Invocations, ReturnAccepted(i) PROVE ProtectInv'
  BY <1>8, InvocationsProcesses, SameThreadAssumption
     DEF ReturnAccepted, IInv, TypeOK, ProtectInv
<1>9. ASSUME NEW i \in Invocations, ReturnRefused(i) PROVE ProtectInv'
  <2>1. \A q \in Invocations : pc'[q] = "returned" <=> pc[q] = "returned"
    BY <1>9, InvocationsProcesses DEF ReturnRefused, IInv, TypeOK
  <2>2. stackProtect' = stackProtect
    BY <1>9 DEF ReturnRefused, imageVars
  <2> QED
    BY <2>1, <2>2 DEF IInv, ProtectInv
<1>10. ASSUME NEW i \in Invocations, WaitToRetry(i) PROVE ProtectInv'
  <2>1. \A q \in Invocations : pc'[q] = "returned" <=> pc[q] = "returned"
    BY <1>10, InvocationsProcesses DEF WaitToRetry, IInv, TypeOK
  <2>2. stackProtect' = stackProtect
    BY <1>10 DEF WaitToRetry, imageVars
  <2> QED
    BY <2>1, <2>2 DEF IInv, ProtectInv
<1>11. ASSUME NEW i \in Invocations, PopInvocation(i) PROVE ProtectInv'
  <2>1. \A q \in Invocations : pc[q] = "returned" <=> stackProtect = q
    BY DEF IInv, ProtectInv
  <2>2. stackProtect = i /\ stackProtect' = NULL
    BY <1>11, <2>1 DEF PopInvocation
  <2>3. \A q \in Invocations : pc'[q] # "returned"
    BY <1>11, <2>1, <2>2, InvocationsProcesses DEF PopInvocation
  <2> QED
    BY <2>2, <2>3, InvocationsProcesses DEF ProtectInv
<1>12. CASE Rest \/ UNCHANGED vars
  BY <1>12 DEF Rest, vars, cVars, imageVars, IInv, ProtectInv
<1> QED
  BY <1>1, <1>2, <1>3, <1>4, <1>5, <1>6, <1>7, <1>8, <1>9, <1>10, <1>11, <1>12 DEF Next

\* The return that is accepted is that of the innermost frame.
LEMMA JumpStep == IInv /\ [Next]_vars => JumpInv'
<1> SUFFICES ASSUME IInv, [Next]_vars PROVE JumpInv'
  OBVIOUS
<1>1. ASSUME NEW p \in Processes, StartCallout(p) PROVE JumpInv'
  BY <1>1 DEF StartCallout, InC, InImage, JumpInv
<1>2. CASE EndCallout
  BY <1>2 DEF EndCallout, InC, InImage, JumpInv
<1>3. CASE EnterCallback
  BY <1>3 DEF EnterCallback, InC, InImage, JumpInv
<1>4. CASE Jump
  BY <1>4 DEF Jump, JumpInv
<1>5. CASE FetchCallback
  BY <1>5 DEF FetchCallback, InC, InImage, JumpInv
<1>6. CASE ExecuteCallback
  BY <1>6 DEF ExecuteCallback, InC, InImage, JumpInv
<1>7. ASSUME NEW i \in Invocations, WriteReturnValue(i) PROVE JumpInv'
  BY <1>7 DEF WriteReturnValue, InC, InImage, JumpInv
<1>8. ASSUME NEW i \in Invocations, ReturnAccepted(i) PROVE JumpInv'
  <2>1. /\ jumping' = i /\ cstack' = cstack /\ pc' = [pc EXCEPT ![i] = "returned"]
        /\ callbackStack = i /\ InImage
    BY <1>8 DEF ReturnAccepted, cVars
  <2>2. /\ Len(cstack) \in Nat /\ jumping = NULL /\ i # NULL
        /\ Len(cstack) > 0 => IsLoop(1)
        /\ Len(cstack) = 0 <=> cstack = <<>>
    BY <2>1, InImageFacts, InvocationsProcesses
  <2>3. Len(cstack) > 0
    BY <2>1, <2>2 DEF IInv, ListInv, InvocationAt
  <2>4. cstack[1].for = i /\ cstack[1].kind = "loop" /\ cstack[1] \in Frames
    BY <2>1, <2>2, <2>3, FrameTypes DEF IInv, ListInv, InvocationAt, IsLoop
  <2>5. cstack[1] = Interpreter(i)
    BY <2>4, FramesEqual DEF Interpreter, Frames
  <2> QED
    BY <2>1, <2>2, <2>3, <2>5, InvocationsProcesses DEF JumpInv, IInv, TypeOK, Interpreter
<1>9. ASSUME NEW i \in Invocations, ReturnRefused(i) PROVE JumpInv'
  BY <1>9 DEF ReturnRefused, InC, InImage, JumpInv
<1>10. ASSUME NEW i \in Invocations, WaitToRetry(i) PROVE JumpInv'
  BY <1>10 DEF WaitToRetry, InC, InImage, JumpInv
<1>11. ASSUME NEW i \in Invocations, PopInvocation(i) PROVE JumpInv'
  BY <1>11 DEF PopInvocation, InC, InImage, JumpInv
<1>12. CASE Rest \/ UNCHANGED vars
  BY <1>12 DEF Rest, vars, cVars, imageVars, IInv, JumpInv, Interpreter
<1> QED
  BY <1>1, <1>2, <1>3, <1>4, <1>5, <1>6, <1>7, <1>8, <1>9, <1>10, <1>11, <1>12 DEF Next

\* The invocation on top of the image's stack is the one that returns.
LEMMA PopStep == IInv /\ [Next]_vars => PopsItsOwn'
<1> SUFFICES ASSUME IInv, [Next]_vars PROVE PopsItsOwn'
  OBVIOUS
<1>1. ASSUME NEW p \in Processes, StartCallout(p) PROVE PopsItsOwn'
  <2>1. \A q \in Invocations : pc'[q] = "returned" => pc[q] = "returned"
    BY <1>1, InvocationsProcesses, InCFacts, EndFacts DEF StartCallout, IInv, TypeOK, QueueInv
  <2>2. invocationStack' = invocationStack
    BY <1>1 DEF StartCallout, imageVars
  <2> QED
    BY <2>1, <2>2 DEF IInv, PopsItsOwn
<1>2. CASE EndCallout
  <2>1. \A q \in Invocations : pc'[q] = "returned" => pc[q] = "returned"
    BY <1>2, InvocationsProcesses, InCFacts, EndFacts DEF EndCallout, IInv, TypeOK, QueueInv
  <2>2. invocationStack' = invocationStack
    BY <1>2 DEF EndCallout, imageVars
  <2> QED
    BY <2>1, <2>2 DEF IInv, PopsItsOwn
<1>3. CASE EnterCallback
  <2>1. \A q \in Invocations : pc'[q] = "returned" => pc[q] = "returned"
    BY <1>3, InvocationsProcesses, InCFacts, EndFacts DEF EnterCallback, IInv, TypeOK, QueueInv
  <2>2. invocationStack' = invocationStack
    BY <1>3 DEF EnterCallback, imageVars
  <2> QED
    BY <2>1, <2>2 DEF IInv, PopsItsOwn
<1>4. CASE Jump
  <2>1. \A q \in Invocations : pc'[q] = "returned" => pc[q] = "returned"
    BY <1>4, InvocationsProcesses, InCFacts, EndFacts DEF Jump, IInv, TypeOK, QueueInv
  <2>2. invocationStack' = invocationStack
    BY <1>4 DEF Jump, imageVars
  <2> QED
    BY <2>1, <2>2 DEF IInv, PopsItsOwn
<1>5. CASE FetchCallback
  <2>1. \A q \in Invocations : pc'[q] = "returned" => pc[q] = "returned"
    BY <1>5, InvocationsProcesses, InCFacts, EndFacts DEF FetchCallback, IInv, TypeOK, QueueInv
  <2>2. invocationStack' = invocationStack
    BY <1>5 DEF FetchCallback, imageVars
  <2> QED
    BY <2>1, <2>2 DEF IInv, PopsItsOwn
<1>6. CASE ExecuteCallback
  <2>1. \A q \in Invocations : pc[q] # "returned"
    BY <1>6, InvocationsProcesses DEF ExecuteCallback, IInv, ProtectInv
  <2>2. \A q \in Invocations : pc'[q] # "returned"
    BY <1>6, <2>1, InvocationsProcesses DEF ExecuteCallback, IInv, TypeOK
  <2> QED
    BY <2>2 DEF PopsItsOwn
<1>7. ASSUME NEW i \in Invocations, WriteReturnValue(i) PROVE PopsItsOwn'
  <2>1. \A q \in Invocations : pc'[q] = "returned" => pc[q] = "returned"
    BY <1>7, InvocationsProcesses, InCFacts, EndFacts DEF WriteReturnValue, IInv, TypeOK, QueueInv
  <2>2. invocationStack' = invocationStack
    BY <1>7 DEF WriteReturnValue, imageVars
  <2> QED
    BY <2>1, <2>2 DEF IInv, PopsItsOwn
<1>8. ASSUME NEW i \in Invocations, ReturnAccepted(i) PROVE PopsItsOwn'
  <2>1. stackProtect = NULL /\ invocationStack' = invocationStack
        /\ invocationStack # <<>> /\ Head(invocationStack) = i
    BY <1>8 DEF ReturnAccepted
  <2>2. \A q \in Invocations : pc'[q] = "returned" => q = i
    BY <1>8, <2>1, InvocationsProcesses DEF ReturnAccepted, IInv, TypeOK, ProtectInv
  <2> QED
    BY <2>1, <2>2 DEF PopsItsOwn
<1>9. ASSUME NEW i \in Invocations, ReturnRefused(i) PROVE PopsItsOwn'
  <2>1. \A q \in Invocations : pc'[q] = "returned" => pc[q] = "returned"
    BY <1>9, InvocationsProcesses, InCFacts, EndFacts DEF ReturnRefused, IInv, TypeOK, QueueInv
  <2>2. invocationStack' = invocationStack
    BY <1>9 DEF ReturnRefused, imageVars
  <2> QED
    BY <2>1, <2>2 DEF IInv, PopsItsOwn
<1>10. ASSUME NEW i \in Invocations, WaitToRetry(i) PROVE PopsItsOwn'
  <2>1. \A q \in Invocations : pc'[q] = "returned" => pc[q] = "returned"
    BY <1>10, InvocationsProcesses, InCFacts, EndFacts DEF WaitToRetry, IInv, TypeOK, QueueInv
  <2>2. invocationStack' = invocationStack
    BY <1>10 DEF WaitToRetry, imageVars
  <2> QED
    BY <2>1, <2>2 DEF IInv, PopsItsOwn
<1>11. ASSUME NEW i \in Invocations, PopInvocation(i) PROVE PopsItsOwn'
  <2>1. \A q \in Invocations : pc[q] = "returned" => q = i
    BY <1>11 DEF PopInvocation, IInv, ProtectInv
  <2>2. \A q \in Invocations : pc'[q] # "returned"
    BY <1>11, <2>1, InvocationsProcesses DEF PopInvocation
  <2> QED
    BY <2>2 DEF PopsItsOwn
<1>12. CASE Rest \/ UNCHANGED vars
  BY <1>12 DEF Rest, vars, cVars, imageVars, IInv, PopsItsOwn
<1> QED
  BY <1>1, <1>2, <1>3, <1>4, <1>5, <1>6, <1>7, <1>8, <1>9, <1>10, <1>11, <1>12 DEF Next

\* What is in the queue of invocations.
LEMMA QueueTypes ==
  ASSUME IInv
  PROVE  /\ \A n \in 1..Len(callbackQueue) : callbackQueue[n] \in Invocations
         /\ fetched # NULL => fetched \in Invocations
BY DEF IInv, TypeOK

\* An invocation is queued once, and gets its process when it is executed.
LEMMA QueueStep == IInv /\ [Next]_vars => QueueInv'
<1> SUFFICES ASSUME IInv, [Next]_vars PROVE QueueInv'
  OBVIOUS
<1>1. ASSUME NEW p \in Processes, StartCallout(p) PROVE QueueInv'
  <2>1. callbackQueue' = callbackQueue /\ fetched' = fetched
    BY <1>1 DEF StartCallout, imageVars
  <2>2. \A q \in Invocations : pc[q] = "none" => pc'[q] = "none"
    BY <1>1, InvocationsProcesses, InCFacts, EndFacts DEF StartCallout, IInv, TypeOK
  <2>3. \A q \in Invocations : frame'[q] = "none" <=> frame[q] = "none"
    BY <1>1 DEF StartCallout, cVars
  <2> QED
    BY <2>1, <2>2, <2>3, QueueTypes DEF IInv, QueueInv
<1>2. CASE EndCallout
  <2>1. callbackQueue' = callbackQueue /\ fetched' = fetched
    BY <1>2 DEF EndCallout, imageVars
  <2>2. \A q \in Invocations : pc[q] = "none" => pc'[q] = "none"
    BY <1>2, InvocationsProcesses, InCFacts, EndFacts DEF EndCallout, IInv, TypeOK
  <2>3. \A q \in Invocations : frame'[q] = "none" <=> frame[q] = "none"
    BY <1>2 DEF EndCallout, cVars
  <2> QED
    BY <2>1, <2>2, <2>3, QueueTypes DEF IInv, QueueInv
<1>3. CASE EnterCallback
  <2>1. PICK i \in Invocations :
           /\ frame[i] = "none" /\ pc[i] = "none"
           /\ frame' = [frame EXCEPT ![i] = "active"]
           /\ callbackQueue' = Append(callbackQueue, i)
    BY <1>3, EnterFacts
  <2>2. pc' = pc /\ fetched' = fetched
    BY <1>3 DEF EnterCallback, imageVars
  <2>3. /\ Len(callbackQueue) \in Nat
        /\ Len(callbackQueue') = Len(callbackQueue) + 1
        /\ \A k \in 1..Len(callbackQueue) : callbackQueue'[k] = callbackQueue[k]
        /\ callbackQueue'[Len(callbackQueue) + 1] = i
    BY <2>1, AppendProperties DEF IInv, TypeOK
  <2>4. \A q \in Invocations : frame'[q] = IF q = i THEN "active" ELSE frame[q]
    BY <2>1 DEF IInv, TypeOK
  <2>5. /\ \A k \in 1..Len(callbackQueue) : callbackQueue[k] # i
        /\ fetched # i
    BY <2>1, InvocationsProcesses DEF IInv, QueueInv
  <2>6. \A k \in 1..Len(callbackQueue') :
          pc'[callbackQueue'[k]] = "none" /\ frame'[callbackQueue'[k]] # "none"
    BY <2>1, <2>2, <2>3, <2>4, QueueTypes DEF IInv, QueueInv
  <2>7. \A k, l \in 1..Len(callbackQueue') : callbackQueue'[k] = callbackQueue'[l] => k = l
    BY <2>3, <2>5 DEF IInv, QueueInv
  <2>8. fetched' # NULL =>
          /\ pc'[fetched'] = "none" /\ frame'[fetched'] # "none"
          /\ \A k \in 1..Len(callbackQueue') : callbackQueue'[k] # fetched'
    BY <2>2, <2>3, <2>4, <2>5, QueueTypes DEF IInv, QueueInv
  <2>9. \A q \in Invocations : frame'[q] = "none" => pc'[q] = "none"
    BY <2>2, <2>4 DEF IInv, QueueInv
  <2> QED
    BY <2>6, <2>7, <2>8, <2>9 DEF QueueInv
<1>4. CASE Jump
  <2>1. callbackQueue' = callbackQueue /\ fetched' = fetched /\ pc' = pc
    BY <1>4 DEF Jump, imageVars
  <2>2. pc[jumping] = "returned" /\ jumping \in Invocations
    BY <1>4, JumpPopsOne DEF Jump, IInv, JumpInv
  <2>3. \A q \in Invocations : frame'[q] = "none" <=> frame[q] = "none"
    BY <1>4, <2>2 DEF Jump, IInv, TypeOK, QueueInv
  <2> QED
    BY <2>1, <2>3, QueueTypes DEF IInv, QueueInv
<1>5. CASE FetchCallback
  <2>1. /\ pc' = pc /\ frame' = frame /\ callbackQueue # <<>>
        /\ fetched' = Head(callbackQueue) /\ callbackQueue' = Tail(callbackQueue)
    BY <1>5 DEF FetchCallback, cVars
  <2>2. /\ Len(callbackQueue) \in Nat \ {0}
        /\ Head(callbackQueue) = callbackQueue[1]
        /\ Len(callbackQueue') = Len(callbackQueue) - 1
        /\ \A k \in 1..Len(callbackQueue') : callbackQueue'[k] = callbackQueue[k + 1]
    BY <2>1, HeadTailProperties DEF IInv, TypeOK
  <2>3. \A k \in 1..Len(callbackQueue') : callbackQueue'[k] # fetched'
    <3> SUFFICES ASSUME NEW k \in 1..Len(callbackQueue'), callbackQueue'[k] = fetched'
                 PROVE FALSE
      OBVIOUS
    <3>1. k + 1 \in 1..Len(callbackQueue) /\ 1 \in 1..Len(callbackQueue)
          /\ callbackQueue[k + 1] = callbackQueue[1]
      BY <2>1, <2>2
    <3>2. k + 1 = 1
      BY <3>1 DEF IInv, QueueInv
    <3> QED
      BY <3>2
  <2>4. \A k, l \in 1..Len(callbackQueue') : callbackQueue'[k] = callbackQueue'[l] => k = l
    <3> SUFFICES ASSUME NEW k \in 1..Len(callbackQueue'), NEW l \in 1..Len(callbackQueue'),
                        callbackQueue'[k] = callbackQueue'[l]
                 PROVE k = l
      OBVIOUS
    <3>1. k + 1 \in 1..Len(callbackQueue) /\ l + 1 \in 1..Len(callbackQueue)
          /\ callbackQueue[k + 1] = callbackQueue[l + 1]
      BY <2>2
    <3>2. k + 1 = l + 1
      BY <3>1 DEF IInv, QueueInv
    <3> QED
      BY <3>2
  <2>5. pc[fetched'] = "none" /\ frame[fetched'] # "none"
    BY <2>1, <2>2 DEF IInv, QueueInv
  <2>6. \A k \in 1..Len(callbackQueue') :
          pc[callbackQueue'[k]] = "none" /\ frame[callbackQueue'[k]] # "none"
    BY <2>2 DEF IInv, QueueInv
  <2> QED
    BY <2>1, <2>3, <2>4, <2>5, <2>6 DEF IInv, QueueInv
<1>6. CASE ExecuteCallback
  <2>1. /\ callbackQueue' = callbackQueue /\ fetched' = NULL /\ frame' = frame
        /\ fetched # NULL /\ pc' = [pc EXCEPT ![fetched] = "body"]
    BY <1>6 DEF ExecuteCallback, cVars
  <2>2. fetched \in Invocations
    BY <2>1 DEF IInv, TypeOK
  <2>3. \A q \in Invocations : q # fetched => pc'[q] = pc[q]
    BY <2>1, InvocationsProcesses DEF IInv, TypeOK
  <2> QED
    BY <2>1, <2>2, <2>3, QueueTypes DEF IInv, QueueInv
<1>7. ASSUME NEW i \in Invocations, WriteReturnValue(i) PROVE QueueInv'
  <2>1. callbackQueue' = callbackQueue /\ fetched' = fetched
    BY <1>7 DEF WriteReturnValue, imageVars
  <2>2. \A q \in Invocations : pc[q] = "none" => pc'[q] = "none"
    BY <1>7, InvocationsProcesses, InCFacts, EndFacts DEF WriteReturnValue, IInv, TypeOK
  <2>3. \A q \in Invocations : frame'[q] = "none" <=> frame[q] = "none"
    BY <1>7 DEF WriteReturnValue, cVars
  <2> QED
    BY <2>1, <2>2, <2>3, QueueTypes DEF IInv, QueueInv
<1>8. ASSUME NEW i \in Invocations, ReturnAccepted(i) PROVE QueueInv'
  <2>1. callbackQueue' = callbackQueue /\ fetched' = fetched
    BY <1>8 DEF ReturnAccepted, imageVars
  <2>2. \A q \in Invocations : pc[q] = "none" => pc'[q] = "none"
    BY <1>8, InvocationsProcesses, InCFacts, EndFacts DEF ReturnAccepted, IInv, TypeOK
  <2>3. \A q \in Invocations : frame'[q] = "none" <=> frame[q] = "none"
    BY <1>8 DEF ReturnAccepted, cVars
  <2> QED
    BY <2>1, <2>2, <2>3, QueueTypes DEF IInv, QueueInv
<1>9. ASSUME NEW i \in Invocations, ReturnRefused(i) PROVE QueueInv'
  <2>1. callbackQueue' = callbackQueue /\ fetched' = fetched
    BY <1>9 DEF ReturnRefused, imageVars
  <2>2. \A q \in Invocations : pc[q] = "none" => pc'[q] = "none"
    BY <1>9, InvocationsProcesses, InCFacts, EndFacts DEF ReturnRefused, IInv, TypeOK
  <2>3. \A q \in Invocations : frame'[q] = "none" <=> frame[q] = "none"
    BY <1>9 DEF ReturnRefused, cVars
  <2> QED
    BY <2>1, <2>2, <2>3, QueueTypes DEF IInv, QueueInv
<1>10. ASSUME NEW i \in Invocations, WaitToRetry(i) PROVE QueueInv'
  <2>1. callbackQueue' = callbackQueue /\ fetched' = fetched
    BY <1>10 DEF WaitToRetry, imageVars
  <2>2. \A q \in Invocations : pc[q] = "none" => pc'[q] = "none"
    BY <1>10, InvocationsProcesses, InCFacts, EndFacts DEF WaitToRetry, IInv, TypeOK
  <2>3. \A q \in Invocations : frame'[q] = "none" <=> frame[q] = "none"
    BY <1>10 DEF WaitToRetry, cVars
  <2> QED
    BY <2>1, <2>2, <2>3, QueueTypes DEF IInv, QueueInv
<1>11. ASSUME NEW i \in Invocations, PopInvocation(i) PROVE QueueInv'
  <2>1. callbackQueue' = callbackQueue /\ fetched' = fetched
    BY <1>11 DEF PopInvocation, imageVars
  <2>2. \A q \in Invocations : pc[q] = "none" => pc'[q] = "none"
    BY <1>11, InvocationsProcesses, InCFacts, EndFacts DEF PopInvocation, IInv, TypeOK
  <2>3. \A q \in Invocations : frame'[q] = "none" <=> frame[q] = "none"
    BY <1>11 DEF PopInvocation, cVars
  <2> QED
    BY <2>1, <2>2, <2>3, QueueTypes DEF IInv, QueueInv
<1>12. CASE Rest \/ UNCHANGED vars
  BY <1>12 DEF Rest, vars, cVars, imageVars, IInv, QueueInv
<1> QED
  BY <1>1, <1>2, <1>3, <1>4, <1>5, <1>6, <1>7, <1>8, <1>9, <1>10, <1>11, <1>12 DEF Next

\* A context is allocated and freed with the frame it belongs to.
LEMMA ContextStep == IInv /\ [Next]_vars => ContextInv'
<1> SUFFICES ASSUME IInv, [Next]_vars PROVE ContextInv'
  OBVIOUS
<1>1. ASSUME NEW p \in Processes, StartCallout(p) PROVE ContextInv'
  <2>1. contexts' = contexts
    BY <1>1 DEF StartCallout
  <2>2. \A i \in Invocations : cstack'[1] # Interpreter(i)
    <3>1. cstack'[1] = Function(p)
      BY <1>1, StartFacts
    <3>2. \A i \in Invocations : Function(p).kind # Interpreter(i).kind
      BY DEF Function, Interpreter
    <3> QED
      BY <3>1, <3>2
  <2>3. /\ Len(cstack) \in Nat /\ Len(cstack') = Len(cstack) + 1
        /\ \A k \in 2..Len(cstack') : cstack'[k] = cstack[k - 1]
        /\ \A k \in 1..Len(cstack) : cstack'[k + 1] = cstack[k]
    BY <1>1, StartFacts
  <2>4. ASSUME NEW i \in Invocations
        PROVE  (\E k \in 1..Len(cstack') : cstack'[k] = Interpreter(i))
                 <=> \E k \in 1..Len(cstack) : cstack[k] = Interpreter(i)
    <3>1. ASSUME NEW k \in 1..Len(cstack'), cstack'[k] = Interpreter(i)
          PROVE  \E l \in 1..Len(cstack) : cstack[l] = Interpreter(i)
      <4>1. k # 1 /\ k - 1 \in 1..Len(cstack) /\ cstack[k - 1] = Interpreter(i)
        BY <2>2, <2>3, <3>1
      <4> QED
        BY <4>1
    <3>2. ASSUME NEW k \in 1..Len(cstack), cstack[k] = Interpreter(i)
          PROVE  \E l \in 1..Len(cstack') : cstack'[l] = Interpreter(i)
      <4>1. k + 1 \in 1..Len(cstack') /\ cstack'[k + 1] = Interpreter(i)
        BY <2>3, <3>2
      <4> QED
        BY <4>1
    <3> QED
      BY <3>1, <3>2
  <2> QED
    BY <2>1, <2>4 DEF IInv, ContextInv, Interpreter
<1>2. CASE EndCallout
  <2>1. contexts' = contexts
    BY <1>2 DEF EndCallout
  <2>2. /\ Len(cstack) \in Nat \ {0} /\ Len(cstack') = Len(cstack) - 1
        /\ \A k \in 1..Len(cstack') : cstack'[k] = cstack[k + 1]
    BY <1>2, EndFacts
  <2>3. \A i \in Invocations : cstack[1] # Interpreter(i)
    BY <1>2, InCFacts DEF EndCallout, IsLoop, Interpreter
  <2>4. ASSUME NEW i \in Invocations
        PROVE  (\E k \in 1..Len(cstack') : cstack'[k] = Interpreter(i))
                 <=> \E k \in 2..Len(cstack) : cstack[k] = Interpreter(i)
    <3>1. ASSUME NEW k \in 1..Len(cstack'), cstack'[k] = Interpreter(i)
          PROVE  \E l \in 2..Len(cstack) : cstack[l] = Interpreter(i)
      <4>1. k + 1 \in 2..Len(cstack) /\ cstack[k + 1] = Interpreter(i)
        BY <2>2, <3>1
      <4> QED
        BY <4>1
    <3>2. ASSUME NEW k \in 2..Len(cstack), cstack[k] = Interpreter(i)
          PROVE  \E l \in 1..Len(cstack') : cstack'[l] = Interpreter(i)
      <4>1. k - 1 \in 1..Len(cstack') /\ cstack'[k - 1] = Interpreter(i)
        BY <2>2, <3>2
      <4> QED
        BY <4>1
    <3> QED
      BY <3>1, <3>2
  <2>5. ASSUME NEW i \in Invocations
        PROVE  (\E k \in 1..Len(cstack) : cstack[k] = Interpreter(i))
                 <=> \E k \in 2..Len(cstack) : cstack[k] = Interpreter(i)
    BY <2>2, <2>3
  <2> QED
    BY <2>1, <2>4, <2>5 DEF IInv, ContextInv, Interpreter
<1>3. CASE EnterCallback
  <2>1. PICK j \in Invocations :
           /\ contexts' = contexts \cup {j}
           /\ Len(cstack') = Len(cstack) + 1
           /\ cstack'[1] = Interpreter(j)
           /\ \A k \in 2..Len(cstack') : cstack'[k] = cstack[k - 1]
           /\ \A k \in 1..Len(cstack) : cstack'[k + 1] = cstack[k]
    BY <1>3, EnterFacts
  <2>2. Len(cstack) \in Nat
    BY <1>3, InCFacts DEF EnterCallback
  <2>3. 1 \in 1..Len(cstack') /\ cstack'[1] = Interpreter(j)
    BY <2>1, <2>2
  <2>4. ASSUME NEW i \in Invocations, i # j
        PROVE  (\E k \in 1..Len(cstack') : cstack'[k] = Interpreter(i))
                 <=> \E k \in 1..Len(cstack) : cstack[k] = Interpreter(i)
    <3>1. ASSUME NEW k \in 1..Len(cstack'), cstack'[k] = Interpreter(i)
          PROVE  \E l \in 1..Len(cstack) : cstack[l] = Interpreter(i)
      <4>1. Interpreter(i) # Interpreter(j)
        BY <2>4 DEF Interpreter
      <4>2. k # 1 /\ k - 1 \in 1..Len(cstack) /\ cstack[k - 1] = Interpreter(i)
        BY <2>1, <2>2, <3>1, <4>1
      <4> QED
        BY <4>2
    <3>2. ASSUME NEW k \in 1..Len(cstack), cstack[k] = Interpreter(i)
          PROVE  \E l \in 1..Len(cstack') : cstack'[l] = Interpreter(i)
      <4>1. k + 1 \in 1..Len(cstack') /\ cstack'[k + 1] = Interpreter(i)
        BY <2>1, <2>2, <3>2
      <4> QED
        BY <4>1
    <3> QED
      BY <3>1, <3>2
  <2> QED
    BY <2>1, <2>3, <2>4 DEF IInv, ContextInv, Interpreter
<1>4. CASE Jump
  <2>1. contexts' = contexts \ {jumping}
    BY <1>4 DEF Jump
  <2>2. /\ Len(cstack) \in Nat \ {0} /\ Len(cstack') = Len(cstack) - 1
        /\ \A k \in 1..Len(cstack') : cstack'[k] = cstack[k + 1]
    BY <1>4, JumpPopsOne
  <2>3. cstack[1] = Interpreter(jumping) /\ jumping \in Invocations
    BY <1>4, JumpPopsOne
  <2>4. ASSUME NEW i \in Invocations
        PROVE  (\E k \in 1..Len(cstack') : cstack'[k] = Interpreter(i))
                 <=> \E k \in 2..Len(cstack) : cstack[k] = Interpreter(i)
    <3>1. ASSUME NEW k \in 1..Len(cstack'), cstack'[k] = Interpreter(i)
          PROVE  \E l \in 2..Len(cstack) : cstack[l] = Interpreter(i)
      <4>1. k + 1 \in 2..Len(cstack) /\ cstack[k + 1] = Interpreter(i)
        BY <2>2, <3>1
      <4> QED
        BY <4>1
    <3>2. ASSUME NEW k \in 2..Len(cstack), cstack[k] = Interpreter(i)
          PROVE  \E l \in 1..Len(cstack') : cstack'[l] = Interpreter(i)
      <4>1. k - 1 \in 1..Len(cstack') /\ cstack'[k - 1] = Interpreter(i)
        BY <2>2, <3>2
      <4> QED
        BY <4>1
    <3> QED
      BY <3>1, <3>2
  <2>5. ASSUME NEW i \in Invocations, i # jumping
        PROVE  (\E k \in 1..Len(cstack) : cstack[k] = Interpreter(i))
                 <=> \E k \in 2..Len(cstack) : cstack[k] = Interpreter(i)
    <3>1. Interpreter(i) # Interpreter(jumping)
      <4>1. Interpreter(i).for # Interpreter(jumping).for
        BY <2>5 DEF Interpreter
      <4> QED
        BY <4>1
    <3>2. ASSUME NEW k \in 1..Len(cstack), cstack[k] = Interpreter(i)
          PROVE  k \in 2..Len(cstack)
      <4>1. k # 1
        BY <2>3, <3>1, <3>2
      <4> QED
        BY <2>2, <4>1
    <3>3. \A k \in 2..Len(cstack) : k \in 1..Len(cstack)
      BY <2>2
    <3> QED
      BY <3>2, <3>3
  <2>6. \A k \in 2..Len(cstack) : cstack[k] # Interpreter(jumping)
    BY <2>2, <2>3 DEF IInv, FrameInv
  <2> QED
    BY <2>1, <2>3, <2>4, <2>5, <2>6 DEF IInv, ContextInv, Interpreter
<1>5. CASE FetchCallback
  BY <1>5 DEF FetchCallback, cVars, IInv, ContextInv, Interpreter
<1>6. CASE ExecuteCallback
  BY <1>6 DEF ExecuteCallback, cVars, IInv, ContextInv, Interpreter
<1>7. ASSUME NEW i \in Invocations, WriteReturnValue(i) PROVE ContextInv'
  BY <1>7 DEF WriteReturnValue, cVars, IInv, ContextInv, Interpreter
<1>8. ASSUME NEW i \in Invocations, ReturnAccepted(i) PROVE ContextInv'
  BY <1>8 DEF ReturnAccepted, cVars, IInv, ContextInv, Interpreter
<1>9. ASSUME NEW i \in Invocations, ReturnRefused(i) PROVE ContextInv'
  BY <1>9 DEF ReturnRefused, cVars, IInv, ContextInv, Interpreter
<1>10. ASSUME NEW i \in Invocations, WaitToRetry(i) PROVE ContextInv'
  BY <1>10 DEF WaitToRetry, cVars, IInv, ContextInv, Interpreter
<1>11. ASSUME NEW i \in Invocations, PopInvocation(i) PROVE ContextInv'
  BY <1>11 DEF PopInvocation, cVars, IInv, ContextInv, Interpreter
<1>12. CASE Rest \/ UNCHANGED vars
  BY <1>12 DEF Rest, vars, cVars, imageVars, IInv, ContextInv, Interpreter
<1> QED
  BY <1>1, <1>2, <1>3, <1>4, <1>5, <1>6, <1>7, <1>8, <1>9, <1>10, <1>11, <1>12 DEF Next

\* The list is linked and unlinked together with the frames.
LEMMA ListStep == IInv /\ [Next]_vars => ListInv'
<1> SUFFICES ASSUME IInv, [Next]_vars PROVE ListInv'
  OBVIOUS
<1>1. ASSUME NEW p \in Processes, StartCallout(p) PROVE ListInv'
  <2>1. /\ TypeOK /\ FrameInv /\ Len(cstack) \in Nat
        /\ \A k \in 1..Len(cstack) :
             IF k = Len(cstack) THEN ~IsLoop(k) ELSE IsLoop(k) <=> ~IsLoop(k + 1)
        /\ \A k \in 1..Len(cstack) : IsLoop(k) => previous[cstack[k].for] = InvocationAt(k + 2)
    BY FrameTypes DEF IInv, FrameInv, ListInv
  <2>2. /\ cstack'[1] = Function(p) /\ Len(cstack') = Len(cstack) + 1
        /\ \A k \in 2..Len(cstack') : cstack'[k] = cstack[k - 1]
        /\ \A k \in 1..Len(cstack) : cstack'[k + 1] = cstack[k]
    BY <1>1, StartFacts
  <2>3. previous' = previous /\ callbackStack' = callbackStack /\ jumping' = jumping
    BY <1>1 DEF StartCallout
  <2>4. jumping = NULL /\ (Len(cstack) > 0 => IsLoop(1)) /\ (Len(cstack) = 0 <=> cstack = <<>>)
    BY <1>1, InImageFacts DEF StartCallout
  <2>5. ~IsLoop(1)'
    BY <2>2 DEF IsLoop, Function
  <2>7. ASSUME NEW k \in Nat \ {0} PROVE InvocationAt(k + 1)' = InvocationAt(k)
    BY <2>1, <2>2 DEF InvocationAt
  <2>8. ASSUME NEW k \in 1..Len(cstack'), IsLoop(k)'
        PROVE  previous'[cstack'[k].for] = InvocationAt(k + 2)'
    <3>1. k # 1
      BY <2>5, <2>8
    <3>2. k - 1 \in 1..Len(cstack) /\ cstack'[k] = cstack[k - 1]
      BY <2>1, <2>2, <3>1
    <3>3. IsLoop(k - 1)
      BY <2>8, <3>2 DEF IsLoop
    <3>4. previous[cstack[k - 1].for] = InvocationAt((k - 1) + 2)
      BY <2>1, <3>2, <3>3
    <3>5. k + 1 \in Nat \ {0} /\ (k - 1) + 2 = k + 1 /\ (k + 1) + 1 = k + 2
      BY <2>1, <2>2
    <3>6. InvocationAt((k + 1) + 1)' = InvocationAt(k + 1)
      BY <2>7, <3>5
    <3> QED
      BY <2>3, <3>2, <3>4, <3>5, <3>6
  <2>9. callbackStack = InvocationAt(1)
    <3>1. CASE Len(cstack) = 0
      BY <2>4, <3>1 DEF IInv, ListInv, InvocationAt
    <3>2. CASE Len(cstack) > 0
      BY <2>4, <3>2 DEF IInv, ListInv
    <3> QED
      BY <2>1, <3>1, <3>2
  <2>10. InvocationAt(2)' = InvocationAt(1)
    <3>1. InvocationAt(1 + 1)' = InvocationAt(1)
      BY <2>7
    <3> QED
      BY <3>1
  <2> QED
    BY <2>3, <2>4, <2>5, <2>8, <2>9, <2>10 DEF ListInv
<1>2. CASE EndCallout
  <2>1. /\ TypeOK /\ FrameInv /\ Len(cstack) \in Nat
        /\ \A k \in 1..Len(cstack) :
             IF k = Len(cstack) THEN ~IsLoop(k) ELSE IsLoop(k) <=> ~IsLoop(k + 1)
        /\ \A k \in 1..Len(cstack) : IsLoop(k) => previous[cstack[k].for] = InvocationAt(k + 2)
    BY FrameTypes DEF IInv, FrameInv, ListInv
  <2>2. /\ Len(cstack) \in Nat \ {0} /\ Len(cstack') = Len(cstack) - 1
        /\ \A k \in 1..Len(cstack') : cstack'[k] = cstack[k + 1]
        /\ cstack' \in Seq(Frames)
    BY <1>2, EndFacts
  <2>3. previous' = previous /\ callbackStack' = callbackStack /\ jumping' = jumping
    BY <1>2 DEF EndCallout
  <2>4. jumping = NULL /\ ~IsLoop(1) /\ 1 \in 1..Len(cstack)
    BY <1>2, InCFacts DEF EndCallout
  <2>7. ASSUME NEW k \in Nat \ {0} PROVE InvocationAt(k)' = InvocationAt(k + 1)
    BY <2>1, <2>2 DEF InvocationAt
  <2>8. ASSUME NEW k \in 1..Len(cstack'), IsLoop(k)'
        PROVE  previous'[cstack'[k].for] = InvocationAt(k + 2)'
    <3>1. k + 1 \in 1..Len(cstack) /\ cstack'[k] = cstack[k + 1] /\ IsLoop(k + 1)
      BY <2>2, <2>8 DEF IsLoop
    <3>2. previous[cstack[k + 1].for] = InvocationAt((k + 1) + 2)
      BY <2>1, <3>1
    <3>3. k + 2 \in Nat \ {0} /\ (k + 1) + 2 = (k + 2) + 1
      BY <2>2
    <3>4. InvocationAt(k + 2)' = InvocationAt((k + 2) + 1)
      BY <2>7, <3>3
    <3> QED
      BY <2>3, <3>1, <3>2, <3>3, <3>4
  <2>9. callbackStack = InvocationAt(2) /\ InvocationAt(1)' = InvocationAt(2)
    <3>1. InvocationAt(1)' = InvocationAt(1 + 1)
      BY <2>7
    <3> QED
      BY <2>4, <3>1 DEF IInv, ListInv
  <2>10. CASE Len(cstack') = 0
    <3>1. cstack' = <<>> /\ InvocationAt(1)' = NULL /\ InvocationAt(2)' = NULL
      <4>1. cstack' = <<>>
        BY <2>2, <2>10, EmptySeq
      <4> QED
        BY <2>10, <4>1 DEF InvocationAt
    <3> QED
      BY <2>3, <2>4, <2>8, <2>9, <3>1 DEF ListInv
  <2>11. CASE Len(cstack') # 0
    <3>1. Len(cstack) # 1 /\ 1 \in 1..Len(cstack') /\ cstack'[1] = cstack[1 + 1]
      BY <2>2, <2>11
    <3>2. IsLoop(1 + 1)
      BY <2>1, <2>4, <3>1
    <3>3. IsLoop(1)' /\ cstack' # <<>>
      BY <2>2, <2>11, <3>1, <3>2 DEF IsLoop
    <3> QED
      BY <2>3, <2>4, <2>8, <2>9, <3>3 DEF ListInv
  <2> QED
    BY <2>10, <2>11
<1>3. CASE EnterCallback
  <2>1. /\ TypeOK /\ FrameInv /\ Len(cstack) \in Nat
        /\ \A k \in 1..Len(cstack) :
             IF k = Len(cstack) THEN ~IsLoop(k) ELSE IsLoop(k) <=> ~IsLoop(k + 1)
        /\ \A k \in 1..Len(cstack) : IsLoop(k) => previous[cstack[k].for] = InvocationAt(k + 2)
    BY FrameTypes DEF IInv, FrameInv, ListInv
  <2>2. PICK i \in Invocations :
           /\ frame[i] = "none"
           /\ previous' = [previous EXCEPT ![i] = callbackStack]
           /\ callbackStack' = i
           /\ cstack' \in Seq(Frames)
           /\ Len(cstack') = Len(cstack) + 1
           /\ cstack'[1] = Interpreter(i)
           /\ \A k \in 2..Len(cstack') : cstack'[k] = cstack[k - 1]
           /\ \A k \in 1..Len(cstack) : cstack'[k + 1] = cstack[k]
    BY <1>3, EnterFacts
  <2>3. jumping' = NULL
    BY <1>3, InCFacts DEF EnterCallback
  <2>4. jumping = NULL /\ ~IsLoop(1) /\ 1 \in 1..Len(cstack)
    BY <1>3, InCFacts DEF EnterCallback
  <2>5. /\ Interpreter(i).kind = "loop" /\ Interpreter(i).for = i
        /\ cstack' # <<>> /\ 1 <= Len(cstack')
    BY <2>1, <2>2 DEF Interpreter
  <2>7. ASSUME NEW k \in Nat \ {0} PROVE InvocationAt(k + 1)' = InvocationAt(k)
    BY <2>1, <2>2 DEF InvocationAt
  <2>8. callbackStack = InvocationAt(2) /\ InvocationAt(3)' = InvocationAt(2)
    <3>1. InvocationAt(2 + 1)' = InvocationAt(2)
      BY <2>7
    <3> QED
      BY <2>4, <3>1 DEF IInv, ListInv
  <2>9. ASSUME NEW k \in 1..Len(cstack'), IsLoop(k)'
        PROVE  previous'[cstack'[k].for] = InvocationAt(k + 2)'
    <3>1. CASE k = 1
      <4>1. cstack'[k].for = i /\ previous'[i] = callbackStack
        BY <2>2, <2>5, <3>1 DEF IInv, TypeOK
      <4> QED
        BY <2>8, <3>1, <4>1
    <3>2. CASE k # 1
      <4>1. k - 1 \in 1..Len(cstack) /\ cstack'[k] = cstack[k - 1]
        BY <2>1, <2>2, <3>2
      <4>2. IsLoop(k - 1)
        BY <2>9, <4>1 DEF IsLoop
      <4>3. previous[cstack[k - 1].for] = InvocationAt((k - 1) + 2)
        BY <2>1, <4>1, <4>2
      <4>4. cstack[k - 1].for \in Invocations /\ cstack[k - 1].for # i
        BY <2>1, <2>2, <4>1, <4>2, FrameTypes DEF FrameInv
      <4>5. previous'[cstack'[k].for] = previous[cstack[k - 1].for]
        BY <2>2, <4>1, <4>4 DEF IInv, TypeOK
      <4>6. k + 1 \in Nat \ {0} /\ (k - 1) + 2 = k + 1 /\ (k + 1) + 1 = k + 2
        BY <2>1, <2>2
      <4>7. InvocationAt((k + 1) + 1)' = InvocationAt(k + 1)
        BY <2>7, <4>6
      <4> QED
        BY <4>3, <4>5, <4>6, <4>7
    <3> QED
      BY <3>1, <3>2
  <2>10. IsLoop(1)' /\ InvocationAt(1)' = i
    BY <2>2, <2>5 DEF IsLoop, InvocationAt
  <2> QED
    BY <2>2, <2>3, <2>5, <2>9, <2>10 DEF ListInv
<1>4. CASE Jump
  <2>1. /\ TypeOK /\ FrameInv /\ Len(cstack) \in Nat
        /\ \A k \in 1..Len(cstack) :
             IF k = Len(cstack) THEN ~IsLoop(k) ELSE IsLoop(k) <=> ~IsLoop(k + 1)
        /\ \A k \in 1..Len(cstack) : IsLoop(k) => previous[cstack[k].for] = InvocationAt(k + 2)
    BY FrameTypes DEF IInv, FrameInv, ListInv
  <2>2. /\ Len(cstack) \in Nat \ {0} /\ Len(cstack') = Len(cstack) - 1
        /\ \A k \in 1..Len(cstack') : cstack'[k] = cstack[k + 1]
        /\ cstack[1] = Interpreter(jumping)
    BY <1>4, JumpPopsOne
  <2>3. previous' = previous /\ callbackStack' = callbackStack /\ jumping' = NULL
        /\ jumping # NULL
    BY <1>4 DEF Jump
  <2>4. IsLoop(1)
    BY <2>2 DEF IsLoop, Interpreter
  <2>7. ASSUME NEW k \in Nat \ {0} PROVE InvocationAt(k)' = InvocationAt(k + 1)
    BY <2>1, <2>2 DEF InvocationAt
  <2>8. ASSUME NEW k \in 1..Len(cstack'), IsLoop(k)'
        PROVE  previous'[cstack'[k].for] = InvocationAt(k + 2)'
    <3>1. k + 1 \in 1..Len(cstack) /\ cstack'[k] = cstack[k + 1] /\ IsLoop(k + 1)
      BY <2>2, <2>8 DEF IsLoop
    <3>2. previous[cstack[k + 1].for] = InvocationAt((k + 1) + 2)
      BY <2>1, <3>1
    <3>3. k + 2 \in Nat \ {0} /\ (k + 1) + 2 = (k + 2) + 1
      BY <2>2
    <3>4. InvocationAt(k + 2)' = InvocationAt((k + 2) + 1)
      BY <2>7, <3>3
    <3> QED
      BY <2>3, <3>1, <3>2, <3>3, <3>4
  <2>9. callbackStack = InvocationAt(3) /\ InvocationAt(2)' = InvocationAt(3)
    <3>1. InvocationAt(2)' = InvocationAt(2 + 1)
      BY <2>7
    <3> QED
      BY <2>3, <3>1 DEF IInv, ListInv
  <2>10. ~IsLoop(1)'
    <3>1. 1 \in 1..Len(cstack)
      BY <2>2
    <3>2. Len(cstack) # 1 /\ ~IsLoop(1 + 1)
      BY <2>1, <2>4, <3>1
    <3>3. cstack'[1] = cstack[1 + 1]
      BY <2>2, <3>2
    <3> QED
      BY <3>2, <3>3 DEF IsLoop
  <2> QED
    BY <2>3, <2>8, <2>9, <2>10 DEF ListInv
<1>5. CASE FetchCallback
  BY <1>5 DEF FetchCallback, cVars, IInv, ListInv, IsLoop, InvocationAt
<1>6. CASE ExecuteCallback
  BY <1>6 DEF ExecuteCallback, cVars, IInv, ListInv, IsLoop, InvocationAt
<1>7. ASSUME NEW i \in Invocations, WriteReturnValue(i) PROVE ListInv'
  BY <1>7 DEF WriteReturnValue, cVars, IInv, ListInv, IsLoop, InvocationAt
<1>8. ASSUME NEW i \in Invocations, ReturnAccepted(i) PROVE ListInv'
  <2>1. /\ TypeOK /\ FrameInv /\ Len(cstack) \in Nat
        /\ \A k \in 1..Len(cstack) :
             IF k = Len(cstack) THEN ~IsLoop(k) ELSE IsLoop(k) <=> ~IsLoop(k + 1)
        /\ \A k \in 1..Len(cstack) : IsLoop(k) => previous[cstack[k].for] = InvocationAt(k + 2)
    BY FrameTypes DEF IInv, FrameInv, ListInv
  <2>2. /\ cstack' = cstack /\ previous' = previous /\ callbackStack = i
        /\ callbackStack' = previous[callbackStack] /\ jumping' = i /\ i # NULL
    BY <1>8, InvocationsProcesses DEF ReturnAccepted, cVars
  <2>3. cstack # <<>> /\ cstack[1] = Interpreter(i)
    BY <2>2, JumpStep DEF JumpInv, Interpreter
  <2>4. 1 \in 1..Len(cstack) /\ IsLoop(1) /\ cstack[1].for = i
    BY <2>1, <2>3 DEF TypeOK, IsLoop, Interpreter
  <2>5. previous[i] = InvocationAt(3)
    <3>1. previous[cstack[1].for] = InvocationAt(1 + 2)
      BY <2>1, <2>4
    <3> QED
      BY <2>4, <3>1
  <2> QED
    BY <2>1, <2>2, <2>5 DEF ListInv, IsLoop, InvocationAt
<1>9. ASSUME NEW i \in Invocations, ReturnRefused(i) PROVE ListInv'
  BY <1>9 DEF ReturnRefused, cVars, IInv, ListInv, IsLoop, InvocationAt
<1>10. ASSUME NEW i \in Invocations, WaitToRetry(i) PROVE ListInv'
  BY <1>10 DEF WaitToRetry, cVars, IInv, ListInv, IsLoop, InvocationAt
<1>11. ASSUME NEW i \in Invocations, PopInvocation(i) PROVE ListInv'
  BY <1>11 DEF PopInvocation, cVars, IInv, ListInv, IsLoop, InvocationAt
<1>12. CASE Rest \/ UNCHANGED vars
  BY <1>12 DEF Rest, vars, cVars, imageVars, IInv, ListInv, IsLoop, InvocationAt
<1> QED
  BY <1>1, <1>2, <1>3, <1>4, <1>5, <1>6, <1>7, <1>8, <1>9, <1>10, <1>11, <1>12 DEF Next

\* The invariant holds before the first call.
LEMMA InitInv == Init => IInv
<1> SUFFICES ASSUME Init PROVE IInv
  OBVIOUS
<1>1. cstack = <<>> /\ Len(cstack) = 0 /\ callbackQueue = <<>> /\ Len(callbackQueue) = 0
  BY DEF Init
<1>2. TypeOK
  <2>1. pc \in [Processes -> {"none", "body", "calling", "returning", "refused",
                              "retrying", "returned", "done"}]
    BY DEF Init
  <2>2. calls \in [Processes -> Nat]
    BY SameThreadAssumption DEF Init
  <2> QED
    BY <2>1, <2>2 DEF Init, TypeOK
<1>3. FrameInv
  BY <1>1 DEF FrameInv
<1>4. ListInv
  BY <1>1 DEF Init, ListInv, InvocationAt
<1>5. ContextInv
  BY <1>1 DEF Init, ContextInv
<1>6. \A i \in Invocations : pc[i] = "none"
  BY InvocationsProcesses, SameThreadAssumption DEF Init
<1>7. QueueInv
  BY <1>1, <1>6 DEF Init, QueueInv
<1>8. ProtectInv /\ PopsItsOwn
  BY <1>6, InvocationsProcesses DEF Init, ProtectInv, PopsItsOwn
<1>9. JumpInv
  BY DEF Init, JumpInv
<1> QED
  BY <1>2, <1>3, <1>4, <1>5, <1>7, <1>8, <1>9 DEF IInv

\* The invariant holds in every reachable state.
THEOREM Invariance == Spec => []IInv
<1>1. IInv /\ [Next]_vars => IInv'
  BY TypeStep, FrameStep, ListStep, ContextStep, QueueStep, ProtectStep, JumpStep, PopStep
  DEF IInv
<1> QED
  BY <1>1, InitInv, PTL DEF Spec

\* The C stack, the runner's list and the image's variables keep their types:
\* in particular no nil is pushed on the image's stack of invocations.
THEOREM TypeCorrect == Spec => []TypeOK
BY Invariance, PTL DEF IInv

\* A handler whose return was accepted pops its own invocation from the image's
\* stack, whatever C code and other handlers do between the jump and the pop.
THEOREM ReturnPopsItsOwn == Spec => []PopsItsOwn
BY Invariance, PTL DEF IInv

\* After a function's frame there is the interpreter that called it, if it is
\* not the first one.
LEMMA LoopAfter ==
  ASSUME IInv, NEW n \in 1..Len(cstack), ~IsLoop(n)
  PROVE  \/ n = Len(cstack) /\ InvocationAt(n + 1) = NULL
         \/ n + 1 \in 1..Len(cstack) /\ IsLoop(n + 1) /\ InvocationAt(n + 1) = cstack[n + 1].for
<1>1. Len(cstack) \in Nat
  BY FrameTypes DEF IInv
<1>2. n # Len(cstack) => IsLoop(n + 1)
  BY DEF IInv, FrameInv
<1> QED
  BY <1>1, <1>2 DEF InvocationAt

\* The invariant says where each link of the list leads.
LEMMA ListFromInv == IInv => ListIsOnTheCStack
<1> SUFFICES ASSUME IInv PROVE ListIsOnTheCStack
  OBVIOUS
<1> DEFINE entered == {n \in 1..Len(cstack) : cstack[n].kind = "loop" /\ cstack[n].for # jumping}
           Link(n) == IF n = 0 THEN callbackStack ELSE previous[cstack[n].for]
           Deeper(n) == {m \in entered : m > n}
           Leads(n) == \/ Deeper(n) = {} /\ Link(n) = NULL
                       \/ \E m \in Deeper(n) : Link(n) = cstack[m].for
                                               /\ \A k \in Deeper(n) : m <= k
<1>1. /\ TypeOK /\ FrameInv /\ Len(cstack) \in Nat
      /\ \A n \in 1..Len(cstack) : cstack[n] \in Frames
      /\ \A n \in 1..Len(cstack) : IsLoop(n) => cstack[n].for \in Invocations
  BY FrameTypes DEF IInv
<1>2. \A n \in entered : IsLoop(n) /\ n \in 1..Len(cstack)
  BY DEF IsLoop
<1>3. \A n \in 1..Len(cstack) : IsLoop(n) /\ (jumping = NULL \/ n # 1) => n \in entered
  <2> SUFFICES ASSUME NEW n \in 1..Len(cstack), IsLoop(n), jumping = NULL \/ n # 1
               PROVE  cstack[n].for # jumping
    BY DEF IsLoop
  <2>1. CASE jumping = NULL
    BY <1>1, <2>1, InvocationsProcesses
  <2>2. CASE jumping # NULL /\ n # 1
    <3> SUFFICES ASSUME cstack[n].for = jumping PROVE FALSE
      BY <2>2
    <3>1. cstack[1] = Interpreter(jumping) /\ 1 \in 1..Len(cstack)
      BY <1>1, <2>2 DEF IInv, JumpInv
    <3>2. cstack[n].kind = cstack[1].kind /\ cstack[n].for = cstack[1].for
      BY <3>1 DEF Interpreter, IsLoop
    <3>3. cstack[n] = cstack[1]
      BY <1>1, <3>1, <3>2, FramesEqual
    <3> QED
      BY <1>1, <2>2, <3>1, <3>3 DEF FrameInv
  <2> QED
    BY <2>1, <2>2
<1>4. ASSUME NEW n \in 0..Len(cstack), NEW f \in 1..Len(cstack), n < f, ~IsLoop(f),
             \A k \in (n + 1)..f : k \notin entered, Link(n) = InvocationAt(f + 1)
      PROVE  Leads(n)
  <2>1. \A k \in Deeper(n) : f + 1 <= k
    BY <1>1, <1>2, <1>4
  <2>2. CASE f = Len(cstack) /\ InvocationAt(f + 1) = NULL
    <3>1. Deeper(n) = {}
      BY <1>1, <1>2, <2>1, <2>2
    <3> QED
      BY <1>4, <2>2, <3>1
  <2>3. CASE f + 1 \in 1..Len(cstack) /\ IsLoop(f + 1)
             /\ InvocationAt(f + 1) = cstack[f + 1].for
    <3>1. f + 1 \in Deeper(n)
      BY <1>1, <1>3, <1>4, <2>3
    <3> QED
      BY <1>4, <2>1, <2>3, <3>1
  <2> QED
    BY <1>4, <2>2, <2>3, LoopAfter
<1>5. ASSUME NEW n \in entered PROVE Leads(n)
  <2>1. n \in 1..Len(cstack) /\ IsLoop(n) /\ Link(n) = InvocationAt(n + 2)
    BY <1>2, <1>5 DEF IInv, ListInv
  <2>2. n # Len(cstack) /\ ~IsLoop(n + 1)
    BY <1>1, <2>1 DEF FrameInv
  <2>3. n + 1 \in 1..Len(cstack) /\ n \in 0..Len(cstack) /\ n < n + 1 /\ (n + 1) + 1 = n + 2
    BY <1>1, <2>1, <2>2
  <2>4. \A k \in (n + 1)..(n + 1) : k \notin entered
    BY <1>2, <2>2, <2>3
  <2> HIDE DEF Leads, Link, entered
  <2> QED
    BY <1>4, <2>1, <2>2, <2>3, <2>4
<1>6. Leads(0)
  <2>1. CASE jumping # NULL
    <3>1. cstack # <<>> /\ cstack[1] = Interpreter(jumping)
      BY <2>1 DEF IInv, JumpInv
    <3>2. 1 \in 1..Len(cstack) /\ IsLoop(1) /\ cstack[1].for = jumping
      BY <1>1, <3>1 DEF TypeOK, IsLoop, Interpreter
    <3>3. Len(cstack) # 1 /\ ~IsLoop(1 + 1)
      BY <1>1, <3>2 DEF FrameInv
    <3>4. 2 \in 1..Len(cstack) /\ ~IsLoop(2) /\ 0 \in 0..Len(cstack)
      <4>1. 1 + 1 = 2
        OBVIOUS
      <4>2. ~IsLoop(2)
        BY <3>3, <4>1
      <4>3. Len(cstack) \in Nat /\ Len(cstack) >= 1 /\ Len(cstack) # 1
        BY <1>1, <3>2, <3>3
      <4>4. Len(cstack) >= 2
        BY <4>3
      <4> QED
        BY <4>2, <4>3, <4>4
    <3>5. \A k \in (0 + 1)..2 : k \notin entered
      <4>1. 1 \notin entered /\ 2 \notin entered
        BY <1>2, <3>2, <3>4
      <4> QED
        BY <4>1
    <3>6. Link(0) = InvocationAt(2 + 1)
      BY <2>1 DEF IInv, ListInv
    <3> HIDE DEF Leads, Link, entered
    <3> QED
      BY <1>4, <3>4, <3>5, <3>6
  <2>2. CASE jumping = NULL /\ Len(cstack) > 0 /\ IsLoop(1)
    <3>1. Link(0) = InvocationAt(1) /\ cstack # <<>> /\ 1 \in 1..Len(cstack)
      BY <1>1, <2>2 DEF IInv, ListInv
    <3>2. Link(0) = cstack[1].for
      BY <3>1, <1>1 DEF InvocationAt
    <3>3. 1 \in Deeper(0) /\ \A k \in Deeper(0) : 1 <= k
      BY <1>1, <1>2, <1>3, <2>2, <3>1
    <3> QED
      BY <3>2, <3>3
  <2>3. CASE jumping = NULL /\ Len(cstack) > 0 /\ ~IsLoop(1)
    <3>1. 1 \in 1..Len(cstack) /\ 0 \in 0..Len(cstack)
      BY <1>1, <2>3
    <3>2. \A k \in (0 + 1)..1 : k \notin entered
      BY <1>2, <2>3
    <3>3. Link(0) = InvocationAt(1 + 1)
      BY <2>3 DEF IInv, ListInv
    <3> HIDE DEF Leads, Link, entered
    <3> QED
      BY <1>4, <2>3, <3>1, <3>2, <3>3
  <2>4. CASE jumping = NULL /\ Len(cstack) = 0
    <3>1. entered = {}
      BY <2>4
    <3>2. cstack = <<>>
      BY <1>1, <2>4, EmptySeq DEF TypeOK
    <3>3. Link(0) = NULL
      BY <2>4, <3>2 DEF IInv, ListInv, InvocationAt
    <3> QED
      BY <3>1, <3>3
  <2> QED
    BY <1>1, <2>1, <2>2, <2>3, <2>4
<1>7. contexts = {i \in Invocations : \E n \in 1..Len(cstack) : cstack[n] = Interpreter(i)}
  BY DEF IInv, ContextInv, TypeOK
<1> QED
  BY <1>5, <1>6, <1>7 DEF ListIsOnTheCStack

\* The runner's list of invocations, which is made of C frames, is exactly the
\* callbacks on the C stack that did not return, innermost first: it never
\* reaches a frame that a jump discarded.
THEOREM ListOnTheCStack == Spec => []ListIsOnTheCStack
BY Invariance, ListFromInv, PTL

\* A jump takes the innermost frame off, and no other.
LEMMA JumpIsTail ==
  ASSUME IInv, Jump
  PROVE  cstack' = Tail(cstack)
<1>1. /\ cstack \in Seq(Frames) /\ cstack # <<>> /\ cstack' \in Seq(Frames)
      /\ Len(cstack') = Len(cstack) - 1
      /\ \A n \in 1..Len(cstack') : cstack'[n] = cstack[n + 1]
  BY JumpPopsOne DEF IInv, TypeOK, Frames
<1>2. /\ Tail(cstack) \in Seq(Frames) /\ Len(Tail(cstack)) = Len(cstack) - 1
      /\ \A n \in 1..Len(Tail(cstack)) : Tail(cstack)[n] = cstack[n + 1]
  BY <1>1, HeadTailProperties
<1> QED
  BY <1>1, <1>2, SeqEqual

\* Every step of the runner is a step of nested calls, or changes nothing there.
LEMMA NestingStep == IInv /\ [Next]_vars => [Nesting!Next]_(Nesting!vars)
<1> SUFFICES ASSUME IInv, [Next]_vars PROVE [Nesting!Next]_(Nesting!vars)
  OBVIOUS
<1>1. ASSUME NEW p \in Processes, StartCallout(p) PROVE Nesting!Next
  <2>1. cstack' = <<Function(p)>> \o cstack
    BY <1>1, StartFacts
  <2>2. Returned' = Returned
    BY <1>1, InvocationsProcesses DEF StartCallout, Returned, IInv, TypeOK
  <2>3. cstack = <<>> \/ Head(cstack).kind = "loop"
    BY <1>1 DEF StartCallout, InImage
  <2>4. Nesting!Call(p)
    BY <2>1, <2>2, <2>3 DEF Nesting!Call, Nesting!Function, Function
  <2> QED
    BY <2>4 DEF Nesting!Next
<1>2. CASE EndCallout
  <2>1. /\ cstack # <<>> /\ Head(cstack) = cstack[1] /\ cstack[1] \in Frames
        /\ cstack[1].for \in Processes /\ ~IsLoop(1) /\ pc[cstack[1].for] = "calling"
    BY <1>2, InCFacts, FrameTypes DEF EndCallout, InC, IInv
  <2>2. Head(cstack) = Function(cstack[1].for)
    BY <2>1 DEF IsLoop, Frames, Function
  <2>3. cstack' = Tail(cstack)
    BY <1>2 DEF EndCallout
  <2>4. Returned' = Returned
    BY <1>2, <2>1, EndFacts, InvocationsProcesses DEF Returned, IInv, TypeOK
  <2>5. Nesting!End(cstack[1].for)
    BY <2>1, <2>2, <2>3, <2>4 DEF Nesting!End, Nesting!Innermost, Nesting!Function, Function
  <2> QED
    BY <2>1, <2>5 DEF Nesting!Next
<1>3. CASE EnterCallback
  <2>1. PICK i \in Invocations : cstack' = <<Interpreter(i)>> \o cstack
    BY <1>3, EnterFacts
  <2>2. cstack # <<>> /\ Head(cstack).kind = "function" /\ Returned' = Returned
    BY <1>3 DEF EnterCallback, InC, Returned
  <2>3. Nesting!Enter(i)
    BY <2>1, <2>2 DEF Nesting!Enter, Nesting!Callback, Interpreter
  <2> QED
    BY <2>3 DEF Nesting!Next
<1>4. CASE Jump
  <2>1. cstack # <<>> /\ cstack[1] = Interpreter(jumping) /\ jumping \in Invocations
    BY <1>4, JumpPopsOne
  <2>2. cstack' = Tail(cstack) /\ Head(cstack) = Interpreter(jumping)
    BY <1>4, <2>1, JumpIsTail DEF IInv, TypeOK
  <2>3. jumping \in Returned /\ Returned' = Returned
    BY <1>4, <2>1 DEF Jump, IInv, JumpInv, Returned
  <2>4. Nesting!Resume(jumping)
    BY <2>1, <2>2, <2>3 DEF Nesting!Resume, Nesting!Innermost, Nesting!Callback, Interpreter
  <2> QED
    BY <2>1, <2>4 DEF Nesting!Next
<1>5. CASE FetchCallback
  BY <1>5 DEF FetchCallback, cVars, Returned, Nesting!vars
<1>6. CASE ExecuteCallback
  <2>1. Returned' = Returned
    BY <1>6, InvocationsProcesses, QueueTypes DEF ExecuteCallback, Returned, IInv, TypeOK, QueueInv
  <2> QED
    BY <1>6, <2>1 DEF ExecuteCallback, cVars, Nesting!vars
<1>7. ASSUME NEW i \in Invocations, ReturnAccepted(i) PROVE Nesting!Next
  <2>1. cstack' = cstack /\ jumping' = i /\ i # NULL
    BY <1>7, InvocationsProcesses DEF ReturnAccepted, cVars
  <2>2. cstack # <<>> /\ cstack[1] = Interpreter(i)
    BY <2>1, JumpStep DEF JumpInv, Interpreter
  <2>3. Head(cstack) = Interpreter(i)
    BY <2>2 DEF IInv, TypeOK
  <2>4. Returned' = Returned \cup {i}
    BY <1>7, InvocationsProcesses DEF ReturnAccepted, Returned, IInv, TypeOK
  <2>5. Nesting!Return(i)
    BY <2>1, <2>2, <2>3, <2>4 DEF Nesting!Return, Nesting!Innermost, Nesting!Callback, Interpreter
  <2> QED
    BY <2>5 DEF Nesting!Next
<1>8. ASSUME NEW i \in Invocations,
             WriteReturnValue(i) \/ ReturnRefused(i) \/ WaitToRetry(i) \/ PopInvocation(i)
      PROVE  UNCHANGED Nesting!vars
  <2>1. cstack' = cstack
    BY <1>8 DEF WriteReturnValue, ReturnRefused, WaitToRetry, PopInvocation, cVars
  <2>2. CASE WriteReturnValue(i) \/ ReturnRefused(i) \/ WaitToRetry(i)
    BY <2>1, <2>2, InvocationsProcesses
    DEF WriteReturnValue, ReturnRefused, WaitToRetry, Returned, IInv, TypeOK, Nesting!vars
  <2>3. CASE PopInvocation(i)
    <3>1. Returned' = Returned
      BY <2>3, InvocationsProcesses DEF PopInvocation, Returned, IInv, TypeOK
    <3> QED
      BY <2>1, <3>1 DEF Nesting!vars
  <2> QED
    BY <1>8, <2>2, <2>3
<1>9. CASE Rest \/ UNCHANGED vars
  BY <1>9 DEF Rest, vars, cVars, Returned, Nesting!vars
<1> QED
  BY <1>1, <1>2, <1>3, <1>4, <1>5, <1>6, <1>7, <1>8, <1>9 DEF Next

\* Callouts and callbacks through the same-thread runner nest like ordinary
\* calls (NestedCalls), though any process may call and handlers race to return.
THEOREM CallsNest == Spec => ImplementsNesting
<1>1. Init => Nesting!Init
  BY InvocationsProcesses, SameThreadAssumption DEF Init, Nesting!Init, Returned
<1> QED
  BY <1>1, Invariance, NestingStep, PTL DEF Spec, ImplementsNesting, Nesting!Spec
==============================================================================
