------------------------- MODULE WorkerNestingProofs -------------------------
(***************************************************************************)
(* Proofs about the programs whose callbacks the worker runner handles in  *)
(* order: one process calls out, and only the functions it calls call      *)
(* back, at any depth.  Then at most one callback is in motion at a time,  *)
(* and from this it follows that the callback stack of C and the one of    *)
(* the image agree, and that calls nest as NestedCalls says.               *)
(***************************************************************************)
EXTENDS WorkerCallbacksProofs

\* Callbacks in motion: on the way to their handler, or with a handler that is
\* not waiting for a function and has not returned.
Busy == {i \in Invocations : cpc[i] \in Active /\ pc[i] \notin {"calling", "returned", "done"}}

\* At most one callback is in motion.
Exclusive == \A i, j \in Busy : i = j

\* m is the newest invocation of S, or NULL if there is none.
IsNewest(m, S) == IF S = {} THEN m = NULL ELSE m \in S /\ \A j \in S : j <= m

\* callbackStack and previous link the live invocations, newest first.
ListInv ==
  /\ IsNewest(callbackStack, Live)
  /\ \A i \in Live : IsNewest(previous[i], {j \in Live : j < i})

\* The image's stack holds handled invocations, newest first.
OrderInv ==
  /\ \A n \in 1..Len(invocationStack) : pc[invocationStack[n]] # "none"
  /\ \A m, n \in 1..Len(invocationStack) : m < n => invocationStack[m] > invocationStack[n]

\* Invocations are numbered as they are entered, and one whose handler has not
\* been started is the newest.
NewestInv ==
  /\ \A i, j \in Invocations : cpc[i] = "none" /\ i < j => cpc[j] = "none"
  /\ \A i, j \in Invocations :
       cpc[i] \in Active /\ pc[i] = "none" /\ cpc[j] # "none" => j <= i

\* The two-step updates of callbackStack are not interleaved.
UpdateInv ==
  /\ \A i \in Invocations : cpc[i] = "loaded" => previous[i] = callbackStack
  /\ \A i \in Invocations : pc[i] \in {"accepted", "popping"} => callbackStack = i
  /\ \A i \in Invocations : pc[i] = "popping" => below = previous[i]

Agree == ListInv /\ OrderInv /\ NewestInv /\ UpdateInv

------------------------------------------------------------------------------
\* IsNewest describes what Newest chooses.
LEMMA NewestIs ==
  ASSUME NEW S \in SUBSET Invocations, NEW m, IsNewest(m, S)
  PROVE  m = Newest(S)
<1>1. CASE S = {}
  BY <1>1 DEF IsNewest, Newest
<1>2. CASE S # {}
  <2>1. m \in S /\ \A j \in S : j <= m
    BY <1>2 DEF IsNewest
  <2> DEFINE c == CHOOSE i \in S : \A j \in S : j <= i
  <2>2. c \in S /\ \A j \in S : j <= c
    BY <2>1
  <2> HIDE DEF c
  <2>3. m \in Int /\ c \in Int
    <3>1. \A k \in Invocations : k \in Int
      BY DEF Invocations
    <3> QED
      BY <2>1, <2>2, <3>1
  <2>4. m = c
    BY <2>1, <2>2, <2>3
  <2> QED
    BY <1>2, <2>4 DEF Newest, c
<1> QED
  BY <1>1, <1>2

\* The parts of Agree imply StacksAgree.
LEMMA AgreeImplies == Agree => StacksAgree
<1> SUFFICES ASSUME Agree PROVE StacksAgree
  OBVIOUS
<1>1. Live \in SUBSET Invocations
  BY DEF Live
<1>2. callbackStack = Newest(Live)
  BY <1>1, NewestIs DEF Agree, ListInv
<1>3. \A i \in Live : previous[i] = Newest({j \in Live : j < i})
  <2> TAKE i \in Live
  <2>1. {j \in Live : j < i} \in SUBSET Invocations
    BY <1>1
  <2> QED
    BY <2>1, NewestIs DEF Agree, ListInv
<1> QED
  BY <1>2, <1>3 DEF StacksAgree, Agree, OrderInv

\* What the steps need of the types.
LEMMA Types ==
  ASSUME IInv
  PROVE  /\ pc \in [Processes -> Labels] /\ cpc \in [Invocations -> FrameLabels]
         /\ previous \in [Invocations -> Invocations \cup {NULL}]
         /\ Invocations \subseteq Processes /\ Invocations \subseteq Nat
         /\ NULL \notin Invocations /\ fetched \in Invocations \cup {NULL}
         /\ invocationStack \in Seq(Invocations) /\ Len(invocationStack) \in Nat
         /\ \A n \in 1..Len(invocationStack) : invocationStack[n] \in Invocations
<1>1. invocationStack \in Seq(Invocations)
  BY DEF IInv, TypeOK
<1>2. \A n \in 1..Len(invocationStack) : invocationStack[n] \in Invocations
  BY <1>1
<1>3. Len(invocationStack) \in Nat
  BY <1>1
<1>4. fetched \in Invocations \cup {NULL}
  BY DEF IInv, TypeOK
<1> QED
  BY <1>1, <1>2, <1>3, <1>4, TypeFacts DEF IInv

\* A callback that is entered, on its way to the image, accepted or popped is in
\* motion when C waits for it.
LEMMA BusyFacts ==
  ASSUME IInv, FrameOutlivesHandler, NEW i \in Invocations
  PROVE  /\ cpc[i] \in {"loaded", "pushed"} => i \in Busy
         /\ cpc[i] \in Active /\ pc[i] = "none" => i \in Busy
         /\ pc[i] \in {"accepted", "popping"} => i \in Busy /\ i \in Live
<1>1. cpc[i] \in {"loaded", "pushed"} => pc[i] = "none"
  BY DEF IInv, ThreadInv, Unposted
<1>2. pc[i] \in {"accepted", "popping"} => cpc[i] = "waiting"
  BY DEF IInv, VMInv, Posted, FrameOutlivesHandler, Returned
<1> QED
  BY <1>1, <1>2 DEF Busy, Active, Live, Returned

\* What the steps below start from: a callback is entered only when none is in motion.
Hyp ==
  /\ IInv /\ Agree /\ Exclusive /\ FrameOutlivesHandler /\ FrameOutlivesHandler'
  /\ \A t \in Threads : EnterCallback(t) => Busy = {}

\* The linked list keeps holding the live invocations, newest first.
LEMMA ListStep == Hyp /\ [Next]_vars => ListInv'
<1> SUFFICES ASSUME Hyp, [Next]_vars PROVE ListInv'
  OBVIOUS
<1>a. /\ pc \in [Processes -> Labels] /\ cpc \in [Invocations -> FrameLabels]
      /\ previous \in [Invocations -> Invocations \cup {NULL}]
      /\ Invocations \subseteq Processes /\ Invocations \subseteq Nat
      /\ NULL \notin Invocations /\ fetched \in Invocations \cup {NULL}
  BY Types DEF Hyp
<1>1. ASSUME NEW p \in Processes, StartCallout(p) PROVE ListInv'
  <2>1. callbackStack' = callbackStack /\ previous' = previous
    BY <1>1 DEF StartCallout, cVars
  <2>2. Live' = Live
    BY <1>1, <1>a DEF StartCallout, cVars, imageVars, Live, Returned
  <2> QED
    BY <2>1, <2>2 DEF Hyp, Agree, ListInv, IsNewest
<1>2. ASSUME NEW p \in Processes, FinishCallout(p) PROVE ListInv'
  <2>1. callbackStack' = callbackStack /\ previous' = previous
    BY <1>2 DEF FinishCallout, cVars
  <2>2. Live' = Live
    BY <1>2, <1>a DEF FinishCallout, cVars, imageVars, Live, Returned
  <2> QED
    BY <2>1, <2>2 DEF Hyp, Agree, ListInv, IsNewest
<1>3. CASE RunCallout
  <2>1. callbackStack' = callbackStack /\ previous' = previous
    BY <1>3 DEF RunCallout, cVars
  <2>2. Live' = Live
    BY <1>3, <1>a DEF RunCallout, cVars, imageVars, Live, Returned
  <2> QED
    BY <2>1, <2>2 DEF Hyp, Agree, ListInv, IsNewest
<1>4. CASE EndCallout
  <2>1. callbackStack' = callbackStack /\ previous' = previous
    BY <1>4 DEF EndCallout, cVars
  <2>2. Live' = Live
    BY <1>4, <1>a DEF EndCallout, cVars, imageVars, Live, Returned
  <2> QED
    BY <2>1, <2>2 DEF Hyp, Agree, ListInv, IsNewest
<1>5. CASE RunReturnToForeign
  <2>1. callbackStack' = callbackStack /\ previous' = previous
    BY <1>5 DEF RunReturnToForeign, cVars
  <2>2. Live' = Live
    BY <1>5, <1>a DEF RunReturnToForeign, cVars, imageVars, Live, Returned
  <2> QED
    BY <2>1, <2>2 DEF Hyp, Agree, ListInv, IsNewest
<1>6. CASE RunReturn
  <2>1. callbackStack' = callbackStack /\ previous' = previous /\ pc' = pc
    BY <1>6 DEF RunReturn
  <2>2. \A i \in Invocations : cpc'[i] # cpc[i] => cpc'[i] = "resumed"
    BY <1>6, <1>a, RunReturnFacts DEF Hyp
  <2>3. \A i \in Invocations : cpc'[i] = "resumed" => i \in Returned
    BY <2>1 DEF Hyp, FrameOutlivesHandler, Returned
  <2>4. Live' = Live
    BY <2>1, <2>2, <2>3 DEF Live, Returned
  <2> QED
    BY <2>1, <2>4 DEF Hyp, Agree, ListInv, IsNewest
<1>7. ASSUME NEW t \in Threads, EnterCallback(t) PROVE ListInv'
  <2>1. PICK i \in Invocations :
           /\ cpc[i] = "none" /\ cpc' = [cpc EXCEPT ![i] = "loaded"]
           /\ previous' = [previous EXCEPT ![i] = callbackStack]
    BY <1>7, EnterFacts DEF Hyp
  <2>2. callbackStack' = callbackStack /\ pc' = pc
    BY <1>7 DEF EnterCallback
  <2>3. Live' = Live /\ i \notin Live
    BY <2>1, <2>2, <1>a DEF Live, Returned
  <2>4. \A j \in Live : previous'[j] = previous[j]
    BY <2>1, <2>3, <1>a DEF Live
  <2> QED
    BY <2>2, <2>3, <2>4 DEF Hyp, Agree, ListInv, IsNewest
<1>8. ASSUME NEW i \in Invocations, PushCallback(i) PROVE ListInv'
  <2>1. /\ callbackStack' = i /\ previous' = previous /\ pc' = pc /\ cpc[i] = "loaded"
        /\ cpc' = [cpc EXCEPT ![i] = "pushed"]
    BY <1>8 DEF PushCallback, imageVars
  <2>2. pc[i] = "none"
    BY <2>1 DEF Hyp, IInv, ThreadInv, Unposted
  <2>3. Live' = Live \cup {i} /\ i \notin Live /\ Live \subseteq Invocations
    BY <2>1, <2>2, <1>a DEF Live, Returned
  <2>4. \A j \in Live : j < i
    <3> TAKE j \in Live
    <3>1. j \in Invocations /\ cpc[j] # "none" /\ j # i
      BY <2>3 DEF Live
    <3>2. j <= i
      BY <2>1, <2>2, <3>1 DEF Hyp, Agree, NewestInv, Active
    <3> QED
      BY <3>1, <3>2, <1>a
  <2>5. \A j \in Live : {k \in Live' : k < j} = {k \in Live : k < j}
    BY <2>3, <2>4, <1>a
  <2>6. {k \in Live' : k < i} = Live
    <3>1. i \in Int /\ ~(i < i)
      BY <1>a
    <3> QED
      BY <2>3, <2>4, <3>1
  <2>7. previous[i] = callbackStack
    BY <2>1 DEF Hyp, Agree, UpdateInv
  <2>8. IsNewest(callbackStack', Live')
    BY <2>1, <2>3, <2>4, <1>a DEF IsNewest
  <2>9. \A j \in Live' : IsNewest(previous'[j], {k \in Live' : k < j})
    <3> TAKE j \in Live'
    <3>1. CASE j = i
      BY <2>1, <2>6, <2>7, <3>1 DEF Hyp, Agree, ListInv
    <3>2. CASE j \in Live
      BY <2>1, <2>5, <3>2 DEF Hyp, Agree, ListInv
    <3> QED
      BY <2>3, <3>1, <3>2
  <2> QED
    BY <2>8, <2>9 DEF ListInv, IsNewest
<1>9. ASSUME NEW i \in Invocations, PostCallback(i) PROVE ListInv'
  <2>1. callbackStack' = callbackStack /\ previous' = previous
    BY <1>9 DEF PostCallback, cVars
  <2>2. Live' = Live
    BY <1>9, <1>a DEF PostCallback, cVars, imageVars, Live, Returned
  <2> QED
    BY <2>1, <2>2 DEF Hyp, Agree, ListInv, IsNewest
<1>10. ASSUME NEW i \in Invocations, ResumeForeign(i) PROVE ListInv'
  <2>1. callbackStack' = callbackStack /\ previous' = previous /\ pc' = pc
        /\ cpc' = [cpc EXCEPT ![i] = "resumed"]
    BY <1>10 DEF ResumeForeign, cVars
  <2>2. i \in Returned
    BY <1>10 DEF ResumeForeign, Hyp, IInv, ForeignInv
  <2>3. Live' = Live
    BY <2>1, <2>2, <1>a DEF Live, Returned
  <2> QED
    BY <2>1, <2>3 DEF Hyp, Agree, ListInv, IsNewest
<1>11. CASE FetchCallback
  <2>1. callbackStack' = callbackStack /\ previous' = previous
    BY <1>11 DEF FetchCallback, cVars
  <2>2. Live' = Live
    BY <1>11, <1>a DEF FetchCallback, cVars, imageVars, Live, Returned
  <2> QED
    BY <2>1, <2>2 DEF Hyp, Agree, ListInv, IsNewest
<1>12. CASE ExecuteCallback
  <2>1. callbackStack' = callbackStack /\ previous' = previous
    BY <1>12 DEF ExecuteCallback, cVars
  <2>2. Live' = Live
    BY <1>12, <1>a DEF ExecuteCallback, cVars, imageVars, Live, Returned, Hyp, IInv, QueueInv
  <2> QED
    BY <2>1, <2>2 DEF Hyp, Agree, ListInv, IsNewest
<1>13. ASSUME NEW i \in Invocations, WriteReturnValue(i) PROVE ListInv'
  <2>1. callbackStack' = callbackStack /\ previous' = previous
    BY <1>13 DEF WriteReturnValue, cVars
  <2>2. Live' = Live
    BY <1>13, <1>a DEF WriteReturnValue, cVars, imageVars, Live, Returned
  <2> QED
    BY <2>1, <2>2 DEF Hyp, Agree, ListInv, IsNewest
<1>14. ASSUME NEW i \in Invocations, ReturnOfOldSession(i) PROVE ListInv'
  <2>1. callbackStack' = callbackStack /\ previous' = previous
    BY <1>14 DEF ReturnOfOldSession, cVars
  <2>2. Live' = Live
    BY <1>14, <1>a DEF ReturnOfOldSession, cVars, imageVars, Live, Returned
  <2> QED
    BY <2>1, <2>2 DEF Hyp, Agree, ListInv, IsNewest
<1>15. ASSUME NEW i \in Invocations, ReturnAccepted(i) PROVE ListInv'
  <2>1. callbackStack' = callbackStack /\ previous' = previous
    BY <1>15 DEF ReturnAccepted, cVars
  <2>2. Live' = Live
    BY <1>15, <1>a DEF ReturnAccepted, cVars, imageVars, Live, Returned
  <2> QED
    BY <2>1, <2>2 DEF Hyp, Agree, ListInv, IsNewest
<1>16. ASSUME NEW i \in Invocations, ReturnRefused(i) PROVE ListInv'
  <2>1. callbackStack' = callbackStack /\ previous' = previous
    BY <1>16 DEF ReturnRefused, cVars
  <2>2. Live' = Live
    BY <1>16, <1>a DEF ReturnRefused, cVars, imageVars, Live, Returned
  <2> QED
    BY <2>1, <2>2 DEF Hyp, Agree, ListInv, IsNewest
<1>17. ASSUME NEW i \in Invocations, WaitToRetry(i) PROVE ListInv'
  <2>1. callbackStack' = callbackStack /\ previous' = previous
    BY <1>17 DEF WaitToRetry, cVars
  <2>2. Live' = Live
    BY <1>17, <1>a DEF WaitToRetry, cVars, imageVars, Live, Returned
  <2> QED
    BY <2>1, <2>2 DEF Hyp, Agree, ListInv, IsNewest
<1>18. ASSUME NEW i \in Invocations, PopLoad(i) PROVE ListInv'
  <2>1. callbackStack' = callbackStack /\ previous' = previous
    BY <1>18 DEF PopLoad, cVars
  <2>2. Live' = Live
    BY <1>18, <1>a DEF PopLoad, cVars, imageVars, Live, Returned
  <2> QED
    BY <2>1, <2>2 DEF Hyp, Agree, ListInv, IsNewest
<1>19. ASSUME NEW i \in Invocations, PopStore(i) PROVE ListInv'
  <2>1. /\ callbackStack' = below /\ previous' = previous /\ cpc' = cpc
        /\ pc[i] = "popping" /\ pc' = [pc EXCEPT ![i] = "returned"]
    BY <1>19 DEF PopStore, cVars
  <2>2. Live' = Live \ {i} /\ Live \subseteq Invocations
    BY <2>1, <1>a DEF Live, Returned
  <2>3. i \in Live
    BY <2>1, BusyFacts DEF Hyp
  <2>4. callbackStack = i /\ below = previous[i]
    BY <2>1 DEF Hyp, Agree, UpdateInv
  <2>5. \A j \in Live : j <= i
    BY <2>3, <2>4 DEF Hyp, Agree, ListInv, IsNewest
  <2>6. {j \in Live : j < i} = Live'
    <3>1. \A j \in Live : j < i <=> j # i
      BY <2>2, <2>3, <2>5, <1>a
    <3> QED
      BY <2>2, <3>1
  <2>7. \A j \in Live' : {k \in Live' : k < j} = {k \in Live : k < j}
    BY <2>2, <2>3, <2>5, <1>a
  <2>8. IsNewest(callbackStack', Live')
    BY <2>1, <2>3, <2>4, <2>6 DEF Hyp, Agree, ListInv
  <2>9. \A j \in Live' : IsNewest(previous'[j], {k \in Live' : k < j})
    BY <2>1, <2>2, <2>7 DEF Hyp, Agree, ListInv
  <2> QED
    BY <2>8, <2>9 DEF ListInv, IsNewest
<1>20. ASSUME NEW i \in Invocations, PopInvocation(i) PROVE ListInv'
  <2>1. callbackStack' = callbackStack /\ previous' = previous
    BY <1>20 DEF PopInvocation, cVars
  <2>2. Live' = Live
    BY <1>20, <1>a DEF PopInvocation, cVars, imageVars, Live, Returned
  <2> QED
    BY <2>1, <2>2 DEF Hyp, Agree, ListInv, IsNewest
<1>21. CASE Restart
  <2>1. callbackStack' = NULL /\ Live' = {}
    BY <1>21 DEF Restart, Live
  <2> QED
    BY <2>1 DEF ListInv, IsNewest
<1>22. CASE Rest \/ UNCHANGED vars
  BY <1>22, <1>a DEF Rest, vars, cVars, imageVars, Live, Returned, Hyp, Agree, ListInv, IsNewest
<1> QED
  BY <1>1, <1>2, <1>3, <1>4, <1>5, <1>6, <1>7, <1>8, <1>9, <1>10, <1>11,
     <1>12, <1>13, <1>14, <1>15, <1>16, <1>17, <1>18, <1>19, <1>20, <1>21,
     <1>22 DEF Next, Thread, Image

\* The image's stack keeps its order.
LEMMA OrderStep == Hyp /\ [Next]_vars => OrderInv'
<1> SUFFICES ASSUME Hyp, [Next]_vars PROVE OrderInv'
  OBVIOUS
<1>a. /\ pc \in [Processes -> Labels] /\ cpc \in [Invocations -> FrameLabels]
      /\ previous \in [Invocations -> Invocations \cup {NULL}]
      /\ Invocations \subseteq Processes /\ Invocations \subseteq Nat
      /\ NULL \notin Invocations /\ fetched \in Invocations \cup {NULL}
  BY Types DEF Hyp
<1>b. /\ invocationStack \in Seq(Invocations) /\ Len(invocationStack) \in Nat
      /\ \A n \in 1..Len(invocationStack) : invocationStack[n] \in Invocations
  BY Types DEF Hyp
<1>1. ASSUME NEW p \in Processes, StartCallout(p) PROVE OrderInv'
  <2>1. invocationStack' = invocationStack
    BY <1>1 DEF StartCallout, imageVars
  <2>2. \A j \in Invocations : pc[j] # "none" => pc'[j] # "none"
    BY <1>1, <1>a DEF StartCallout
  <2> QED
    BY <2>1, <2>2, <1>b DEF Hyp, Agree, OrderInv
<1>2. ASSUME NEW p \in Processes, FinishCallout(p) PROVE OrderInv'
  <2>1. invocationStack' = invocationStack
    BY <1>2 DEF FinishCallout, imageVars
  <2>2. \A j \in Invocations : pc[j] # "none" => pc'[j] # "none"
    BY <1>2, <1>a DEF FinishCallout
  <2> QED
    BY <2>1, <2>2, <1>b DEF Hyp, Agree, OrderInv
<1>3. CASE RunCallout
  <2>1. invocationStack' = invocationStack /\ pc' = pc
    BY <1>3 DEF RunCallout, imageVars
  <2> QED
    BY <2>1 DEF Hyp, Agree, OrderInv
<1>4. CASE EndCallout
  <2>1. invocationStack' = invocationStack /\ pc' = pc
    BY <1>4 DEF EndCallout, imageVars
  <2> QED
    BY <2>1 DEF Hyp, Agree, OrderInv
<1>5. CASE RunReturnToForeign
  <2>1. invocationStack' = invocationStack /\ pc' = pc
    BY <1>5 DEF RunReturnToForeign, imageVars
  <2> QED
    BY <2>1 DEF Hyp, Agree, OrderInv
<1>6. CASE RunReturn
  <2>1. invocationStack' = invocationStack /\ pc' = pc
    BY <1>6 DEF RunReturn, imageVars
  <2> QED
    BY <2>1 DEF Hyp, Agree, OrderInv
<1>7. ASSUME NEW t \in Threads, EnterCallback(t) PROVE OrderInv'
  <2>1. invocationStack' = invocationStack /\ pc' = pc
    BY <1>7 DEF EnterCallback, imageVars
  <2> QED
    BY <2>1 DEF Hyp, Agree, OrderInv
<1>8. ASSUME NEW i \in Invocations, PushCallback(i) PROVE OrderInv'
  <2>1. invocationStack' = invocationStack /\ pc' = pc
    BY <1>8 DEF PushCallback, imageVars
  <2> QED
    BY <2>1 DEF Hyp, Agree, OrderInv
<1>9. ASSUME NEW i \in Invocations, PostCallback(i) PROVE OrderInv'
  <2>1. invocationStack' = invocationStack /\ pc' = pc
    BY <1>9 DEF PostCallback, imageVars
  <2> QED
    BY <2>1 DEF Hyp, Agree, OrderInv
<1>10. ASSUME NEW i \in Invocations, ResumeForeign(i) PROVE OrderInv'
  <2>1. invocationStack' = invocationStack /\ pc' = pc
    BY <1>10 DEF ResumeForeign, imageVars
  <2> QED
    BY <2>1 DEF Hyp, Agree, OrderInv
<1>11. CASE FetchCallback
  <2>1. invocationStack' = invocationStack /\ pc' = pc
    BY <1>11 DEF FetchCallback, imageVars
  <2> QED
    BY <2>1 DEF Hyp, Agree, OrderInv
<1>12. CASE ExecuteCallback
  <2>1. /\ fetched \in Invocations /\ pc' = [pc EXCEPT ![fetched] = "body"]
        /\ invocationStack' = <<fetched>> \o invocationStack
    BY <1>12, <1>a DEF ExecuteCallback
  <2>2. cpc[fetched] = "waiting" /\ pc[fetched] = "none"
    BY <2>1, <1>a DEF Hyp, IInv, QueueInv, Posted, FrameOutlivesHandler, Returned
  <2>3. \A n \in 1..Len(invocationStack) : fetched > invocationStack[n]
    <3> TAKE n \in 1..Len(invocationStack)
    <3>1. /\ invocationStack[n] \in Invocations /\ pc[invocationStack[n]] # "none"
          /\ invocationStack[n] # fetched
      BY <1>b, <2>2 DEF Hyp, Agree, OrderInv
    <3>2. cpc[invocationStack[n]] # "none"
      BY <3>1 DEF Hyp, IInv, ThreadInv, Unposted
    <3>3. invocationStack[n] <= fetched
      BY <2>1, <2>2, <3>1, <3>2 DEF Hyp, Agree, NewestInv, Active
    <3>4. fetched \in Int /\ invocationStack[n] \in Int
      <4>1. \A k \in Invocations : k \in Int
        BY DEF Invocations
      <4> QED
        BY <2>1, <3>1, <4>1
    <3> QED
      BY <3>1, <3>3, <3>4
  <2>4. /\ Len(invocationStack') = Len(invocationStack) + 1 /\ invocationStack'[1] = fetched
        /\ \A n \in 2..(Len(invocationStack) + 1) : invocationStack'[n] = invocationStack[n - 1]
    BY <1>b, <2>1, PushProperties
  <2>5. \A n \in 1..Len(invocationStack') : pc'[invocationStack'[n]] # "none"
    <3> TAKE n \in 1..Len(invocationStack')
    <3>1. CASE n = 1
      BY <2>1, <2>4, <3>1, <1>a
    <3>2. CASE n # 1
      <4>1. n - 1 \in 1..Len(invocationStack) /\ invocationStack'[n] = invocationStack[n - 1]
        BY <1>b, <2>4, <3>2
      <4> QED
        BY <1>a, <1>b, <2>1, <4>1 DEF Hyp, Agree, OrderInv
    <3> QED
      BY <3>1, <3>2
  <2>6. \A m, n \in 1..Len(invocationStack') : m < n => invocationStack'[m] > invocationStack'[n]
    <3> SUFFICES ASSUME NEW m \in 1..Len(invocationStack'), NEW n \in 1..Len(invocationStack'), m < n
                 PROVE  invocationStack'[m] > invocationStack'[n]
      OBVIOUS
    <3>1. n - 1 \in 1..Len(invocationStack) /\ invocationStack'[n] = invocationStack[n - 1]
      BY <1>b, <2>4
    <3>2. CASE m = 1
      BY <2>3, <2>4, <3>1, <3>2
    <3>3. CASE m # 1
      <4>1. /\ m - 1 \in 1..Len(invocationStack) /\ invocationStack'[m] = invocationStack[m - 1]
            /\ m - 1 < n - 1
        BY <1>b, <2>4, <3>3
      <4> QED
        BY <3>1, <4>1 DEF Hyp, Agree, OrderInv
    <3> QED
      BY <3>2, <3>3
  <2> QED
    BY <2>5, <2>6 DEF OrderInv
<1>13. ASSUME NEW i \in Invocations, WriteReturnValue(i) PROVE OrderInv'
  <2>1. invocationStack' = invocationStack
    BY <1>13 DEF WriteReturnValue, imageVars
  <2>2. \A j \in Invocations : pc[j] # "none" => pc'[j] # "none"
    BY <1>13, <1>a DEF WriteReturnValue
  <2> QED
    BY <2>1, <2>2, <1>b DEF Hyp, Agree, OrderInv
<1>14. ASSUME NEW i \in Invocations, ReturnOfOldSession(i) PROVE OrderInv'
  <2>1. invocationStack' = invocationStack
    BY <1>14 DEF ReturnOfOldSession, imageVars
  <2>2. \A j \in Invocations : pc[j] # "none" => pc'[j] # "none"
    BY <1>14, <1>a DEF ReturnOfOldSession
  <2> QED
    BY <2>1, <2>2, <1>b DEF Hyp, Agree, OrderInv
<1>15. ASSUME NEW i \in Invocations, ReturnAccepted(i) PROVE OrderInv'
  <2>1. invocationStack' = invocationStack
    BY <1>15 DEF ReturnAccepted, imageVars
  <2>2. \A j \in Invocations : pc[j] # "none" => pc'[j] # "none"
    BY <1>15, <1>a DEF ReturnAccepted
  <2> QED
    BY <2>1, <2>2, <1>b DEF Hyp, Agree, OrderInv
<1>16. ASSUME NEW i \in Invocations, ReturnRefused(i) PROVE OrderInv'
  <2>1. invocationStack' = invocationStack
    BY <1>16 DEF ReturnRefused, imageVars
  <2>2. \A j \in Invocations : pc[j] # "none" => pc'[j] # "none"
    BY <1>16, <1>a DEF ReturnRefused
  <2> QED
    BY <2>1, <2>2, <1>b DEF Hyp, Agree, OrderInv
<1>17. ASSUME NEW i \in Invocations, WaitToRetry(i) PROVE OrderInv'
  <2>1. invocationStack' = invocationStack
    BY <1>17 DEF WaitToRetry, imageVars
  <2>2. \A j \in Invocations : pc[j] # "none" => pc'[j] # "none"
    BY <1>17, <1>a DEF WaitToRetry
  <2> QED
    BY <2>1, <2>2, <1>b DEF Hyp, Agree, OrderInv
<1>18. ASSUME NEW i \in Invocations, PopLoad(i) PROVE OrderInv'
  <2>1. invocationStack' = invocationStack
    BY <1>18 DEF PopLoad, imageVars
  <2>2. \A j \in Invocations : pc[j] # "none" => pc'[j] # "none"
    BY <1>18, <1>a DEF PopLoad
  <2> QED
    BY <2>1, <2>2, <1>b DEF Hyp, Agree, OrderInv
<1>19. ASSUME NEW i \in Invocations, PopStore(i) PROVE OrderInv'
  <2>1. invocationStack' = invocationStack
    BY <1>19 DEF PopStore, imageVars
  <2>2. \A j \in Invocations : pc[j] # "none" => pc'[j] # "none"
    BY <1>19, <1>a DEF PopStore
  <2> QED
    BY <2>1, <2>2, <1>b DEF Hyp, Agree, OrderInv
<1>20. ASSUME NEW i \in Invocations, PopInvocation(i) PROVE OrderInv'
  <2>1. \A j \in Invocations : pc[j] # "none" => pc'[j] # "none"
    BY <1>20, <1>a DEF PopInvocation
  <2>2. CASE invocationStack = <<>>
    BY <1>20, <2>2 DEF PopInvocation, OrderInv
  <2>3. CASE invocationStack # <<>>
    <3>1. /\ Len(invocationStack') = Len(invocationStack) - 1
          /\ \A n \in 1..Len(invocationStack') : invocationStack'[n] = invocationStack[n + 1]
      BY <1>20, <1>b, <2>3, HeadTailProperties DEF PopInvocation
    <3>2. \A n \in 1..Len(invocationStack') : pc'[invocationStack'[n]] # "none"
      <4> TAKE n \in 1..Len(invocationStack')
      <4>1. n + 1 \in 1..Len(invocationStack) /\ invocationStack'[n] = invocationStack[n + 1]
        BY <1>b, <3>1
      <4> QED
        BY <1>b, <2>1, <4>1 DEF Hyp, Agree, OrderInv
    <3>3. \A m, n \in 1..Len(invocationStack') : m < n => invocationStack'[m] > invocationStack'[n]
      <4> TAKE m, n \in 1..Len(invocationStack')
      <4>1. m + 1 \in 1..Len(invocationStack) /\ n + 1 \in 1..Len(invocationStack)
            /\ (m < n => m + 1 < n + 1)
        BY <1>b, <3>1
      <4> QED
        BY <3>1, <4>1 DEF Hyp, Agree, OrderInv
    <3> QED
      BY <3>2, <3>3 DEF OrderInv
  <2> QED
    BY <2>2, <2>3
<1>21. CASE Restart
  BY <1>21 DEF Restart, OrderInv
<1>22. CASE Rest \/ UNCHANGED vars
  BY <1>22, <1>a DEF Rest, vars, cVars, imageVars, Hyp, Agree, OrderInv
<1> QED
  BY <1>1, <1>2, <1>3, <1>4, <1>5, <1>6, <1>7, <1>8, <1>9, <1>10, <1>11,
     <1>12, <1>13, <1>14, <1>15, <1>16, <1>17, <1>18, <1>19, <1>20, <1>21,
     <1>22 DEF Next, Thread, Image

\* An invocation stays the newest until its handler is started.
LEMMA NewestStep == Hyp /\ [Next]_vars => NewestInv'
<1> SUFFICES ASSUME Hyp, [Next]_vars PROVE NewestInv'
  OBVIOUS
<1>a. /\ pc \in [Processes -> Labels] /\ cpc \in [Invocations -> FrameLabels]
      /\ previous \in [Invocations -> Invocations \cup {NULL}]
      /\ Invocations \subseteq Processes /\ Invocations \subseteq Nat
      /\ NULL \notin Invocations /\ fetched \in Invocations \cup {NULL}
  BY Types DEF Hyp
<1>1. ASSUME NEW p \in Processes, StartCallout(p) PROVE NewestInv'
  <2>1. cpc' = cpc /\ \A j \in Invocations : pc'[j] = "none" => pc[j] = "none"
    BY <1>1, <1>a DEF StartCallout, cVars
  <2> QED
    BY <2>1 DEF Hyp, Agree, NewestInv
<1>2. ASSUME NEW p \in Processes, FinishCallout(p) PROVE NewestInv'
  <2>1. cpc' = cpc /\ \A j \in Invocations : pc'[j] = "none" => pc[j] = "none"
    BY <1>2, <1>a DEF FinishCallout, cVars
  <2> QED
    BY <2>1 DEF Hyp, Agree, NewestInv
<1>3. CASE RunCallout
  BY <1>3 DEF RunCallout, cVars, imageVars, Hyp, Agree, NewestInv
<1>4. CASE EndCallout
  BY <1>4 DEF EndCallout, cVars, imageVars, Hyp, Agree, NewestInv
<1>5. CASE RunReturnToForeign
  BY <1>5 DEF RunReturnToForeign, cVars, imageVars, Hyp, Agree, NewestInv
<1>6. CASE RunReturn
  <2>1. pc' = pc
    BY <1>6 DEF RunReturn
  <2>2. \A j \in Invocations : /\ cpc'[j] = "none" <=> cpc[j] = "none"
                               /\ cpc'[j] \in Active => cpc[j] \in Active
    BY <1>6, <1>a, RunReturnFacts DEF Hyp, Active, RunReturn
  <2> QED
    BY <2>1, <2>2 DEF Hyp, Agree, NewestInv
<1>7. ASSUME NEW t \in Threads, EnterCallback(t) PROVE NewestInv'
  <2>1. PICK i \in Invocations :
           /\ cpc[i] = "none" /\ \A j \in 1..(i - 1) : cpc[j] # "none"
           /\ cpc' = [cpc EXCEPT ![i] = "loaded"]
    BY <1>7, EnterFacts DEF Hyp
  <2>2. pc' = pc /\ \A j \in Invocations : ~(cpc[j] \in Active /\ pc[j] = "none")
    BY <1>7 DEF EnterCallback, Hyp, Busy
  <2>3. \A j \in Invocations : cpc'[j] = IF j = i THEN "loaded" ELSE cpc[j]
    BY <2>1, <1>a
  <2>4. \A j \in Invocations : j \in Int /\ (j < i => j \in 1..(i - 1))
    BY DEF Invocations
  <2>5. \A j, k \in Invocations : cpc'[j] = "none" /\ j < k => cpc'[k] = "none"
    <3> SUFFICES ASSUME NEW j \in Invocations, NEW k \in Invocations, cpc'[j] = "none", j < k
                 PROVE  cpc'[k] = "none"
      OBVIOUS
    <3>1. cpc[j] = "none" /\ ~(j < i)
      BY <2>1, <2>3, <2>4
    <3>2. k # i /\ cpc[k] = "none"
      BY <2>4, <3>1 DEF Hyp, Agree, NewestInv
    <3> QED
      BY <2>3, <3>2
  <2>6. \A j \in Invocations : cpc'[j] # "none" => j <= i
    BY <2>1, <2>3, <2>4 DEF Hyp, Agree, NewestInv
  <2> QED
    BY <2>2, <2>3, <2>5, <2>6 DEF NewestInv
<1>8. ASSUME NEW i \in Invocations, PushCallback(i) PROVE NewestInv'
  <2>1. pc' = pc
    BY <1>8 DEF PushCallback
  <2>2. \A j \in Invocations : /\ cpc'[j] = "none" <=> cpc[j] = "none"
                               /\ cpc'[j] \in Active => cpc[j] \in Active
    BY <1>8, <1>a DEF Active, PushCallback
  <2> QED
    BY <2>1, <2>2 DEF Hyp, Agree, NewestInv
<1>9. ASSUME NEW i \in Invocations, PostCallback(i) PROVE NewestInv'
  <2>1. pc' = pc
    BY <1>9 DEF PostCallback
  <2>2. \A j \in Invocations : /\ cpc'[j] = "none" <=> cpc[j] = "none"
                               /\ cpc'[j] \in Active => cpc[j] \in Active
    BY <1>9, <1>a DEF Active, PostCallback
  <2> QED
    BY <2>1, <2>2 DEF Hyp, Agree, NewestInv
<1>10. ASSUME NEW i \in Invocations, ResumeForeign(i) PROVE NewestInv'
  <2>1. pc' = pc
    BY <1>10 DEF ResumeForeign
  <2>2. \A j \in Invocations : /\ cpc'[j] = "none" <=> cpc[j] = "none"
                               /\ cpc'[j] \in Active => cpc[j] \in Active
    BY <1>10, <1>a DEF Active, ResumeForeign
  <2> QED
    BY <2>1, <2>2 DEF Hyp, Agree, NewestInv
<1>11. CASE FetchCallback
  BY <1>11 DEF FetchCallback, cVars, imageVars, Hyp, Agree, NewestInv
<1>12. CASE ExecuteCallback
  <2>1. cpc' = cpc /\ \A j \in Invocations : pc'[j] = "none" => pc[j] = "none"
    BY <1>12, <1>a DEF ExecuteCallback, cVars
  <2> QED
    BY <2>1 DEF Hyp, Agree, NewestInv
<1>13. ASSUME NEW i \in Invocations, WriteReturnValue(i) PROVE NewestInv'
  <2>1. cpc' = cpc /\ \A j \in Invocations : pc'[j] = "none" => pc[j] = "none"
    BY <1>13, <1>a DEF WriteReturnValue, cVars
  <2> QED
    BY <2>1 DEF Hyp, Agree, NewestInv
<1>14. ASSUME NEW i \in Invocations, ReturnOfOldSession(i) PROVE NewestInv'
  <2>1. cpc' = cpc /\ \A j \in Invocations : pc'[j] = "none" => pc[j] = "none"
    BY <1>14, <1>a DEF ReturnOfOldSession, cVars
  <2> QED
    BY <2>1 DEF Hyp, Agree, NewestInv
<1>15. ASSUME NEW i \in Invocations, ReturnAccepted(i) PROVE NewestInv'
  <2>1. cpc' = cpc /\ \A j \in Invocations : pc'[j] = "none" => pc[j] = "none"
    BY <1>15, <1>a DEF ReturnAccepted, cVars
  <2> QED
    BY <2>1 DEF Hyp, Agree, NewestInv
<1>16. ASSUME NEW i \in Invocations, ReturnRefused(i) PROVE NewestInv'
  <2>1. cpc' = cpc /\ \A j \in Invocations : pc'[j] = "none" => pc[j] = "none"
    BY <1>16, <1>a DEF ReturnRefused, cVars
  <2> QED
    BY <2>1 DEF Hyp, Agree, NewestInv
<1>17. ASSUME NEW i \in Invocations, WaitToRetry(i) PROVE NewestInv'
  <2>1. cpc' = cpc /\ \A j \in Invocations : pc'[j] = "none" => pc[j] = "none"
    BY <1>17, <1>a DEF WaitToRetry, cVars
  <2> QED
    BY <2>1 DEF Hyp, Agree, NewestInv
<1>18. ASSUME NEW i \in Invocations, PopLoad(i) PROVE NewestInv'
  <2>1. cpc' = cpc /\ \A j \in Invocations : pc'[j] = "none" => pc[j] = "none"
    BY <1>18, <1>a DEF PopLoad, cVars
  <2> QED
    BY <2>1 DEF Hyp, Agree, NewestInv
<1>19. ASSUME NEW i \in Invocations, PopStore(i) PROVE NewestInv'
  <2>1. cpc' = cpc /\ \A j \in Invocations : pc'[j] = "none" => pc[j] = "none"
    BY <1>19, <1>a DEF PopStore, cVars
  <2> QED
    BY <2>1 DEF Hyp, Agree, NewestInv
<1>20. ASSUME NEW i \in Invocations, PopInvocation(i) PROVE NewestInv'
  <2>1. cpc' = cpc /\ \A j \in Invocations : pc'[j] = "none" => pc[j] = "none"
    BY <1>20, <1>a DEF PopInvocation, cVars
  <2> QED
    BY <2>1 DEF Hyp, Agree, NewestInv
<1>21. CASE Restart
  <2>1. \A j \in Invocations : /\ cpc'[j] = "none" <=> cpc[j] = "none"
                               /\ cpc'[j] \notin Active
    BY <1>21 DEF Restart, Active
  <2> QED
    BY <2>1 DEF Hyp, Agree, NewestInv
<1>22. CASE Rest \/ UNCHANGED vars
  BY <1>22, <1>a DEF Rest, vars, cVars, imageVars, Hyp, Agree, NewestInv
<1> QED
  BY <1>1, <1>2, <1>3, <1>4, <1>5, <1>6, <1>7, <1>8, <1>9, <1>10, <1>11,
     <1>12, <1>13, <1>14, <1>15, <1>16, <1>17, <1>18, <1>19, <1>20, <1>21,
     <1>22 DEF Next, Thread, Image

\* Neither a push nor a pop is interleaved with another one.
LEMMA UpdateStep == Hyp /\ [Next]_vars => UpdateInv'
<1> SUFFICES ASSUME Hyp, [Next]_vars PROVE UpdateInv'
  OBVIOUS
<1>a. /\ pc \in [Processes -> Labels] /\ cpc \in [Invocations -> FrameLabels]
      /\ previous \in [Invocations -> Invocations \cup {NULL}]
      /\ Invocations \subseteq Processes /\ Invocations \subseteq Nat
      /\ NULL \notin Invocations /\ fetched \in Invocations \cup {NULL}
  BY Types DEF Hyp
<1>1. ASSUME NEW p \in Processes, StartCallout(p) PROVE UpdateInv'
  <2>1. /\ cpc' = cpc /\ previous' = previous /\ callbackStack' = callbackStack /\ below' = below
        /\ \A j \in Invocations : pc'[j] \in {"accepted", "popping"} => pc'[j] = pc[j]
    BY <1>1, <1>a DEF StartCallout, cVars
  <2> QED
    BY <2>1 DEF Hyp, Agree, UpdateInv
<1>2. ASSUME NEW p \in Processes, FinishCallout(p) PROVE UpdateInv'
  <2>1. /\ cpc' = cpc /\ previous' = previous /\ callbackStack' = callbackStack /\ below' = below
        /\ \A j \in Invocations : pc'[j] \in {"accepted", "popping"} => pc'[j] = pc[j]
    BY <1>2, <1>a DEF FinishCallout, cVars
  <2> QED
    BY <2>1 DEF Hyp, Agree, UpdateInv
<1>3. CASE RunCallout
  BY <1>3 DEF RunCallout, cVars, imageVars, Hyp, Agree, UpdateInv
<1>4. CASE EndCallout
  BY <1>4 DEF EndCallout, cVars, imageVars, Hyp, Agree, UpdateInv
<1>5. CASE RunReturnToForeign
  BY <1>5 DEF RunReturnToForeign, cVars, imageVars, Hyp, Agree, UpdateInv
<1>6. CASE RunReturn
  <2>1. pc' = pc /\ previous' = previous /\ callbackStack' = callbackStack /\ below' = below
    BY <1>6 DEF RunReturn
  <2>2. \A j \in Invocations : cpc'[j] = "loaded" => cpc[j] = "loaded"
    BY <1>6, <1>a, RunReturnFacts DEF Hyp, RunReturn
  <2> QED
    BY <2>1, <2>2 DEF Hyp, Agree, UpdateInv
<1>7. ASSUME NEW t \in Threads, EnterCallback(t) PROVE UpdateInv'
  <2>1. PICK i \in Invocations :
           /\ cpc[i] = "none" /\ pc[i] = "none" /\ cpc' = [cpc EXCEPT ![i] = "loaded"]
           /\ previous' = [previous EXCEPT ![i] = callbackStack]
    BY <1>7, EnterFacts DEF Hyp
  <2>2. callbackStack' = callbackStack /\ pc' = pc /\ below' = below
    BY <1>7 DEF EnterCallback
  <2> QED
    BY <2>1, <2>2, <1>a DEF Hyp, Agree, UpdateInv
<1>8. ASSUME NEW i \in Invocations, PushCallback(i) PROVE UpdateInv'
  <2>1. /\ pc' = pc /\ previous' = previous /\ callbackStack' = i /\ cpc[i] = "loaded"
        /\ cpc' = [cpc EXCEPT ![i] = "pushed"]
    BY <1>8 DEF PushCallback
  <2>2. \A j \in Invocations : cpc[j] = "loaded" \/ pc[j] \in {"accepted", "popping"} => j = i
    BY <2>1, BusyFacts DEF Hyp, Exclusive
  <2>3. pc[i] = "none"
    BY <2>1 DEF Hyp, IInv, ThreadInv, Unposted
  <2> QED
    BY <2>1, <2>2, <2>3, <1>a DEF UpdateInv
<1>9. ASSUME NEW i \in Invocations, PostCallback(i) PROVE UpdateInv'
  <2>1. pc' = pc /\ previous' = previous /\ callbackStack' = callbackStack /\ below' = below
    BY <1>9 DEF PostCallback
  <2>2. \A j \in Invocations : cpc'[j] = "loaded" => cpc[j] = "loaded"
    BY <1>9, <1>a DEF PostCallback
  <2> QED
    BY <2>1, <2>2 DEF Hyp, Agree, UpdateInv
<1>10. ASSUME NEW i \in Invocations, ResumeForeign(i) PROVE UpdateInv'
  <2>1. pc' = pc /\ previous' = previous /\ callbackStack' = callbackStack /\ below' = below
    BY <1>10 DEF ResumeForeign
  <2>2. \A j \in Invocations : cpc'[j] = "loaded" => cpc[j] = "loaded"
    BY <1>10, <1>a DEF ResumeForeign
  <2> QED
    BY <2>1, <2>2 DEF Hyp, Agree, UpdateInv
<1>11. CASE FetchCallback
  BY <1>11 DEF FetchCallback, cVars, imageVars, Hyp, Agree, UpdateInv
<1>12. CASE ExecuteCallback
  <2>1. /\ cpc' = cpc /\ previous' = previous /\ callbackStack' = callbackStack /\ below' = below
        /\ \A j \in Invocations : pc'[j] \in {"accepted", "popping"} => pc'[j] = pc[j]
    BY <1>12, <1>a DEF ExecuteCallback, cVars
  <2> QED
    BY <2>1 DEF Hyp, Agree, UpdateInv
<1>13. ASSUME NEW i \in Invocations, WriteReturnValue(i) PROVE UpdateInv'
  <2>1. /\ cpc' = cpc /\ previous' = previous /\ callbackStack' = callbackStack /\ below' = below
        /\ \A j \in Invocations : pc'[j] \in {"accepted", "popping"} => pc'[j] = pc[j]
    BY <1>13, <1>a DEF WriteReturnValue, cVars
  <2> QED
    BY <2>1 DEF Hyp, Agree, UpdateInv
<1>14. ASSUME NEW i \in Invocations, ReturnOfOldSession(i) PROVE UpdateInv'
  <2>1. /\ cpc' = cpc /\ previous' = previous /\ callbackStack' = callbackStack /\ below' = below
        /\ \A j \in Invocations : pc'[j] \in {"accepted", "popping"} => pc'[j] = pc[j]
    BY <1>14, <1>a DEF ReturnOfOldSession, cVars
  <2> QED
    BY <2>1 DEF Hyp, Agree, UpdateInv
<1>15. ASSUME NEW i \in Invocations, ReturnAccepted(i) PROVE UpdateInv'
  <2>1. /\ cpc' = cpc /\ previous' = previous /\ callbackStack' = callbackStack /\ below' = below
        /\ pc' = [pc EXCEPT ![i] = "accepted"] /\ callbackStack = i
    BY <1>15 DEF ReturnAccepted, cVars
  <2> QED
    BY <2>1, <1>a DEF Hyp, Agree, UpdateInv
<1>16. ASSUME NEW i \in Invocations, ReturnRefused(i) PROVE UpdateInv'
  <2>1. /\ cpc' = cpc /\ previous' = previous /\ callbackStack' = callbackStack /\ below' = below
        /\ \A j \in Invocations : pc'[j] \in {"accepted", "popping"} => pc'[j] = pc[j]
    BY <1>16, <1>a DEF ReturnRefused, cVars
  <2> QED
    BY <2>1 DEF Hyp, Agree, UpdateInv
<1>17. ASSUME NEW i \in Invocations, WaitToRetry(i) PROVE UpdateInv'
  <2>1. /\ cpc' = cpc /\ previous' = previous /\ callbackStack' = callbackStack /\ below' = below
        /\ \A j \in Invocations : pc'[j] \in {"accepted", "popping"} => pc'[j] = pc[j]
    BY <1>17, <1>a DEF WaitToRetry, cVars
  <2> QED
    BY <2>1 DEF Hyp, Agree, UpdateInv
<1>18. ASSUME NEW i \in Invocations, PopLoad(i) PROVE UpdateInv'
  <2>1. /\ cpc' = cpc /\ previous' = previous /\ callbackStack' = callbackStack
        /\ below' = previous[callbackStack]
        /\ pc' = [pc EXCEPT ![i] = "popping"] /\ pc[i] = "accepted"
    BY <1>18 DEF PopLoad, cVars
  <2>2. callbackStack = i
    BY <2>1 DEF Hyp, Agree, UpdateInv
  <2>3. \A j \in Invocations : pc[j] \in {"accepted", "popping"} => j = i
    BY <2>1, BusyFacts DEF Hyp, Exclusive
  <2> QED
    BY <2>1, <2>2, <2>3, <1>a DEF Hyp, Agree, UpdateInv
<1>19. ASSUME NEW i \in Invocations, PopStore(i) PROVE UpdateInv'
  <2>1. /\ cpc' = cpc /\ previous' = previous
        /\ pc' = [pc EXCEPT ![i] = "returned"] /\ pc[i] = "popping"
    BY <1>19 DEF PopStore, cVars
  <2>2. \A j \in Invocations : cpc[j] = "loaded" \/ pc[j] \in {"accepted", "popping"} => j = i
    BY <2>1, BusyFacts DEF Hyp, Exclusive
  <2>3. cpc[i] # "loaded"
    BY <2>1 DEF Hyp, IInv, VMInv, Posted
  <2> QED
    BY <2>1, <2>2, <2>3, <1>a DEF UpdateInv
<1>20. ASSUME NEW i \in Invocations, PopInvocation(i) PROVE UpdateInv'
  <2>1. /\ cpc' = cpc /\ previous' = previous /\ callbackStack' = callbackStack /\ below' = below
        /\ \A j \in Invocations : pc'[j] \in {"accepted", "popping"} => pc'[j] = pc[j]
    BY <1>20, <1>a DEF PopInvocation, cVars
  <2> QED
    BY <2>1 DEF Hyp, Agree, UpdateInv
<1>21. CASE Restart
  <2>1. \A j \in Invocations : cpc'[j] # "loaded" /\ pc'[j] \notin {"accepted", "popping"}
    BY <1>21, <1>a DEF Restart, Hyp, IInv, VMInv
  <2> QED
    BY <2>1 DEF UpdateInv
<1>22. CASE Rest \/ UNCHANGED vars
  BY <1>22, <1>a DEF Rest, vars, cVars, imageVars, Hyp, Agree, UpdateInv
<1> QED
  BY <1>1, <1>2, <1>3, <1>4, <1>5, <1>6, <1>7, <1>8, <1>9, <1>10, <1>11,
     <1>12, <1>13, <1>14, <1>15, <1>16, <1>17, <1>18, <1>19, <1>20, <1>21,
     <1>22 DEF Next, Thread, Image

\* The stacks agree at the beginning.
LEMMA InitAgree == Init => Agree
<1> SUFFICES ASSUME Init PROVE Agree
  OBVIOUS
<1>1. /\ \A i \in Invocations : cpc[i] = "none" /\ pc[i] = "none"
      /\ callbackStack = NULL /\ invocationStack = <<>>
  BY WorkerAssumption DEF Init, Processes
<1>2. Live = {}
  BY <1>1 DEF Live
<1> QED
  BY <1>1, <1>2 DEF Agree, ListInv, IsNewest, OrderInv, NewestInv, UpdateInv, Active

\* They keep agreeing as long as at most one callback is in motion.
LEMMA AgreeStep == Hyp /\ [Next]_vars => Agree'
  BY ListStep, OrderStep, NewestStep, UpdateStep DEF Agree

------------------------------------------------------------------------------
(***************************************************************************)
(* One caller, whose functions call back                                   *)
(***************************************************************************)
\* One process calls functions, the functions are the only ones that call back, and
\* the image is not restarted.
OneCaller ==
  /\ \A p, q \in Callers : p = q
  /\ Entering \subseteq {Worker}
  /\ Restarts = "never"

\* The process that runs the image while the loop f is the innermost one.
Owns(p, f) == f = Loop(p) \/ (p \in Callers /\ f = Loop(NULL))

\* Functions and loops alternate on the worker's stack: a function was called from
\* the loop below it by the process of that loop, which waits for it.
AlternateInv ==
  /\ \A n \in 1..(Len(wstack) - 1) : wstack[n] \in LoopFrames => wstack[n + 1] \in FunctionFrames
  /\ \A n \in 1..Len(wstack), p \in Processes : wstack[n] = Function(p) =>
       n < Len(wstack) /\ Owns(p, wstack[n + 1]) /\ pc[p] = "calling"

\* A task or a signal belongs to the innermost loop, and there is never more than one.
TokenInv ==
  /\ taskQueue # <<>> =>
       /\ Len(taskQueue) = 1 /\ signalled = {}
       /\ \/ \E p \in Processes :
               taskQueue[1] = Callout(p) /\ Owns(p, wstack[1]) /\ pc[p] = "calling"
          \/ \E i \in Invocations :
               taskQueue[1] = CallbackReturn(NULL) /\ wstack[1] = Loop(i) /\ i \in Returned
  /\ \A p \in signalled : pc[p] = "calling" /\ Owns(p, wstack[1])

NestInv ==
  /\ AlternateInv
  /\ TokenInv
  /\ FrameOutlivesHandler
  /\ \A i \in Invocations : cpc[i] # "lost"

\* The loops and functions on the worker's stack.
LEMMA FrameFacts ==
  /\ \A i, j : Loop(i) = Loop(j) => i = j
  /\ \A p, q : Function(p) = Function(q) => p = q
  /\ \A p, i : Function(p) # Loop(i)
  /\ \A i \in Invocations \cup {NULL} : Loop(i) \in LoopFrames
  /\ \A p \in Processes : Function(p) \in FunctionFrames
  /\ \A f \in LoopFrames : f \notin FunctionFrames /\ f.kind = "loop"
                           /\ \E i \in Invocations \cup {NULL} : f = Loop(i)
  /\ \A f \in FunctionFrames : f.kind = "function" /\ \E p \in Processes : f = Function(p)
<1>1. \A i, j : Loop(i) = Loop(j) => i = j
  <2> TAKE i, j
  <2>1. Loop(i).for = i /\ Loop(j).for = j
    BY DEF Loop
  <2> QED
    BY <2>1
<1>2. \A p, q : Function(p) = Function(q) => p = q
  <2> TAKE p, q
  <2>1. Function(p).for = p /\ Function(q).for = q
    BY DEF Function
  <2> QED
    BY <2>1
<1>3. \A p, i : Function(p) # Loop(i)
  <2> TAKE p, i
  <2>1. Function(p).kind = "function" /\ Loop(i).kind = "loop"
    BY DEF Function, Loop
  <2> QED
    BY <2>1
<1>4. /\ \A i \in Invocations \cup {NULL} : Loop(i) \in LoopFrames
      /\ \A p \in Processes : Function(p) \in FunctionFrames
  BY DEF Loop, Function, LoopFrames, FunctionFrames
<1>5. ASSUME NEW f \in LoopFrames
      PROVE  /\ f \notin FunctionFrames /\ f.kind = "loop"
             /\ \E i \in Invocations \cup {NULL} : f = Loop(i)
  <2>1. f.kind = "loop" /\ f.for \in Invocations \cup {NULL} /\ f = Loop(f.for)
    BY DEF Loop, LoopFrames
  <2>2. f \notin FunctionFrames
    BY <2>1 DEF FunctionFrames
  <2> QED
    BY <2>1, <2>2
<1>6. ASSUME NEW f \in FunctionFrames
      PROVE  f.kind = "function" /\ \E p \in Processes : f = Function(p)
  <2>1. f.kind = "function" /\ f.for \in Processes /\ f = Function(f.for)
    BY DEF Function, FunctionFrames
  <2> QED
    BY <2>1
<1> QED
  BY <1>1, <1>2, <1>3, <1>4, <1>5, <1>6

\* Each loop has at most one process, and each process at most one loop.
LEMMA OwnsFacts ==
  ASSUME OneCaller, NEW p \in Processes, NEW f \in Frames, Owns(p, f)
  PROVE  /\ f \in LoopFrames
         /\ \A q \in Processes : Owns(q, f) => q = p
         /\ \A g \in Frames : Owns(p, g) => g = f
         /\ \A i \in Invocations : f = Loop(i) => p = i
<1>1. NULL \notin Processes /\ Callers \cap Invocations = {} /\ Processes = Callers \cup Invocations
  BY WorkerAssumption DEF Processes
<1>2. \A i : Loop(i) \in Frames => Loop(i) \in LoopFrames /\ i \in Invocations \cup {NULL}
  <2> TAKE i
  <2> SUFFICES ASSUME Loop(i) \in Frames
               PROVE  Loop(i) \in LoopFrames /\ i \in Invocations \cup {NULL}
    OBVIOUS
  <2>1. Loop(i) \in LoopFrames
    BY FrameFacts DEF Frames
  <2> QED
    BY <2>1, FrameFacts
<1>3. \A q \in Processes, g \in Frames : Owns(q, g) =>
        \/ q \in Invocations /\ q \notin Callers /\ g = Loop(q)
        \/ q \in Callers /\ q \notin Invocations /\ g = Loop(NULL)
  BY <1>1, <1>2 DEF Owns
<1>4. f \in LoopFrames
  BY <1>2 DEF Owns
<1>5. \A q \in Processes : Owns(q, f) => q = p
  <2> SUFFICES ASSUME NEW q \in Processes, Owns(q, f) PROVE q = p
    OBVIOUS
  <2>1. q \in Callers /\ p \in Callers => q = p
    BY DEF OneCaller
  <2>2. \A i \in Processes : f = Loop(i) => f # Loop(NULL)
    BY <1>1, FrameFacts
  <2> QED
    BY <1>3, <2>1, <2>2, FrameFacts
<1>6. \A g \in Frames : Owns(p, g) => g = f
  BY <1>3
<1>7. \A i \in Invocations : f = Loop(i) => p = i
  <2> TAKE i \in Invocations
  <2>1. f = Loop(i) => f # Loop(NULL)
    BY <1>1, FrameFacts
  <2> QED
    BY <1>3, <2>1, FrameFacts
<1> QED
  BY <1>4, <1>5, <1>6, <1>7

NestHyp == IInv /\ NestInv /\ OneCaller

\* What the steps need of the types of the worker's stack.
LEMMA NestTypes ==
  ASSUME NestHyp
  PROVE  /\ wstack \in Seq(Frames) /\ Len(wstack) \in Nat \ {0}
         /\ \A n \in 1..Len(wstack) : wstack[n] \in Frames
         /\ Head(wstack) = wstack[1] /\ wstack[1] \in Frames
         /\ pc \in [Processes -> Labels] /\ cpc \in [Invocations -> FrameLabels]
         /\ Invocations \subseteq Processes /\ Callers \subseteq Processes
         /\ NULL \notin Processes /\ signalled \subseteq Processes
<1>1. wstack \in Seq(Frames) /\ Len(wstack) \in Nat \ {0} /\ Head(wstack) = wstack[1]
  BY StackFacts, TypeFacts DEF NestHyp, IInv
<1>2. \A n \in 1..Len(wstack) : wstack[n] \in Frames
  BY <1>1
<1> QED
  BY <1>1, <1>2, TypeFacts DEF NestHyp, IInv, TypeOK, Processes

\* A process that is not in a callout runs the innermost loop.
LEMMA OwnerTop ==
  ASSUME NestHyp, NEW n \in 1..Len(wstack), NEW p \in Processes,
         Owns(p, wstack[n]), pc[p] # "calling"
  PROVE  n = 1
<1> SUFFICES ASSUME n # 1 PROVE FALSE
  OBVIOUS
<1>1. /\ n - 1 \in 1..(Len(wstack) - 1) /\ n - 1 \in 1..Len(wstack) /\ (n - 1) + 1 = n
      /\ wstack[n] \in Frames /\ wstack[n - 1] \in Frames
  BY NestTypes
<1>2. wstack[n] \in LoopFrames /\ wstack[n] \notin FunctionFrames
  BY <1>1, OwnsFacts, FrameFacts DEF NestHyp
<1>3. wstack[n - 1] \notin LoopFrames
  BY <1>1, <1>2 DEF NestHyp, NestInv, AlternateInv
<1>4. PICK q \in Processes : wstack[n - 1] = Function(q)
  BY <1>1, <1>3, FrameFacts DEF Frames
<1>5. Owns(q, wstack[n]) /\ pc[q] = "calling"
  BY <1>1, <1>4 DEF NestHyp, NestInv, AlternateInv
<1>6. q = p
  BY <1>1, <1>5, OwnsFacts DEF NestHyp
<1> QED
  BY <1>5, <1>6

\* The handler of a callback in motion runs the innermost loop.
LEMMA BusyTop ==
  ASSUME NestHyp, NEW i \in Invocations, i \in Busy
  PROVE  wstack[1] = Loop(i)
<1>1. cpc[i] \in Active /\ pc[i] # "calling"
  BY DEF Busy
<1>2. thread[i] = Worker
  BY <1>1 DEF NestHyp, IInv, ThreadInv, OneCaller, Active
<1>3. PICK n \in 1..Len(wstack) : wstack[n] = Loop(i)
  BY <1>1, <1>2 DEF NestHyp, IInv, LoopInv
<1>4. n = 1
  BY <1>1, <1>3, OwnerTop, NestTypes DEF Owns
<1> QED
  BY <1>3, <1>4

\* So does every process that is started and is neither in a callout nor finished.
LEMMA RunningTop ==
  ASSUME NestHyp, NEW p \in Processes, pc[p] \notin {"none", "calling", "returned", "done"}
  PROVE  Owns(p, wstack[1])
<1>1. CASE p \in Callers
  <2>1. Len(wstack) \in 1..Len(wstack) /\ Owns(p, wstack[Len(wstack)])
    BY <1>1, NestTypes DEF NestHyp, IInv, LoopInv, Owns
  <2>2. Len(wstack) = 1
    BY <2>1, OwnerTop
  <2> QED
    BY <2>1, <2>2
<1>2. CASE p \in Invocations
  <2>1. cpc[p] \in FrameLabels
    BY <1>2, NestTypes
  <2>2. cpc[p] = "waiting"
    BY <1>2, <2>1 DEF NestHyp, NestInv, IInv, ThreadInv, Unposted, FrameOutlivesHandler,
                      Returned, FrameLabels
  <2>3. p \in Busy
    BY <1>2, <2>2 DEF Busy, Active
  <2> QED
    BY <1>2, <2>3, BusyTop DEF Owns
<1> QED
  BY <1>1, <1>2 DEF Processes

\* While it runs, there is no task and no signal.
LEMMA NoTasks ==
  ASSUME NestHyp, NEW p \in Processes, Owns(p, wstack[1]),
         pc[p] \notin {"calling", "returned", "done"}
  PROVE  taskQueue = <<>> /\ signalled = {}
<1>1. wstack[1] \in Frames /\ signalled \subseteq Processes
  BY NestTypes
<1>2. \A q \in Processes : Owns(q, wstack[1]) => q = p
  BY <1>1, OwnsFacts DEF NestHyp
<1>3. \A i \in Invocations : wstack[1] = Loop(i) => p = i
  BY <1>1, OwnsFacts DEF NestHyp
<1>4. signalled = {}
  BY <1>1, <1>2 DEF NestHyp, NestInv, TokenInv
<1>5. taskQueue = <<>>
  BY <1>2, <1>3 DEF NestHyp, NestInv, TokenInv, Returned
<1> QED
  BY <1>4, <1>5

\* While a function runs, there is none either.
LEMMA NoTasksInFunction ==
  ASSUME NestHyp, wstack[1] \in FunctionFrames
  PROVE  taskQueue = <<>> /\ signalled = {}
<1>1. wstack[1] \in Frames /\ signalled \subseteq Processes
  BY NestTypes
<1>2. \A q \in Processes : ~Owns(q, wstack[1])
  BY <1>1, OwnsFacts, FrameFacts DEF NestHyp
<1>3. \A i \in Invocations : wstack[1] # Loop(i)
  BY FrameFacts
<1> QED
  BY <1>1, <1>2, <1>3 DEF NestHyp, NestInv, TokenInv

\* The process of the innermost loop has no function on the stack.
LEMMA NotInFunction ==
  ASSUME NestHyp, NEW p \in Processes, Owns(p, wstack[1]), NEW n \in 1..Len(wstack)
  PROVE  wstack[n] # Function(p)
<1> SUFFICES ASSUME wstack[n] = Function(p) PROVE FALSE
  OBVIOUS
<1>1. n < Len(wstack) /\ Owns(p, wstack[n + 1])
  BY DEF NestHyp, NestInv, AlternateInv
<1>2. n + 1 \in 1..Len(wstack) /\ 1 \in 1..Len(wstack) /\ n + 1 # 1
      /\ wstack[n + 1] \in Frames /\ wstack[1] \in Frames
  BY <1>1, NestTypes
<1>3. wstack[n + 1] = wstack[1] /\ wstack[1] \in LoopFrames
  BY <1>1, <1>2, OwnsFacts DEF NestHyp
<1> QED
  BY <1>2, <1>3 DEF NestHyp, IInv, LoopInv

\* Functions and loops keep alternating.
LEMMA AlternateStep == NestHyp /\ [Next]_vars => AlternateInv'
<1> SUFFICES ASSUME NestHyp, [Next]_vars PROVE AlternateInv'
  OBVIOUS
<1>a. /\ wstack \in Seq(Frames) /\ Len(wstack) \in Nat \ {0}
      /\ \A n \in 1..Len(wstack) : wstack[n] \in Frames
      /\ Head(wstack) = wstack[1] /\ wstack[1] \in Frames
      /\ pc \in [Processes -> Labels] /\ cpc \in [Invocations -> FrameLabels]
      /\ Invocations \subseteq Processes /\ Callers \subseteq Processes
      /\ NULL \notin Processes /\ signalled \subseteq Processes
  BY NestTypes
<1>b. IInv /\ NestInv /\ OneCaller
  BY DEF NestHyp
<1>1. ASSUME NEW p \in Processes, StartCallout(p) PROVE AlternateInv'
  <2>1. wstack' = wstack
    BY <1>1 DEF StartCallout, cVars
  <2>2. \A q \in Processes : pc[q] = "calling" => pc'[q] = "calling"
    BY <1>1, <1>a DEF StartCallout
  <2> QED
    BY <1>b, <2>1, <2>2 DEF NestInv, AlternateInv, Owns
<1>2. ASSUME NEW p \in Processes, FinishCallout(p) PROVE AlternateInv'
  <2>1. wstack' = wstack /\ p \in signalled /\ pc' = [pc EXCEPT ![p] = "body"]
    BY <1>2 DEF FinishCallout, cVars
  <2>2. \A n \in 1..Len(wstack) : wstack[n] # Function(p)
    BY <1>b, <2>1, NotInFunction DEF NestInv, TokenInv
  <2> QED
    BY <1>a, <1>b, <2>1, <2>2 DEF NestInv, AlternateInv, Owns
<1>3. CASE RunCallout
  <2>1. taskQueue # <<>> /\ wstack' = <<Function(taskQueue[1].for)>> \o wstack
    BY <1>3, TaskFacts DEF RunCallout, NestHyp, IInv
  <2>2. PICK q \in Processes :
           taskQueue[1] = Callout(q) /\ Owns(q, wstack[1]) /\ pc[q] = "calling"
    BY <1>3, <1>b, <2>1, TaskFacts DEF RunCallout, NestInv, TokenInv, IInv, CallbackReturn
  <2>3. /\ Len(wstack') = Len(wstack) + 1 /\ wstack'[1] = Function(q)
        /\ \A n \in 2..(Len(wstack) + 1) : wstack'[n] = wstack[n - 1]
    <3>1. Function(q) \in Frames /\ taskQueue[1].for = q
      BY <2>2, FrameFacts DEF Frames, Callout
    <3> QED
      BY <1>a, <2>1, <3>1, PushProperties
  <2>4. pc' = pc
    BY <1>3 DEF RunCallout
  <2>9. \A n \in 2..Len(wstack') : n - 1 \in 1..Len(wstack) /\ wstack'[n] = wstack[n - 1]
    BY <1>a, <2>3
  <2>10. \A n \in 1..(Len(wstack') - 1) : wstack'[n] \in LoopFrames => wstack'[n + 1] \in FunctionFrames
    <3> SUFFICES ASSUME NEW n \in 1..(Len(wstack') - 1), wstack'[n] \in LoopFrames
                 PROVE  wstack'[n + 1] \in FunctionFrames
      OBVIOUS
    <3>1. n + 1 \in 2..Len(wstack') /\ (n + 1) - 1 = n /\ wstack'[n + 1] = wstack[n]
      BY <1>a, <2>3, <2>9
    <3>2. CASE n = 1
      BY <2>3, <3>2, FrameFacts
    <3>3. CASE n # 1
      <4>1. /\ n - 1 \in 1..(Len(wstack) - 1) /\ (n - 1) + 1 = n
            /\ wstack'[n] = wstack[n - 1]
        BY <1>a, <2>3, <2>9, <3>3
      <4> QED
        BY <1>b, <3>1, <4>1 DEF NestInv, AlternateInv
    <3> QED
      BY <3>2, <3>3
  <2>11. \A n \in 1..Len(wstack'), p \in Processes : wstack'[n] = Function(p) =>
           n < Len(wstack') /\ Owns(p, wstack'[n + 1]) /\ pc'[p] = "calling"
    <3> SUFFICES ASSUME NEW n \in 1..Len(wstack'), NEW p \in Processes, wstack'[n] = Function(p)
                 PROVE  n < Len(wstack') /\ Owns(p, wstack'[n + 1]) /\ pc'[p] = "calling"
      OBVIOUS
    <3>1. CASE n = 1
      <4>1. p = q /\ 2 \in 2..Len(wstack') /\ 2 - 1 = 1
        BY <1>a, <2>3, <3>1, FrameFacts
      <4>2. wstack'[2] = wstack[1]
        BY <2>9, <4>1
      <4>3. 1 < Len(wstack') /\ 1 + 1 = 2
        BY <1>a, <2>3
      <4> QED
        BY <2>2, <2>4, <3>1, <4>1, <4>2, <4>3
    <3>2. CASE n # 1
      <4>1. n - 1 \in 1..Len(wstack) /\ wstack[n - 1] = Function(p)
        BY <2>3, <2>9, <3>2
      <4>2. n - 1 < Len(wstack) /\ Owns(p, wstack[n]) /\ pc[p] = "calling"
        BY <1>b, <4>1 DEF NestInv, AlternateInv
      <4>3. n < Len(wstack') /\ wstack'[n + 1] = wstack[n]
        BY <1>a, <2>3, <2>9, <4>2
      <4> QED
        BY <2>4, <4>2, <4>3
    <3> QED
      BY <3>1, <3>2
  <2> QED
    BY <2>10, <2>11 DEF AlternateInv, Owns
<1>4. CASE EndCallout
  <2>1. /\ Len(wstack') = Len(wstack) - 1 /\ pc' = pc
        /\ \A n \in 1..Len(wstack') : wstack'[n] = wstack[n + 1]
    BY <1>4, <1>b, StackFacts DEF EndCallout
  <2>2. \A n \in 1..(Len(wstack') - 1) : wstack'[n] \in LoopFrames => wstack'[n + 1] \in FunctionFrames
    <3> TAKE n \in 1..(Len(wstack') - 1)
    <3>1. /\ n \in 1..Len(wstack') /\ n + 1 \in 1..Len(wstack')
          /\ n + 1 \in 1..(Len(wstack) - 1)
      BY <1>a, <2>1
    <3> QED
      BY <1>b, <2>1, <3>1 DEF NestInv, AlternateInv
  <2>3. \A n \in 1..Len(wstack'), p \in Processes : wstack'[n] = Function(p) =>
           n < Len(wstack') /\ Owns(p, wstack'[n + 1]) /\ pc'[p] = "calling"
    <3> SUFFICES ASSUME NEW n \in 1..Len(wstack'), NEW p \in Processes, wstack'[n] = Function(p)
                 PROVE  n < Len(wstack') /\ Owns(p, wstack'[n + 1]) /\ pc'[p] = "calling"
      OBVIOUS
    <3>1. n + 1 \in 1..Len(wstack) /\ wstack[n + 1] = Function(p)
      BY <1>a, <2>1
    <3>2. n + 1 < Len(wstack) /\ Owns(p, wstack[(n + 1) + 1]) /\ pc[p] = "calling"
      BY <1>b, <3>1 DEF NestInv, AlternateInv
    <3>3. n < Len(wstack') /\ n + 1 \in 1..Len(wstack')
      BY <1>a, <2>1, <3>2
    <3> QED
      BY <2>1, <3>2, <3>3
  <2> QED
    BY <2>2, <2>3 DEF AlternateInv, Owns
<1>5. CASE RunReturnToForeign
  <2>1. wstack' = wstack
    BY <1>5 DEF RunReturnToForeign, cVars
  <2>2. \A q \in Processes : pc[q] = "calling" => pc'[q] = "calling"
    BY <1>5, <1>a DEF RunReturnToForeign
  <2> QED
    BY <1>b, <2>1, <2>2 DEF NestInv, AlternateInv, Owns
<1>6. CASE RunReturn
  <2>1. /\ Len(wstack') = Len(wstack) - 1 /\ pc' = pc
        /\ \A n \in 1..Len(wstack') : wstack'[n] = wstack[n + 1]
    BY <1>6, <1>b, StackFacts DEF RunReturn
  <2>2. \A n \in 1..(Len(wstack') - 1) : wstack'[n] \in LoopFrames => wstack'[n + 1] \in FunctionFrames
    <3> TAKE n \in 1..(Len(wstack') - 1)
    <3>1. /\ n \in 1..Len(wstack') /\ n + 1 \in 1..Len(wstack')
          /\ n + 1 \in 1..(Len(wstack) - 1)
      BY <1>a, <2>1
    <3> QED
      BY <1>b, <2>1, <3>1 DEF NestInv, AlternateInv
  <2>3. \A n \in 1..Len(wstack'), p \in Processes : wstack'[n] = Function(p) =>
           n < Len(wstack') /\ Owns(p, wstack'[n + 1]) /\ pc'[p] = "calling"
    <3> SUFFICES ASSUME NEW n \in 1..Len(wstack'), NEW p \in Processes, wstack'[n] = Function(p)
                 PROVE  n < Len(wstack') /\ Owns(p, wstack'[n + 1]) /\ pc'[p] = "calling"
      OBVIOUS
    <3>1. n + 1 \in 1..Len(wstack) /\ wstack[n + 1] = Function(p)
      BY <1>a, <2>1
    <3>2. n + 1 < Len(wstack) /\ Owns(p, wstack[(n + 1) + 1]) /\ pc[p] = "calling"
      BY <1>b, <3>1 DEF NestInv, AlternateInv
    <3>3. n < Len(wstack') /\ n + 1 \in 1..Len(wstack')
      BY <1>a, <2>1, <3>2
    <3> QED
      BY <2>1, <3>2, <3>3
  <2> QED
    BY <2>2, <2>3 DEF AlternateInv, Owns
<1>7. ASSUME NEW t \in Threads, EnterCallback(t) PROVE AlternateInv'
  <2>1. PICK i \in Invocations : wstack' = <<Loop(i)>> \o wstack
    BY <1>7, <1>b, EnterFacts DEF OneCaller, EnterCallback, CanEnter
  <2>2. wstack[1] \in FunctionFrames
    BY <1>7, <1>a, <1>b, StackFacts DEF EnterCallback, CanEnter, OneCaller
  <2>3. /\ Len(wstack') = Len(wstack) + 1 /\ wstack'[1] = Loop(i)
        /\ \A n \in 2..(Len(wstack) + 1) : wstack'[n] = wstack[n - 1]
    <3>1. Loop(i) \in Frames
      BY <2>1, FrameFacts DEF Frames
    <3> QED
      BY <1>a, <2>1, <3>1, PushProperties
  <2>4. pc' = pc
    BY <1>7 DEF EnterCallback
  <2>9. \A n \in 2..Len(wstack') : n - 1 \in 1..Len(wstack) /\ wstack'[n] = wstack[n - 1]
    BY <1>a, <2>3
  <2>10. \A n \in 1..(Len(wstack') - 1) : wstack'[n] \in LoopFrames => wstack'[n + 1] \in FunctionFrames
    <3> SUFFICES ASSUME NEW n \in 1..(Len(wstack') - 1), wstack'[n] \in LoopFrames
                 PROVE  wstack'[n + 1] \in FunctionFrames
      OBVIOUS
    <3>1. n + 1 \in 2..Len(wstack') /\ (n + 1) - 1 = n /\ wstack'[n + 1] = wstack[n]
      BY <1>a, <2>3, <2>9
    <3>2. CASE n = 1
      BY <2>2, <3>1, <3>2
    <3>3. CASE n # 1
      <4>1. /\ n - 1 \in 1..(Len(wstack) - 1) /\ (n - 1) + 1 = n
            /\ wstack'[n] = wstack[n - 1]
        BY <1>a, <2>3, <2>9, <3>3
      <4> QED
        BY <1>b, <3>1, <4>1 DEF NestInv, AlternateInv
    <3> QED
      BY <3>2, <3>3
  <2>11. \A n \in 1..Len(wstack'), p \in Processes : wstack'[n] = Function(p) =>
           n < Len(wstack') /\ Owns(p, wstack'[n + 1]) /\ pc'[p] = "calling"
    <3> SUFFICES ASSUME NEW n \in 1..Len(wstack'), NEW p \in Processes, wstack'[n] = Function(p)
                 PROVE  n < Len(wstack') /\ Owns(p, wstack'[n + 1]) /\ pc'[p] = "calling"
      OBVIOUS
    <3>1. CASE n = 1
      BY <2>3, <3>1, FrameFacts
    <3>2. CASE n # 1
      <4>1. n - 1 \in 1..Len(wstack) /\ wstack[n - 1] = Function(p)
        BY <2>3, <2>9, <3>2
      <4>2. n - 1 < Len(wstack) /\ Owns(p, wstack[n]) /\ pc[p] = "calling"
        BY <1>b, <4>1 DEF NestInv, AlternateInv
      <4>3. n < Len(wstack') /\ wstack'[n + 1] = wstack[n]
        BY <1>a, <2>3, <2>9, <4>2
      <4> QED
        BY <2>4, <4>2, <4>3
    <3> QED
      BY <3>1, <3>2
  <2> QED
    BY <2>10, <2>11 DEF AlternateInv, Owns
<1>8. ASSUME NEW i \in Invocations, PushCallback(i) PROVE AlternateInv'
  <2>1. wstack' = wstack
    BY <1>8 DEF PushCallback, cVars
  <2>2. \A q \in Processes : pc[q] = "calling" => pc'[q] = "calling"
    BY <1>8, <1>a DEF PushCallback
  <2> QED
    BY <1>b, <2>1, <2>2 DEF NestInv, AlternateInv, Owns
<1>9. ASSUME NEW i \in Invocations, PostCallback(i) PROVE AlternateInv'
  <2>1. wstack' = wstack
    BY <1>9 DEF PostCallback, cVars
  <2>2. \A q \in Processes : pc[q] = "calling" => pc'[q] = "calling"
    BY <1>9, <1>a DEF PostCallback
  <2> QED
    BY <1>b, <2>1, <2>2 DEF NestInv, AlternateInv, Owns
<1>10. ASSUME NEW i \in Invocations, ResumeForeign(i) PROVE AlternateInv'
  <2>1. wstack' = wstack
    BY <1>10 DEF ResumeForeign, cVars
  <2>2. \A q \in Processes : pc[q] = "calling" => pc'[q] = "calling"
    BY <1>10, <1>a DEF ResumeForeign
  <2> QED
    BY <1>b, <2>1, <2>2 DEF NestInv, AlternateInv, Owns
<1>11. CASE FetchCallback
  <2>1. wstack' = wstack
    BY <1>11 DEF FetchCallback, cVars
  <2>2. \A q \in Processes : pc[q] = "calling" => pc'[q] = "calling"
    BY <1>11, <1>a DEF FetchCallback
  <2> QED
    BY <1>b, <2>1, <2>2 DEF NestInv, AlternateInv, Owns
<1>12. CASE ExecuteCallback
  <2>1. wstack' = wstack
    BY <1>12 DEF ExecuteCallback, cVars
  <2>2. \A q \in Processes : pc[q] = "calling" => pc'[q] = "calling"
    BY <1>12, <1>a DEF ExecuteCallback, NestHyp, IInv, QueueInv, TypeOK
  <2> QED
    BY <1>b, <2>1, <2>2 DEF NestInv, AlternateInv, Owns
<1>13. ASSUME NEW i \in Invocations, WriteReturnValue(i) PROVE AlternateInv'
  <2>1. wstack' = wstack
    BY <1>13 DEF WriteReturnValue, cVars
  <2>2. \A q \in Processes : pc[q] = "calling" => pc'[q] = "calling"
    BY <1>13, <1>a DEF WriteReturnValue
  <2> QED
    BY <1>b, <2>1, <2>2 DEF NestInv, AlternateInv, Owns
<1>14. ASSUME NEW i \in Invocations, ReturnOfOldSession(i) PROVE AlternateInv'
  <2>1. wstack' = wstack
    BY <1>14 DEF ReturnOfOldSession, cVars
  <2>2. \A q \in Processes : pc[q] = "calling" => pc'[q] = "calling"
    BY <1>14, <1>a DEF ReturnOfOldSession
  <2> QED
    BY <1>b, <2>1, <2>2 DEF NestInv, AlternateInv, Owns
<1>15. ASSUME NEW i \in Invocations, ReturnAccepted(i) PROVE AlternateInv'
  <2>1. wstack' = wstack
    BY <1>15 DEF ReturnAccepted, cVars
  <2>2. \A q \in Processes : pc[q] = "calling" => pc'[q] = "calling"
    BY <1>15, <1>a DEF ReturnAccepted
  <2> QED
    BY <1>b, <2>1, <2>2 DEF NestInv, AlternateInv, Owns
<1>16. ASSUME NEW i \in Invocations, ReturnRefused(i) PROVE AlternateInv'
  <2>1. wstack' = wstack
    BY <1>16 DEF ReturnRefused, cVars
  <2>2. \A q \in Processes : pc[q] = "calling" => pc'[q] = "calling"
    BY <1>16, <1>a DEF ReturnRefused
  <2> QED
    BY <1>b, <2>1, <2>2 DEF NestInv, AlternateInv, Owns
<1>17. ASSUME NEW i \in Invocations, WaitToRetry(i) PROVE AlternateInv'
  <2>1. wstack' = wstack
    BY <1>17 DEF WaitToRetry, cVars
  <2>2. \A q \in Processes : pc[q] = "calling" => pc'[q] = "calling"
    BY <1>17, <1>a DEF WaitToRetry
  <2> QED
    BY <1>b, <2>1, <2>2 DEF NestInv, AlternateInv, Owns
<1>18. ASSUME NEW i \in Invocations, PopLoad(i) PROVE AlternateInv'
  <2>1. wstack' = wstack
    BY <1>18 DEF PopLoad, cVars
  <2>2. \A q \in Processes : pc[q] = "calling" => pc'[q] = "calling"
    BY <1>18, <1>a DEF PopLoad
  <2> QED
    BY <1>b, <2>1, <2>2 DEF NestInv, AlternateInv, Owns
<1>19. ASSUME NEW i \in Invocations, PopStore(i) PROVE AlternateInv'
  <2>1. wstack' = wstack
    BY <1>19 DEF PopStore, cVars
  <2>2. \A q \in Processes : pc[q] = "calling" => pc'[q] = "calling"
    BY <1>19, <1>a DEF PopStore
  <2> QED
    BY <1>b, <2>1, <2>2 DEF NestInv, AlternateInv, Owns
<1>20. ASSUME NEW i \in Invocations, PopInvocation(i) PROVE AlternateInv'
  <2>1. wstack' = wstack
    BY <1>20 DEF PopInvocation, cVars
  <2>2. \A q \in Processes : pc[q] = "calling" => pc'[q] = "calling"
    BY <1>20, <1>a DEF PopInvocation
  <2> QED
    BY <1>b, <2>1, <2>2 DEF NestInv, AlternateInv, Owns
<1>21. CASE Restart
  BY <1>21, <1>b DEF Restart, OneCaller
<1>22. CASE Rest \/ UNCHANGED vars
  BY <1>22, <1>a DEF Rest, vars, cVars, imageVars, NestHyp, NestInv, AlternateInv, Owns
<1> QED
  BY <1>1, <1>2, <1>3, <1>4, <1>5, <1>6, <1>7, <1>8, <1>9, <1>10, <1>11,
     <1>12, <1>13, <1>14, <1>15, <1>16, <1>17, <1>18, <1>19, <1>20, <1>21,
     <1>22 DEF Next, Thread, Image

\* There is never more than one task or signal.
LEMMA TokenStep == NestHyp /\ [Next]_vars => TokenInv'
<1> SUFFICES ASSUME NestHyp, [Next]_vars PROVE TokenInv'
  OBVIOUS
<1>a. /\ wstack \in Seq(Frames) /\ Len(wstack) \in Nat \ {0}
      /\ \A n \in 1..Len(wstack) : wstack[n] \in Frames
      /\ Head(wstack) = wstack[1] /\ wstack[1] \in Frames
      /\ pc \in [Processes -> Labels] /\ cpc \in [Invocations -> FrameLabels]
      /\ Invocations \subseteq Processes /\ Callers \subseteq Processes
      /\ NULL \notin Processes /\ signalled \subseteq Processes
  BY NestTypes
<1>b. IInv /\ NestInv /\ OneCaller
  BY DEF NestHyp
<1>c. Returned \subseteq Returned'
  BY <1>b, ReturnedGrows
<1>d. taskQueue \in Seq(Tasks)
  BY <1>b, TypeFacts DEF IInv
<1>1. ASSUME NEW p \in Processes, StartCallout(p) PROVE TokenInv'
  <2>1. /\ wstack' = wstack /\ signalled' = signalled /\ pc[p] = "body"
        /\ pc' = [pc EXCEPT ![p] = "calling"] /\ taskQueue' = Append(taskQueue, Callout(p))
    BY <1>1 DEF StartCallout, cVars
  <2>2. Owns(p, wstack[1])
    BY <2>1, RunningTop
  <2>3. taskQueue = <<>> /\ signalled = {}
    BY <2>1, <2>2, NoTasks
  <2>4. Len(taskQueue') = 1 /\ taskQueue'[1] = Callout(p)
    BY <2>1, <2>3
  <2> QED
    BY <1>a, <2>1, <2>2, <2>3, <2>4 DEF TokenInv, Owns
<1>2. ASSUME NEW p \in Processes, FinishCallout(p) PROVE TokenInv'
  <2>1. /\ wstack' = wstack /\ taskQueue' = taskQueue /\ p \in signalled
        /\ signalled' = signalled \ {p} /\ pc' = [pc EXCEPT ![p] = "body"]
    BY <1>2 DEF FinishCallout, cVars
  <2>2. taskQueue = <<>>
    BY <1>b, <2>1 DEF NestInv, TokenInv
  <2> QED
    BY <1>a, <1>b, <2>1, <2>2 DEF NestInv, TokenInv, Owns
<1>3. CASE RunCallout
  <2>1. taskQueue # <<>> /\ taskQueue' = Tail(taskQueue) /\ signalled' = signalled
    BY <1>3 DEF RunCallout
  <2>2. Len(taskQueue) = 1 /\ signalled = {}
    BY <1>b, <2>1 DEF NestInv, TokenInv
  <2>3. taskQueue' = <<>>
    BY <1>d, <2>1, <2>2, EmptySeq, HeadTailProperties
  <2> QED
    BY <2>1, <2>2, <2>3 DEF TokenInv
<1>4. CASE EndCallout
  <2>1. /\ wstack[1] \in FunctionFrames /\ wstack[1].for \in Processes
        /\ signalled' = signalled \cup {wstack[1].for} /\ taskQueue' = taskQueue /\ pc' = pc
        /\ Len(wstack') = Len(wstack) - 1 /\ \A n \in 1..Len(wstack') : wstack'[n] = wstack[n + 1]
    BY <1>4, <1>a, <1>b, StackFacts DEF EndCallout
  <2>2. taskQueue = <<>> /\ signalled = {}
    BY <2>1, NoTasksInFunction
  <2>3. PICK q \in Processes : wstack[1] = Function(q)
    BY <2>1, FrameFacts
  <2>4. 1 < Len(wstack) /\ Owns(q, wstack[1 + 1]) /\ pc[q] = "calling"
    BY <1>a, <1>b, <2>3 DEF NestInv, AlternateInv
  <2>5. wstack'[1] = wstack[1 + 1]
    BY <1>a, <2>1, <2>4
  <2>6. signalled' = {q}
    BY <2>1, <2>2, <2>3 DEF Function
  <2> QED
    BY <2>1, <2>2, <2>4, <2>5, <2>6 DEF TokenInv, Owns
<1>5. CASE RunReturnToForeign
  <2>1. taskQueue # <<>> /\ taskQueue' = Tail(taskQueue) /\ signalled' = signalled
    BY <1>5 DEF RunReturnToForeign
  <2>2. Len(taskQueue) = 1 /\ signalled = {}
    BY <1>b, <2>1 DEF NestInv, TokenInv
  <2>3. taskQueue' = <<>>
    BY <1>d, <2>1, <2>2, EmptySeq, HeadTailProperties
  <2> QED
    BY <2>1, <2>2, <2>3 DEF TokenInv
<1>6. CASE RunReturn
  <2>1. taskQueue # <<>> /\ taskQueue' = Tail(taskQueue) /\ signalled' = signalled
    BY <1>6 DEF RunReturn
  <2>2. Len(taskQueue) = 1 /\ signalled = {}
    BY <1>b, <2>1 DEF NestInv, TokenInv
  <2>3. taskQueue' = <<>>
    BY <1>d, <2>1, <2>2, EmptySeq, HeadTailProperties
  <2> QED
    BY <2>1, <2>2, <2>3 DEF TokenInv
<1>7. ASSUME NEW t \in Threads, EnterCallback(t) PROVE TokenInv'
  <2>1. wstack[1] \in FunctionFrames
    BY <1>7, <1>a, <1>b, StackFacts DEF EnterCallback, CanEnter, OneCaller
  <2>2. taskQueue' = taskQueue /\ signalled' = signalled
    BY <1>7 DEF EnterCallback
  <2> QED
    BY <2>1, <2>2, NoTasksInFunction DEF TokenInv
<1>8. ASSUME NEW i \in Invocations, PushCallback(i) PROVE TokenInv'
  <2>1. wstack' = wstack /\ taskQueue' = taskQueue /\ signalled' = signalled
    BY <1>8 DEF PushCallback, cVars
  <2>2. \A q \in Processes : pc[q] = "calling" => pc'[q] = "calling"
    BY <1>8, <1>a DEF PushCallback
  <2> QED
    BY <1>a, <1>b, <1>c, <2>1, <2>2 DEF NestInv, TokenInv, Owns
<1>9. ASSUME NEW i \in Invocations, PostCallback(i) PROVE TokenInv'
  <2>1. wstack' = wstack /\ taskQueue' = taskQueue /\ signalled' = signalled
    BY <1>9 DEF PostCallback, cVars
  <2>2. \A q \in Processes : pc[q] = "calling" => pc'[q] = "calling"
    BY <1>9, <1>a DEF PostCallback
  <2> QED
    BY <1>a, <1>b, <1>c, <2>1, <2>2 DEF NestInv, TokenInv, Owns
<1>10. ASSUME NEW i \in Invocations, ResumeForeign(i) PROVE TokenInv'
  <2>1. wstack' = wstack /\ taskQueue' = taskQueue /\ signalled' = signalled
    BY <1>10 DEF ResumeForeign, cVars
  <2>2. \A q \in Processes : pc[q] = "calling" => pc'[q] = "calling"
    BY <1>10, <1>a DEF ResumeForeign
  <2> QED
    BY <1>a, <1>b, <1>c, <2>1, <2>2 DEF NestInv, TokenInv, Owns
<1>11. CASE FetchCallback
  <2>1. wstack' = wstack /\ taskQueue' = taskQueue /\ signalled' = signalled
    BY <1>11 DEF FetchCallback, cVars
  <2>2. \A q \in Processes : pc[q] = "calling" => pc'[q] = "calling"
    BY <1>11, <1>a DEF FetchCallback
  <2> QED
    BY <1>a, <1>b, <1>c, <2>1, <2>2 DEF NestInv, TokenInv, Owns
<1>12. CASE ExecuteCallback
  <2>1. wstack' = wstack /\ taskQueue' = taskQueue /\ signalled' = signalled
    BY <1>12 DEF ExecuteCallback, cVars
  <2>2. \A q \in Processes : pc[q] = "calling" => pc'[q] = "calling"
    BY <1>12, <1>a DEF ExecuteCallback, NestHyp, IInv, QueueInv, TypeOK
  <2> QED
    BY <1>a, <1>b, <1>c, <2>1, <2>2 DEF NestInv, TokenInv, Owns
<1>13. ASSUME NEW i \in Invocations, WriteReturnValue(i) PROVE TokenInv'
  <2>1. wstack' = wstack /\ taskQueue' = taskQueue /\ signalled' = signalled
    BY <1>13 DEF WriteReturnValue, cVars
  <2>2. \A q \in Processes : pc[q] = "calling" => pc'[q] = "calling"
    BY <1>13, <1>a DEF WriteReturnValue
  <2> QED
    BY <1>a, <1>b, <1>c, <2>1, <2>2 DEF NestInv, TokenInv, Owns
<1>14. ASSUME NEW i \in Invocations, ReturnOfOldSession(i) PROVE TokenInv'
  <2>1. wstack' = wstack /\ taskQueue' = taskQueue /\ signalled' = signalled
    BY <1>14 DEF ReturnOfOldSession, cVars
  <2>2. \A q \in Processes : pc[q] = "calling" => pc'[q] = "calling"
    BY <1>14, <1>a DEF ReturnOfOldSession
  <2> QED
    BY <1>a, <1>b, <1>c, <2>1, <2>2 DEF NestInv, TokenInv, Owns
<1>15. ASSUME NEW i \in Invocations, ReturnAccepted(i) PROVE TokenInv'
  <2>1. wstack' = wstack /\ taskQueue' = taskQueue /\ signalled' = signalled
    BY <1>15 DEF ReturnAccepted, cVars
  <2>2. \A q \in Processes : pc[q] = "calling" => pc'[q] = "calling"
    BY <1>15, <1>a DEF ReturnAccepted
  <2> QED
    BY <1>a, <1>b, <1>c, <2>1, <2>2 DEF NestInv, TokenInv, Owns
<1>16. ASSUME NEW i \in Invocations, ReturnRefused(i) PROVE TokenInv'
  <2>1. wstack' = wstack /\ taskQueue' = taskQueue /\ signalled' = signalled
    BY <1>16 DEF ReturnRefused, cVars
  <2>2. \A q \in Processes : pc[q] = "calling" => pc'[q] = "calling"
    BY <1>16, <1>a DEF ReturnRefused
  <2> QED
    BY <1>a, <1>b, <1>c, <2>1, <2>2 DEF NestInv, TokenInv, Owns
<1>17. ASSUME NEW i \in Invocations, WaitToRetry(i) PROVE TokenInv'
  <2>1. wstack' = wstack /\ taskQueue' = taskQueue /\ signalled' = signalled
    BY <1>17 DEF WaitToRetry, cVars
  <2>2. \A q \in Processes : pc[q] = "calling" => pc'[q] = "calling"
    BY <1>17, <1>a DEF WaitToRetry
  <2> QED
    BY <1>a, <1>b, <1>c, <2>1, <2>2 DEF NestInv, TokenInv, Owns
<1>18. ASSUME NEW i \in Invocations, PopLoad(i) PROVE TokenInv'
  <2>1. wstack' = wstack /\ taskQueue' = taskQueue /\ signalled' = signalled
    BY <1>18 DEF PopLoad, cVars
  <2>2. \A q \in Processes : pc[q] = "calling" => pc'[q] = "calling"
    BY <1>18, <1>a DEF PopLoad
  <2> QED
    BY <1>a, <1>b, <1>c, <2>1, <2>2 DEF NestInv, TokenInv, Owns
<1>19. ASSUME NEW i \in Invocations, PopStore(i) PROVE TokenInv'
  <2>1. /\ wstack' = wstack /\ signalled' = signalled /\ pc[i] = "popping"
        /\ pc' = [pc EXCEPT ![i] = "returned"]
        /\ taskQueue' = Append(taskQueue, CallbackReturn(IF HasSemaphore(i) THEN i ELSE NULL))
    BY <1>19 DEF PopStore, cVars
  <2>2. i \in Busy
    BY <1>b, <2>1, BusyFacts DEF NestInv
  <2>3. wstack[1] = Loop(i)
    BY <2>2, BusyTop
  <2>4. taskQueue = <<>> /\ signalled = {}
    BY <1>a, <2>1, <2>3, NoTasks DEF Owns
  <2>5. cpc[i] \in Posted /\ thread[i] = Worker
    BY <1>b, <2>1, <2>2 DEF IInv, VMInv, ThreadInv, OneCaller, Posted
  <2>6. ~HasSemaphore(i)
    BY <1>b, <2>5 DEF IInv, ThreadInv, HasSemaphore
  <2>7. Len(taskQueue') = 1 /\ taskQueue'[1] = CallbackReturn(NULL)
    BY <2>1, <2>4, <2>6
  <2>8. i \in Returned'
    BY <1>a, <2>1 DEF Returned
  <2> QED
    BY <2>1, <2>3, <2>4, <2>7, <2>8 DEF TokenInv
<1>20. ASSUME NEW i \in Invocations, PopInvocation(i) PROVE TokenInv'
  <2>1. wstack' = wstack /\ taskQueue' = taskQueue /\ signalled' = signalled
    BY <1>20 DEF PopInvocation, cVars
  <2>2. \A q \in Processes : pc[q] = "calling" => pc'[q] = "calling"
    BY <1>20, <1>a DEF PopInvocation
  <2> QED
    BY <1>a, <1>b, <1>c, <2>1, <2>2 DEF NestInv, TokenInv, Owns
<1>21. CASE Restart
  BY <1>21, <1>b DEF Restart, OneCaller
<1>22. CASE Rest \/ UNCHANGED vars
  BY <1>22, <1>a DEF Rest, vars, cVars, imageVars, NestHyp, NestInv, TokenInv, Owns, Returned
<1> QED
  BY <1>1, <1>2, <1>3, <1>4, <1>5, <1>6, <1>7, <1>8, <1>9, <1>10, <1>11,
     <1>12, <1>13, <1>14, <1>15, <1>16, <1>17, <1>18, <1>19, <1>20, <1>21,
     <1>22 DEF Next, Thread, Image

\* What remains of NestInv: frames outlive their handlers, and none is lost.
FrameGoal == FrameOutlivesHandler /\ \A i \in Invocations : cpc[i] # "lost"

\* C goes on only after the handler returned.
LEMMA FrameStep == NestHyp /\ [Next]_vars => FrameGoal'
<1> SUFFICES ASSUME NestHyp, [Next]_vars PROVE FrameGoal'
  OBVIOUS
<1>a. /\ wstack \in Seq(Frames) /\ Len(wstack) \in Nat \ {0}
      /\ \A n \in 1..Len(wstack) : wstack[n] \in Frames
      /\ Head(wstack) = wstack[1] /\ wstack[1] \in Frames
      /\ pc \in [Processes -> Labels] /\ cpc \in [Invocations -> FrameLabels]
      /\ Invocations \subseteq Processes /\ Callers \subseteq Processes
      /\ NULL \notin Processes /\ signalled \subseteq Processes
  BY NestTypes
<1>b. IInv /\ NestInv /\ OneCaller
  BY DEF NestHyp
<1>c. Returned \subseteq Returned'
  BY <1>b, ReturnedGrows
<1>1. ASSUME NEW p \in Processes, StartCallout(p) PROVE FrameGoal'
  BY <1>1, <1>b, <1>c DEF StartCallout, cVars, NestInv, FrameGoal, FrameOutlivesHandler
<1>2. ASSUME NEW p \in Processes, FinishCallout(p) PROVE FrameGoal'
  BY <1>2, <1>b, <1>c DEF FinishCallout, cVars, NestInv, FrameGoal, FrameOutlivesHandler
<1>3. CASE RunCallout
  BY <1>3, <1>b, <1>c DEF RunCallout, cVars, NestInv, FrameGoal, FrameOutlivesHandler
<1>4. CASE EndCallout
  BY <1>4, <1>b, <1>c DEF EndCallout, cVars, NestInv, FrameGoal, FrameOutlivesHandler
<1>5. CASE RunReturnToForeign
  BY <1>5, <1>b, <1>c DEF RunReturnToForeign, cVars, NestInv, FrameGoal, FrameOutlivesHandler
<1>6. CASE RunReturn
  <2>1. /\ taskQueue # <<>> /\ Head(taskQueue).type = "CALLBACK_RETURN" /\ Head(taskQueue) = taskQueue[1]
        /\ cpc' = [i \in Invocations |-> IF i = wstack[1].for THEN "resumed" ELSE cpc[i]]
    BY <1>6, <1>a, <1>b, TaskFacts DEF RunReturn, IInv
  <2>2. PICK i \in Invocations : wstack[1] = Loop(i) /\ i \in Returned
    BY <1>b, <2>1 DEF NestInv, TokenInv, Callout
  <2>3. wstack[1].for = i
    BY <2>2 DEF Loop
  <2> QED
    BY <1>b, <1>c, <2>1, <2>2, <2>3 DEF NestInv, FrameGoal, FrameOutlivesHandler
<1>7. ASSUME NEW t \in Threads, EnterCallback(t) PROVE FrameGoal'
  <2>1. PICK i \in Invocations : cpc' = [cpc EXCEPT ![i] = "loaded"]
    BY <1>7, <1>b, EnterFacts
  <2> QED
    BY <1>a, <1>b, <1>c, <2>1 DEF NestInv, FrameGoal, FrameOutlivesHandler
<1>8. ASSUME NEW i \in Invocations, PushCallback(i) PROVE FrameGoal'
  BY <1>8, <1>a, <1>b, <1>c DEF PushCallback, NestInv, FrameGoal, FrameOutlivesHandler
<1>9. ASSUME NEW i \in Invocations, PostCallback(i) PROVE FrameGoal'
  BY <1>9, <1>a, <1>b, <1>c DEF PostCallback, NestInv, FrameGoal, FrameOutlivesHandler
<1>10. ASSUME NEW i \in Invocations, ResumeForeign(i) PROVE FrameGoal'
  <2>1. i \in Returned
    BY <1>10, <1>b DEF ResumeForeign, IInv, ForeignInv
  <2> QED
    BY <1>10, <1>a, <1>b, <1>c, <2>1 DEF ResumeForeign, NestInv, FrameGoal, FrameOutlivesHandler
<1>11. CASE FetchCallback
  BY <1>11, <1>b, <1>c DEF FetchCallback, cVars, NestInv, FrameGoal, FrameOutlivesHandler
<1>12. CASE ExecuteCallback
  BY <1>12, <1>b, <1>c DEF ExecuteCallback, cVars, NestInv, FrameGoal, FrameOutlivesHandler
<1>13. ASSUME NEW i \in Invocations, WriteReturnValue(i) PROVE FrameGoal'
  BY <1>13, <1>b, <1>c DEF WriteReturnValue, cVars, NestInv, FrameGoal, FrameOutlivesHandler
<1>14. ASSUME NEW i \in Invocations, ReturnOfOldSession(i) PROVE FrameGoal'
  BY <1>14, <1>b, <1>c DEF ReturnOfOldSession, cVars, NestInv, FrameGoal, FrameOutlivesHandler
<1>15. ASSUME NEW i \in Invocations, ReturnAccepted(i) PROVE FrameGoal'
  BY <1>15, <1>b, <1>c DEF ReturnAccepted, cVars, NestInv, FrameGoal, FrameOutlivesHandler
<1>16. ASSUME NEW i \in Invocations, ReturnRefused(i) PROVE FrameGoal'
  BY <1>16, <1>b, <1>c DEF ReturnRefused, cVars, NestInv, FrameGoal, FrameOutlivesHandler
<1>17. ASSUME NEW i \in Invocations, WaitToRetry(i) PROVE FrameGoal'
  BY <1>17, <1>b, <1>c DEF WaitToRetry, cVars, NestInv, FrameGoal, FrameOutlivesHandler
<1>18. ASSUME NEW i \in Invocations, PopLoad(i) PROVE FrameGoal'
  BY <1>18, <1>b, <1>c DEF PopLoad, cVars, NestInv, FrameGoal, FrameOutlivesHandler
<1>19. ASSUME NEW i \in Invocations, PopStore(i) PROVE FrameGoal'
  BY <1>19, <1>b, <1>c DEF PopStore, cVars, NestInv, FrameGoal, FrameOutlivesHandler
<1>20. ASSUME NEW i \in Invocations, PopInvocation(i) PROVE FrameGoal'
  BY <1>20, <1>b, <1>c DEF PopInvocation, cVars, NestInv, FrameGoal, FrameOutlivesHandler
<1>21. CASE Restart
  BY <1>21, <1>b DEF Restart, OneCaller
<1>22. CASE Rest \/ UNCHANGED vars
  BY <1>22, <1>a, <1>c DEF Rest, vars, cVars, imageVars, NestHyp, NestInv, FrameGoal, FrameOutlivesHandler
<1> QED
  BY <1>1, <1>2, <1>3, <1>4, <1>5, <1>6, <1>7, <1>8, <1>9, <1>10, <1>11,
     <1>12, <1>13, <1>14, <1>15, <1>16, <1>17, <1>18, <1>19, <1>20, <1>21,
     <1>22 DEF Next, Thread, Image

\* The parts hold at the beginning: the worker is in its own loop.
LEMMA InitNest == Init => NestInv
<1> SUFFICES ASSUME Init PROVE NestInv
  OBVIOUS
<1>1. wstack = <<Loop(NULL)>> /\ taskQueue = <<>> /\ signalled = {}
      /\ \A i \in Invocations : cpc[i] = "none"
  BY DEF Init
<1>2. Len(wstack) = 1 /\ wstack[1] = Loop(NULL)
  BY <1>1
<1>3. \A n \in 1..Len(wstack) : n = 1
  BY <1>2
<1>4. AlternateInv
  BY <1>2, <1>3, FrameFacts DEF AlternateInv
<1> QED
  BY <1>1, <1>4 DEF NestInv, TokenInv, FrameOutlivesHandler

\* Every step keeps them.
LEMMA NestStep == NestHyp /\ [Next]_vars => NestInv'
  BY AlternateStep, TokenStep, FrameStep DEF NestInv, FrameGoal

\* With one caller and callbacks from its functions, the worker's stack alternates
\* and at most one task is on its way, always.
LEMMA Nested == ASSUME OneCaller PROVE Spec => [](IInv /\ NestInv)
<1>1. IInv /\ NestInv /\ [Next]_vars => NestInv'
  BY NestStep DEF NestHyp
<1> QED
  BY <1>1, InitNest, Invariance, PTL DEF Spec

\* When one process calls functions and they call back, C goes on after a callback
\* only when the handler of that very callback has returned.
THEOREM NestedFramesOutlive == ASSUME OneCaller PROVE Spec => []FrameOutlivesHandler
<1>1. IInv /\ NestInv => FrameOutlivesHandler
  BY DEF NestInv
<1> QED
  BY <1>1, Nested, PTL

\* And the callback stack of C and the one of the image hold the same invocations in
\* the same order.
THEOREM NestedStacksAgree == ASSUME OneCaller PROVE Spec => []StacksAgree
<1>1. IInv /\ NestInv => Exclusive
  <2> SUFFICES ASSUME IInv, NestInv PROVE Exclusive
    OBVIOUS
  <2>1. \A i \in Busy : i \in Invocations /\ wstack[1] = Loop(i)
    BY BusyTop DEF NestHyp, Busy
  <2> QED
    BY <2>1, FrameFacts DEF Exclusive
<1>2. ASSUME IInv, NestInv, NEW t \in Threads, EnterCallback(t) PROVE Busy = {}
  <2>1. \A i \in Busy : i \in Invocations /\ wstack[1] = Loop(i)
    BY <1>2, BusyTop DEF NestHyp, Busy
  <2>2. wstack[1] \in FunctionFrames
    BY <1>2, StackFacts DEF EnterCallback, CanEnter, OneCaller
  <2>3. \A i \in Invocations : wstack[1] # Loop(i)
    BY <2>2, FrameFacts
  <2> QED
    BY <2>1, <2>3
<1>3. IInv /\ NestInv /\ NestInv' /\ Agree /\ [Next]_vars => Agree'
  <2> SUFFICES ASSUME IInv, NestInv, NestInv', Agree, [Next]_vars PROVE Agree'
    OBVIOUS
  <2>1. FrameOutlivesHandler /\ FrameOutlivesHandler'
    BY DEF NestInv
  <2>2. Hyp
    BY <1>1, <1>2, <2>1 DEF Hyp
  <2> QED
    BY <2>2, AgreeStep
<1> QED
  BY <1>3, Nested, InitAgree, AgreeImplies, PTL DEF Spec

------------------------------------------------------------------------------
(***************************************************************************)
(* The refinement: callouts and callbacks nest like calls                  *)
(***************************************************************************)
\* The running functions and callbacks: the worker's stack without its own loop.
Running == SubSeq(wstack, 1, Len(wstack) - 1)

\* The innermost of them.
LEMMA RunningFacts ==
  ASSUME NestHyp
  PROVE  /\ Len(wstack) = 1 => Running = <<>>
         /\ Len(wstack) > 1 => /\ Running # <<>> /\ Head(Running) = wstack[1]
                               /\ wstack[1] # Loop(NULL)
<1>1. ASSUME Len(wstack) = 1 PROVE Running = <<>>
  <2>1. Running = SubSeq(wstack, 1, 0)
    BY <1>1 DEF Running
  <2> QED
    BY <2>1
<1>2. ASSUME Len(wstack) > 1
      PROVE  Running # <<>> /\ Head(Running) = wstack[1] /\ wstack[1] # Loop(NULL)
  <2>1. Running # <<>> /\ Head(Running) = wstack[1]
    BY <1>2, NestTypes, FrontTail DEF Running
  <2>2. /\ 1 \in 1..Len(wstack) /\ Len(wstack) \in 1..Len(wstack) /\ Len(wstack) # 1
        /\ wstack[Len(wstack)] = Loop(NULL) /\ Loop(NULL) \in LoopFrames
    BY <1>2, NestTypes, FrameFacts DEF NestHyp, IInv, LoopInv
  <2>3. wstack[1] # Loop(NULL)
    BY <2>2 DEF NestHyp, IInv, LoopInv
  <2> QED
    BY <2>1, <2>3
<1> QED
  BY <1>1, <1>2

\* Where the innermost frame is a callback's loop or a function, something runs.
LEMMA SomethingRuns ==
  ASSUME NestHyp,
         wstack[1] \in FunctionFrames \/ \E i \in Invocations : wstack[1] = Loop(i)
  PROVE  Len(wstack) > 1
<1> SUFFICES ASSUME ~(Len(wstack) > 1) PROVE FALSE
  OBVIOUS
<1>1. Len(wstack) \in Nat \ {0}
  BY NestTypes
<1>2. Len(wstack) = 1
  BY ONLY <1>1, ~(Len(wstack) > 1)
<1>3. wstack[1] = Loop(NULL)
  BY <1>2 DEF NestHyp, IInv, LoopInv
<1> QED
  BY <1>3, FrameFacts, NestTypes

NestingStep == [Nesting!Next]_Nesting!vars

\* RunCallout, EndCallout, EnterCallback, PopStore and RunReturn are Call, End, Enter,
\* Return and Resume of the abstract specification; the other steps are invisible.
LEMMA RefineStep == NestHyp /\ [Next]_vars => NestingStep
<1> SUFFICES ASSUME NestHyp, [Next]_vars PROVE NestingStep
  OBVIOUS
<1>a. /\ wstack \in Seq(Frames) /\ Len(wstack) \in Nat \ {0}
      /\ \A n \in 1..Len(wstack) : wstack[n] \in Frames
      /\ Head(wstack) = wstack[1] /\ wstack[1] \in Frames
      /\ pc \in [Processes -> Labels] /\ cpc \in [Invocations -> FrameLabels]
      /\ Invocations \subseteq Processes /\ Callers \subseteq Processes
      /\ NULL \notin Processes /\ signalled \subseteq Processes
  BY NestTypes
<1>b. IInv /\ NestInv /\ OneCaller
  BY DEF NestHyp
<1>1. ASSUME NEW p \in Processes, StartCallout(p) PROVE NestingStep
  <2>1. wstack' = wstack
    BY <1>1 DEF StartCallout, cVars
  <2>2. Returned' = Returned
    BY <1>1, <1>a DEF StartCallout, Returned, cVars
  <2> QED
    BY <2>1, <2>2 DEF NestingStep, Nesting!vars, Running
<1>2. ASSUME NEW p \in Processes, FinishCallout(p) PROVE NestingStep
  <2>1. wstack' = wstack
    BY <1>2 DEF FinishCallout, cVars
  <2>2. Returned' = Returned
    BY <1>2, <1>a DEF FinishCallout, Returned, cVars
  <2> QED
    BY <2>1, <2>2 DEF NestingStep, Nesting!vars, Running
<1>3. CASE RunCallout
  <2>1. taskQueue # <<>> /\ wstack' = <<Function(taskQueue[1].for)>> \o wstack /\ pc' = pc
    BY <1>3, TaskFacts DEF RunCallout, NestHyp, IInv
  <2>2. PICK q \in Processes :
           taskQueue[1] = Callout(q) /\ Owns(q, wstack[1]) /\ pc[q] = "calling"
    BY <1>3, <1>b, <2>1, TaskFacts DEF RunCallout, NestInv, TokenInv, IInv, CallbackReturn
  <2>3. Function(q) \in Frames /\ taskQueue[1].for = q
    BY <2>2, FrameFacts DEF Frames, Callout
  <2>4. Running' = <<Function(q)>> \o Running
    BY <1>a, <2>1, <2>3, FrontPush, EmptySeq DEF Running
  <2>5. Running = <<>> \/ (Running # <<>> /\ Head(Running) = Loop(q) /\ q \notin Returned)
    <3>1. q \notin Returned
      BY <2>2 DEF Returned
    <3>2. CASE Len(wstack) = 1
      BY <3>2, RunningFacts
    <3>3. CASE Len(wstack) > 1
      BY <2>2, <3>1, <3>3, RunningFacts DEF Owns
    <3>4. Len(wstack) = 1 \/ Len(wstack) > 1
      <4>1. Len(wstack) \in Nat \ {0}
        BY <1>a
      <4>2. \A k \in Nat \ {0} : k = 1 \/ k > 1
        OBVIOUS
      <4> QED
        BY ONLY <4>1, <4>2
    <3> QED
      BY <3>2, <3>3, <3>4
  <2>6. Returned' = Returned
    BY <2>1 DEF Returned
  <2> QED
    BY <2>4, <2>5, <2>6
       DEF NestingStep, Nesting!Next, Nesting!Call, Nesting!Innermost, Nesting!Callback,
           Nesting!Function, Running, Loop, Function
<1>4. CASE EndCallout
  <2>1. /\ wstack[1] \in FunctionFrames /\ wstack' = Tail(wstack) /\ pc' = pc
    BY <1>4, <1>a, <1>b, StackFacts DEF EndCallout
  <2>2. PICK q \in Processes : wstack[1] = Function(q)
    BY <2>1, FrameFacts
  <2>3. Len(wstack) > 1
    BY <2>1, SomethingRuns
  <2>4. Running # <<>> /\ Head(Running) = Function(q) /\ Running' = Tail(Running)
    BY <1>a, <2>1, <2>2, <2>3, FrontTail DEF Running
  <2>5. Returned' = Returned
    BY <2>1 DEF Returned
  <2> QED
    BY <2>4, <2>5
       DEF NestingStep, Nesting!Next, Nesting!End, Nesting!Innermost, Nesting!Function,
           Running, Function
<1>5. CASE RunReturnToForeign
  <2>1. wstack' = wstack
    BY <1>5 DEF RunReturnToForeign, cVars
  <2>2. Returned' = Returned
    BY <1>5, <1>a DEF RunReturnToForeign, Returned, cVars
  <2> QED
    BY <2>1, <2>2 DEF NestingStep, Nesting!vars, Running
<1>6. CASE RunReturn
  <2>1. /\ taskQueue # <<>> /\ Head(taskQueue).type = "CALLBACK_RETURN" /\ Head(taskQueue) = taskQueue[1]
        /\ wstack' = Tail(wstack) /\ pc' = pc
    BY <1>6, <1>b, TaskFacts DEF RunReturn, IInv
  <2>2. PICK i \in Invocations : wstack[1] = Loop(i) /\ i \in Returned
    BY <1>b, <2>1 DEF NestInv, TokenInv, Callout
  <2>3. Len(wstack) > 1
    BY <2>2, SomethingRuns
  <2>4. Running # <<>> /\ Head(Running) = Loop(i) /\ Running' = Tail(Running)
    BY <1>a, <2>1, <2>2, <2>3, FrontTail DEF Running
  <2>5. Returned' = Returned
    BY <2>1 DEF Returned
  <2> QED
    BY <2>2, <2>4, <2>5
       DEF NestingStep, Nesting!Next, Nesting!Resume, Nesting!Innermost, Nesting!Callback,
           Running, Loop
<1>7. ASSUME NEW t \in Threads, EnterCallback(t) PROVE NestingStep
  <2>1. PICK i \in Invocations : wstack' = <<Loop(i)>> \o wstack
    BY <1>7, <1>b, EnterFacts DEF OneCaller, EnterCallback, CanEnter
  <2>2. wstack[1] \in FunctionFrames
    BY <1>7, <1>a, <1>b, StackFacts DEF EnterCallback, CanEnter, OneCaller
  <2>3. Len(wstack) > 1
    BY <2>2, SomethingRuns
  <2>4. Running # <<>> /\ Head(Running).kind = "function"
    BY <2>2, <2>3, RunningFacts, FrameFacts
  <2>5. Loop(i) \in Frames
    BY <2>1, FrameFacts DEF Frames
  <2>6. Running' = <<Loop(i)>> \o Running
    BY <1>a, <2>1, <2>5, FrontPush, EmptySeq DEF Running
  <2>7. Returned' = Returned
    BY <1>7 DEF EnterCallback, Returned
  <2> QED
    BY <2>4, <2>6, <2>7
       DEF NestingStep, Nesting!Next, Nesting!Enter, Nesting!Callback, Running, Loop
<1>8. ASSUME NEW i \in Invocations, PushCallback(i) PROVE NestingStep
  <2>1. wstack' = wstack
    BY <1>8 DEF PushCallback, cVars
  <2>2. Returned' = Returned
    BY <1>8, <1>a DEF PushCallback, Returned, cVars
  <2> QED
    BY <2>1, <2>2 DEF NestingStep, Nesting!vars, Running
<1>9. ASSUME NEW i \in Invocations, PostCallback(i) PROVE NestingStep
  <2>1. wstack' = wstack
    BY <1>9 DEF PostCallback, cVars
  <2>2. Returned' = Returned
    BY <1>9, <1>a DEF PostCallback, Returned, cVars
  <2> QED
    BY <2>1, <2>2 DEF NestingStep, Nesting!vars, Running
<1>10. ASSUME NEW i \in Invocations, ResumeForeign(i) PROVE NestingStep
  <2>1. wstack' = wstack
    BY <1>10 DEF ResumeForeign, cVars
  <2>2. Returned' = Returned
    BY <1>10, <1>a DEF ResumeForeign, Returned, cVars
  <2> QED
    BY <2>1, <2>2 DEF NestingStep, Nesting!vars, Running
<1>11. CASE FetchCallback
  <2>1. wstack' = wstack
    BY <1>11 DEF FetchCallback, cVars
  <2>2. Returned' = Returned
    BY <1>11, <1>a DEF FetchCallback, Returned, cVars
  <2> QED
    BY <2>1, <2>2 DEF NestingStep, Nesting!vars, Running
<1>12. CASE ExecuteCallback
  <2>1. wstack' = wstack
    BY <1>12 DEF ExecuteCallback, cVars
  <2>2. Returned' = Returned
    BY <1>12, <1>a DEF ExecuteCallback, Returned, cVars, NestHyp, IInv, QueueInv, TypeOK
  <2> QED
    BY <2>1, <2>2 DEF NestingStep, Nesting!vars, Running
<1>13. ASSUME NEW i \in Invocations, WriteReturnValue(i) PROVE NestingStep
  <2>1. wstack' = wstack
    BY <1>13 DEF WriteReturnValue, cVars
  <2>2. Returned' = Returned
    BY <1>13, <1>a DEF WriteReturnValue, Returned, cVars
  <2> QED
    BY <2>1, <2>2 DEF NestingStep, Nesting!vars, Running
<1>14. ASSUME NEW i \in Invocations, ReturnOfOldSession(i) PROVE NestingStep
  BY <1>14, <1>b DEF ReturnOfOldSession, NestInv
<1>15. ASSUME NEW i \in Invocations, ReturnAccepted(i) PROVE NestingStep
  <2>1. wstack' = wstack
    BY <1>15 DEF ReturnAccepted, cVars
  <2>2. Returned' = Returned
    BY <1>15, <1>a DEF ReturnAccepted, Returned, cVars
  <2> QED
    BY <2>1, <2>2 DEF NestingStep, Nesting!vars, Running
<1>16. ASSUME NEW i \in Invocations, ReturnRefused(i) PROVE NestingStep
  <2>1. wstack' = wstack
    BY <1>16 DEF ReturnRefused, cVars
  <2>2. Returned' = Returned
    BY <1>16, <1>a DEF ReturnRefused, Returned, cVars
  <2> QED
    BY <2>1, <2>2 DEF NestingStep, Nesting!vars, Running
<1>17. ASSUME NEW i \in Invocations, WaitToRetry(i) PROVE NestingStep
  <2>1. wstack' = wstack
    BY <1>17 DEF WaitToRetry, cVars
  <2>2. Returned' = Returned
    BY <1>17, <1>a DEF WaitToRetry, Returned, cVars
  <2> QED
    BY <2>1, <2>2 DEF NestingStep, Nesting!vars, Running
<1>18. ASSUME NEW i \in Invocations, PopLoad(i) PROVE NestingStep
  <2>1. wstack' = wstack
    BY <1>18 DEF PopLoad, cVars
  <2>2. Returned' = Returned
    BY <1>18, <1>a DEF PopLoad, Returned, cVars
  <2> QED
    BY <2>1, <2>2 DEF NestingStep, Nesting!vars, Running
<1>19. ASSUME NEW i \in Invocations, PopStore(i) PROVE NestingStep
  <2>1. /\ wstack' = wstack /\ pc[i] = "popping" /\ pc' = [pc EXCEPT ![i] = "returned"]
    BY <1>19 DEF PopStore, cVars
  <2>2. wstack[1] = Loop(i)
    BY <1>b, <2>1, BusyFacts, BusyTop DEF NestInv
  <2>3. Running # <<>> /\ Head(Running) = Loop(i)
    BY <2>2, SomethingRuns, RunningFacts
  <2>4. Returned' = Returned \cup {i} /\ Running' = Running
    BY <1>a, <2>1 DEF Returned, Running
  <2> QED
    BY <2>3, <2>4
       DEF NestingStep, Nesting!Next, Nesting!Return, Nesting!Innermost, Nesting!Callback,
           Running, Loop
<1>20. ASSUME NEW i \in Invocations, PopInvocation(i) PROVE NestingStep
  <2>1. wstack' = wstack
    BY <1>20 DEF PopInvocation, cVars
  <2>2. Returned' = Returned
    BY <1>20, <1>a DEF PopInvocation, Returned, cVars
  <2> QED
    BY <2>1, <2>2 DEF NestingStep, Nesting!vars, Running
<1>21. CASE Restart
  BY <1>21, <1>b DEF Restart, OneCaller
<1>22. CASE Rest \/ UNCHANGED vars
  BY <1>22, <1>a DEF Rest, vars, cVars, imageVars, NestingStep, Nesting!vars, Returned
<1> QED
  BY <1>1, <1>2, <1>3, <1>4, <1>5, <1>6, <1>7, <1>8, <1>9, <1>10, <1>11,
     <1>12, <1>13, <1>14, <1>15, <1>16, <1>17, <1>18, <1>19, <1>20, <1>21,
     <1>22 DEF Next, Thread, Image

\* When one process calls functions and only they call back, the worker, its task
\* queue, the callback process and the return protocol together do nothing but nested
\* calls: a function ends or a callback resumes only if it is the innermost one, and
\* a callback resumes only after its own handler returned.
THEOREM WorkerNests == ASSUME OneCaller PROVE Spec => ImplementsNesting
<1>1. Init => Nesting!Init
  <2> SUFFICES ASSUME Init PROVE Nesting!Init
    OBVIOUS
  <2>1. wstack = <<Loop(NULL)>> /\ Len(wstack) = 1
    BY DEF Init
  <2>2. SubSeq(wstack, 1, Len(wstack) - 1) = <<>>
    <3>1. SubSeq(wstack, 1, Len(wstack) - 1) = SubSeq(<<Loop(NULL)>>, 1, 0)
      BY <2>1
    <3> QED
      BY <3>1
  <2>3. Returned = {}
    BY WorkerAssumption DEF Init, Returned, Processes
  <2> QED
    BY <2>2, <2>3 DEF Nesting!Init
<1>2. IInv /\ NestInv /\ [Next]_vars => [Nesting!Next]_Nesting!vars
  BY RefineStep DEF NestHyp, NestingStep
<1> QED
  BY <1>1, <1>2, Nested, PTL DEF Spec, ImplementsNesting, Nesting!Spec
==============================================================================
