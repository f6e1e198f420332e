----------------------------- MODULE MemoProofs -----------------------------
(***************************************************************************)
(* Replay of memoized calls, for any number of executions and calls.       *)
(***************************************************************************)
EXTENDS Memo, SequenceTheorems, TLAPS

\* Executions that may still write a memo.
Writing == Active \cup {"lost_put"}

\* An execution that may still write is at one of its calls; one that has not
\* begun has no results.
PlaceInv ==
    \A e \in Execution :
        /\ pc[e] \in Writing => Len(results[e]) < Calls
        /\ pc[e] = "idle" => results[e] = <<>>

TypeInv == TypeOK /\ PlaceInv

-----------------------------------------------------------------------------
(* Types *)

LEMMA Typed ==
    ASSUME TypeInv, NEW e \in Execution
    PROVE  /\ results[e] \in Seq(Execution \cup {Raised})
           /\ Len(results[e]) \in Nat /\ Len(results[e]) <= Calls /\ Calls \in Nat
           /\ DOMAIN results[e] = 1..Len(results[e])
           /\ \A j \in 1..Len(results[e]) : results[e][j] \in Execution \cup {Raised}
           /\ Seqno(e) = Len(results[e]) + 1
           /\ pc[e] \in Writing => Seqno(e) \in Position
  <1>1. results[e] \in Seq(Execution \cup {Raised})
    BY DEF TypeInv, TypeOK
  <1>2. /\ Len(results[e]) \in Nat
        /\ DOMAIN results[e] = 1..Len(results[e])
        /\ \A j \in 1..Len(results[e]) : results[e][j] \in Execution \cup {Raised}
    BY <1>1, LenProperties, ElementOfSeq
  <1>3. Len(results[e]) <= Calls /\ Calls \in Nat
    BY MemoAssumption DEF TypeInv, TypeOK
  <1>4. pc[e] \in Writing => Len(results[e]) < Calls
    BY DEF TypeInv, PlaceInv
  <1> QED
    BY <1>1, <1>2, <1>3, <1>4 DEF Seqno, Position

\* A call that gives its result: the execution keeps the earlier ones and is at
\* its next call or over.
LEMMA Received ==
    ASSUME TypeInv, NEW e \in Execution, pc[e] \in Active,
           NEW result \in Execution \cup {Raised}, Receive(e, result)
    PROVE  /\ \A d \in Execution : d # e => results'[d] = results[d] /\ pc'[d] = pc[d]
           /\ results' \in [Execution -> Seq(Execution \cup {Raised})]
           /\ Len(results'[e]) = Len(results[e]) + 1
           /\ \A j \in 1..Len(results[e]) : results'[e][j] = results[e][j]
           /\ results'[e][Seqno(e)] = result
           /\ pc' \in [Execution -> Active \cup {"idle", "lost_put", "over"}]
           /\ pc'[e] \in {"get", "over"}
           /\ pc'[e] = "get" => Seqno(e) < Calls
           /\ Len(results'[e]) <= Calls
  <1>1. /\ results[e] \in Seq(Execution \cup {Raised})
        /\ Len(results[e]) \in Nat /\ Calls \in Nat
        /\ Seqno(e) = Len(results[e]) + 1 /\ Seqno(e) \in Position
    BY Typed DEF Writing
  <1>2. /\ results \in [Execution -> Seq(Execution \cup {Raised})]
        /\ pc \in [Execution -> Active \cup {"idle", "lost_put", "over"}]
    BY DEF TypeInv, TypeOK
  <1>3. /\ results' = [results EXCEPT ![e] = Append(results[e], result)]
        /\ pc' = [pc EXCEPT ![e] = IF Seqno(e) = Calls THEN "over" ELSE "get"]
    BY DEF Receive, Goto
  <1>4. /\ Append(results[e], result) \in Seq(Execution \cup {Raised})
        /\ Len(Append(results[e], result)) = Len(results[e]) + 1
        /\ \A j \in 1..Len(results[e]) : Append(results[e], result)[j] = results[e][j]
        /\ Append(results[e], result)[Len(results[e]) + 1] = result
    BY <1>1, AppendProperties
  <1>5. results'[e] = Append(results[e], result)
    BY <1>2, <1>3
  <1>6. \A d \in Execution : d # e => results'[d] = results[d] /\ pc'[d] = pc[d]
    BY <1>2, <1>3
  <1>7. pc'[e] = IF Seqno(e) = Calls THEN "over" ELSE "get"
    BY <1>2, <1>3
  <1>8. pc' \in [Execution -> Active \cup {"idle", "lost_put", "over"}]
    BY <1>2, <1>3 DEF Active
  <1>9. results' \in [Execution -> Seq(Execution \cup {Raised})]
    BY <1>2, <1>3, <1>4
  <1> QED
    BY <1>1, <1>4, <1>5, <1>6, <1>7, <1>8, <1>9 DEF Position

LEMMA ReceivedTypes ==
    ASSUME TypeInv, NEW e \in Execution, pc[e] \in Active,
           NEW result \in Execution \cup {Raised}, Receive(e, result),
           memos' \in [Position -> Execution \cup {Nothing}], causes' \subseteq Cause
    PROVE  TypeInv'
  <1>1. /\ \A d \in Execution : d # e => results'[d] = results[d] /\ pc'[d] = pc[d]
        /\ Len(results'[e]) <= Calls
        /\ pc'[e] \in {"get", "over"} /\ (pc'[e] = "get" => Len(results'[e]) < Calls)
    BY Received, Typed DEF Writing
  <1>2. TypeOK'
    BY <1>1, Received DEF TypeInv, TypeOK
  <1>3. PlaceInv'
    BY <1>1 DEF TypeInv, PlaceInv, Writing, Active
  <1> QED
    BY <1>2, <1>3 DEF TypeInv

\* A step that gives no result.
LEMMA MovedTypes ==
    ASSUME TypeInv, NEW e \in Execution, pc[e] \in Writing,
           NEW place \in Writing \cup {"over"}, Goto(e, place), results' = results,
           memos' \in [Position -> Execution \cup {Nothing}], causes' \subseteq Cause
    PROVE  TypeInv'
  BY DEF Goto, TypeInv, TypeOK, PlaceInv, Writing, Active

LEMMA InitTypeInv == Init => TypeInv
  BY MemoAssumption, EmptySeq DEF Init, TypeInv, TypeOK, PlaceInv, Writing, Active

LEMMA NextTypeInv ==
    ASSUME TypeInv, [Next]_vars
    PROVE  TypeInv'
  <1>0. memos \in [Position -> Execution \cup {Nothing}] /\ causes \subseteq Cause
    BY DEF TypeInv, TypeOK
  <1>1. ASSUME NEW e \in Execution, Begin(e)
        PROVE  TypeInv'
    <2>1. results[e] = <<>> /\ Len(results[e]) = 0
      BY <1>1, EmptySeq DEF Begin, TypeInv, PlaceInv
    <2>2. causes' \subseteq Cause
      BY <1>0, <1>1 DEF Begin, Cause
    <2> QED
      BY <1>1, <2>1, <2>2, MemoAssumption
      DEF Begin, Goto, TypeInv, TypeOK, PlaceInv, Writing, Active
  <1>2. ASSUME NEW e \in Execution, Found(e)
        PROVE  TypeInv'
    <2>1. pc[e] \in Active /\ memos[Seqno(e)] \in Execution \cup {Raised}
      BY <1>0, <1>2, Typed DEF Found, Writing, Active
    <2> QED
      BY <1>0, <1>2, <2>1, ReceivedTypes DEF Found
  <1>3. ASSUME NEW e \in Execution, NotFound(e) \/ Compute(e) \/ End(e) \/ PutRaises(e)
        PROVE  TypeInv'
    BY <1>0, <1>3, MovedTypes DEF NotFound, Compute, End, PutRaises, Writing, Active
  <1>4. ASSUME NEW e \in Execution, Caught(e)
        PROVE  TypeInv'
    BY <1>0, <1>4, ReceivedTypes DEF Caught, Active, Cause
  <1>5. ASSUME NEW e \in Execution, Put(e)
        PROVE  TypeInv'
    BY <1>0, <1>5, ReceivedTypes DEF Put, Active
  <1>6. ASSUME NEW e \in Execution, PutArrivesLate(e)
        PROVE  TypeInv'
    BY <1>0, <1>6, MovedTypes DEF PutArrivesLate, Writing, Cause
  <1>7. CASE UNCHANGED vars
    BY <1>7 DEF vars, TypeInv, TypeOK, PlaceInv
  <1> QED
    BY <1>1, <1>2, <1>3, <1>4, <1>5, <1>6, <1>7 DEF Next

LEMMA TypeInvariant == Spec => []TypeInv
  BY InitTypeInv, NextTypeInv, PTL DEF Spec

\* Every variable keeps its type; in particular no execution makes more calls than
\* its callback has.
THEOREM MemoTypes == Spec => []TypeOK
  <1>1. TypeInv => TypeOK
    BY DEF TypeInv
  <1> QED
    BY <1>1, TypeInvariant, PTL

-----------------------------------------------------------------------------
(* Nothing is paid for twice *)

\* What an execution has been given by a call is stored, unless the call raised.
GivenIsStored ==
    \A e \in Execution : \A j \in 1..Len(results[e]) :
        results[e][j] = Raised \/ memos[j] # Nothing

\* A step that gives no result and takes no memo away.
LEMMA StillStored ==
    ASSUME GivenIsStored, results' = results,
           \A i \in Position : memos[i] # Nothing => memos'[i] # Nothing,
           TypeInv
    PROVE  GivenIsStored'
  <1> SUFFICES ASSUME NEW e \in Execution, NEW j \in 1..Len(results[e]), results[e][j] # Raised
               PROVE  memos'[j] # Nothing
    BY DEF GivenIsStored
  <1>1. j \in Position
    BY Typed DEF Position
  <1> QED
    BY <1>1 DEF GivenIsStored

LEMMA ReceivedIsStored ==
    ASSUME TypeInv, GivenIsStored, NEW e \in Execution, pc[e] \in Active,
           NEW result \in Execution \cup {Raised}, Receive(e, result),
           \A i \in Position : memos[i] # Nothing => memos'[i] # Nothing,
           result = Raised \/ memos'[Seqno(e)] # Nothing
    PROVE  GivenIsStored'
  <1> SUFFICES ASSUME NEW d \in Execution, NEW j \in 1..Len(results'[d]), results'[d][j] # Raised
               PROVE  memos'[j] # Nothing
    BY DEF GivenIsStored
  <1>1. CASE d = e /\ j = Seqno(e)
    BY <1>1, Received
  <1>2. CASE d # e \/ j # Seqno(e)
    <2>1. j \in 1..Len(results[d]) /\ results'[d][j] = results[d][j]
      BY <1>2, Received, Typed
    <2>2. j \in Position
      BY <2>1, Typed DEF Position
    <2> QED
      BY <2>1, <2>2 DEF GivenIsStored
  <1> QED
    BY <1>1, <1>2

LEMMA NextGivenIsStored ==
    ASSUME TypeInv, GivenIsStored, [Next]_vars
    PROVE  GivenIsStored'
  <1>0. memos \in [Position -> Execution \cup {Nothing}]
    BY DEF TypeInv, TypeOK
  <1>1. ASSUME NEW e \in Execution,
               Begin(e) \/ NotFound(e) \/ Compute(e) \/ End(e) \/ PutRaises(e)
        PROVE  GivenIsStored'
    BY <1>1, StillStored DEF Begin, NotFound, Compute, End, PutRaises
  <1>2. ASSUME NEW e \in Execution, Found(e)
        PROVE  GivenIsStored'
    <2>1. pc[e] \in Active /\ memos[Seqno(e)] \in Execution \cup {Raised}
      BY <1>0, <1>2, Typed DEF Found, Writing, Active
    <2> QED
      BY <1>2, <2>1, ReceivedIsStored DEF Found
  <1>3. ASSUME NEW e \in Execution, Caught(e)
        PROVE  GivenIsStored'
    BY <1>3, ReceivedIsStored DEF Caught, Active
  <1>4. ASSUME NEW e \in Execution, Put(e)
        PROVE  GivenIsStored'
    <2>1. Seqno(e) \in Position /\ pc[e] \in Active
      BY <1>4, Typed DEF Put, Active, Writing
    <2>2. memos'[Seqno(e)] # Nothing /\ \A i \in Position : memos[i] # Nothing => memos'[i] # Nothing
      BY <1>0, <1>4, <2>1, MemoAssumption DEF Put
    <2> QED
      BY <1>4, <2>1, <2>2, ReceivedIsStored DEF Put
  <1>5. ASSUME NEW e \in Execution, PutArrivesLate(e)
        PROVE  GivenIsStored'
    <2>1. \A i \in Position : memos[i] # Nothing => memos'[i] # Nothing
      BY <1>0, <1>5, MemoAssumption DEF PutArrivesLate
    <2> QED
      BY <1>5, <2>1, StillStored DEF PutArrivesLate
  <1>6. CASE UNCHANGED vars
    BY <1>6 DEF vars, GivenIsStored
  <1> QED
    BY <1>1, <1>2, <1>3, <1>4, <1>5, <1>6 DEF Next

\* No execution computes a call that any execution has been given a result for,
\* with executions that overlap, crash, and puts that arrive late.
THEOREM CallsAreNeverPaidAgain == Spec => NeverPaidAgain
  <1> DEFINE Step ==
        \A e \in Execution : pc[e] = "get" /\ pc'[e] = "compute" =>
            \A d \in Execution :
                Len(results[d]) >= Seqno(e) => results[d][Seqno(e)] = Raised
  <1>1. Init => GivenIsStored
    BY EmptySeq DEF Init, GivenIsStored
  <1>2. ASSUME TypeInv, GivenIsStored, [Next]_vars
        PROVE  [Step]_vars
    <2> SUFFICES ASSUME NEW e \in Execution, pc[e] = "get", pc'[e] = "compute",
                        NEW d \in Execution, Len(results[d]) >= Seqno(e)
                 PROVE  results[d][Seqno(e)] = Raised
      OBVIOUS
    <2>0. pc \in [Execution -> Active \cup {"idle", "lost_put", "over"}]
      BY <1>2 DEF TypeInv, TypeOK
    <2>1. memos[Seqno(e)] = Nothing
      <3>1. ASSUME NEW f \in Execution, NotFound(f)
            PROVE  memos[Seqno(e)] = Nothing
        BY <2>0, <3>1 DEF NotFound, Goto
      <3>2. ASSUME NEW f \in Execution, Found(f) \/ Caught(f) \/ Put(f)
            PROVE  FALSE
        BY <2>0, <3>2 DEF Found, Caught, Put, Receive, Goto
      <3>3. ASSUME NEW f \in Execution,
                   Begin(f) \/ Compute(f) \/ End(f) \/ PutRaises(f) \/ PutArrivesLate(f)
            PROVE  FALSE
        BY <2>0, <3>3 DEF Begin, Compute, End, PutRaises, PutArrivesLate, Goto
      <3>4. CASE UNCHANGED vars
        BY <3>4 DEF vars
      <3> QED
        BY <1>2, <3>1, <3>2, <3>3, <3>4 DEF Next
    <2>2. Seqno(e) \in 1..Len(results[d])
      BY <1>2, Typed
    <2> QED
      BY <1>2, <2>1, <2>2 DEF GivenIsStored
  <1> QED
    BY <1>1, <1>2, NextGivenIsStored, TypeInvariant, PTL DEF Spec, NeverPaidAgain

-----------------------------------------------------------------------------
(* One history *)

\* The value at position i continues the values stored before it.
Continues(i) ==
    memos[i] # Nothing =>
        /\ Len(results[memos[i]]) >= i - 1
        /\ \A j \in 1..(i - 1) : memos[j] = results[memos[i]][j]

\* What execution e has been given is what is stored now.
Agrees(e) == \A j \in 1..Len(results[e]) : results[e][j] = memos[j]

\* As long as nothing mixes executions up, one of them is at work; whoever may
\* still write a memo has seen the stored values, and nothing is stored where it
\* is about to write.
HistoryInv ==
    causes = {} =>
        /\ \A d, e \in Execution : pc[d] \in Active /\ pc[e] \in Active => d = e
        /\ \A e \in Execution : pc[e] \in Writing => Agrees(e)
        /\ \A e \in Execution : pc[e] \in {"compute", "put"} => memos[Seqno(e)] = Nothing
        /\ \A i \in Position : Continues(i)

\* A step that neither gives a result nor stores a value.
LEMMA SameHistory ==
    ASSUME TypeInv, HistoryInv, causes \subseteq causes', results' = results, memos' = memos,
           causes' = {} =>
               \A e \in Execution :
                   /\ pc'[e] \in Active => pc[e] \in Active
                   /\ pc'[e] \in Writing => pc[e] \in Writing
                   /\ pc'[e] \in {"compute", "put"} =>
                         pc[e] \in {"compute", "put"} \/ memos[Seqno(e)] = Nothing
    PROVE  HistoryInv'
  <1> SUFFICES ASSUME causes' = {}
               PROVE  HistoryInv'
    BY DEF HistoryInv
  <1>1. causes = {}
    OBVIOUS
  <1> QED
    BY <1>1 DEF HistoryInv, Agrees, Continues, Seqno

\* The only execution at work is given the value that is stored for its call, be
\* it found there or stored by this step.
LEMMA HistoryGrows ==
    ASSUME TypeInv, HistoryInv, causes = {}, causes' = {},
           NEW e \in Execution, pc[e] \in Active,
           NEW result \in Execution, Receive(e, result),
           memos' = [memos EXCEPT ![Seqno(e)] = result],
           \/ memos[Seqno(e)] = result
           \/ memos[Seqno(e)] = Nothing /\ result = e
    PROVE  HistoryInv'
  <1> USE DEF Writing, Active
  <1> DEFINE n == Seqno(e)
  <1>1. /\ n \in Position /\ n = Len(results[e]) + 1 /\ Len(results[e]) \in Nat
        /\ Calls \in Nat /\ Nothing \notin Execution
    BY Typed, MemoAssumption
  <1>2. \A i \in Position : memos'[i] = IF i = n THEN result ELSE memos[i]
    BY <1>1 DEF TypeInv, TypeOK
  <1>3. /\ \A d \in Execution : d # e => results'[d] = results[d] /\ pc'[d] = pc[d]
        /\ Len(results'[e]) = n
        /\ \A j \in 1..(n - 1) : results'[e][j] = results[e][j]
        /\ results'[e][n] = result
        /\ pc'[e] \in {"get", "over"}
    BY <1>1, Received
  <1>4. /\ \A d \in Execution : pc[d] \in Active => d = e
        /\ \A d \in Execution : pc[d] \in Writing => Agrees(d)
        /\ \A i \in Position : Continues(i)
    BY DEF HistoryInv
  <1>5. \A d, f \in Execution : pc'[d] \in Active /\ pc'[f] \in Active => d = f
    BY <1>3, <1>4
  <1>6. ASSUME NEW d \in Execution, pc'[d] \in Writing
        PROVE  Agrees(d)'
    <2>1. CASE d = e
      <3>1. \A j \in 1..(n - 1) : results[e][j] = memos[j] /\ memos'[j] = memos[j]
        BY <1>1, <1>2, <1>4 DEF Agrees, Position
      <3> QED
        BY <1>1, <1>2, <1>3, <2>1, <3>1 DEF Agrees
    <2>2. CASE d # e
      <3>1. results'[d] = results[d] /\ Agrees(d)
        BY <1>3, <1>4, <1>6, <2>2
      <3>2. ASSUME NEW j \in 1..Len(results[d])
            PROVE  results[d][j] = memos'[j]
        <4>1. j \in Position /\ results[d][j] \in Execution \cup {Raised}
          BY Typed DEF Position
        <4>2. results[d][j] = memos[j]
          BY <3>1 DEF Agrees
        <4>3. memos[j] # Nothing
          BY <4>1, <4>2, MemoAssumption
        <4> QED
          BY <1>2, <4>1, <4>2, <4>3
      <3> QED
        BY <3>1, <3>2 DEF Agrees
    <2> QED
      BY <2>1, <2>2
  <1>7. \A d \in Execution : pc'[d] \notin {"compute", "put"}
    BY <1>3, <1>4
  <1>8. ASSUME NEW i \in Position
        PROVE  Continues(i)'
    <2>0. i \in Nat /\ i >= 1
      BY DEF Position
    <2>1. CASE i = n /\ memos[n] = Nothing
      <3>1. memos'[i] = e
        BY <1>1, <1>2, <2>1
      <3>2. \A j \in 1..(n - 1) : memos'[j] = results'[e][j]
        BY <1>1, <1>2, <1>3, <1>4 DEF Agrees, Position
      <3> QED
        BY <1>1, <1>3, <2>1, <3>1, <3>2 DEF Continues
    <2>2. CASE i # n \/ memos[n] # Nothing
      <3> SUFFICES ASSUME memos'[i] # Nothing
                   PROVE  Continues(i)'
        BY DEF Continues
      <3> DEFINE f == memos[i]
      <3>1. memos'[i] = f /\ f \in Execution
        BY <1>1, <1>2, <2>2 DEF TypeInv, TypeOK
      <3>2. /\ Len(results[f]) >= i - 1
            /\ \A j \in 1..(i - 1) : memos[j] = results[f][j]
        BY <1>4, <3>1, MemoAssumption DEF Continues
      <3>3. /\ Len(results[f]) \in Nat
            /\ \A j \in 1..Len(results[f]) : results[f][j] \in Execution \cup {Raised}
        BY <3>1, Typed
      <3>4. Len(results'[f]) >= i - 1 /\ \A j \in 1..(i - 1) : results'[f][j] = results[f][j]
        BY <1>1, <1>3, <2>0, <3>1, <3>2, <3>3
      <3>5. \A j \in 1..(i - 1) : memos'[j] = memos[j]
        <4> SUFFICES ASSUME NEW j \in 1..(i - 1)
                     PROVE  memos'[j] = memos[j]
          OBVIOUS
        <4>1. j \in Position /\ j \in 1..Len(results[f])
          BY <1>1, <2>0, <3>2, <3>3 DEF Position
        <4>2. memos[j] # Nothing
          BY <3>2, <3>3, <4>1, MemoAssumption
        <4> QED
          BY <1>2, <4>1, <4>2
      <3> HIDE DEF f
      <3> QED
        BY <3>1, <3>2, <3>4, <3>5 DEF Continues
    <2> QED
      BY <2>1, <2>2
  <1> QED
    BY <1>5, <1>6, <1>7, <1>8 DEF HistoryInv

\* A put that arrives late without a cause finds every other execution before the
\* position it writes.
LEMMA LatePutContinues ==
    ASSUME TypeInv, HistoryInv, causes = {}, causes' = {}, NEW e \in Execution, PutArrivesLate(e)
    PROVE  HistoryInv'
  <1> USE DEF Writing, Active
  <1> DEFINE n == Seqno(e)
  <1>1. /\ n \in Position /\ n = Len(results[e]) + 1 /\ Len(results[e]) \in Nat
        /\ Calls \in Nat /\ Nothing \notin Execution
    BY Typed, MemoAssumption DEF PutArrivesLate
  <1>2. \A i \in Position : memos'[i] = IF i = n THEN e ELSE memos[i]
    BY <1>1 DEF PutArrivesLate, TypeInv, TypeOK
  <1>3. /\ results' = results /\ pc'[e] = "over"
        /\ \A d \in Execution : d # e => pc'[d] = pc[d]
    BY DEF PutArrivesLate, Goto, TypeInv, TypeOK
  <1>4. \A d \in Execution \ {e} :
           /\ ~(Len(results[d]) >= n)
           /\ ~(Seqno(d) = n /\ pc[d] \in {"compute", "put"})
    BY DEF PutArrivesLate
  <1>5. \A d \in Execution : Len(results[d]) \in Nat /\ Len(results[d]) < n
    BY <1>1, <1>4, Typed
  <1>6. \A d \in Execution : pc[d] \in Writing => Agrees(d)
    BY DEF HistoryInv
  <1>7. \A d, f \in Execution : pc'[d] \in Active /\ pc'[f] \in Active => d = f
    BY <1>3 DEF HistoryInv
  <1>8. ASSUME NEW d \in Execution, pc'[d] \in Writing
        PROVE  Agrees(d)'
    <2>1. d # e /\ Agrees(d)
      BY <1>3, <1>6, <1>8
    <2>2. \A j \in 1..Len(results[d]) : j \in Position /\ j # n
      BY <1>1, <1>5 DEF Position
    <2> QED
      BY <1>2, <1>3, <2>1, <2>2 DEF Agrees
  <1>9. ASSUME NEW d \in Execution, pc'[d] \in {"compute", "put"}
        PROVE  memos'[Seqno(d)] = Nothing
    <2>1. d # e /\ pc'[d] = pc[d]
      BY <1>3, <1>9
    <2>2. Seqno(d) # n /\ Seqno(d) \in Position
      BY <1>4, <1>9, <2>1, Typed
    <2> QED
      BY <1>2, <1>9, <2>1, <2>2 DEF HistoryInv
  <1>10. ASSUME NEW i \in Position
         PROVE  Continues(i)'
    <2>0. i \in Nat /\ i >= 1 /\ Continues(i)
      BY DEF Position, HistoryInv
    <2>1. CASE i = n
      <3>1. memos'[i] = e /\ \A j \in 1..(n - 1) : memos'[j] = results[e][j]
        BY <1>1, <1>2, <1>6, <2>1 DEF Agrees, Position, PutArrivesLate
      <3> QED
        BY <1>1, <1>3, <2>1, <3>1 DEF Continues
    <2>2. CASE i # n
      <3> SUFFICES ASSUME memos[i] # Nothing
                   PROVE  Continues(i)'
        BY <1>2, <2>2 DEF Continues
      <3>1. memos[i] \in Execution
        BY DEF TypeInv, TypeOK
      <3>2. i <= n
        BY <1>1, <1>5, <2>0, <3>1 DEF Continues
      <3>3. \A j \in 1..(i - 1) : j \in Position /\ j # n
        BY <1>1, <2>0, <3>2 DEF Position
      <3> QED
        BY <1>2, <1>3, <2>0, <2>2, <3>3 DEF Continues
    <2> QED
      BY <2>1, <2>2
  <1> QED
    BY <1>3, <1>7, <1>8, <1>9, <1>10 DEF HistoryInv, Seqno

LEMMA NextHistoryInv ==
    ASSUME TypeInv, HistoryInv, [Next]_vars
    PROVE  HistoryInv'
  <1> SUFFICES ASSUME causes' = {}
               PROVE  HistoryInv'
    BY DEF HistoryInv
  <1> USE DEF Writing, Active
  <1>0. /\ memos \in [Position -> Execution \cup {Nothing}]
        /\ pc \in [Execution -> Active \cup {"idle", "lost_put", "over"}]
    BY DEF TypeInv, TypeOK
  <1>1. ASSUME NEW e \in Execution, Begin(e)
        PROVE  HistoryInv'
    <2>1. /\ causes = {} /\ memos' = memos /\ results' = results
          /\ \A d \in Execution : pc[d] \notin Active
          /\ \A d \in Execution : d # e => pc'[d] = pc[d]
          /\ pc'[e] \in {"get", "over"}
      BY <1>0, <1>1 DEF Begin, Goto
    <2>2. Len(results[e]) = 0
      BY <1>1, EmptySeq DEF Begin, TypeInv, PlaceInv
    <2> QED
      BY <2>1, <2>2 DEF HistoryInv, Agrees, Continues, Seqno
  <1>2. ASSUME NEW e \in Execution, Found(e)
        PROVE  HistoryInv'
    <2>1. pc[e] \in Active /\ Seqno(e) \in Position /\ causes = {}
      BY <1>2, Typed DEF Found
    <2>2. memos[Seqno(e)] \in Execution /\ memos' = [memos EXCEPT ![Seqno(e)] = memos[Seqno(e)]]
      BY <1>0, <1>2, <2>1 DEF Found
    <2> QED
      BY <1>2, <2>1, <2>2, HistoryGrows DEF Found
  <1>3. ASSUME NEW e \in Execution, NotFound(e) \/ Compute(e) \/ End(e) \/ PutRaises(e)
        PROVE  HistoryInv'
    <2>1. /\ causes' = causes /\ results' = results /\ memos' = memos
          /\ \A d \in Execution :
                /\ pc'[d] \in Active => pc[d] \in Active
                /\ pc'[d] \in Writing => pc[d] \in Writing
                /\ pc'[d] \in {"compute", "put"} =>
                      pc[d] \in {"compute", "put"} \/ memos[Seqno(d)] = Nothing
      BY <1>0, <1>3 DEF NotFound, Compute, End, PutRaises, Goto
    <2> QED
      BY <2>1, SameHistory
  <1>4. ASSUME NEW e \in Execution, Caught(e)
        PROVE  HistoryInv'
    BY <1>4 DEF Caught
  <1>5. ASSUME NEW e \in Execution, Put(e)
        PROVE  HistoryInv'
    <2>1. causes = {} /\ memos[Seqno(e)] = Nothing
      BY <1>5 DEF Put, HistoryInv
    <2> QED
      BY <1>5, <2>1, HistoryGrows DEF Put
  <1>6. ASSUME NEW e \in Execution, PutArrivesLate(e)
        PROVE  HistoryInv'
    <2>1. causes = {}
      BY <1>6 DEF PutArrivesLate
    <2> QED
      BY <1>6, <2>1, LatePutContinues
  <1>7. CASE UNCHANGED vars
    BY <1>7, SameHistory DEF vars
  <1> QED
    BY <1>1, <1>2, <1>3, <1>4, <1>5, <1>6, <1>7 DEF Next

\* What is stored is one history, unless executions overlapped, a put arrived after
\* another execution had gone past it, or a failed call was caught.
THEOREM StoredHistoryIsOne == Spec => []StoredIsOneHistory
  <1>1. Init => HistoryInv
    BY EmptySeq DEF Init, HistoryInv, Agrees, Continues, Writing, Active
  <1>2. HistoryInv => StoredIsOneHistory
    BY DEF HistoryInv, Continues, StoredIsOneHistory
  <1> QED
    BY <1>1, <1>2, NextHistoryInv, TypeInvariant, PTL DEF Spec

=============================================================================
