------------------------ MODULE Orchestrator_proofs ------------------------
(***************************************************************************)
(* What the kill switch guarantees a run, for any number of concurrent runs *)
(* and any action lists.                                                    *)
(***************************************************************************)
EXTENDS Orchestrator, FiniteSetTheorems, TLAPS

\* LoopDetector.observe keeps a sequence of actions within the deque's maxlen.
LEMMA ObserveType ==
    ASSUME NEW h \in Seq(Actions), Len(h) <= Window, NEW a \in Actions
    PROVE  /\ observe(h, a).history \in Seq(Actions)
           /\ Len(observe(h, a).history) <= Window
<1> DEFINE h2 == IF Len(h) < Window THEN Append(h, a) ELSE Append(Tail(h), a)
<1>1. observe(h, a).history = h2
  BY DEF observe
<1>2. CASE Len(h) < Window
  <2>1. h2 \in Seq(Actions) /\ Len(h2) = Len(h) + 1
    BY <1>2
  <2> QED BY <1>1, <1>2, <2>1, DetectorAssumption
<1>3. CASE Len(h) >= Window
  <2>1. h # <<>>
    BY <1>3, DetectorAssumption
  <2>2. Tail(h) \in Seq(Actions) /\ Len(Tail(h)) = Len(h) - 1
    BY <2>1
  <2>3. h2 \in Seq(Actions) /\ Len(h2) = Len(h)
    <3>1. h2 = Append(Tail(h), a)
      BY <1>3, DetectorAssumption
    <3>2. Append(Tail(h), a) \in Seq(Actions) /\ Len(Append(Tail(h), a)) = Len(Tail(h)) + 1
      BY <2>2
    <3>3. Len(h) \in Nat
      OBVIOUS
    <3> HIDE DEF h2
    <3> QED BY <3>1, <3>2, <3>3, <2>2
  <2> QED BY <1>1, <2>3
<1> QED BY <1>2, <1>3, DetectorAssumption

\* A list that brain.decide returns is a sequence of actions.
LEMMA ListsAreSequences == \A list \in Lists : list \in Seq(Actions)
BY DEF Lists

\* The initial states have the right types.
LEMMA TypeInit == Init => TypeOK
<1> SUFFICES ASSUME Init PROVE TypeOK
  OBVIOUS
<1>1. <<>> \in Seq(Actions) /\ Len(<<>>) <= Window
  BY DetectorAssumption
<1> QED BY <1>1 DEF Init, TypeOK, Points

\* Every step preserves the types.
LEMMA TypeNext == TypeOK /\ [Next]_vars => TypeOK'
<1> SUFFICES ASSUME TypeOK, [Next]_vars PROVE TypeOK'
  OBVIOUS
<1> USE DEF TypeOK, Points, Goto, Return, Leave, Resumes, Active, runVars, histVars
<1>1. ASSUME NEW r \in Runs, RunStep(r) PROVE TypeOK'
  <2>1. ASSUME NEW k \in {"run", "plan"}, Submit(r, k) PROVE TypeOK'
    BY <2>1 DEF Submit
  <2>2. CASE Begin(r)
    BY <2>2 DEF Begin
  <2>3. CASE CheckWindow(r)
    BY <2>3 DEF CheckWindow
  <2>4. CASE CheckStart(r)
    BY <2>4 DEF CheckStart
  <2>5. CASE Decide(r)
    <3>1. acts' \in [Runs -> Seq(Actions)]
      BY <2>5, ListsAreSequences DEF Decide
    <3> QED BY <2>5, <3>1 DEF Decide
  <2>6. CASE NextAction(r)
    BY <2>6 DEF NextAction
  <2>7. CASE Gate(r)
    BY <2>7 DEF Gate
  <2>8. CASE Answer(r)
    BY <2>8 DEF Answer
  <2>9. CASE Perform(r)
    BY <2>9 DEF Perform
  <2>10. CASE AfterAction(r)
    <3> DEFINE a == Head(acts[r])
               o == observe(history[r], a)
    <3>1. acts[r] \in Seq(Actions) /\ acts[r] # <<>> /\ history[r] \in Seq(Actions)
      BY <2>10 DEF AfterAction
    <3>2. a \in Actions /\ Tail(acts[r]) \in Seq(Actions)
      BY <3>1
    <3>3. o.history \in Seq(Actions) /\ Len(o.history) <= Window
      BY <3>1, <3>2, ObserveType
    <3>4. Append(observed[r], a) \in Seq(Actions)
      BY <3>2
    <3>5. /\ history' = [history EXCEPT ![r] = o.history]
          /\ observed' = [observed EXCEPT ![r] = Append(@, a)]
          /\ acts' = [acts EXCEPT ![r] = Tail(@)]
          /\ at' = [at EXCEPT ![r] = IF o.stuck THEN "stuck" ELSE "loop"]
          /\ UNCHANGED <<flag, focus, kind, cancelled, result,
                         stops, press, after, hits>>
      BY <2>10 DEF AfterAction
    <3> HIDE DEF a, o
    <3> QED BY <3>2, <3>3, <3>4, <3>5
  <2>11. CASE Ends(r)
    BY <2>11 DEF Ends
  <2>12. CASE Raise(r)
    BY <2>12 DEF Raise
  <2>13. CASE Cancelled(r)
    BY <2>13 DEF Cancelled
  <2> QED BY <1>1, <2>1, <2>2, <2>3, <2>4, <2>5, <2>6, <2>7, <2>8, <2>9, <2>10,
             <2>11, <2>12, <2>13 DEF RunStep
<1>2. CASE Arm
  BY <1>2 DEF Arm
<1>3. CASE Poll
  BY <1>3 DEF Poll
<1>4. ASSUME NEW w \in Windows, Focus(w) PROVE TypeOK'
  BY <1>4 DEF Focus
<1>5. CASE UNCHANGED vars
  BY <1>5 DEF vars
<1> QED BY <1>1, <1>2, <1>3, <1>4, <1>5 DEF Next

\* The orchestrator's variables keep their types, the loop detector's deque
\* its maxlen, and an action that is being executed is in the brain's list.
THEOREM TypeCorrect == Spec => []TypeOK
BY TypeInit, TypeNext, PTL DEF Spec

----------------------------------------------------------------------------

\* The kill switch's guarantee as one inductive invariant.
StopInv == StopPending /\ StopHonoured

\* A step of a run keeps the kill switch's promise to every run.
LEMMA StopRunStep ==
    ASSUME TypeOK, StopInv, NEW r \in Runs, RunStep(r)
    PROVE  StopInv'
<1> USE DEF TypeOK, Points, StopInv, StopPending, StopHonoured, Goto, Return, Leave,
            Resumes, Active, runVars, histVars
<1>1. ASSUME NEW k \in {"run", "plan"}, Submit(r, k) PROVE StopInv'
  BY <1>1 DEF Submit
<1>2. CASE Begin(r)
  BY <1>2 DEF Begin
<1>3. CASE CheckWindow(r)
  BY <1>3 DEF CheckWindow
<1>4. CASE CheckStart(r)
  BY <1>4 DEF CheckStart
<1>5. CASE Decide(r)
  BY <1>5 DEF Decide
<1>6. CASE NextAction(r)
  BY <1>6 DEF NextAction
<1>7. CASE Gate(r)
  BY <1>7 DEF Gate
<1>8. CASE Answer(r)
  BY <1>8 DEF Answer
<1>9. CASE Perform(r)
  BY <1>9 DEF Perform
<1>10. CASE AfterAction(r)
  BY <1>10 DEF AfterAction
<1>11. CASE Ends(r)
  BY <1>11 DEF Ends
<1>12. CASE Raise(r)
  BY <1>12 DEF Raise
<1>13. CASE Cancelled(r)
  BY <1>13 DEF Cancelled
<1> QED BY <1>1, <1>2, <1>3, <1>4, <1>5, <1>6, <1>7, <1>8, <1>9, <1>10, <1>11,
           <1>12, <1>13 DEF RunStep

\* Whoever presses STOP, at most the one action already past its check is
\* performed, and the press is not lost, unless another run's start erases it.
THEOREM StopCorrect == Spec => [](StopHonoured /\ StopPending)
<1>1. Init => StopInv
  BY DEF Init, StopInv, StopPending, StopHonoured
<1>2. TypeOK /\ StopInv /\ [Next]_vars => StopInv'
  <2> SUFFICES ASSUME TypeOK, StopInv, [Next]_vars PROVE StopInv'
    OBVIOUS
  <2>1. ASSUME NEW r \in Runs, RunStep(r) PROVE StopInv'
    BY <2>1, StopRunStep
  <2> USE DEF TypeOK, Points, StopInv, StopPending, StopHonoured, Active, runVars, histVars
  <2>2. CASE Arm
    BY <2>2 DEF Arm
  <2>3. CASE Poll
    BY <2>3 DEF Poll
  <2>4. ASSUME NEW w \in Windows, Focus(w) PROVE StopInv'
    BY <2>4 DEF Focus
  <2>5. CASE UNCHANGED vars
    BY <2>5 DEF vars
  <2> QED BY <2>1, <2>2, <2>3, <2>4, <2>5 DEF Next
<1>3. StopInv => StopHonoured /\ StopPending
  BY DEF StopInv
<1> QED BY <1>1, <1>2, <1>3, TypeCorrect, PTL DEF Spec

----------------------------------------------------------------------------
(* The loop detector *)

\* The deque holds the last Window of the actions that were observed.
Tracks(h, s) ==
    /\ Len(h) = IF Len(s) < Window THEN Len(s) ELSE Window
    /\ \A i \in 1 .. Len(h) : h[i] = s[Len(s) - Len(h) + i]

\* observe appends to the deque as it appends to the actions.
LEMMA ObserveTracks ==
    ASSUME NEW h \in Seq(Actions), NEW s \in Seq(Actions), NEW a \in Actions, Tracks(h, s)
    PROVE  Tracks(observe(h, a).history, Append(s, a))
<1> DEFINE u == Append(s, a)
<1>1. /\ Len(u) = Len(s) + 1 /\ Len(s) \in Nat
      /\ \A i \in 1 .. Len(s) : u[i] = s[i]
      /\ u[Len(s) + 1] = a
  OBVIOUS
<1>2. CASE Len(h) < Window
  <2> DEFINE g == Append(h, a)
  <2>1. /\ Len(g) = Len(h) + 1 /\ Len(h) \in Nat
        /\ \A i \in 1 .. Len(h) : g[i] = h[i]
        /\ g[Len(h) + 1] = a
    OBVIOUS
  <2>2. observe(h, a).history = g
    BY <1>2 DEF observe
  <2>3. Len(h) = Len(s)
    BY <1>1, <1>2 DEF Tracks
  <2>4. \A i \in 1 .. Len(s) : h[i] = s[i]
    BY <1>1, <2>3 DEF Tracks
  <2> HIDE DEF g, u
  <2>5. Len(g) = IF Len(u) < Window THEN Len(u) ELSE Window
    BY <1>1, <1>2, <2>1, <2>3, DetectorAssumption
  <2>6. \A i \in 1 .. Len(g) : g[i] = u[Len(u) - Len(g) + i]
    BY <1>1, <2>1, <2>3, <2>4
  <2>7. Tracks(g, u)
    BY <2>5, <2>6 DEF Tracks
  <2> QED BY <2>2, <2>7 DEF u
<1>3. CASE Len(h) >= Window
  <2> DEFINE v == Tail(h)
             g == Append(v, a)
  <2>1. h # <<>> /\ Len(h) = Window
    BY <1>1, <1>3, DetectorAssumption DEF Tracks
  <2>2. v \in Seq(Actions) /\ Len(v) = Window - 1 /\ \A i \in 1 .. Len(v) : v[i] = h[i + 1]
    BY <2>1
  <2>3. /\ Len(g) = Len(v) + 1
        /\ \A i \in 1 .. Len(v) : g[i] = v[i]
        /\ g[Len(v) + 1] = a
    BY <2>2
  <2>4. observe(h, a).history = g
    BY <1>3, <2>1, DetectorAssumption DEF observe
  <2>5. Len(s) >= Window /\ \A i \in 1 .. Window : h[i] = s[Len(s) - Window + i]
    BY <1>1, <2>1 DEF Tracks
  <2> HIDE DEF g, u, v
  <2>6. Len(g) = Window /\ Len(u) >= Window
    BY <1>1, <2>2, <2>3, <2>5, DetectorAssumption
  <2>7. \A i \in 1 .. Window : g[i] = u[Len(u) - Window + i]
    <3> SUFFICES ASSUME NEW i \in 1 .. Window PROVE g[i] = u[Len(u) - Window + i]
      OBVIOUS
    <3>1. CASE i = Window
      BY <1>1, <2>2, <2>3, <3>1, DetectorAssumption
    <3>2. CASE i < Window
      <4>1. g[i] = h[i + 1] /\ i + 1 \in 1 .. Window
        BY <2>2, <2>3, <3>2, DetectorAssumption
      <4>2. h[i + 1] = s[Len(s) - Window + i + 1] /\ Len(s) - Window + i + 1 \in 1 .. Len(s)
        BY <1>1, <2>5, <3>2, <4>1, DetectorAssumption
      <4> QED BY <1>1, <4>1, <4>2, DetectorAssumption
    <3> QED BY <3>1, <3>2, DetectorAssumption
  <2>8. Tracks(g, u)
    <3>1. Len(u) \in Nat /\ Window \in Nat
      BY <1>1, DetectorAssumption
    <3> QED BY <2>6, <2>7, <3>1 DEF Tracks
  <2> QED BY <2>4, <2>8 DEF u
<1>4. Len(h) \in Nat /\ Window \in Nat
  BY DetectorAssumption
<1> QED BY <1>2, <1>3, <1>4

\* Counting in the deque is counting in the window: their places correspond.
LEMMA DequeCounts ==
    ASSUME NEW h \in Seq(Actions), NEW s \in Seq(Actions), s # <<>>, Tracks(h, s)
    PROVE  Cardinality({i \in 1 .. Len(h) : h[i] = s[Len(s)]}) = RepeatsInWindow(s, Len(s))
<1> DEFINE n == Len(s)
           d == n - Len(h)
           A == {i \in 1 .. Len(h) : h[i] = s[n]}
           B == {j \in (n - Window + 1) .. n : j >= 1 /\ s[j] = s[n]}
           f == [i \in A |-> d + i]
<1>1. n \in Nat \ {0} /\ Len(h) \in Nat /\ d \in Nat
  BY DetectorAssumption DEF Tracks
<1>2. Len(h) = IF n < Window THEN n ELSE Window
  BY DEF Tracks
<1>3. \A i \in 1 .. Len(h) : h[i] = s[d + i] /\ d + i \in (n - Window + 1) .. n
  <2>1. \A i \in 1 .. Len(h) : h[i] = s[d + i]
    BY DEF Tracks
  <2> HIDE DEF n
  <2>2. \A i \in 1 .. Len(h) : d + i \in (n - Window + 1) .. n
    BY <1>1, <1>2, DetectorAssumption
  <2> QED BY <2>1, <2>2
<1>4. \A j \in (n - Window + 1) .. n : j >= 1 <=> j > d
  <2> HIDE DEF n
  <2> QED BY <1>1, <1>2, DetectorAssumption
<1> HIDE DEF n, d
<1>5. \A i \in A : d + i \in B
  BY <1>1, <1>4, <1>3, DetectorAssumption
<1>6. \A j \in B : j - d \in A /\ d + (j - d) = j
  <2> SUFFICES ASSUME NEW j \in B PROVE j - d \in A /\ d + (j - d) = j
    OBVIOUS
  <2>1. j - d \in 1 .. Len(h) /\ d + (j - d) = j
    BY <1>1, <1>4, DetectorAssumption DEF d
  <2>2. h[j - d] = s[j]
    BY <1>3, <2>1
  <2> QED BY <2>1, <2>2
<1>7. f \in Bijection(A, B)
  <2>1. f \in [A -> B]
    BY <1>5
  <2>2. \A x, y \in A : f[x] = f[y] => x = y
    BY <1>1
  <2>3. \A j \in B : \E x \in A : f[x] = j
    BY <1>6
  <2> QED BY <2>1, <2>2, <2>3 DEF Bijection, Injection, Surjection, IsInjective
<1>8. IsFiniteSet(A)
  <2>1. IsFiniteSet(1 .. Len(h))
    BY <1>1, FS_Interval
  <2> QED BY <2>1, FS_Subset
<1>9. Cardinality(B) = Cardinality(A)
  <2>1. ExistsBijection(A, B)
    BY <1>7 DEF ExistsBijection
  <2> HIDE DEF A, B
  <2> QED BY <1>8, <2>1, FS_Bijection
<1> QED BY <1>9 DEF n, RepeatsInWindow

\* What was counted of an action does not change with later ones.
LEMMA CountsStay ==
    ASSUME NEW s \in Seq(Actions), NEW a \in Actions, NEW i \in DOMAIN s
    PROVE  RepeatsInWindow(Append(s, a), i) = RepeatsInWindow(s, i)
<1> DEFINE u == Append(s, a)
<1>1. \A j \in DOMAIN s : u[j] = s[j]
  OBVIOUS
<1>2. DOMAIN s = 1 .. Len(s) /\ Len(s) \in Nat
  OBVIOUS
<1> HIDE DEF u
<1>3. {j \in (i - Window + 1) .. i : j >= 1 /\ u[j] = u[i]}
        = {j \in (i - Window + 1) .. i : j >= 1 /\ s[j] = s[i]}
  <2> SUFFICES ASSUME NEW j \in (i - Window + 1) .. i, j >= 1
               PROVE  u[j] = u[i] <=> s[j] = s[i]
    OBVIOUS
  <2>1. j \in DOMAIN s
    BY <1>2, DetectorAssumption
  <2> QED BY <1>1, <2>1
<1> QED BY <1>3 DEF RepeatsInWindow, u

\* The detector's state, and where a run that is stuck can be.
StuckInv ==
    /\ \A r \in Runs : Tracks(history[r], observed[r])
    /\ \A r \in Runs : result[r] = "stuck" => at[r] = "over"
    /\ StuckIffRepeated
\* Initially nothing was observed.
LEMMA StuckInit == Init => StuckInv
BY DetectorAssumption DEF Init, StuckInv, StuckIffRepeated, Tracks

\* Only AfterAction shows the detector an action.
LEMMA StuckAfterAction ==
    ASSUME TypeOK, StuckInv, NEW r \in Runs, AfterAction(r)
    PROVE  StuckInv'
<1> DEFINE a == Head(acts[r])
           o == observe(history[r], a)
           s == observed[r]
           u == Append(s, a)
<1>1. a \in Actions /\ history[r] \in Seq(Actions) /\ s \in Seq(Actions)
  BY DEF AfterAction, TypeOK, Resumes
<1>2. /\ history' = [history EXCEPT ![r] = o.history]
      /\ observed' = [observed EXCEPT ![r] = Append(@, a)]
      /\ at' = [at EXCEPT ![r] = IF o.stuck THEN "stuck" ELSE "loop"]
      /\ result' = result
      /\ at[r] = "after"
  BY DEF AfterAction, Goto, Resumes
<1>3. Tracks(history[r], s) /\ result[r] # "stuck"
  BY <1>2 DEF StuckInv
<1>4. \A i \in DOMAIN s : ~ (RepeatsInWindow(s, i) >= Threshold)
  BY <1>2 DEF StuckInv, StuckIffRepeated
<1>5. /\ DOMAIN u = DOMAIN s \cup {Len(u)} /\ Len(u) = Len(s) + 1 /\ DOMAIN s = 1 .. Len(s)
      /\ u # <<>> /\ u \in Seq(Actions) /\ u[Len(u)] = a /\ Len(s) \in Nat
  BY <1>1
<1>6. Tracks(o.history, u)
  BY <1>1, <1>3, ObserveTracks
<1>7. o.stuck <=> RepeatsInWindow(u, Len(u)) >= Threshold
  <2>1. o.history \in Seq(Actions)
    BY <1>1, ObserveType DEF TypeOK
  <2>2. o.stuck = (Cardinality({i \in 1 .. Len(o.history) : o.history[i] = a}) >= Threshold)
    BY DEF observe
  <2> HIDE DEF o, u
  <2>3. Cardinality({i \in 1 .. Len(o.history) : o.history[i] = a}) = RepeatsInWindow(u, Len(u))
    BY <1>5, <1>6, <2>1, DequeCounts
  <2> QED BY <2>2, <2>3
<1>8. \A i \in DOMAIN s : RepeatsInWindow(u, i) = RepeatsInWindow(s, i)
  BY <1>1, CountsStay
<1> HIDE DEF a, o, s, u
<1>9. /\ history'[r] = o.history /\ observed'[r] = u
      /\ at'[r] = IF o.stuck THEN "stuck" ELSE "loop"
      /\ \A q \in Runs \ {r} :
          history'[q] = history[q] /\ observed'[q] = observed[q] /\ at'[q] = at[q]
  BY <1>2 DEF TypeOK, s, u
<1>10. ASSUME NEW q \in Runs
       PROVE  /\ Tracks(history'[q], observed'[q])
              /\ result'[q] = "stuck" => at'[q] = "over"
              /\ \A i \in DOMAIN observed'[q] :
                    RepeatsInWindow(observed'[q], i) >= Threshold =>
                        i = Len(observed'[q]) /\ at'[q] \in {"stuck", "over"}
              /\ at'[q] = "stuck" \/ result'[q] = "stuck" =>
                    /\ observed'[q] # <<>>
                    /\ RepeatsInWindow(observed'[q], Len(observed'[q])) >= Threshold
  <2>1. CASE q = r
    <3> USE <2>1
    <3>1. Tracks(history'[q], observed'[q]) /\ result'[q] # "stuck"
      BY <1>2, <1>3, <1>6, <1>9
    <3>2. \A i \in DOMAIN u : RepeatsInWindow(u, i) >= Threshold => i = Len(u) /\ o.stuck
      BY <1>4, <1>5, <1>7, <1>8
    <3>3. o.stuck => at'[q] = "stuck"
      BY <1>9
    <3>4. at'[q] = "stuck" => o.stuck
      BY <1>9
    <3> QED BY <1>5, <1>7, <1>9, <3>1, <3>2, <3>3, <3>4
  <2>2. CASE q # r
    BY <1>2, <1>9, <2>2 DEF StuckInv, StuckIffRepeated
  <2> QED BY <2>1, <2>2
<1> QED BY <1>10 DEF StuckInv, StuckIffRepeated

\* Every other step leaves the detector alone, and moves no run from "stuck" or
\* "over" but to "over".
LEMMA StuckOtherwise ==
    ASSUME TypeOK, StuckInv, UNCHANGED <<history, observed>>,
           \A q \in Runs :
              /\ at'[q] = at[q] \/ (at'[q] # "stuck" /\ at[q] \notin {"stuck", "over"})
                    \/ at'[q] = "over"
              /\ result'[q] = result[q] \/ at'[q] = "over"
              /\ result'[q] = "stuck" => result[q] = "stuck" \/ at[q] = "stuck"
    PROVE  StuckInv'
BY DEF StuckInv, StuckIffRepeated

\* Every step keeps the detector's invariant.
LEMMA StuckNext == TypeOK /\ StuckInv /\ [Next]_vars => StuckInv'
<1> SUFFICES ASSUME TypeOK, StuckInv, [Next]_vars PROVE StuckInv'
  OBVIOUS
<1>1. ASSUME NEW r \in Runs, RunStep(r) PROVE StuckInv'
  <2>1. CASE AfterAction(r)
    BY <1>1, <2>1, StuckAfterAction
  <2>2. CASE ~ AfterAction(r)
    <3>1. UNCHANGED <<history, observed>>
      BY <1>1, <2>2 DEF RunStep, Submit, Begin, CheckWindow, CheckStart, Decide, NextAction,
         Gate, Answer, Perform, Ends, Raise, Cancelled, histVars, runVars
    <3>2. result' = result \/ \E how : Return(r, how) /\ (how = "stuck" => at[r] = "stuck")
      BY <1>1, <2>2 DEF RunStep, Submit, Begin, CheckWindow, CheckStart, Decide, NextAction,
         Gate, Answer, Perform, Ends, Raise, Cancelled, Resumes
    <3>3. \E p : Goto(r, p) /\ (p \in {"stuck"} => FALSE) /\ (at[r] \in {"stuck", "over"} => p = "over")
      BY <1>1, <2>2 DEF RunStep, Submit, Begin, CheckWindow, CheckStart, Decide, NextAction,
         Gate, Answer, Perform, Ends, Raise, Cancelled, Resumes, Leave, Return, Active
    <3>4. \A q \in Runs :
              /\ at'[q] = at[q] \/ (at'[q] # "stuck" /\ at[q] \notin {"stuck", "over"})
                    \/ at'[q] = "over"
              /\ result'[q] = result[q] \/ at'[q] = "over"
              /\ result'[q] = "stuck" => result[q] = "stuck" \/ at[q] = "stuck"
      BY <3>2, <3>3 DEF Goto, Return, TypeOK
    <3> QED BY <3>1, <3>4, StuckOtherwise
  <2> QED BY <2>1, <2>2
<1>2. CASE UNCHANGED <<at, result, history, observed>>
  BY <1>2 DEF StuckInv, StuckIffRepeated
<1>3. Arm \/ Poll \/ (\E w \in Windows : Focus(w)) \/ UNCHANGED vars
        => UNCHANGED <<at, result, history, observed>>
  BY DEF Arm, Poll, Focus, vars, runVars, histVars
<1> QED BY <1>1, <1>2, <1>3 DEF Next

\* The loop detector does what LoopDetector.observe is meant to, for any window and
\* threshold: a run ends stuck exactly when its last action was the Threshold-th of
\* its kind among the last Window.
THEOREM StuckCorrect == Spec => []StuckIffRepeated
<1>1. StuckInv => StuckIffRepeated
  BY DEF StuckInv
<1> QED BY <1>1, StuckInit, StuckNext, TypeCorrect, PTL DEF Spec

=============================================================================
