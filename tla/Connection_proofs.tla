------------------------- MODULE Connection_proofs -------------------------
(***************************************************************************)
(* For any topics, any sizes of the queues and any number of requests: a     *)
(* connection conserves requests, releases the iterator of events(), and      *)
(* implements EventStream for every topic.                                    *)
(*                                                                            *)
(* The argument is about paths.  The queues that a request or an event goes   *)
(* through, concatenated, are one sequence; a step that moves a frame from    *)
(* one queue to the next leaves that sequence as it is.  ArgsOf picks the     *)
(* numbers of interest from a sequence of frames; that it distributes over    *)
(* concatenation is proved by induction over sequences.  Concatenation is     *)
(* hidden behind Cat, and what it obeys is stated once.                       *)
(***************************************************************************)
EXTENDS Connection, SequenceTheorems, WellFoundedInduction, TLAPS

----------------------------------------------------------------------------
(* Sequences, and induction over them *)

\* A set of naturals that is not empty has a least element.
LEMMA LeastNatural ==
    ASSUME NEW T \in SUBSET Nat, T # {}
    PROVE  \E n \in T : \A m \in T : n <= m
<1> DEFINE R == OpToRel(<, Nat)
<1>1. IsWellFoundedOn(R, Nat)
  BY NatLessThanWellFounded, Zenon
<1>2. PICK n \in T : \A m \in T : <<m, n>> \notin R
  <2> HIDE DEF R
  <2> QED BY <1>1, WFMin, Zenon
<1>3. \A m \in T : ~ (m < n)
  BY <1>2 DEF OpToRel
<1> QED BY <1>3, SMT

\* Induction over the naturals, for a set: the form that the provers can use.
LEMMA Induction ==
    ASSUME NEW T, 0 \in T, \A n \in Nat : n \in T => n + 1 \in T
    PROVE  \A n \in Nat : n \in T
<1> SUFFICES ASSUME Nat \ T # {} PROVE FALSE
  OBVIOUS
<1>1. PICK n \in Nat \ T : \A m \in Nat \ T : n <= m
  BY LeastNatural, Zenon
<1>2. n - 1 \in T /\ n - 1 \in Nat
  BY <1>1, SMT
<1> QED BY <1>1, <1>2, SMT

\* Concatenation and Append, as operations that the provers need not expand.
Cat(a, b) == a \o b
App(a, e) == Append(a, e)

\* The sequences over S are a monoid, ...
Monoid(S) ==
    /\ <<>> \in Seq(S)
    /\ \A a \in Seq(S) : \A b \in Seq(S) : Cat(a, b) \in Seq(S)
    /\ \A a \in Seq(S) : Cat(a, <<>>) = a /\ Cat(<<>>, a) = a
    /\ \A a \in Seq(S) : \A b \in Seq(S) : \A c \in Seq(S) :
          Cat(Cat(a, b), c) = Cat(a, Cat(b, c))
    /\ \A e \in S : <<e>> \in Seq(S)

\* ... whose operation says what the queues do.
Queues(S) ==
    /\ \A a \in Seq(S) : \A e \in S : App(a, e) = Cat(a, <<e>>)
    /\ \A a \in Seq(S) : a # <<>> =>
          /\ Head(a) \in S /\ Tail(a) \in Seq(S)
          /\ a = Cat(<<Head(a)>>, Tail(a))

\* Concatenation of sequences is associative and has the empty sequence as unit.
LEMMA SequencesAreMonoid == \A S : Monoid(S)
<1> SUFFICES ASSUME NEW S PROVE Monoid(S)
  OBVIOUS
<1>1. <<>> \in Seq(S) /\ \A a, b \in Seq(S) : a \o b \in Seq(S)
  BY EmptySeq, ConcatProperties
<1>2. \A a \in Seq(S) : a \o <<>> = a /\ <<>> \o a = a
  BY ConcatEmptySeq
<1>3. \A a, b, c \in Seq(S) : (a \o b) \o c = a \o (b \o c)
  BY ConcatAssociative
<1>4. \A e \in S : <<e>> \in Seq(S)
  OBVIOUS
<1> QED BY <1>1, <1>2, <1>3, <1>4, Zenon DEF Monoid, Cat

\* Append and Tail are concatenations with a sequence of one.
LEMMA SequencesAreQueues == \A S : Queues(S)
<1> SUFFICES ASSUME NEW S PROVE Queues(S)
  OBVIOUS
<1>1. \A a \in Seq(S), e \in S : Append(a, e) = a \o <<e>>
  BY AppendIsConcat
<1>2. ASSUME NEW a \in Seq(S), a # <<>>
      PROVE  Head(a) \in S /\ Tail(a) \in Seq(S) /\ a = <<Head(a)>> \o Tail(a)
  <2> DEFINE u == <<Head(a)>> \o Tail(a)
  <2>1. /\ Head(a) \in S /\ Tail(a) \in Seq(S) /\ <<Head(a)>> \in Seq(S)
        /\ Len(Tail(a)) = Len(a) - 1 /\ Len(a) \in Nat \ {0}
        /\ \A i \in 1 .. Len(Tail(a)) : Tail(a)[i] = a[i + 1]
    BY <1>2, HeadTailProperties, EmptySeq
  <2>2. Head(a) = a[1] /\ Len(<<Head(a)>>) = 1 /\ <<Head(a)>>[1] = Head(a)
    BY <1>2
  <2>3. /\ u \in Seq(S) /\ Len(u) = 1 + Len(Tail(a))
        /\ \A i \in 1 .. 1 + Len(Tail(a)) :
              u[i] = IF i <= 1 THEN <<Head(a)>>[i] ELSE Tail(a)[i - 1]
    BY <2>1, <2>2, ConcatProperties
  <2> HIDE DEF u
  <2>4. \A i \in 1 .. Len(a) : a[i] = u[i]
    <3> SUFFICES ASSUME NEW i \in 1 .. Len(a) PROVE a[i] = u[i]
      OBVIOUS
    <3>1. CASE i = 1
      BY <2>1, <2>2, <2>3, <3>1
    <3>2. CASE i > 1
      <4>1. u[i] = Tail(a)[i - 1] /\ i - 1 \in 1 .. Len(Tail(a))
        BY <2>1, <2>3, <3>2
      <4> QED BY <2>1, <4>1
    <3> QED BY <3>1, <3>2
  <2>5. Len(a) = Len(u)
    BY <2>1, <2>3
  <2>6. a = u
    BY <2>3, <2>4, <2>5, SeqEqual
  <2> QED BY <2>1, <2>6 DEF u
<1> QED BY <1>1, <1>2, Zenon DEF Queues, Cat, App

\* Induction over the sequences over S, from their first elements on.
LEMMA SequenceInduction ==
    ASSUME NEW S, NEW T, <<>> \in T,
           \A s \in Seq(S), e \in S : s \in T => Cat(s, <<e>>) \in T
    PROVE  \A s \in Seq(S) : s \in T
<1> DEFINE L == {n \in Nat : \A s \in Seq(S) : Len(s) = n => s \in T}
<1>1. 0 \in L
  BY EmptySeq
<1>2. ASSUME NEW n \in Nat, n \in L PROVE n + 1 \in L
  <2> SUFFICES ASSUME NEW s \in Seq(S), Len(s) = n + 1 PROVE s \in T
    OBVIOUS
  <2>1. PICK u \in Seq(S), e \in S : s = Append(u, e)
    BY SequenceEmptyOrAppend, EmptySeq
  <2>2. Len(u) = n
    BY <2>1, AppendProperties
  <2>3. App(u, e) = Cat(u, <<e>>)
    <3>1. Queues(S)
      BY SequencesAreQueues, Zenon
    <3> QED BY <3>1 DEF Queues
  <2>4. s = Cat(u, <<e>>)
    BY <2>1, <2>3, Zenon DEF App
  <2> QED BY <1>2, <2>2, <2>4
<1> HIDE DEF L
<1>3. \A n \in Nat : n \in L
  BY <1>1, <1>2, Induction
<1> QED BY <1>3, LenProperties DEF L

----------------------------------------------------------------------------
(* What ArgsOf picks from a sequence of frames *)

\* What ArgsOf does with the next frame f.
Picked(kind, t, f) == f.kind = kind /\ f.topic = t
Step(kind, t, f, a) == IF Picked(kind, t, f) THEN Append(a, f.arg) ELSE a

\* args is the recursive function of ArgsOf, up to the n-th frame.
IsArgs(args, kind, t, frames, n) ==
    args = [i \in 0 .. n |->
              IF i = 0 THEN <<>> ELSE Step(kind, t, frames[i], args[i - 1])]

\* The recursion equations of such a function.
LEMMA ArgsStep ==
    ASSUME NEW args, NEW kind, NEW t, NEW frames, NEW n \in Nat,
           IsArgs(args, kind, t, frames, n)
    PROVE  /\ args[0] = <<>>
           /\ \A i \in 1 .. n : args[i] = Step(kind, t, frames[i], args[i - 1])
<1>1. \A i \in 0 .. n :
        args[i] = IF i = 0 THEN <<>> ELSE Step(kind, t, frames[i], args[i - 1])
  BY DEF IsArgs
<1> QED BY <1>1

\* There is such a function for every n.
LEMMA ArgsDefined ==
    ASSUME NEW frames, NEW kind, NEW t
    PROVE  \A n \in Nat : \E args : IsArgs(args, kind, t, frames, n)
<1> DEFINE T == {n \in Nat : \E args : IsArgs(args, kind, t, frames, n)}
<1>1. 0 \in T
  <2>1. IsArgs([i \in 0 .. 0 |-> <<>>], kind, t, frames, 0)
    BY DEF IsArgs
  <2> QED BY <2>1
<1>2. ASSUME NEW n \in Nat, n \in T PROVE n + 1 \in T
  <2>1. PICK a : IsArgs(a, kind, t, frames, n)
    BY <1>2
  <2> DEFINE b == [i \in 0 .. n + 1 |->
                     IF i <= n THEN a[i] ELSE Step(kind, t, frames[i], a[n])]
  <2>2. \A i \in 0 .. n : b[i] = a[i]
    OBVIOUS
  <2>3. \A i \in 0 .. n : a[i] = IF i = 0 THEN <<>>
                                 ELSE Step(kind, t, frames[i], a[i - 1])
    BY <2>1 DEF IsArgs
  <2>4. \A i \in 0 .. n + 1 : b[i] = IF i = 0 THEN <<>>
                                     ELSE Step(kind, t, frames[i], b[i - 1])
    <3> SUFFICES ASSUME NEW i \in 0 .. n + 1
                 PROVE b[i] = IF i = 0 THEN <<>> ELSE Step(kind, t, frames[i], b[i - 1])
      OBVIOUS
    <3>1. CASE i <= n
      <4>1. i # 0 => i - 1 \in 0 .. n
        BY <3>1
      <4> HIDE DEF b
      <4> QED BY <2>2, <2>3, <3>1, <4>1
    <3>2. CASE i = n + 1
      <4>1. b[i] = Step(kind, t, frames[i], a[n])
        BY <3>2
      <4>2. b[i - 1] = a[n] /\ i # 0
        BY <2>2, <3>2
      <4> HIDE DEF b
      <4> QED BY <4>1, <4>2
    <3> QED BY <3>1, <3>2
  <2>5. IsArgs(b, kind, t, frames, n + 1)
    <3>1. b = [i \in 0 .. n + 1 |-> b[i]]
      OBVIOUS
    <3> HIDE DEF b
    <3> QED BY <2>4, <3>1 DEF IsArgs
  <2>6. \E args : IsArgs(args, kind, t, frames, n + 1)
    BY <2>5
  <2> QED BY <2>6
<1> HIDE DEF T
<1>3. \A n \in Nat : n \in T
  BY <1>1, <1>2, Induction
<1> QED BY <1>3 DEF T

\* Two such functions agree as far as their sequences do.
LEMMA ArgsAgree ==
    ASSUME NEW a, NEW b, NEW kind, NEW t, NEW s, NEW u, NEW m \in Nat, NEW n \in Nat,
           IsArgs(a, kind, t, s, m), IsArgs(b, kind, t, u, n)
    PROVE  \A k \in Nat : k <= m /\ k <= n /\ (\A i \in 1 .. k : s[i] = u[i])
                          => a[k] = b[k]
<1> DEFINE T == {k \in Nat : k <= m /\ k <= n /\ (\A i \in 1 .. k : s[i] = u[i])
                              => a[k] = b[k]}
<1>1. 0 \in T
  BY ArgsStep
<1>2. ASSUME NEW k \in Nat, k \in T PROVE k + 1 \in T
  <2> SUFFICES ASSUME k + 1 <= m, k + 1 <= n, \A i \in 1 .. k + 1 : s[i] = u[i]
               PROVE  a[k + 1] = b[k + 1]
    OBVIOUS
  <2>1. a[k] = b[k] /\ s[k + 1] = u[k + 1]
    BY <1>2
  <2>2. k + 1 \in 1 .. m /\ k + 1 \in 1 .. n /\ (k + 1) - 1 = k
    OBVIOUS
  <2>3. a[k + 1] = Step(kind, t, s[k + 1], a[k])
    BY <2>2, ArgsStep
  <2>4. b[k + 1] = Step(kind, t, u[k + 1], b[k])
    BY <2>2, ArgsStep
  <2> QED BY <2>1, <2>3, <2>4
<1> HIDE DEF T
<1>3. \A k \in Nat : k \in T
  BY <1>1, <1>2, Induction
<1> QED BY <1>3 DEF T

\* ArgsOf is the last value of its recursive function.
LEMMA ArgsOfIsLast ==
    ASSUME NEW frames, Len(frames) \in Nat, NEW kind, NEW t
    PROVE  \E a : /\ IsArgs(a, kind, t, frames, Len(frames))
                  /\ ArgsOf(kind, t, frames) = a[Len(frames)]
<1> DEFINE a == CHOOSE b : IsArgs(b, kind, t, frames, Len(frames))
<1>1. ArgsOf(kind, t, frames) = a[Len(frames)]
  BY Zenon DEF ArgsOf, IsArgs, Step, Picked
<1>2. \E b : IsArgs(b, kind, t, frames, Len(frames))
  BY ArgsDefined
<1>3. IsArgs(a, kind, t, frames, Len(frames))
  BY <1>2, Zenon
<1> QED BY <1>1, <1>3

\* What ArgsOf takes of a frame.
Pick(kind, t, f) == IF Picked(kind, t, f) THEN <<f.arg>> ELSE <<>>

\* The frames of S have their arguments in A.
CarryIn(S, A) == \A f \in S : f.arg \in A

\* Nothing is picked from an empty sequence.
LEMMA ArgsEmpty == \A kind, t : ArgsOf(kind, t, <<>>) = <<>>
<1> SUFFICES ASSUME NEW kind, NEW t PROVE ArgsOf(kind, t, <<>>) = <<>>
  OBVIOUS
<1>1. Len(<<>>) = 0
  OBVIOUS
<1>2. PICK a : IsArgs(a, kind, t, <<>>, 0) /\ ArgsOf(kind, t, <<>>) = a[0]
  BY <1>1, ArgsOfIsLast
<1>3. a[0] = <<>>
  BY <1>2, ArgsStep
<1> QED BY <1>2, <1>3

\* One more frame adds its argument if it is picked.
LEMMA ArgsAppend ==
    ASSUME NEW S, NEW s \in Seq(S), NEW f \in S, NEW kind, NEW t
    PROVE  ArgsOf(kind, t, Append(s, f)) = Step(kind, t, f, ArgsOf(kind, t, s))
<1> DEFINE u == Append(s, f)
<1>1. /\ Len(u) = Len(s) + 1 /\ Len(s) \in Nat
      /\ \A i \in 1 .. Len(s) : u[i] = s[i]
      /\ u[Len(s) + 1] = f
  BY AppendProperties, LenProperties
<1> HIDE DEF u
<1>2. PICK a : IsArgs(a, kind, t, s, Len(s)) /\ ArgsOf(kind, t, s) = a[Len(s)]
  BY <1>1, ArgsOfIsLast
<1>3. PICK b : IsArgs(b, kind, t, u, Len(u)) /\ ArgsOf(kind, t, u) = b[Len(u)]
  BY <1>1, ArgsOfIsLast
<1>4. a[Len(s)] = b[Len(s)]
  <2>1. Len(u) \in Nat
    BY <1>1
  <2> QED BY <1>1, <1>2, <1>3, <2>1, ArgsAgree
<1>5. b[Len(u)] = Step(kind, t, f, b[Len(s)])
  <2>1. Len(u) \in Nat /\ Len(u) \in 1 .. Len(u) /\ Len(u) - 1 = Len(s) /\ u[Len(u)] = f
    BY <1>1
  <2>2. b[Len(u)] = Step(kind, t, u[Len(u)], b[Len(u) - 1])
    BY <1>3, <2>1, ArgsStep
  <2> QED BY <2>1, <2>2
<1> QED BY <1>2, <1>3, <1>4, <1>5, Zenon DEF u

\* ArgsOf is a homomorphism of the sequences of frames.
Homomorphism(kind, t, S, A) ==
    /\ \A f \in S : Pick(kind, t, f) \in Seq(A)
    /\ \A s \in Seq(S) : ArgsOf(kind, t, s) \in Seq(A)
    /\ \A f \in S : ArgsOf(kind, t, <<f>>) = Pick(kind, t, f)
    /\ \A s \in Seq(S) : \A u \in Seq(S) :
          ArgsOf(kind, t, Cat(s, u)) = Cat(ArgsOf(kind, t, s), ArgsOf(kind, t, u))

\* What is picked from two sequences in a row is picked from one and then the other.
LEMMA ArgsCat == \A kind, t, S, A : CarryIn(S, A) => Homomorphism(kind, t, S, A)
<1> SUFFICES ASSUME NEW kind, NEW t, NEW S, NEW A, CarryIn(S, A)
             PROVE  Homomorphism(kind, t, S, A)
  OBVIOUS
<1>a. Monoid(S) /\ Monoid(A) /\ Queues(S) /\ Queues(A)
  BY SequencesAreMonoid, SequencesAreQueues, Zenon
<1>1. \A f \in S : Pick(kind, t, f) \in Seq(A)
  BY <1>a DEF Pick, CarryIn, Monoid
<1>2. ASSUME NEW s \in Seq(S), ArgsOf(kind, t, s) \in Seq(A), NEW f \in S
      PROVE  ArgsOf(kind, t, Cat(s, <<f>>)) = Cat(ArgsOf(kind, t, s), Pick(kind, t, f))
  <2>1. ArgsOf(kind, t, App(s, f)) = Step(kind, t, f, ArgsOf(kind, t, s))
    BY ArgsAppend, Zenon DEF App
  <2>2. App(s, f) = Cat(s, <<f>>)
    BY <1>a, Zenon DEF Queues
  <2>3. CASE Picked(kind, t, f)
    <3>1. f.arg \in A
      BY DEF CarryIn
    <3>2. App(ArgsOf(kind, t, s), f.arg) = Cat(ArgsOf(kind, t, s), <<f.arg>>)
      BY <1>a, <1>2, <3>1, Zenon DEF Queues
    <3>3. Step(kind, t, f, ArgsOf(kind, t, s)) = App(ArgsOf(kind, t, s), f.arg)
      BY <2>3, Zenon DEF Step, App
    <3>4. Pick(kind, t, f) = <<f.arg>>
      BY <2>3, Zenon DEF Pick
    <3> QED BY <2>1, <2>2, <3>2, <3>3, <3>4, Zenon
  <2>4. CASE ~ Picked(kind, t, f)
    <3>1. Cat(ArgsOf(kind, t, s), <<>>) = ArgsOf(kind, t, s)
      BY <1>a, <1>2, Zenon DEF Monoid
    <3>2. Step(kind, t, f, ArgsOf(kind, t, s)) = ArgsOf(kind, t, s)
      BY <2>4, Zenon DEF Step
    <3>3. Pick(kind, t, f) = <<>>
      BY <2>4, Zenon DEF Pick
    <3> QED BY <2>1, <2>2, <3>1, <3>2, <3>3, Zenon
  <2> QED BY <2>3, <2>4
<1>3. \A s \in Seq(S) : ArgsOf(kind, t, s) \in Seq(A)
  <2> DEFINE T == {s \in Seq(S) : ArgsOf(kind, t, s) \in Seq(A)}
  <2>1. <<>> \in T
    <3>1. ArgsOf(kind, t, <<>>) = <<>>
      BY ArgsEmpty, Zenon
    <3>2. <<>> \in Seq(S) /\ <<>> \in Seq(A)
      BY <1>a DEF Monoid
    <3> QED BY <3>1, <3>2, Zenon
  <2>2. ASSUME NEW s \in Seq(S), NEW e \in S, s \in T PROVE Cat(s, <<e>>) \in T
    <3>1. ArgsOf(kind, t, Cat(s, <<e>>)) = Cat(ArgsOf(kind, t, s), Pick(kind, t, e))
      BY <1>2, <2>2
    <3>2. Cat(s, <<e>>) \in Seq(S)
          /\ Cat(ArgsOf(kind, t, s), Pick(kind, t, e)) \in Seq(A)
      BY <1>a, <1>1, <2>2 DEF Monoid
    <3> QED BY <3>1, <3>2
  <2> HIDE DEF T
  <2>3. \A s \in Seq(S) : s \in T
    BY <2>1, <2>2, SequenceInduction
  <2> QED BY <2>3 DEF T
<1>4. \A f \in S : ArgsOf(kind, t, <<f>>) = Pick(kind, t, f)
  <2> SUFFICES ASSUME NEW f \in S PROVE ArgsOf(kind, t, <<f>>) = Pick(kind, t, f)
    OBVIOUS
  <2>1. Cat(<<>>, <<f>>) = <<f>> /\ Cat(<<>>, Pick(kind, t, f)) = Pick(kind, t, f)
    BY <1>a, <1>1, Zenon DEF Monoid
  <2>2. <<>> \in Seq(S) /\ ArgsOf(kind, t, <<>>) = <<>>
    BY <1>a, ArgsEmpty, Zenon DEF Monoid
  <2>3. ArgsOf(kind, t, Cat(<<>>, <<f>>)) = Cat(ArgsOf(kind, t, <<>>), Pick(kind, t, f))
    BY <1>2, <1>3, <2>2
  <2> QED BY <2>1, <2>2, <2>3, Zenon
<1>5. ASSUME NEW s \in Seq(S)
      PROVE  \A u \in Seq(S) :
               ArgsOf(kind, t, Cat(s, u)) = Cat(ArgsOf(kind, t, s), ArgsOf(kind, t, u))
  <2> DEFINE T == {u \in Seq(S) :
               ArgsOf(kind, t, Cat(s, u)) = Cat(ArgsOf(kind, t, s), ArgsOf(kind, t, u))}
  <2>1. <<>> \in T
    BY <1>a, <1>3, ArgsEmpty DEF Monoid
  <2>2. ASSUME NEW u \in Seq(S), NEW e \in S, u \in T PROVE Cat(u, <<e>>) \in T
    <3> DEFINE p == Pick(kind, t, e)
               a == ArgsOf(kind, t, s)
               b == ArgsOf(kind, t, u)
    <3>0. <<e>> \in Seq(S)
      BY <1>a DEF Monoid
    <3>1. /\ Cat(s, u) \in Seq(S) /\ Cat(u, <<e>>) \in Seq(S)
          /\ Cat(s, Cat(u, <<e>>)) = Cat(Cat(s, u), <<e>>)
      <4> DEFINE w == <<e>>
      <4> HIDE DEF w
      <4>1. w \in Seq(S)
        BY <3>0, Zenon DEF w
      <4>2. /\ Cat(s, u) \in Seq(S) /\ Cat(u, w) \in Seq(S)
            /\ Cat(s, Cat(u, w)) = Cat(Cat(s, u), w)
        BY <1>a, <4>1 DEF Monoid
      <4> QED BY <4>2, Zenon DEF w
    <3>2. a \in Seq(A) /\ b \in Seq(A) /\ p \in Seq(A)
      BY <1>1, <1>3
    <3>3. ArgsOf(kind, t, Cat(s, u)) = Cat(a, b)
      BY <2>2
    <3>4. ArgsOf(kind, t, Cat(Cat(s, u), <<e>>)) = Cat(ArgsOf(kind, t, Cat(s, u)), p)
      BY <1>2, <1>3, <3>1
    <3>5. ArgsOf(kind, t, Cat(u, <<e>>)) = Cat(b, p)
      BY <1>2, <1>3
    <3>6. Cat(Cat(a, b), p) = Cat(a, Cat(b, p))
      <4> HIDE DEF p, a, b
      <4> QED BY <1>a, <3>2 DEF Monoid
    <3> HIDE DEF p, a, b
    <3>7. ArgsOf(kind, t, Cat(s, Cat(u, <<e>>))) = Cat(a, ArgsOf(kind, t, Cat(u, <<e>>)))
      BY <3>1, <3>3, <3>4, <3>5, <3>6, Zenon
    <3> QED BY <3>1, <3>7 DEF a
  <2> HIDE DEF T
  <2>3. \A u \in Seq(S) : u \in T
    BY <2>1, <2>2, SequenceInduction
  <2> QED BY <2>3 DEF T
<1> QED BY <1>1, <1>3, <1>4, <1>5 DEF Homomorphism

----------------------------------------------------------------------------
(* Types *)

FrameKinds == {"hello", "ping", "response", "event", "none", "request", "subscribe",
               "unsubscribe", "bad"}

\* The frames that a connection carries, and the sentinel of events().  Requests,
\* responses and hellos have no topic, and requests and events are numbered from 1.
Frames ==
    {f \in [kind : FrameKinds, arg : Nat, topic : Topics \cup {"none", "voice"}] :
        /\ f.kind \in {"request", "event"} => f.arg # 0
        /\ f.kind \in {"request", "response"} => f.topic = "none"
        /\ f.kind \in {"event", "unsubscribe"} => f.topic \in Topics}

Wire == Seq(Frames)
Words == Seq(Nat)
Numbers == Seq(Nat \ {0})

TypeOK ==
    /\ rd \in {"start", "hello", "loop", "dispatch", "respond", "done"}
    /\ serving \in Nat
    /\ wr \in {"get", "drain", "done"}
    /\ fw \in [Topics -> {"none", "get", "put"}]
    /\ hand \in [Topics -> Nat]
    /\ outbound \in Wire
    /\ stop \in BOOLEAN /\ open \in BOOLEAN
    /\ subbed \in SUBSET Topics
    /\ queue \in [Topics -> Numbers]
    /\ sent \in [Topics -> Nat]
    /\ c2s \in Wire /\ s2c \in Wire
    /\ client \in {"connecting", "refused", "ready", "closed"}
    /\ looping \in BOOLEAN
    /\ pending \in SUBSET Nat
    /\ answers \in Words
    /\ evq \in Wire
    /\ \A i \in DOMAIN evq : evq[i] = Sentinel \/ evq[i].kind = "event"
    /\ received \in [Topics -> Words]
    /\ ended \in BOOLEAN
    /\ asked \in Nat /\ subs \in Nat

\* A forwarder holds an event exactly while it puts it, and a topic without a
\* subscription has no forwarder and no queue.
Forwarders ==
    \A t \in Topics :
        /\ hand[t] # 0 <=> fw[t] = "put"
        /\ t \notin subbed => queue[t] = <<>> /\ fw[t] = "none"

\* Nothing but greetings and pings moves before connect() has returned.
Handshake ==
    /\ client = "connecting" =>
        /\ ~looping /\ asked = 0 /\ pending = {} /\ answers = <<>>
        /\ c2s = <<>> /\ outbound = <<>> /\ subbed = {}
        /\ rd \in {"start", "hello", "done"}
        /\ rd # "done" => IdsOf("response", s2c) = <<>>
    /\ looping => client = "ready"

\* The reader has a request exactly while it serves one.
Serving == serving # 0 <=> rd \in {"dispatch", "respond"}

\* Everything that the actions write is a frame.
LEMMA FrameMembers ==
    /\ Hello \in Frames /\ Sentinel \in Frames
    /\ Frame("ping", 0) \in Frames /\ Frame("hello", 1) \in Frames
    /\ \A n \in Nat : Frame("response", n) \in Frames
    /\ \A n \in Nat \ {0} : Frame("request", n) \in Frames
    /\ \A t \in Topics, n \in Nat \ {0} : Event(t, n) \in Frames
    /\ \A f \in Inputs : f \in Frames
BY DEF Hello, Sentinel, Frame, Event, Inputs, Control, Frames, FrameKinds

\* The fields of a frame.
LEMMA FrameFields ==
    ASSUME NEW f \in Frames
    PROVE  /\ f.arg \in Nat
           /\ f.kind \in {"request", "event"} => f.arg # 0
           /\ f.kind \in {"request", "response"} => f.topic = "none"
           /\ f.kind \in {"event", "unsubscribe"} => f.topic \in Topics
BY DEF Frames

\* What the queues of a connection do to a sequence.
LEMMA WireLaws ==
    ASSUME NEW S, NEW s \in Seq(S)
    PROVE  /\ s # <<>> => Head(s) \in S /\ Tail(s) \in Seq(S)
           /\ \A e \in S : Append(s, e) \in Seq(S)
           /\ <<>> \in Seq(S)
OBVIOUS

\* What the server reads is a frame.
LEMMA RangeInFrames == \A f \in Range(c2s) : c2s \in Wire => f \in Frames
BY DEF Range, Wire

\* Subscriber.put_nowait keeps the queue well typed.
LEMMA OfferType ==
    ASSUME TypeOK, NEW t \in Topics
    PROVE  Offer(t, sent[t] + 1) \in Numbers
<1>1. queue[t] \in Numbers /\ sent[t] + 1 \in Nat \ {0} /\ QueueCap[t] \in Nat
  BY QueueCapAssumption DEF TypeOK, Topics
<1>2. CASE QueueCap[t] > 0 /\ Len(queue[t]) >= QueueCap[t]
  <2>1. queue[t] # <<>>
    BY <1>1, <1>2 DEF Numbers
  <2>2. Tail(queue[t]) \in Numbers
    BY <1>1, <2>1 DEF Numbers
  <2>3. Append(Tail(queue[t]), sent[t] + 1) \in Numbers
    BY <1>1, <2>2 DEF Numbers
  <2> QED BY <1>2, <2>3, Zenon DEF Offer
<1>3. CASE ~ (QueueCap[t] > 0 /\ Len(queue[t]) >= QueueCap[t])
  <2>1. Append(queue[t], sent[t] + 1) \in Numbers
    BY <1>1 DEF Numbers
  <2> QED BY <1>3, <2>1, Zenon DEF Offer
<1> QED BY <1>2, <1>3

\* The types, initially.
LEMMA TypeInit == Init => TypeOK
<1> SUFFICES ASSUME Init PROVE TypeOK
  OBVIOUS
<1>1. <<>> \in Wire /\ <<>> \in Words /\ <<>> \in Numbers
  BY DEF Wire, Words, Numbers
<1>2. \A i \in DOMAIN evq : evq[i] = Sentinel \/ evq[i].kind = "event"
  BY DEF Init
<1> HIDE DEF Sentinel
<1> QED BY <1>1, <1>2 DEF Init, TypeOK

\* The reader keeps the types.
LEMMA TypeReader ==
    ASSUME TypeOK, ReaderStep PROVE TypeOK'
<1> USE DEF server, peer
<1>1. CASE ReaderGreets
  <2>1. Append(s2c, Hello) \in Wire
    BY FrameMembers DEF TypeOK, Wire
  <2> QED BY <1>1, <2>1 DEF ReaderGreets, TypeOK
<1>2. CASE ReaderHello
  <2>1. Append(s2c, Frame("response", 0)) \in Wire
    BY FrameMembers DEF TypeOK, Wire
  <2>2. Tail(c2s) \in Wire
    BY <1>2 DEF TypeOK, Wire, ReaderHello
  <2> QED BY <1>2, <2>1, <2>2 DEF ReaderHello, TypeOK
<1>3. CASE ReaderEOF
  BY <1>3 DEF ReaderEOF, TypeOK
<1>4. ASSUME NEW f \in Range(c2s),
             \/ ReaderRequest(f) \/ ReaderSubscribe(f) \/ ReaderUnsubscribe(f)
             \/ ReaderBadFrame(f) \/ ReaderRaises(f)
      PROVE  TypeOK'
  <2>1. f \in Frames
    BY RangeInFrames DEF TypeOK
  <2>2. f.arg \in Nat /\ (f.kind = "unsubscribe" => f.topic \in Topics)
    BY <2>1, FrameFields
  <2>3. c2s' = Tail(c2s) /\ Tail(c2s) \in Wire
    BY <1>4 DEF TypeOK, Wire, ReaderRequest, ReaderSubscribe, ReaderUnsubscribe,
                ReaderBadFrame, ReaderRaises, Reads
  <2>4. <<>> \in Numbers
    BY DEF Numbers
  <2>5. CASE ReaderRequest(f)
    BY <2>2, <2>3, <2>5 DEF ReaderRequest, TypeOK
  <2>6. CASE ReaderSubscribe(f)
    <3>0. /\ f.topic \in Topics
          /\ subbed \in SUBSET Topics /\ fw \in [Topics -> {"none", "get", "put"}]
          /\ queue \in [Topics -> Numbers]
          /\ \/ UNCHANGED <<subbed, queue, fw>>
             \/ /\ subbed' = subbed \cup {f.topic}
                /\ queue' = [queue EXCEPT ![f.topic] = <<>>]
                /\ fw' = [fw EXCEPT ![f.topic] = "get"]
      BY <2>6, Zenon DEF ReaderSubscribe, TypeOK
    <3>1. subbed' \in SUBSET Topics /\ fw' \in [Topics -> {"none", "get", "put"}]
      BY <3>0
    <3>2. queue' \in [Topics -> Numbers]
      BY <2>4, <3>0
    <3> QED BY <2>3, <2>6, <3>1, <3>2 DEF ReaderSubscribe, ReaderNext, TypeOK
  <2>7. CASE ReaderUnsubscribe(f)
    BY <2>2, <2>3, <2>4, <2>7 DEF ReaderUnsubscribe, ReaderNext, TypeOK
  <2>8. CASE ReaderBadFrame(f)
    BY <2>3, <2>8 DEF ReaderBadFrame, ReaderNext, TypeOK
  <2>9. CASE ReaderRaises(f)
    BY <2>3, <2>9 DEF ReaderRaises, TypeOK
  <2> QED BY <1>4, <2>5, <2>6, <2>7, <2>8, <2>9
<1>5. CASE ReaderResponds
  <2>1. Append(outbound, Frame("response", serving)) \in Wire
    <3>1. Frame("response", serving) \in Frames
      BY FrameMembers DEF TypeOK
    <3> QED BY <3>1 DEF TypeOK, Wire
  <2> QED BY <1>5, <2>1 DEF ReaderResponds, ReaderNext, TypeOK
<1> QED BY <1>1, <1>2, <1>3, <1>4, <1>5 DEF ReaderStep

\* So do the forwarders and the publishers.
LEMMA TypeForwarder ==
    ASSUME TypeOK, Forwarders, NEW t \in Topics, ForwarderStep(t) \/ Publish(t)
    PROVE  TypeOK'
<1> USE DEF server, peer
<1>1. CASE ForwarderGets(t)
  <2>1. queue[t] \in Numbers /\ queue[t] # <<>>
    BY <1>1 DEF ForwarderGets, TypeOK
  <2>2. Head(queue[t]) \in Nat /\ Tail(queue[t]) \in Numbers
    BY <2>1 DEF Numbers
  <2> QED BY <1>1, <2>2 DEF ForwarderGets, TypeOK
<1>2. CASE ForwarderPuts(t)
  <2>1. hand[t] \in Nat \ {0}
    BY <1>2 DEF ForwarderPuts, Forwarders, TypeOK
  <2>2. Append(outbound, Event(t, hand[t])) \in Wire
    BY <2>1, FrameMembers DEF TypeOK, Wire
  <2> QED BY <1>2, <2>2 DEF ForwarderPuts, TypeOK
<1>3. CASE ForwarderStops(t)
  BY <1>3 DEF ForwarderStops, TypeOK
<1>4. CASE Publish(t)
  <2>1. queue' \in [Topics -> Numbers]
    BY <1>4, OfferType DEF Publish, TypeOK
  <2>2. sent' \in [Topics -> Nat]
    BY <1>4 DEF Publish, TypeOK
  <2> QED BY <1>4, <2>1, <2>2 DEF Publish, TypeOK
<1> QED BY <1>1, <1>2, <1>3, <1>4 DEF ForwarderStep

\* So do the writer and the end of the connection.
LEMMA TypeWriter ==
    ASSUME TypeOK, WriterStep \/ Dispatched \/ HandlerEnds \/ DaemonEnds PROVE TypeOK'
<1> USE DEF server, peer
<1>1. CASE WriterTakes
  <2>1. Append(s2c, Frame("ping", 0)) \in Wire
    BY FrameMembers DEF TypeOK, Wire
  <2>2. outbound # <<>> => Append(s2c, Head(outbound)) \in Wire /\ Tail(outbound) \in Wire
    BY DEF TypeOK, Wire
  <2> QED BY <1>1, <2>1, <2>2 DEF WriterTakes, TypeOK
<1>2. CASE WriterDrained
  BY <1>2 DEF WriterDrained, TypeOK
<1>3. CASE WriterBroken
  BY <1>3 DEF WriterBroken, TypeOK
<1>4. CASE Dispatched
  BY <1>4 DEF Dispatched, TypeOK
<1>5. CASE Dropped
  <2>1. <<>> \in Numbers /\ <<>> \in Wire
    BY DEF Numbers, Wire
  <2> QED BY <1>5, <2>1 DEF Dropped, TypeOK
<1> QED BY <1>1, <1>2, <1>3, <1>4, <1>5 DEF WriterStep, HandlerEnds, DaemonEnds

\* So does the client.
LEMMA TypeClient ==
    ASSUME TypeOK, ClientStep PROVE TypeOK'
<1> USE DEF server
<1>1. CASE ClientHello
  <2>1. Tail(s2c) \in Wire
    BY <1>1 DEF ClientHello, TypeOK, Wire
  <2>2. \A h \in {Hello, Frame("hello", 1)} : Append(c2s, h) \in Wire
    BY FrameMembers DEF TypeOK, Wire
  <2> QED BY <1>1, <2>1, <2>2 DEF ClientHello, TypeOK
<1>2. CASE ClientRefused
  BY <1>2 DEF ClientRefused, TypeOK
<1>3. CASE Request
  <2>1. Append(c2s, Frame("request", asked + 1)) \in Wire
    <3>1. asked + 1 \in Nat \ {0}
      BY DEF TypeOK
    <3> QED BY <3>1, FrameMembers DEF TypeOK, Wire
  <2>2. c2s' \in Wire /\ pending' \in SUBSET Nat /\ asked' \in Nat
    <3>1. /\ asked' = asked + 1 /\ asked \in Nat /\ c2s \in Wire /\ pending \in SUBSET Nat
          /\ \/ /\ c2s' = Append(c2s, Frame("request", asked + 1))
                /\ pending' = pending \cup {asked + 1}
             \/ c2s' = c2s /\ pending' = pending
      BY <1>3, Zenon DEF Request, TypeOK
    <3>2. c2s' \in Wire
      BY <2>1, <3>1, Zenon
    <3>3. asked' = asked + 1 /\ asked \in Nat /\ pending \in SUBSET Nat
          /\ (pending' = pending \cup {asked + 1} \/ pending' = pending)
      BY <3>1, Zenon
    <3>4. asked' \in Nat
      BY <3>3
    <3>5. pending' \in SUBSET Nat
      BY <3>3, <3>4, Zenon
    <3> QED BY <3>2, <3>4, <3>5
  <2> QED BY <1>3, <2>2 DEF Request, TypeOK
<1>4. CASE ClientReads
  <2>1. Head(s2c) \in Frames /\ Tail(s2c) \in Wire
    BY <1>4 DEF ClientReads, TypeOK, Wire
  <2>2. Append(answers, Head(s2c).arg) \in Words
    BY <2>1, FrameFields DEF TypeOK, Words
  <2>3. Append(evq, Head(s2c)) \in Wire
    BY <2>1 DEF TypeOK, Wire
  <2>4. evq' \in Wire /\ \A i \in DOMAIN evq' : evq'[i] = Sentinel \/ evq'[i].kind = "event"
    <3>1. CASE Head(s2c).kind = "event"
      <4>1. evq' = Append(evq, Head(s2c))
        BY <1>4, <3>1 DEF ClientReads
      <4> QED BY <2>1, <2>3, <3>1, <4>1 DEF TypeOK, Wire
    <3>2. CASE Head(s2c).kind # "event"
      BY <1>4, <3>2 DEF ClientReads, TypeOK
    <3> QED BY <3>1, <3>2
  <2> HIDE DEF Sentinel
  <2> QED BY <1>4, <2>1, <2>2, <2>4 DEF ClientReads, TypeOK
<1>5. CASE ClientLoopEnds
  <2>1. evq' = Append(evq, Sentinel) /\ Append(evq, Sentinel) \in Wire
    BY <1>5, FrameMembers DEF ClientLoopEnds, TypeOK, Wire
  <2>2. \A i \in DOMAIN evq' : evq'[i] = Sentinel \/ evq'[i].kind = "event"
    BY <2>1 DEF TypeOK, Wire
  <2> QED BY <1>5, <2>1, <2>2 DEF ClientLoopEnds, TypeOK
<1>6. CASE ClientConsumes
  <2>1. Head(evq) \in Frames /\ Tail(evq) \in Wire /\ evq' = Tail(evq)
    BY <1>6 DEF ClientConsumes, TypeOK, Wire
  <2>2. \A i \in DOMAIN evq' : evq'[i] = Sentinel \/ evq'[i].kind = "event"
    BY <1>6, <2>1 DEF ClientConsumes, TypeOK, Wire
  <2>3. received' \in [Topics -> Words]
    <3>1. Head(evq).arg \in Nat
      BY <2>1, FrameFields
    <3>2. \A t \in Topics : Append(received[t], Head(evq).arg) \in Words
      BY <3>1 DEF TypeOK, Words
    <3>3. CASE Head(evq) = Sentinel
      BY <1>6, <3>3 DEF ClientConsumes, TypeOK
    <3>4. CASE Head(evq) # Sentinel
      <4>1. received' = [received EXCEPT ![Head(evq).topic] = Append(@, Head(evq).arg)]
        BY <1>6, <3>4 DEF ClientConsumes
      <4>2. received \in [Topics -> Words]
        BY DEF TypeOK
      <4> QED BY <3>2, <4>1, <4>2
    <3> QED BY <3>3, <3>4
  <2> QED BY <1>6, <2>1, <2>2, <2>3 DEF ClientConsumes, TypeOK
<1>7. CASE ClientCloses
  <2>1. Append(evq, Sentinel) \in Wire /\ <<>> \in Wire
    BY FrameMembers DEF TypeOK, Wire
  <2>2. \A i \in DOMAIN Append(evq, Sentinel) :
            \/ Append(evq, Sentinel)[i] = Sentinel
            \/ Append(evq, Sentinel)[i].kind = "event"
    BY DEF TypeOK, Wire
  <2> QED BY <1>7, <2>1, <2>2 DEF ClientCloses, TypeOK
<1>8. ASSUME NEW f \in Inputs, ClientSends(f) PROVE TypeOK'
  <2>1. Append(c2s, f) \in Wire
    BY FrameMembers DEF TypeOK, Wire
  <2> QED BY <1>8, <2>1 DEF ClientSends, TypeOK
<1> QED BY <1>1, <1>2, <1>3, <1>4, <1>5, <1>6, <1>7, <1>8 DEF ClientStep

----------------------------------------------------------------------------
(* The five segments of the path that an event or a request takes *)

Path(a, b, c, d, e) == Cat(Cat(Cat(a, Cat(b, c)), d), e)

\* What the first item of a segment, or the last one, may do.
PathLaw(a, b, c, d, e, x) ==
    /\ Path(a, Cat(x, b), c, d, e) = Path(Cat(a, x), b, c, d, e)
    /\ Path(a, b, Cat(x, c), d, e) = Path(a, Cat(b, x), c, d, e)
    /\ Path(a, b, Cat(c, x), <<>>, e) = Path(a, b, c, x, e)
    /\ Path(a, b, c, <<>>, Cat(x, e)) = Path(a, b, c, x, e)
    /\ Path(a, b, c, d, Cat(e, x)) = Cat(Path(a, b, c, d, e), x)
    /\ Path(Cat(x, a), b, c, d, e) = Cat(x, Path(a, b, c, d, e))

\* A path is a word.
LEMMA PathType ==
    ASSUME NEW a \in Words, NEW b \in Words, NEW c \in Words, NEW d \in Words, NEW e \in Words
    PROVE  Path(a, b, c, d, e) \in Words
<1>m. Monoid(Nat)
  BY SequencesAreMonoid, Zenon
<1>0. \A u \in Words : \A v \in Words : Cat(u, v) \in Words
  BY <1>m, Zenon DEF Monoid, Words
<1> QED BY <1>0 DEF Path

\* Moves along a path: an element may pass from each segment to the one before.
LEMMA PathObeys ==
    ASSUME NEW a \in Words, NEW b \in Words, NEW c \in Words, NEW d \in Words,
           NEW e \in Words, NEW x \in Words
    PROVE  PathLaw(a, b, c, d, e, x)
<1>m. Monoid(Nat)
  BY SequencesAreMonoid, Zenon
<1>0. /\ \A u \in Words : \A v \in Words : Cat(u, v) \in Words
      /\ \A u \in Words : Cat(u, <<>>) = u
      /\ \A u \in Words : \A v \in Words : \A w \in Words :
            Cat(Cat(u, v), w) = Cat(u, Cat(v, w))
  BY <1>m, Zenon DEF Monoid, Words
<1> DEFINE p == Cat(a, Cat(b, c))
           q == Cat(p, d)
<1>a. Cat(b, c) \in Words /\ p \in Words
  BY <1>0, Zenon
<1>q. q \in Words
  BY <1>0, <1>a, Zenon
<1>p. \A u : Path(a, b, c, u, e) = Cat(Cat(p, u), e)
  BY Zenon DEF Path
<1> HIDE DEF p, q
<1>1. Cat(a, Cat(b, Cat(c, x))) = Cat(p, x) /\ Cat(p, x) \in Words
  BY <1>0, <1>a DEF p
<1>2. Path(a, Cat(x, b), c, d, e) = Path(Cat(a, x), b, c, d, e)
  BY <1>0 DEF Path
<1>3. Path(a, b, Cat(x, c), d, e) = Path(a, Cat(b, x), c, d, e)
  BY <1>0 DEF Path
<1>4. Path(a, b, Cat(c, x), <<>>, e) = Path(a, b, c, x, e)
  <2>1. Path(a, b, Cat(c, x), <<>>, e) = Cat(Cat(Cat(p, x), <<>>), e)
    BY <1>1, Zenon DEF Path
  <2>2. Cat(Cat(p, x), <<>>) = Cat(p, x)
    BY <1>0, <1>1, Zenon
  <2> QED BY <1>p, <2>1, <2>2, Zenon
<1>5. Path(a, b, c, <<>>, Cat(x, e)) = Path(a, b, c, x, e)
  <2>1. Cat(p, <<>>) = p
    BY <1>0, <1>a, Zenon
  <2>2. Cat(p, Cat(x, e)) = Cat(Cat(p, x), e)
    BY <1>0, <1>a
  <2>3. Path(a, b, c, <<>>, Cat(x, e)) = Cat(Cat(p, <<>>), Cat(x, e))
    BY Zenon DEF Path, p
  <2> QED BY <1>p, <2>1, <2>2, <2>3, Zenon
<1>6. Path(a, b, c, d, Cat(e, x)) = Cat(Path(a, b, c, d, e), x)
  <2>1. Path(a, b, c, d, Cat(e, x)) = Cat(q, Cat(e, x))
    BY Zenon DEF Path, p, q
  <2>2. Path(a, b, c, d, e) = Cat(q, e)
    BY Zenon DEF Path, p, q
  <2>3. Cat(q, Cat(e, x)) = Cat(Cat(q, e), x)
    BY <1>0, <1>q
  <2> QED BY <2>1, <2>2, <2>3, Zenon
<1>7. Path(Cat(x, a), b, c, d, e) = Cat(x, Path(a, b, c, d, e))
  <2>1. Cat(Cat(x, a), Cat(b, c)) = Cat(x, p)
    BY <1>0, <1>a DEF p
  <2>2. Cat(Cat(x, p), d) = Cat(x, q)
    BY <1>0, <1>a DEF q
  <2>3. Cat(Cat(x, q), e) = Cat(x, Cat(q, e))
    BY <1>0, <1>q
  <2>4. Path(a, b, c, d, e) = Cat(q, e)
    BY Zenon DEF Path, p, q
  <2> QED BY <2>1, <2>2, <2>3, <2>4, Zenon DEF Path
<1> QED BY <1>2, <1>3, <1>4, <1>5, <1>6, <1>7 DEF PathLaw

\* What the operations of a connection do to the arguments of a segment.
Segments(kind, t) ==
    /\ ArgsOf(kind, t, <<>>) = <<>>
    /\ \A f \in Frames : Pick(kind, t, f) \in Words
    /\ \A s \in Wire : ArgsOf(kind, t, s) \in Words
    /\ \A s \in Wire : \A f \in Frames :
          ArgsOf(kind, t, App(s, f)) = Cat(ArgsOf(kind, t, s), Pick(kind, t, f))
    /\ \A s \in Wire : s # <<>> =>
          /\ Head(s) \in Frames /\ Tail(s) \in Wire
          /\ ArgsOf(kind, t, s) =
                Cat(Pick(kind, t, Head(s)), ArgsOf(kind, t, Tail(s)))
    /\ \A s \in Wire : \A u \in Wire :
          /\ Cat(s, u) \in Wire
          /\ ArgsOf(kind, t, Cat(s, u)) = Cat(ArgsOf(kind, t, s), ArgsOf(kind, t, u))

\* What the queues of frames do to the arguments that are picked from them.
LEMMA SegmentsObey == \A kind, t : Segments(kind, t)
<1> SUFFICES ASSUME NEW kind, NEW t PROVE Segments(kind, t)
  OBVIOUS
<1>1. Monoid(Frames) /\ Queues(Frames)
  BY SequencesAreMonoid, SequencesAreQueues, Zenon
<1>2. CarryIn(Frames, Nat)
  BY FrameFields DEF CarryIn
<1>3. /\ \A f \in Frames : Pick(kind, t, f) \in Seq(Nat)
      /\ \A s \in Seq(Frames) : ArgsOf(kind, t, s) \in Seq(Nat)
      /\ \A f \in Frames : ArgsOf(kind, t, <<f>>) = Pick(kind, t, f)
      /\ \A s \in Seq(Frames) : \A u \in Seq(Frames) :
            ArgsOf(kind, t, Cat(s, u)) = Cat(ArgsOf(kind, t, s), ArgsOf(kind, t, u))
  <2>1. Homomorphism(kind, t, Frames, Nat)
    BY <1>2, ArgsCat, Zenon
  <2> QED BY <2>1, Zenon DEF Homomorphism
<1>4. ArgsOf(kind, t, <<>>) = <<>>
  BY ArgsEmpty, Zenon
<1>5. ASSUME NEW s \in Seq(Frames), NEW f \in Frames
      PROVE  ArgsOf(kind, t, App(s, f)) = Cat(ArgsOf(kind, t, s), Pick(kind, t, f))
  <2>1. App(s, f) = Cat(s, <<f>>) /\ <<f>> \in Seq(Frames)
    BY <1>1, Zenon DEF Queues, Monoid
  <2> QED BY <1>3, <2>1, Zenon
<1>6. ASSUME NEW s \in Seq(Frames), s # <<>>
      PROVE  /\ Head(s) \in Frames /\ Tail(s) \in Seq(Frames)
             /\ ArgsOf(kind, t, s) = Cat(Pick(kind, t, Head(s)), ArgsOf(kind, t, Tail(s)))
  <2>1. Head(s) \in Frames /\ Tail(s) \in Seq(Frames) /\ s = Cat(<<Head(s)>>, Tail(s))
    BY <1>1, <1>6, Zenon DEF Queues
  <2>2. <<Head(s)>> \in Seq(Frames)
    BY <1>1, <2>1, Zenon DEF Monoid
  <2>3. ArgsOf(kind, t, Cat(<<Head(s)>>, Tail(s)))
          = Cat(ArgsOf(kind, t, <<Head(s)>>), ArgsOf(kind, t, Tail(s)))
    BY <1>3, <2>1, <2>2, Zenon
  <2>4. ArgsOf(kind, t, <<Head(s)>>) = Pick(kind, t, Head(s))
    BY <1>3, <2>1, Zenon
  <2> QED BY <2>1, <2>3, <2>4, Zenon
<1>7. \A s \in Seq(Frames) : \A u \in Seq(Frames) : Cat(s, u) \in Seq(Frames)
  BY <1>1, Zenon DEF Monoid
<1> QED BY <1>3, <1>4, <1>5, <1>6, <1>7, Zenon DEF Segments, Wire, Words

----------------------------------------------------------------------------
(* Who changes what *)

\* The tasks and queues of the subscriptions.
LEMMA SubscriptionSteps ==
    ASSUME Next
    PROVE  \/ UNCHANGED <<fw, hand, queue, subbed>>
           \/ \E f \in Range(c2s) : ReaderSubscribe(f) \/ ReaderUnsubscribe(f)
           \/ \E t \in Topics : ForwarderStep(t) \/ Publish(t)
           \/ Dropped
<1>1. ClientStep => UNCHANGED <<fw, hand, queue, subbed>>
  BY Zenon DEF ClientStep, ClientHello, ClientRefused, Request, ClientReads,
     ClientLoopEnds, ClientConsumes, ClientCloses, ClientSends, server
<1>2. WriterStep \/ Dispatched => UNCHANGED <<fw, hand, queue, subbed>>
  BY Zenon DEF WriterStep, WriterTakes, WriterDrained, WriterBroken, Dispatched
<1>3. ReaderStep => \/ UNCHANGED <<fw, hand, queue, subbed>>
                    \/ \E f \in Range(c2s) : ReaderSubscribe(f) \/ ReaderUnsubscribe(f)
  BY Zenon DEF ReaderStep, ReaderGreets, ReaderHello, ReaderEOF, ReaderRequest,
     ReaderBadFrame, ReaderRaises, ReaderResponds
<1> QED BY <1>1, <1>2, <1>3, Zenon DEF Next, HandlerEnds, DaemonEnds

\* The client's state.
LEMMA ClientSteps ==
    ASSUME Next PROVE ClientStep \/ UNCHANGED peer
<1>1. ReaderStep => UNCHANGED peer
  BY Zenon DEF ReaderStep, ReaderGreets, ReaderHello, ReaderEOF, ReaderRequest,
     ReaderSubscribe, ReaderUnsubscribe, ReaderBadFrame, ReaderRaises, ReaderResponds
<1>2. WriterStep \/ Dispatched \/ HandlerEnds \/ DaemonEnds => UNCHANGED peer
  BY Zenon DEF WriterStep, WriterTakes, WriterDrained, WriterBroken, Dispatched,
     HandlerEnds, DaemonEnds, Dropped
<1>3. ASSUME NEW t \in Topics, ForwarderStep(t) \/ Publish(t) PROVE UNCHANGED peer
  BY <1>3, Zenon DEF ForwarderStep, ForwarderGets, ForwarderPuts, ForwarderStops, Publish
<1> QED BY <1>1, <1>2, <1>3, Zenon DEF Next

\* Every step keeps the forwarders with their subscriptions.
LEMMA ForwardersInvariant ==
    ASSUME TypeOK, Forwarders, Next PROVE Forwarders'
<1>1. CASE UNCHANGED <<fw, hand, queue, subbed>>
  BY <1>1 DEF Forwarders
<1>2. ASSUME NEW f \in Range(c2s), ReaderSubscribe(f) PROVE Forwarders'
  BY <1>2 DEF ReaderSubscribe, Forwarders, TypeOK
<1>3. ASSUME NEW f \in Range(c2s), ReaderUnsubscribe(f) PROVE Forwarders'
  BY <1>3 DEF ReaderUnsubscribe, Forwarders, TypeOK
<1>4. ASSUME NEW t \in Topics, ForwarderGets(t) PROVE Forwarders'
  <2>1. queue[t] \in Numbers /\ queue[t] # <<>>
    BY <1>4 DEF ForwarderGets, TypeOK
  <2>2. Head(queue[t]) # 0 /\ Head(queue[t]) \in Nat
    BY <2>1 DEF Numbers
  <2>3. t \in subbed
    BY <2>1 DEF Forwarders
  <2> QED BY <1>4, <2>2, <2>3 DEF ForwarderGets, Forwarders, TypeOK
<1>5. ASSUME NEW t \in Topics, ForwarderPuts(t) PROVE Forwarders'
  BY <1>5 DEF ForwarderPuts, Forwarders, TypeOK
<1>6. ASSUME NEW t \in Topics, ForwarderStops(t) PROVE Forwarders'
  BY <1>6 DEF ForwarderStops, Forwarders, TypeOK
<1>7. ASSUME NEW t \in Topics, Publish(t) PROVE Forwarders'
  BY <1>7 DEF Publish, Forwarders, TypeOK
<1>8. CASE Dropped
  BY <1>8 DEF Dropped, Forwarders
<1> QED BY <1>1, <1>2, <1>3, <1>4, <1>5, <1>6, <1>7, <1>8, SubscriptionSteps
        DEF ForwarderStep

\* The reader takes up a request when it reads one, and drops it with the response.
LEMMA ServingInvariant ==
    ASSUME TypeOK, Serving, Next PROVE Serving'
<1>1. ASSUME NEW f \in Range(c2s), ReaderRequest(f) PROVE Serving'
  <2>1. f.arg # 0
    BY <1>1, RangeInFrames, FrameFields DEF ReaderRequest, TypeOK
  <2> QED BY <1>1, <2>1 DEF ReaderRequest, Serving
<1>2. ReaderGreets \/ ReaderHello \/ ReaderEOF \/ ReaderResponds => Serving'
  BY DEF ReaderGreets, ReaderHello, ReaderEOF, ReaderResponds, ReaderNext, Serving
<1>3. ASSUME NEW f \in Range(c2s),
             ReaderSubscribe(f) \/ ReaderUnsubscribe(f) \/ ReaderBadFrame(f) \/ ReaderRaises(f)
      PROVE  Serving'
  BY <1>3 DEF ReaderSubscribe, ReaderUnsubscribe, ReaderBadFrame, ReaderRaises, ReaderNext,
              Reads, Serving
<1>4. Dispatched \/ HandlerEnds \/ DaemonEnds => Serving'
  BY DEF Dispatched, HandlerEnds, DaemonEnds, Dropped, Serving
<1>5. WriterStep => UNCHANGED <<rd, serving>>
  BY Zenon DEF WriterStep, WriterTakes, WriterDrained, WriterBroken
<1>6. ASSUME NEW t \in Topics, ForwarderStep(t) \/ Publish(t) PROVE UNCHANGED <<rd, serving>>
  BY <1>6, Zenon DEF ForwarderStep, ForwarderGets, ForwarderPuts, ForwarderStops, Publish
<1>7. ClientStep => UNCHANGED <<rd, serving>>
  BY Zenon DEF ClientStep, ClientHello, ClientRefused, Request, ClientReads,
     ClientLoopEnds, ClientConsumes, ClientCloses, ClientSends, server
<1>8. UNCHANGED <<rd, serving>> => Serving'
  BY DEF Serving
<1> QED BY <1>1, <1>2, <1>3, <1>4, <1>5, <1>6, <1>7, <1>8, Zenon DEF Next, ReaderStep

\* The client's iterator.
LEMMA IteratorInvariant ==
    ASSUME TypeOK, Handshake, IteratorIsReleased, Next PROVE IteratorIsReleased'
<1> USE DEF server
<1>1. CASE UNCHANGED peer
  BY <1>1 DEF peer, IteratorIsReleased
<1>2. CASE ClientHello
  <2>1. \/ client' = "refused"
        \/ client' = "ready" /\ looping'
    BY <1>2, Zenon DEF ClientHello
  <2> QED BY <2>1 DEF IteratorIsReleased
<1>3. CASE ClientRefused
  BY <1>3 DEF ClientRefused, IteratorIsReleased
<1>4. CASE Request
  BY <1>4 DEF Request, IteratorIsReleased
<1>5. CASE ClientReads
  <2>1. looping' = looping /\ looping
    BY <1>5, Zenon DEF ClientReads
  <2> QED BY <2>1 DEF IteratorIsReleased
<1>6. ASSUME evq' = Append(evq, Sentinel) PROVE IteratorIsReleased'
  <2>1. evq' # <<>> /\ Last(evq') = Sentinel
    BY <1>6 DEF TypeOK, Wire, Last
  <2> QED BY <2>1 DEF IteratorIsReleased
<1>7. CASE ClientLoopEnds
  BY <1>6, <1>7, Zenon DEF ClientLoopEnds
<1>8. CASE ClientConsumes
  <2>1. /\ client' = client /\ looping' = looping
        /\ evq # <<>> /\ evq' = Tail(evq) /\ ~ ended
        /\ Head(evq) = Sentinel => ended'
    BY <1>8, Zenon DEF ClientConsumes
  <2> SUFFICES ASSUME client \in {"ready", "closed"}, ~ looping, Head(evq) # Sentinel
               PROVE  evq' # <<>> /\ Last(evq') = Sentinel
    BY <2>1 DEF IteratorIsReleased
  <2>2. Last(evq) = Sentinel
    BY <2>1 DEF IteratorIsReleased
  <2> HIDE DEF Sentinel
  <2>3. evq \in Seq(Frames)
    BY DEF TypeOK, Wire
  <2>4. /\ Len(Tail(evq)) = Len(evq) - 1 /\ Len(evq) \in Nat \ {0}
        /\ \A i \in 1 .. Len(Tail(evq)) : Tail(evq)[i] = evq[i + 1]
        /\ Head(evq) = evq[1] /\ Tail(evq) \in Seq(Frames)
    BY <2>1, <2>3, HeadTailProperties, EmptySeq
  <2>5. Len(evq) # 1
    BY <2>2, <2>4 DEF Last
  <2>6. Tail(evq) # <<>> /\ Tail(evq)[Len(Tail(evq))] = evq[Len(evq)]
    <3> DEFINE k == Len(Tail(evq))
    <3>1. k \in Nat \ {0} /\ k \in 1 .. k /\ k + 1 = Len(evq)
      BY <2>4, <2>5
    <3>2. Tail(evq)[k] = evq[k + 1]
      BY <2>4, <3>1, Zenon
    <3>3. Tail(evq) # <<>>
      <4>1. Len(<<>>) = 0
        OBVIOUS
      <4>2. k # 0
        BY <3>1
      <4> QED BY <4>1, <4>2, Zenon
    <3> QED BY <3>1, <3>2, <3>3
  <2> QED BY <2>1, <2>2, <2>6, Zenon DEF Last
<1>9. CASE ClientCloses
  <2>1. CASE looping
    BY <1>6, <1>9, <2>1, Zenon DEF ClientCloses
  <2>2. CASE ~ looping
    <3>1. client = "ready" /\ evq' = evq /\ ended' = ended
      BY <1>9, <2>2, Zenon DEF ClientCloses
    <3> QED BY <2>2, <3>1 DEF IteratorIsReleased
  <2> QED BY <2>1, <2>2
<1>10. ASSUME NEW f \in Inputs, ClientSends(f) PROVE IteratorIsReleased'
  BY <1>10 DEF ClientSends, IteratorIsReleased
<1> QED BY <1>1, <1>2, <1>3, <1>4, <1>5, <1>7, <1>8, <1>9, <1>10, ClientSteps, Zenon
        DEF ClientStep

\* What the greetings, the pings and the sentinel carry.
LEMMA Unpicked ==
    ASSUME NEW t
    PROVE  /\ Pick("response", t, Hello) = <<>>
           /\ Pick("response", t, Frame("ping", 0)) = <<>>
           /\ Pick("event", t, Hello) = <<>>
           /\ Pick("event", t, Frame("ping", 0)) = <<>>
           /\ Pick("event", t, Sentinel) = <<>>
           /\ Pick("request", t, Hello) = <<>>
           /\ Pick("request", t, Frame("hello", 1)) = <<>>
           /\ \A n : Pick("event", t, Frame("response", n)) = <<>>
           /\ \A f \in Inputs : Pick("request", t, f) = <<>>
BY DEF Pick, Picked, Hello, Frame, Sentinel, Inputs, Control

\* No step precedes the handshake.
LEMMA HandshakeInvariant ==
    ASSUME TypeOK, Forwarders, Handshake, Next PROVE Handshake'
<1> DEFINE Quiet == UNCHANGED <<client, looping, asked, pending, answers>>
<1>0. Segments("response", "none")
  BY SegmentsObey, Zenon
<1>1. CASE UNCHANGED peer
  <2>0. Quiet
    BY <1>1, Zenon DEF peer
  <2>1. looping' => client' = "ready"
    BY <2>0 DEF Handshake
  <2> SUFFICES ASSUME client = "connecting"
               PROVE  /\ c2s' = <<>> /\ outbound' = <<>> /\ subbed' = {}
                      /\ rd' \in {"start", "hello", "done"}
                      /\ rd' # "done" => IdsOf("response", s2c') = <<>>
    BY <2>0, <2>1 DEF Handshake
  <2>2. /\ c2s = <<>> /\ outbound = <<>> /\ subbed = {}
        /\ rd \in {"start", "hello", "done"}
        /\ rd # "done" => IdsOf("response", s2c) = <<>>
        /\ Range(c2s) = {}
    BY DEF Handshake, Range
  <2>3. ASSUME NEW f \in Frames, f = Hello \/ f = Frame("ping", 0), s2c' = Append(s2c, f),
               rd # "done"
        PROVE  IdsOf("response", s2c') = <<>>
    <3>1. s2c' = App(s2c, f) /\ s2c \in Wire
      BY <2>3, Zenon DEF App, TypeOK
    <3>2. ArgsOf("response", "none", App(s2c, f)) = Cat(ArgsOf("response", "none", s2c), Pick("response", "none", f))
      BY <1>0, <3>1, Zenon DEF Segments
    <3>3. Pick("response", "none", f) = <<>> /\ ArgsOf("response", "none", s2c) = <<>>
      BY <2>2, <2>3, Unpicked DEF IdsOf
    <3>4. Cat(<<>>, <<>>) = <<>>
      BY DEF Cat
    <3> QED BY <3>1, <3>2, <3>3, <3>4, Zenon DEF IdsOf
  <2>4. CASE ReaderGreets
    <3>1. s2c' = Append(s2c, Hello) /\ rd = "start" /\ rd' = "hello"
          /\ UNCHANGED <<c2s, outbound, subbed>>
      BY <2>4, Zenon DEF ReaderGreets
    <3>2. IdsOf("response", s2c') = <<>>
      BY <2>3, <3>1, FrameMembers
    <3> QED BY <2>2, <3>1, <3>2
  <2>5. CASE ReaderHello \/ ReaderEOF \/ ReaderResponds \/ Dispatched
    BY <2>2, <2>5 DEF ReaderHello, ReaderEOF, ReaderResponds, Dispatched, Gone
  <2>6. CASE HandlerEnds \/ DaemonEnds
    BY <2>6 DEF HandlerEnds, DaemonEnds, Dropped
  <2>7. CASE WriterTakes
    <3>1. s2c' = Append(s2c, Frame("ping", 0)) /\ UNCHANGED <<c2s, outbound, subbed, rd>>
      BY <2>2, <2>7, Zenon DEF WriterTakes
    <3>2. rd # "done" => IdsOf("response", s2c') = <<>>
      BY <2>3, <3>1, FrameMembers
    <3> QED BY <2>2, <3>1, <3>2
  <2>8. CASE WriterDrained \/ WriterBroken
    BY <2>2, <2>8 DEF WriterDrained, WriterBroken
  <2>9. ASSUME NEW t \in Topics, ForwarderStep(t) \/ Publish(t)
        PROVE  UNCHANGED <<c2s, outbound, subbed, rd, s2c>>
    <3>1. fw[t] = "none"
      BY <2>2 DEF Forwarders
    <3>2. Publish(t)
      BY <2>9, <3>1 DEF ForwarderStep, ForwarderGets, ForwarderPuts, ForwarderStops
    <3> QED BY <3>2, Zenon DEF Publish
  <2>10. ReaderStep => ReaderGreets \/ ReaderHello \/ ReaderEOF \/ ReaderResponds
    BY <2>2, Zenon DEF ReaderStep
  <2>11. ClientStep => UNCHANGED <<c2s, outbound, subbed, rd, s2c>>
    <3>1. \A f \in Inputs : ~ ClientSends(f)
      BY DEF ClientSends
    <3>2. ~ Request /\ ~ ClientReads /\ ~ ClientLoopEnds /\ ~ ClientConsumes /\ ~ ClientCloses
      BY DEF Request, ClientReads, ClientLoopEnds, ClientConsumes, ClientCloses, Handshake
    <3>3. ~ ClientHello /\ ~ ClientRefused
      BY <2>0 DEF ClientHello, ClientRefused
    <3> QED BY <3>1, <3>2, <3>3, Zenon DEF ClientStep
  <2>12. CASE UNCHANGED <<c2s, outbound, subbed, rd, s2c>>
    BY <2>2, <2>12, Zenon
  <2> QED BY <2>4, <2>5, <2>6, <2>7, <2>8, <2>9, <2>10, <2>11, <2>12, Zenon
          DEF Next, WriterStep
<1>2. CASE ClientStep
  <2>1. looping' => client' = "ready"
    BY <1>2 DEF ClientStep, ClientHello, ClientRefused, Request, ClientReads, ClientLoopEnds,
                ClientConsumes, ClientCloses, ClientSends, Handshake
  <2>2. client' # "connecting"
    BY <1>2 DEF ClientStep, ClientHello, ClientRefused, Request, ClientReads, ClientLoopEnds,
                ClientConsumes, ClientCloses, ClientSends, Handshake
  <2> QED BY <2>1, <2>2, Zenon DEF Handshake
<1> QED BY <1>1, <1>2, ClientSteps, Zenon

----------------------------------------------------------------------------
(* Requests and their answers *)

Upto(n) == [i \in 1 .. n |-> i]

\* 1, 2, ..., n is built up at its end.
LEMMA UptoLaws ==
    /\ Upto(0) = <<>>
    /\ \A n \in Nat : Upto(n) \in Words /\ Len(Upto(n)) = n
    /\ \A n \in Nat : Upto(n + 1) = Cat(Upto(n), <<n + 1>>)
<1>1. Upto(0) = <<>>
  BY DEF Upto
<1>2. \A n \in Nat : Upto(n) \in Seq(Nat) /\ Len(Upto(n)) = n
  BY DEF Upto
<1>3. ASSUME NEW n \in Nat PROVE Upto(n + 1) = Cat(Upto(n), <<n + 1>>)
  <2> DEFINE u == Upto(n) \o <<n + 1>>
  <2>1. /\ u \in Seq(Nat) /\ Len(u) = n + 1
        /\ \A i \in 1 .. n + 1 : u[i] = IF i <= n THEN Upto(n)[i] ELSE <<n + 1>>[i - n]
    <3>1. <<n + 1>> \in Seq(Nat) /\ Len(<<n + 1>>) = 1
      OBVIOUS
    <3> DEFINE v == Upto(n)
               w == <<n + 1>>
    <3>2. v \in Seq(Nat) /\ Len(v) = n
      BY <1>2
    <3> HIDE DEF v, w
    <3>3. w \in Seq(Nat) /\ Len(w) = 1
      BY <3>1 DEF w
    <3>4. /\ v \o w \in Seq(Nat) /\ Len(v \o w) = n + 1
          /\ \A i \in 1 .. n + 1 : (v \o w)[i] = IF i <= n THEN v[i] ELSE w[i - n]
      <4>1. /\ v \o w \in Seq(Nat) /\ Len(v \o w) = Len(v) + Len(w)
            /\ \A i \in 1 .. Len(v) + Len(w) :
                  (v \o w)[i] = IF i <= Len(v) THEN v[i] ELSE w[i - Len(v)]
        BY <3>2, <3>3, ConcatProperties, Zenon
      <4> QED BY <3>2, <3>3, <4>1, Zenon
    <3> QED BY <3>4, Zenon DEF v, w
  <2> HIDE DEF u
  <2>2. \A i \in 1 .. n + 1 : u[i] = i
    BY <2>1 DEF Upto
  <2>3. Upto(n + 1) \in Seq(Nat) /\ Len(Upto(n + 1)) = n + 1
    BY <1>2
  <2>4. \A i \in 1 .. n + 1 : Upto(n + 1)[i] = i
    BY DEF Upto
  <2>5. Upto(n + 1) = u
    BY <2>1, <2>2, <2>3, <2>4, SeqEqual
  <2> QED BY <2>5, Zenon DEF Cat, u
<1> QED BY <1>1, <1>2, <1>3 DEF Words

\* The item behind a prefix of 1, 2, 3, ... says how long the prefix is.
LEMMA UptoSplit ==
    ASSUME NEW a \in Words, NEW b \in Words, NEW x \in Nat, NEW n \in Nat,
           Cat(a, Cat(<<x>>, b)) = Upto(n)
    PROVE  x = Len(a) + 1 /\ x <= n
<1> DEFINE c == <<x>> \o b
           d == a \o c
<1>1. <<x>> \in Seq(Nat) /\ Len(<<x>>) = 1 /\ <<x>>[1] = x /\ a \in Seq(Nat) /\ b \in Seq(Nat)
  BY DEF Words
<1>2. c \in Seq(Nat) /\ Len(c) = 1 + Len(b) /\ c[1] = x
  BY <1>1, ConcatProperties
<1> HIDE DEF c
<1>3. Len(d) = Len(a) + Len(c) /\ d[Len(a) + 1] = c[1] /\ Len(a) \in Nat /\ Len(b) \in Nat
  <2>1. Len(a) \in Nat /\ Len(b) \in Nat /\ Len(c) \in Nat
    BY <1>1, <1>2, LenProperties
  <2>2. /\ Len(d) = Len(a) + Len(c)
        /\ \A i \in 1 .. Len(a) + Len(c) : d[i] = IF i <= Len(a) THEN a[i] ELSE c[i - Len(a)]
    BY <1>1, <1>2, ConcatProperties
  <2> HIDE DEF d
  <2>3. Len(a) + 1 \in 1 .. Len(a) + Len(c) /\ ~ (Len(a) + 1 <= Len(a)) /\ (Len(a) + 1) - Len(a) = 1
    BY <1>2, <2>1
  <2> QED BY <2>1, <2>2, <2>3
<1>4. d = Upto(n)
  BY Zenon DEF Cat, c
<1> HIDE DEF d
<1>5. Len(d) = n
  BY <1>4, UptoLaws
<1>6. d[Len(a) + 1] = Len(a) + 1
  BY <1>2, <1>3, <1>4, <1>5 DEF Upto
<1> QED BY <1>2, <1>3, <1>5, <1>6

\* What Held puts into a sequence.
LEMMA HeldLaws ==
    /\ Held(0) = <<>>
    /\ \A n \in Nat : Held(n) \in Words
    /\ \A n : n # 0 => Held(n) = <<n>>
BY DEF Held, Words

\* The requests and answers under way, as a path.
Way == Path(answers, ArgsOf("response", "none", s2c), ArgsOf("response", "none", outbound),
            Held(serving), ArgsOf("request", "none", c2s))

\* The sequence of RequestsConserved is the path Way.
LEMMA WayIsPath ==
    ASSUME TypeOK
    PROVE  answers \o IdsOf("response", s2c \o outbound) \o Held(serving)
             \o IdsOf("request", c2s) = Way
<1>1. ArgsOf("response", "none", Cat(s2c, outbound))
        = Cat(ArgsOf("response", "none", s2c), ArgsOf("response", "none", outbound))
  <2>1. Segments("response", "none")
    BY SegmentsObey, Zenon
  <2> QED BY <2>1, Zenon DEF Segments, TypeOK
<1> QED BY <1>1, Zenon DEF Way, Path, Cat, IdsOf

\* RequestsConserved, and which requests are pending.
Accounted ==
    open /\ looping /\ rd # "done" =>
        Way = Upto(asked) /\ pending = Len(answers) + 1 .. asked

\* Each segment of Way is a word.
LEMMA WayTypes ==
    ASSUME TypeOK
    PROVE  /\ answers \in Words /\ Held(serving) \in Words
           /\ ArgsOf("response", "none", s2c) \in Words
           /\ ArgsOf("response", "none", outbound) \in Words
           /\ ArgsOf("request", "none", c2s) \in Words
<1>1. Segments("response", "none") /\ Segments("request", "none")
  BY SegmentsObey, Zenon
<1> QED BY <1>1, HeldLaws, Zenon DEF Segments, TypeOK

\* An item that carries nothing does not show in a segment.
LEMMA NothingPicked ==
    ASSUME NEW kind, NEW t, NEW s \in Wire
    PROVE  /\ \A f \in Frames : Pick(kind, t, f) = <<>> =>
                ArgsOf(kind, t, App(s, f)) = ArgsOf(kind, t, s)
           /\ s # <<>> /\ Pick(kind, t, Head(s)) = <<>> =>
                ArgsOf(kind, t, Tail(s)) = ArgsOf(kind, t, s)
<1>0. Segments(kind, t)
  BY SegmentsObey, Zenon
<1>1. Segments(kind, t) /\ ArgsOf(kind, t, s) \in Words
  BY <1>0, Zenon DEF Segments
<1>2. Monoid(Nat)
  BY SequencesAreMonoid, Zenon
<1>3. ASSUME NEW f \in Frames, Pick(kind, t, f) = <<>>
      PROVE  ArgsOf(kind, t, App(s, f)) = ArgsOf(kind, t, s)
  <2>1. ArgsOf(kind, t, App(s, f)) = Cat(ArgsOf(kind, t, s), <<>>)
    BY <1>1, <1>3, Zenon DEF Segments
  <2> QED BY <1>1, <1>2, <2>1, Zenon DEF Monoid, Words
<1>4. ASSUME s # <<>>, Pick(kind, t, Head(s)) = <<>>
      PROVE  ArgsOf(kind, t, Tail(s)) = ArgsOf(kind, t, s)
  <2>1. Tail(s) \in Wire /\ ArgsOf(kind, t, s) = Cat(<<>>, ArgsOf(kind, t, Tail(s)))
    BY <1>1, <1>4, Zenon DEF Segments
  <2>2. ArgsOf(kind, t, Tail(s)) \in Words
    BY <1>1, <2>1, Zenon DEF Segments
  <2> QED BY <1>2, <2>1, <2>2, Zenon DEF Monoid, Words
<1> QED BY <1>3, <1>4

\* The writer's step moves the first item of outbound to the end of the socket, or
\* sends a ping, which carries nothing.
LEMMA WriterMoves ==
    ASSUME TypeOK, WriterTakes, NEW kind, NEW t, Pick(kind, t, Frame("ping", 0)) = <<>>,
           NEW a \in Words, NEW d \in Words, NEW e \in Words
    PROVE  Path(a, ArgsOf(kind, t, s2c'), ArgsOf(kind, t, outbound'), d, e)
             = Path(a, ArgsOf(kind, t, s2c), ArgsOf(kind, t, outbound), d, e)
<1>1. s2c \in Wire /\ outbound \in Wire
  BY DEF TypeOK
<1>2. Segments(kind, t)
  BY SegmentsObey, Zenon
<1>3. CASE outbound # <<>> /\ s2c' = Append(s2c, Head(outbound)) /\ outbound' = Tail(outbound)
  <2> DEFINE h == Pick(kind, t, Head(outbound))
             r == ArgsOf(kind, t, s2c)
             o == ArgsOf(kind, t, Tail(outbound))
  <2>1. /\ Head(outbound) \in Frames /\ Tail(outbound) \in Wire
        /\ ArgsOf(kind, t, outbound) = Cat(h, o)
    BY <1>1, <1>2, <1>3, Zenon DEF Segments
  <2>2. ArgsOf(kind, t, s2c') = Cat(r, h)
    BY <1>1, <1>2, <1>3, <2>1, Zenon DEF Segments, App
  <2>3. h \in Words /\ r \in Words /\ o \in Words
    BY <1>1, <1>2, <2>1, Zenon DEF Segments
  <2>4. ArgsOf(kind, t, outbound') = o
    BY <1>3, Zenon
  <2> HIDE DEF h, r, o
  <2>5. Path(a, r, Cat(h, o), d, e) = Path(a, Cat(r, h), o, d, e)
    <3>1. PathLaw(a, r, o, d, e, h)
      BY <2>3, PathObeys, Zenon
    <3> QED BY <3>1, Zenon DEF PathLaw
  <2> QED BY <2>1, <2>2, <2>4, <2>5, Zenon DEF r
<1>4. CASE s2c' = Append(s2c, Frame("ping", 0)) /\ outbound' = outbound
  <2>1. Frame("ping", 0) \in Frames
    BY FrameMembers, Zenon
  <2>2. ArgsOf(kind, t, s2c') = ArgsOf(kind, t, s2c)
    BY <1>1, <1>4, <2>1, NothingPicked, Zenon DEF App
  <2> QED BY <1>4, <2>2, Zenon
<1> QED BY <1>3, <1>4, Zenon DEF WriterTakes

\* A step of another process keeps the account if the way stays as it is.
LEMMA WayKept ==
    ASSUME Accounted, Way' = Way, UNCHANGED <<asked, answers, pending>>,
           open' => open, looping' => looping, rd' # "done" => rd # "done"
    PROVE  Accounted'
BY DEF Accounted

\* The reader keeps the account of requests: each is in the socket, served or answered.
LEMMA AccountedReader ==
    ASSUME TypeOK, Serving, Accounted, ReaderStep PROVE Accounted'
<1>1. c2s \in Wire /\ s2c \in Wire /\ outbound \in Wire
  BY DEF TypeOK
<1>r. Segments("response", "none")
  BY SegmentsObey, Zenon
<1>q. Segments("request", "none")
  BY SegmentsObey, Zenon
<1>3. CASE ReaderGreets
  <2>1. /\ s2c' = App(s2c, Hello) /\ Hello \in Frames /\ rd = "start"
        /\ UNCHANGED <<answers, outbound, serving, c2s, asked, pending, open, looping>>
    BY <1>3, FrameMembers, Zenon DEF ReaderGreets, App, peer
  <2>2. ArgsOf("response", "none", s2c') = ArgsOf("response", "none", s2c)
    BY <1>1, <2>1, Unpicked, NothingPicked, Zenon
  <2>3. Way' = Way
    BY <2>1, <2>2, Zenon DEF Way
  <2> QED BY <2>1, <2>3, WayKept
<1>4. CASE ReaderHello
  <2> SUFFICES ASSUME rd' # "done" PROVE Accounted'
    BY DEF Accounted
  <2>1. /\ c2s # <<>> /\ c2s' = Tail(c2s) /\ Head(c2s) = Hello /\ rd = "hello"
        /\ UNCHANGED <<answers, outbound, serving, s2c, asked, pending, open, looping>>
    BY <1>4, Zenon DEF ReaderHello, peer
  <2>2. ArgsOf("request", "none", c2s') = ArgsOf("request", "none", c2s)
    BY <1>1, <2>1, Unpicked, NothingPicked, Zenon
  <2>3. Way' = Way
    BY <2>1, <2>2, Zenon DEF Way
  <2> QED BY <2>1, <2>3, WayKept
<1>5. ReaderEOF \/ (\E f \in Range(c2s) : ReaderRaises(f)) => Accounted'
  BY DEF ReaderEOF, ReaderRaises, Accounted
<1>6. ASSUME NEW f \in Range(c2s), ReaderRequest(f) PROVE Accounted'
  <2>1. /\ c2s # <<>> /\ c2s' = Tail(c2s) /\ f = Head(c2s) /\ rd = "loop"
        /\ f.kind = "request" /\ serving' = f.arg
        /\ UNCHANGED <<answers, outbound, s2c, asked, pending, open, looping>>
    BY <1>6, Zenon DEF ReaderRequest, Reads, peer
  <2>2. f \in Frames /\ f.arg \in Nat /\ f.arg # 0 /\ f.topic = "none"
    BY <1>1, <2>1, RangeInFrames, FrameFields
  <2>3. Held(serving) = <<>>
    BY <2>1, HeldLaws DEF Serving
  <2>4. Held(serving') = <<f.arg>> /\ Pick("request", "none", f) = <<f.arg>>
    BY <2>1, <2>2, HeldLaws, Zenon DEF Pick, Picked
  <2> DEFINE q == ArgsOf("request", "none", c2s')
  <2>5. ArgsOf("request", "none", c2s) = Cat(Held(serving'), q) /\ q \in Words
    <3>1. /\ Tail(c2s) \in Wire
          /\ ArgsOf("request", "none", c2s) =
                Cat(Pick("request", "none", Head(c2s)), ArgsOf("request", "none", Tail(c2s)))
      BY <1>1, <1>q, <2>1, Zenon DEF Segments
    <3>2. ArgsOf("request", "none", Tail(c2s)) \in Words
      BY <1>q, <3>1, Zenon DEF Segments
    <3> QED BY <2>1, <2>4, <3>1, <3>2, Zenon
  <2>6. Held(serving') \in Words
    BY <2>1, <2>2, HeldLaws
  <2> HIDE DEF q
  <2>7. PathLaw(answers, ArgsOf("response", "none", s2c),
                ArgsOf("response", "none", outbound), Held(serving), q, Held(serving'))
    BY <2>5, <2>6, WayTypes, PathObeys, Zenon
  <2>8. Path(answers, ArgsOf("response", "none", s2c), ArgsOf("response", "none", outbound),
             <<>>, Cat(Held(serving'), q))
          = Path(answers, ArgsOf("response", "none", s2c),
                 ArgsOf("response", "none", outbound), Held(serving'), q)
    BY <2>7, Zenon DEF PathLaw
  <2>9. Way' = Way
    BY <2>1, <2>3, <2>5, <2>8, Zenon DEF Way, q
  <2> QED BY <2>1, <2>9, WayKept
<1>7. ASSUME NEW f \in Range(c2s),
             ReaderSubscribe(f) \/ ReaderUnsubscribe(f) \/ ReaderBadFrame(f)
      PROVE  Accounted'
  <2>1. /\ c2s # <<>> /\ c2s' = Tail(c2s) /\ f = Head(c2s) /\ rd = "loop"
        /\ f.kind \in {"subscribe", "unsubscribe", "bad"}
        /\ UNCHANGED <<answers, outbound, s2c, serving, asked, pending, open, looping>>
    BY <1>7, Zenon DEF ReaderSubscribe, ReaderUnsubscribe, ReaderBadFrame, Reads, peer
  <2>2. Pick("request", "none", f) = <<>>
    BY <2>1 DEF Pick, Picked
  <2>3. ArgsOf("request", "none", c2s') = ArgsOf("request", "none", c2s)
    BY <1>1, <2>1, <2>2, NothingPicked, Zenon
  <2>4. Way' = Way
    BY <2>1, <2>3, Zenon DEF Way
  <2> QED BY <2>1, <2>4, WayKept
<1>8. CASE ReaderResponds
  <2> DEFINE f == Frame("response", serving)
             o == ArgsOf("response", "none", outbound)
             q == ArgsOf("request", "none", c2s)
             r == ArgsOf("response", "none", s2c)
             h == Held(serving)
  <2>1. /\ outbound' = App(outbound, f) /\ serving' = 0 /\ rd = "respond"
        /\ UNCHANGED <<answers, s2c, c2s, asked, pending, open, looping>>
    BY <1>8, Zenon DEF ReaderResponds, App, peer
  <2>2. f \in Frames /\ serving \in Nat
    BY FrameMembers DEF TypeOK
  <2>3. serving # 0
    BY <2>1 DEF Serving
  <2>4. Pick("response", "none", f) = h
    <3>1. Pick("response", "none", f) = <<serving>>
      BY DEF Pick, Picked, Frame
    <3> QED BY <2>3, <3>1, HeldLaws, Zenon
  <2> HIDE DEF f
  <2>5. ArgsOf("response", "none", outbound') = Cat(o, h)
    <3>1. ArgsOf("response", "none", App(outbound, f)) = Cat(o, Pick("response", "none", f))
      BY <1>1, <1>r, <2>2, Zenon DEF Segments
    <3> QED BY <2>1, <2>4, <3>1, Zenon
  <2>6. PathLaw(answers, r, o, h, q, h)
    BY WayTypes, PathObeys, Zenon
  <2> HIDE DEF h, o, q, r
  <2>7. Path(answers, r, Cat(o, h), <<>>, q) = Path(answers, r, o, h, q)
    BY <2>6, Zenon DEF PathLaw
  <2>8. Held(serving') = <<>>
    BY <2>1, HeldLaws, Zenon
  <2>9. Way' = Way
    BY <2>1, <2>5, <2>7, <2>8, Zenon DEF Way, h, o, q, r
  <2> QED BY <2>1, <2>9, WayKept
<1> QED BY <1>3, <1>4, <1>5, <1>6, <1>7, <1>8, Zenon DEF ReaderStep

\* The first segment of a path that reads 1, 2, 3, ..., n is shorter than n, and the
\* item behind it is the next number.
LEMMA WayPrefix ==
    ASSUME TypeOK, Way = Upto(asked)
    PROVE  Len(answers) \in Nat /\ Len(answers) <= asked
<1> DEFINE r == ArgsOf("response", "none", s2c)
           o == ArgsOf("response", "none", outbound)
           h == Held(serving)
           q == ArgsOf("request", "none", c2s)
           tail == Path(<<>>, r, o, h, q)
<1>1. answers \in Words /\ r \in Words /\ o \in Words /\ h \in Words /\ q \in Words
      /\ <<>> \in Words
  BY WayTypes DEF Words
<1>2. PathLaw(<<>>, r, o, h, q, answers)
  BY <1>1, PathObeys, Zenon
<1>3. Cat(answers, <<>>) = answers
  BY <1>1, ConcatEmptySeq DEF Cat, Words
<1>4. Way = Cat(answers, tail)
  BY <1>2, <1>3, Zenon DEF PathLaw, Way
<1>5. tail \in Words
  BY <1>1, PathType, Zenon
<1> HIDE DEF tail
<1>6. Len(Cat(answers, tail)) = Len(answers) + Len(tail)
  BY <1>1, <1>5, ConcatProperties DEF Cat, Words
<1>7. Len(answers) \in Nat /\ Len(tail) \in Nat
  BY <1>1, <1>5 DEF Words
<1>8. Len(Upto(asked)) = asked
  BY UptoLaws DEF TypeOK
<1> QED BY <1>4, <1>6, <1>7, <1>8

\* On a path that reads 1, 2, ..., what follows the first segment is its successor.
LEMMA WayNext ==
    ASSUME NEW a \in Words, NEW b \in Words, NEW c \in Words, NEW d \in Words, NEW e \in Words,
           NEW x \in Nat, NEW n \in Nat, Path(Cat(a, <<x>>), b, c, d, e) = Upto(n)
    PROVE  x = Len(a) + 1 /\ x <= n
<1> DEFINE w == <<x>>
           tail == Path(<<>>, b, c, d, e)
<1>1. w \in Words /\ <<>> \in Words
  BY DEF Words
<1> HIDE DEF w
<1>2. \A u \in Words : \A v \in Words : Cat(u, v) \in Words
  <2>1. Monoid(Nat)
    BY SequencesAreMonoid, Zenon
  <2> QED BY <2>1, Zenon DEF Monoid, Words
<1>3. Cat(a, w) \in Words /\ Cat(w, <<>>) = w
  <2>1. Monoid(Nat)
    BY SequencesAreMonoid, Zenon
  <2> QED BY <1>1, <2>1, Zenon DEF Monoid, Words
<1>4. PathLaw(<<>>, b, c, d, e, Cat(a, w))
  BY <1>1, <1>3, PathObeys, Zenon
<1>5. Cat(Cat(a, w), <<>>) = Cat(a, w)
  <2>1. Monoid(Nat)
    BY SequencesAreMonoid, Zenon
  <2> QED BY <1>3, <2>1, Zenon DEF Monoid, Words
<1>6. tail \in Words
  BY <1>1, PathType, Zenon
<1>7. Path(Cat(a, w), b, c, d, e) = Cat(Cat(a, w), tail)
  BY <1>4, <1>5, Zenon DEF PathLaw
<1> HIDE DEF tail
<1>8. Cat(Cat(a, w), tail) = Cat(a, Cat(w, tail))
  <2>1. Monoid(Nat)
    BY SequencesAreMonoid, Zenon
  <2>2. \A u \in Words : \A v \in Words : \A z \in Words : Cat(Cat(u, v), z) = Cat(u, Cat(v, z))
    BY <2>1, Zenon DEF Monoid, Words
  <2> QED BY <1>1, <1>6, <2>2
<1>9. Cat(a, Cat(<<x>>, tail)) = Upto(n)
  BY <1>7, <1>8, Zenon DEF w
<1> QED BY <1>6, <1>9, UptoSplit

\* The other tasks of the server keep the account of requests.
LEMMA AccountedServer ==
    ASSUME TypeOK, Forwarders, Accounted,
           \/ WriterStep \/ Dispatched \/ HandlerEnds \/ DaemonEnds
           \/ \E t \in Topics : ForwarderStep(t) \/ Publish(t)
    PROVE  Accounted'
<1>1. CASE WriterTakes
  <2>1. UNCHANGED <<answers, serving, c2s, asked, pending, open, looping, rd>>
    BY <1>1, Zenon DEF WriterTakes, peer
  <2>2. Path(answers, ArgsOf("response", "none", s2c'), ArgsOf("response", "none", outbound'),
             Held(serving), ArgsOf("request", "none", c2s)) = Way
    <3>1. Pick("response", "none", Frame("ping", 0)) = <<>>
      BY Unpicked, Zenon
    <3> QED BY <1>1, <3>1, WriterMoves, WayTypes DEF Way
  <2>3. Way' = Way
    BY <2>1, <2>2, Zenon DEF Way
  <2> QED BY <2>1, <2>3, WayKept
<1>2. CASE \/ WriterDrained \/ WriterBroken \/ Dispatched
           \/ \E t \in Topics : ForwarderGets(t) \/ ForwarderStops(t) \/ Publish(t)
  <2>1. /\ UNCHANGED <<answers, s2c, outbound, serving, c2s, asked, pending, open, looping>>
        /\ rd' # "done" => rd # "done"
    BY <1>2, Zenon DEF WriterDrained, WriterBroken, Dispatched, ForwarderGets,
       ForwarderStops, Publish, peer
  <2>2. Way' = Way
    BY <2>1, Zenon DEF Way
  <2> QED BY <2>1, <2>2, WayKept
<1>3. ASSUME NEW t \in Topics, ForwarderPuts(t) PROVE Accounted'
  <2>1. /\ outbound' = App(outbound, Event(t, hand[t])) /\ fw[t] = "put"
        /\ UNCHANGED <<answers, s2c, serving, c2s, asked, pending, open, looping, rd>>
    BY <1>3, Zenon DEF ForwarderPuts, App, peer
  <2>2. Event(t, hand[t]) \in Frames
    <3>1. hand[t] \in Nat \ {0}
      BY <2>1 DEF Forwarders, TypeOK
    <3> QED BY <3>1, FrameMembers
  <2>3. Pick("response", "none", Event(t, hand[t])) = <<>>
    BY DEF Pick, Picked, Event
  <2>4. ArgsOf("response", "none", outbound') = ArgsOf("response", "none", outbound)
    BY <2>1, <2>2, <2>3, NothingPicked, Zenon DEF TypeOK
  <2>5. Way' = Way
    BY <2>1, <2>4, Zenon DEF Way
  <2> QED BY <2>1, <2>5, WayKept
<1>4. CASE HandlerEnds \/ DaemonEnds
  BY <1>4 DEF HandlerEnds, DaemonEnds, Dropped, Accounted
<1> QED BY <1>1, <1>2, <1>3, <1>4, Zenon DEF WriterStep, ForwarderStep

\* The client keeps the account of requests.
LEMMA AccountedClient ==
    ASSUME TypeOK, Handshake, Serving, Accounted, ClientStep PROVE Accounted'
<1> USE DEF server
<1>1. c2s \in Wire /\ s2c \in Wire /\ outbound \in Wire
  BY DEF TypeOK
<1>r. Segments("response", "none")
  BY SegmentsObey, Zenon
<1>q. Segments("request", "none")
  BY SegmentsObey, Zenon
<1> DEFINE o == ArgsOf("response", "none", outbound)
           q == ArgsOf("request", "none", c2s)
           r == ArgsOf("response", "none", s2c)
           h == Held(serving)
<1>2. CASE ClientHello
  <2> SUFFICES ASSUME open', looping', rd' # "done" PROVE Accounted'
    BY DEF Accounted
  <2>1. PICK g \in {Hello, Frame("hello", 1)} :
           /\ s2c # <<>> /\ s2c' = Tail(s2c) /\ Head(s2c) = Hello /\ client = "connecting"
           /\ c2s' = Append(c2s, g)
           /\ UNCHANGED <<rd, outbound, serving, answers, pending, asked>>
    BY <1>2, Zenon DEF ClientHello, Handshake
  <2>2. /\ asked = 0 /\ pending = {} /\ answers = <<>> /\ c2s = <<>> /\ outbound = <<>>
        /\ rd \in {"start", "hello"} /\ r = <<>>
    BY <2>1 DEF Handshake, IdsOf
  <2>3. ArgsOf("response", "none", s2c') = <<>>
    <3>1. Pick("response", "none", Head(s2c)) = <<>>
      BY <2>1, Unpicked, Zenon
    <3> QED BY <1>1, <2>1, <2>2, <3>1, NothingPicked, Zenon
  <2>4. ArgsOf("request", "none", c2s') = <<>>
    <3>1. g \in Frames /\ Pick("request", "none", g) = <<>>
      BY FrameMembers, Unpicked, Zenon
    <3>2. ArgsOf("request", "none", App(c2s, g)) = ArgsOf("request", "none", c2s)
      BY <1>1, <3>1, NothingPicked, Zenon
    <3> QED BY <2>1, <2>2, <3>2, ArgsEmpty, Zenon DEF App
  <2>5. Held(serving') = <<>>
    BY <2>1, <2>2, HeldLaws DEF Serving
  <2>6. ArgsOf("response", "none", outbound') = <<>>
    BY <2>1, <2>2, ArgsEmpty, Zenon
  <2>7. Path(<<>>, <<>>, <<>>, <<>>, <<>>) = <<>>
    BY DEF Path, Cat
  <2>8. Way' = <<>>
    BY <2>1, <2>2, <2>3, <2>4, <2>5, <2>6, <2>7, Zenon DEF Way
  <2>9. Upto(asked') = <<>>
    BY <2>1, <2>2, UptoLaws, Zenon
  <2>10. pending' = Len(answers') + 1 .. asked'
    BY <2>1, <2>2
  <2> QED BY <2>8, <2>9, <2>10, Zenon DEF Accounted
<1>3. CASE ClientRefused
  BY <1>3 DEF ClientRefused, Accounted
<1>4. CASE Request
  <2> SUFFICES ASSUME open', looping', rd' # "done" PROVE Accounted'
    BY DEF Accounted
  <2> DEFINE f == Frame("request", asked + 1)
  <2>1. /\ c2s' = App(c2s, f) /\ asked' = asked + 1
        /\ pending' = pending \cup {asked + 1} /\ open /\ looping /\ rd # "done"
        /\ UNCHANGED <<answers, s2c, outbound, serving>>
    BY <1>4, Zenon DEF Request, App
  <2>2. asked \in Nat /\ asked + 1 \in Nat \ {0} /\ f \in Frames
    <3>1. asked \in Nat /\ asked + 1 \in Nat \ {0}
      BY DEF TypeOK
    <3> QED BY <3>1, FrameMembers
  <2>3. Pick("request", "none", f) = <<asked + 1>>
    BY DEF Pick, Picked, Frame
  <2> HIDE DEF f
  <2>4. ArgsOf("request", "none", c2s') = Cat(q, <<asked + 1>>)
    <3>1. ArgsOf("request", "none", App(c2s, f)) = Cat(q, Pick("request", "none", f))
      BY <1>1, <1>q, <2>2, Zenon DEF Segments
    <3> QED BY <2>1, <2>3, <3>1, Zenon
  <2>5. <<asked + 1>> \in Words
    BY <2>2 DEF Words
  <2>6. PathLaw(answers, r, o, h, q, <<asked + 1>>)
    BY <2>5, WayTypes, PathObeys, Zenon
  <2>7. Way = Upto(asked) /\ pending = Len(answers) + 1 .. asked
    BY <2>1, Zenon DEF Accounted
  <2>8. Way' = Cat(Upto(asked), <<asked + 1>>)
    BY <2>1, <2>4, <2>6, <2>7, Zenon DEF PathLaw, Way
  <2>9. Way' = Upto(asked')
    BY <2>1, <2>2, <2>8, UptoLaws, Zenon
  <2>10. pending' = Len(answers') + 1 .. asked'
    <3>1. Len(answers) \in Nat /\ Len(answers) <= asked
      BY <2>2, <2>7, WayPrefix
    <3>2. pending' = (Len(answers) + 1 .. asked) \cup {asked + 1}
      BY <2>1, <2>7, Zenon
    <3>3. (Len(answers) + 1 .. asked) \cup {asked + 1} = Len(answers) + 1 .. asked + 1
      BY <2>2, <3>1
    <3> QED BY <2>1, <3>2, <3>3, Zenon
  <2> QED BY <2>9, <2>10, Zenon DEF Accounted
<1>5. CASE ClientReads
  <2> SUFFICES ASSUME open', looping', rd' # "done" PROVE Accounted'
    BY DEF Accounted
  <2> DEFINE f == Head(s2c)
             rest == ArgsOf("response", "none", Tail(s2c))
  <2>1. /\ s2c # <<>> /\ s2c' = Tail(s2c) /\ open /\ looping /\ rd # "done"
        /\ UNCHANGED <<c2s, outbound, serving, asked>>
    BY <1>5, Zenon DEF ClientReads
  <2>2. /\ f \in Frames /\ Tail(s2c) \in Wire
        /\ r = Cat(Pick("response", "none", f), rest)
    BY <1>1, <1>r, <2>1, Zenon DEF Segments
  <2>3. rest \in Words
    BY <1>r, <2>2, Zenon DEF Segments
  <2>4. Way = Upto(asked) /\ pending = Len(answers) + 1 .. asked
    BY <2>1, Zenon DEF Accounted
  <2>5. CASE f.kind = "response"
    <3>1. f.arg \in Nat /\ f.topic = "none"
      BY <2>2, <2>5, FrameFields
    <3>2. Pick("response", "none", f) = <<f.arg>> /\ <<f.arg>> \in Words
      <4>1. Pick("response", "none", f) = <<f.arg>>
        BY <2>5, <3>1, Zenon DEF Pick, Picked
      <4> QED BY <3>1, <4>1 DEF Words
    <3>3. PathLaw(answers, rest, o, h, q, <<f.arg>>)
      BY <2>3, <3>2, WayTypes, PathObeys, Zenon
    <3>4. Path(Cat(answers, <<f.arg>>), rest, o, h, q) = Upto(asked)
      BY <2>2, <2>4, <3>2, <3>3, Zenon DEF PathLaw, Way
    <3>5. f.arg = Len(answers) + 1 /\ f.arg <= asked
      <4>1. o \in Words /\ h \in Words /\ q \in Words /\ answers \in Words /\ asked \in Nat
        BY WayTypes, Zenon DEF TypeOK
      <4> HIDE DEF f, o, h, q, rest
      <4> QED BY <2>3, <3>1, <3>4, <4>1, WayNext
    <3>6. Len(answers) \in Nat /\ asked \in Nat
      BY DEF TypeOK, Words
    <3>7. f.arg \in pending
      BY <2>4, <3>5, <3>6
    <3>8. answers' = App(answers, f.arg) /\ pending' = pending \ {f.arg}
      BY <1>5, <2>5, <3>7, Zenon DEF ClientReads, App
    <3>9. App(answers, f.arg) = Cat(answers, <<f.arg>>)
      <4>1. Queues(Nat) /\ answers \in Seq(Nat)
        BY SequencesAreQueues, Zenon DEF TypeOK, Words
      <4> QED BY <3>1, <4>1, Zenon DEF Queues
    <3>10. Way' = Upto(asked')
      BY <2>1, <3>4, <3>8, <3>9, Zenon DEF Way
    <3>11. Len(answers') = Len(answers) + 1
      <4>1. answers \in Seq(Nat)
        BY Zenon DEF TypeOK, Words
      <4> QED BY <3>1, <3>8, <4>1, AppendProperties, Zenon DEF App
    <3>12. pending' = Len(answers') + 1 .. asked'
      BY <2>1, <2>4, <3>5, <3>6, <3>8, <3>11
    <3> QED BY <3>10, <3>12, Zenon DEF Accounted
  <2>6. CASE f.kind # "response"
    <3>1. Pick("response", "none", f) = <<>>
      BY <2>6, Zenon DEF Pick, Picked
    <3>2. ArgsOf("response", "none", s2c') = r
      BY <1>1, <2>1, <3>1, NothingPicked, Zenon
    <3>3. UNCHANGED <<answers, pending>>
      BY <1>5, <2>6, Zenon DEF ClientReads
    <3>4. Way' = Way
      BY <2>1, <3>2, <3>3, Zenon DEF Way
    <3> QED BY <2>1, <3>3, <3>4, WayKept
  <2> QED BY <2>5, <2>6
<1>6. CASE ClientLoopEnds \/ ClientCloses
  BY <1>6 DEF ClientLoopEnds, ClientCloses, Accounted
<1>7. CASE ClientConsumes
  <2>1. UNCHANGED <<answers, s2c, outbound, serving, c2s, asked, pending, open, looping, rd>>
    BY <1>7, Zenon DEF ClientConsumes
  <2>2. Way' = Way
    BY <2>1, Zenon DEF Way
  <2> QED BY <2>1, <2>2, WayKept
<1>8. ASSUME NEW f \in Inputs, ClientSends(f) PROVE Accounted'
  <2>1. /\ c2s' = App(c2s, f)
        /\ UNCHANGED <<answers, s2c, outbound, serving, asked, pending, open, looping, rd>>
    BY <1>8, Zenon DEF ClientSends, App
  <2>2. f \in Frames /\ Pick("request", "none", f) = <<>>
    BY FrameMembers, Unpicked, Zenon
  <2>3. ArgsOf("request", "none", c2s') = q
    BY <1>1, <2>1, <2>2, NothingPicked, Zenon
  <2>4. Way' = Way
    BY <2>1, <2>3, Zenon DEF Way
  <2> QED BY <2>1, <2>4, WayKept
<1> QED BY <1>2, <1>3, <1>4, <1>5, <1>6, <1>7, <1>8, Zenon DEF ClientStep

----------------------------------------------------------------------------
(* The invariant *)

\* The inductive invariant.
IInv ==
    /\ TypeOK
    /\ Forwarders
    /\ Handshake
    /\ Serving
    /\ Accounted
    /\ IteratorIsReleased

\* The inductive invariant holds initially, ...
LEMMA InvInit == Init => IInv
<1> SUFFICES ASSUME Init PROVE IInv
  OBVIOUS
<1>1. Forwarders
  BY DEF Init, Forwarders
<1>2. Handshake
  <2>1. IdsOf("response", s2c) = <<>>
    BY ArgsEmpty, Zenon DEF IdsOf, Init
  <2> QED BY <2>1 DEF Init, Handshake
<1>3. Serving /\ Accounted /\ IteratorIsReleased
  BY DEF Init, Serving, Accounted, IteratorIsReleased
<1> QED BY <1>1, <1>2, <1>3, TypeInit DEF IInv

\* ... and every step keeps it.
LEMMA InvNext == IInv /\ [Next]_vars => IInv'
<1> SUFFICES ASSUME IInv, [Next]_vars PROVE IInv'
  OBVIOUS
<1> USE DEF IInv
<1>1. CASE Next
  <2>1. TypeOK'
    BY <1>1, TypeReader, TypeForwarder, TypeWriter, TypeClient, Zenon DEF Next
  <2>2. Forwarders' /\ Handshake' /\ Serving' /\ IteratorIsReleased'
    BY <1>1, ForwardersInvariant, HandshakeInvariant, ServingInvariant, IteratorInvariant,
       Zenon
  <2>3. Accounted'
    BY <1>1, AccountedReader, AccountedServer, AccountedClient, Zenon DEF Next
  <2> QED BY <2>1, <2>2, <2>3
<1>2. CASE UNCHANGED vars
  <2> USE <1>2 DEF vars, server, peer
  <2>1. TypeOK'
    BY DEF TypeOK
  <2>2. Forwarders' /\ Serving' /\ IteratorIsReleased'
    BY DEF Forwarders, Serving, IteratorIsReleased
  <2>3. Handshake'
    BY DEF Handshake
  <2>4. Accounted'
    <3>1. Way' = Way
      BY Zenon DEF Way
    <3> QED BY <3>1, Zenon DEF Accounted
  <2> QED BY <2>1, <2>2, <2>3, <2>4
<1> QED BY <1>1, <1>2

\* The state of a connection and its client stays well formed, with the inductive
\* invariant that the results below rest on.
THEOREM ConnectionInvariant == Spec => []IInv
BY InvInit, InvNext, PTL DEF Spec

\* The types alone.
THEOREM ConnectionTypes == Spec => []TypeOK
<1>1. IInv => TypeOK
  BY DEF IInv
<1> QED BY <1>1, ConnectionInvariant, PTL

\* events() ends: whenever _read_loop has ended the iterator has, or the sentinel
\* is in _event_queue behind everything that was read.
THEOREM IteratorReleased == Spec => []IteratorIsReleased
<1>1. IInv => IteratorIsReleased
  BY DEF IInv
<1> QED BY <1>1, ConnectionInvariant, PTL

\* No request is lost, answered twice or overtaken while the reader serves the
\* connection, for every number of requests and every size of the queues.
THEOREM RequestsAreConserved == Spec => []RequestsConserved
<1>1. IInv => RequestsConserved
  BY WayIsPath DEF IInv, Accounted, RequestsConserved, Upto
<1> QED BY <1>1, ConnectionInvariant, PTL

----------------------------------------------------------------------------
(* The refinement of EventStream *)

\* The sequences of naturals are a monoid.
LEMMA WordLaws ==
    /\ <<>> \in Words
    /\ \A a \in Words : \A b \in Words : Cat(a, b) \in Words
    /\ \A a \in Words : Cat(a, <<>>) = a /\ Cat(<<>>, a) = a
    /\ \A a \in Words : \A b \in Words : \A c \in Words : Cat(Cat(a, b), c) = Cat(a, Cat(b, c))
    /\ \A n \in Nat : <<n>> \in Words
<1>1. Monoid(Nat)
  BY SequencesAreMonoid, Zenon
<1> QED BY <1>1, Zenon DEF Monoid, Words

\* SubSeq takes the first part of a concatenation.
LEMMA PrefixOf ==
    ASSUME NEW a \in Words, NEW b \in Words
    PROVE  /\ Len(a) \in 0 .. Len(Cat(a, b))
           /\ SubSeq(Cat(a, b), 1, Len(a)) = a
<1> DEFINE w == a \o b
<1>1. /\ w \in Seq(Nat) /\ Len(w) = Len(a) + Len(b) /\ Len(a) \in Nat /\ Len(b) \in Nat
      /\ \A i \in 1 .. Len(a) + Len(b) : w[i] = IF i <= Len(a) THEN a[i] ELSE b[i - Len(a)]
  BY ConcatProperties, LenProperties DEF Words
<1> HIDE DEF w
<1> DEFINE p == SubSeq(w, 1, Len(a))
<1>2. p \in Seq(Nat) /\ Len(p) = Len(a) /\ \A i \in 1 .. Len(a) : p[i] = w[i]
  BY <1>1
<1> HIDE DEF p
<1>3. \A i \in 1 .. Len(a) : p[i] = a[i]
  BY <1>1, <1>2
<1>4. p = a
  BY <1>2, <1>3, SeqEqual DEF Words
<1> QED BY <1>1, <1>4 DEF p, w, Cat

\* SubSeq takes the second part of a concatenation.
LEMMA SuffixOf ==
    ASSUME NEW a \in Words, NEW b \in Words
    PROVE  SubSeq(Cat(a, b), Len(a) + 1, Len(Cat(a, b))) = b
<1> DEFINE w == a \o b
<1>1. /\ w \in Seq(Nat) /\ Len(w) = Len(a) + Len(b) /\ Len(a) \in Nat /\ Len(b) \in Nat
      /\ \A i \in 1 .. Len(a) + Len(b) : w[i] = IF i <= Len(a) THEN a[i] ELSE b[i - Len(a)]
  BY ConcatProperties, LenProperties DEF Words
<1> HIDE DEF w
<1> DEFINE p == SubSeq(w, Len(a) + 1, Len(w))
<1>2. p \in Seq(Nat) /\ Len(p) = Len(b) /\ \A i \in 1 .. Len(b) : p[i] = w[Len(a) + i]
  BY <1>1, SMTT(30)
<1> HIDE DEF p
<1>3. \A i \in 1 .. Len(b) : p[i] = b[i]
  <2> SUFFICES ASSUME NEW i \in 1 .. Len(b) PROVE p[i] = b[i]
    OBVIOUS
  <2>1. p[i] = w[Len(a) + i] /\ Len(a) + i \in 1 .. Len(a) + Len(b)
        /\ ~ (Len(a) + i <= Len(a)) /\ (Len(a) + i) - Len(a) = i
    BY <1>1, <1>2
  <2> QED BY <1>1, <2>1
<1>4. p = b
  BY <1>2, <1>3, SeqEqual DEF Words
<1> QED BY <1>4 DEF p, w, Cat

\* The first item of a sequence, and a sequence without an item in the middle.
LEMMA FirstOf ==
    ASSUME NEW x \in Nat, NEW b \in Words
    PROVE  /\ Cat(<<x>>, b) # <<>>
           /\ Head(Cat(<<x>>, b)) = x
           /\ Tail(Cat(<<x>>, b)) = b
<1>1. <<x>> \in Words /\ Len(<<x>>) = 1
  BY DEF Words
<1>2. SubSeq(Cat(<<x>>, b), 2, Len(Cat(<<x>>, b))) = b
  <2>1. SubSeq(Cat(<<x>>, b), Len(<<x>>) + 1, Len(Cat(<<x>>, b))) = b
    BY <1>1, SuffixOf, Zenon
  <2>2. Len(<<x>>) + 1 = 2
    BY <1>1
  <2> QED BY <2>1, <2>2, Zenon
<1>3. Cat(<<x>>, b) \in Seq(Nat) /\ Len(Cat(<<x>>, b)) = 1 + Len(b) /\ Cat(<<x>>, b)[1] = x
      /\ Len(b) \in Nat
  BY <1>1, ConcatProperties DEF Cat, Words
<1> DEFINE w == Cat(<<x>>, b)
<1> HIDE DEF w
<1>4. w \in Seq(Nat) /\ Len(w) = 1 + Len(b) /\ w[1] = x /\ Len(b) \in Nat
      /\ SubSeq(w, 2, Len(w)) = b
  BY <1>2, <1>3 DEF w
<1>5. w # <<>> /\ Head(w) = x /\ Tail(w) = SubSeq(w, 2, Len(w))
  BY <1>4
<1> QED BY <1>4, <1>5 DEF w

\* RemoveAt takes an element out of the middle.
LEMMA WithoutMiddle ==
    ASSUME NEW a \in Words, NEW b \in Words, NEW x \in Nat
    PROVE  /\ Len(a) + 1 \in DOMAIN Cat(a, Cat(<<x>>, b))
           /\ RemoveAt(Cat(a, Cat(<<x>>, b)), Len(a) + 1) = Cat(a, b)
<1> DEFINE c == Cat(<<x>>, b)
           w == Cat(a, c)
<1>1. <<x>> \in Words /\ Len(<<x>>) = 1
  BY DEF Words
<1>2. c \in Words /\ w \in Words /\ Cat(a, <<x>>) \in Words
  BY <1>1, WordLaws
<1>3. w = Cat(Cat(a, <<x>>), b)
  BY <1>1, WordLaws
<1>4. /\ Len(w) = Len(a) + (1 + Len(b)) /\ Len(a) \in Nat /\ Len(b) \in Nat
      /\ Len(Cat(a, <<x>>)) = Len(a) + 1
  BY <1>1, <1>2, ConcatProperties DEF Cat, Words
<1>5. SubSeq(w, 1, Len(a)) = a
  BY <1>2, PrefixOf
<1>6. SubSeq(w, (Len(a) + 1) + 1, Len(w)) = b
  BY <1>2, <1>3, <1>4, SuffixOf
<1> HIDE DEF w
<1>7. (Len(a) + 1) - 1 = Len(a) /\ Len(a) + 1 \in DOMAIN w
  BY <1>2, <1>4 DEF Words
<1>8. RemoveAt(w, Len(a) + 1) = SubSeq(w, 1, Len(a)) \o SubSeq(w, (Len(a) + 1) + 1, Len(w))
  BY <1>7 DEF RemoveAt
<1> QED BY <1>5, <1>6, <1>7, <1>8, Zenon DEF w, Cat

\* The path of the events of topic t through the queues of an open connection.
EventPath(t) ==
    Path(ArgsOf("event", t, evq), ArgsOf("event", t, s2c), ArgsOf("event", t, outbound),
         Held(hand[t]), queue[t])

\* The segments of the path of a topic's events are words.
LEMMA EventTypes ==
    ASSUME TypeOK, NEW t \in Topics
    PROVE  /\ ArgsOf("event", t, evq) \in Words
           /\ ArgsOf("event", t, s2c) \in Words
           /\ ArgsOf("event", t, outbound) \in Words
           /\ Held(hand[t]) \in Words
           /\ queue[t] \in Words
           /\ sent[t] \in Nat /\ received[t] \in Words
<1>1. Segments("event", t)
  BY SegmentsObey, Zenon
<1>2. evq \in Wire /\ s2c \in Wire /\ outbound \in Wire
  BY DEF TypeOK
<1>3. hand[t] \in Nat /\ queue[t] \in Numbers /\ sent[t] \in Nat /\ received[t] \in Words
  BY DEF TypeOK
<1>4. queue[t] \in Words
  BY <1>3 DEF Numbers, Words
<1> QED BY <1>1, <1>2, <1>3, <1>4, HeldLaws, Zenon DEF Segments

\* What is in flight, as a path.
LEMMA InFlightIsPath ==
    ASSUME TypeOK, NEW t \in Topics
    PROVE  /\ Gone => InFlight(t) = ArgsOf("event", t, evq)
           /\ ~ Gone => InFlight(t) = EventPath(t)
           /\ InFlight(t) \in Words
<1>1. Segments("event", t)
  BY SegmentsObey, Zenon
<1>2. evq \in Wire /\ s2c \in Wire /\ outbound \in Wire
  BY DEF TypeOK
<1>3. /\ ArgsOf("event", t, Cat(s2c, outbound))
           = Cat(ArgsOf("event", t, s2c), ArgsOf("event", t, outbound))
      /\ Cat(s2c, outbound) \in Wire
  BY <1>1, <1>2, Zenon DEF Segments
<1>4. ArgsOf("event", t, Cat(evq, Cat(s2c, outbound)))
        = Cat(ArgsOf("event", t, evq), ArgsOf("event", t, Cat(s2c, outbound)))
  BY <1>1, <1>2, <1>3, Zenon DEF Segments
<1>5. Cat(evq, Cat(s2c, outbound)) = Cat(Cat(evq, s2c), outbound)
  <2>1. Monoid(Frames)
    BY SequencesAreMonoid, Zenon
  <2>2. \A a \in Wire : \A b \in Wire : \A c \in Wire : Cat(Cat(a, b), c) = Cat(a, Cat(b, c))
    BY <2>1, Zenon DEF Monoid, Wire
  <2> QED BY <1>2, <2>2
<1>6. Gone => InFlight(t) = ArgsOf("event", t, evq)
  BY Zenon DEF InFlight, EventsOf
<1>7. ~ Gone => InFlight(t) = EventPath(t)
  <2>1. ~ Gone => InFlight(t) =
          Cat(Cat(ArgsOf("event", t, Cat(Cat(evq, s2c), outbound)), Held(hand[t])), queue[t])
    BY Zenon DEF InFlight, EventsOf, Cat
  <2> QED BY <1>3, <1>4, <1>5, <2>1, Zenon DEF EventPath, Path
<1>8. ArgsOf("event", t, evq) \in Words /\ EventPath(t) \in Words
  BY EventTypes, PathType, Zenon DEF EventPath
<1> QED BY <1>6, <1>7, <1>8, Zenon

\* A topic's part of a step of EventStream.
StreamStep(t) ==
    \/ Stream!Subscribe(t) \/ Stream!Publish(t) \/ Stream!Unsubscribe(t)
    \/ Stream!Lose(t) \/ Stream!Receive(t) \/ Stream!Idle(t)

\* A step that moves nothing of topic t is Idle.
LEMMA StreamIdles ==
    ASSUME NEW t \in Topics, sent'[t] = sent[t], received'[t] = received[t],
           InFlight(t)' = InFlight(t), t \in Subscribed' <=> t \in Subscribed
    PROVE  StreamStep(t)
<1>1. Stream!Idle(t)
  BY DEF Stream!Idle, Stream!Keeps, Stream!StaysOpen
<1> QED BY <1>1, Zenon DEF StreamStep

\* A step that opens topic t is Subscribe.
LEMMA StreamSubscribes ==
    ASSUME NEW t \in Topics, sent'[t] = sent[t], received'[t] = received[t],
           InFlight(t)' = InFlight(t), t \in Subscribed', t \notin Subscribed
    PROVE  StreamStep(t)
<1>1. Stream!Subscribe(t)
  BY DEF Stream!Subscribe, Stream!Keeps
<1> QED BY <1>1, Zenon DEF StreamStep

\* What is not furthest from the client stays.
LEMMA StreamShortens ==
    ASSUME NEW t \in Topics, sent'[t] = sent[t], received'[t] = received[t],
           t \notin Subscribed', NEW x \in Words,
           InFlight(t)' \in Words, InFlight(t) = Cat(InFlight(t)', x)
    PROVE  StreamStep(t)
<1>1. /\ Len(InFlight(t)') \in 0 .. Len(InFlight(t))
      /\ InFlight(t)' = SubSeq(InFlight(t), 1, Len(InFlight(t)'))
  BY PrefixOf
<1>2. Stream!Shortens(t)
  <2>1. \E n \in 0 .. Len(InFlight(t)) : InFlight(t)' = SubSeq(InFlight(t), 1, n)
    BY <1>1, Zenon
  <2>2. [u \in Topics |-> InFlight(u)][t] = InFlight(t)
    BY Zenon
  <2>3. [u \in Topics |-> InFlight(u)]'[t] = InFlight(t)'
    BY Zenon
  <2> QED BY <2>1, <2>2, <2>3, Zenon DEF Stream!Shortens
<1>3. CASE t \in Subscribed
  <2>1. Stream!Unsubscribe(t)
    BY <1>2, <1>3, Zenon DEF Stream!Unsubscribe, Stream!Keeps
  <2> QED BY <2>1, Zenon DEF StreamStep
<1>4. CASE t \notin Subscribed
  <2>1. Stream!Lose(t)
    BY <1>2, <1>4, Zenon DEF Stream!Lose, Stream!Keeps
  <2> QED BY <2>1, Zenon DEF StreamStep
<1> QED BY <1>3, <1>4

\* A step that takes the first event in flight is Receive.
LEMMA StreamReceives ==
    ASSUME NEW t \in Topics, sent'[t] = sent[t],
           t \in Subscribed' <=> t \in Subscribed, NEW x \in Nat,
           InFlight(t)' \in Words, InFlight(t) = Cat(<<x>>, InFlight(t)'),
           received'[t] = Append(received[t], x)
    PROVE  StreamStep(t)
<1>1. InFlight(t) # <<>> /\ x = Head(InFlight(t)) /\ InFlight(t)' = Tail(InFlight(t))
  BY FirstOf, Zenon
<1>2. received'[t] = Append(received[t], Head(InFlight(t)))
  BY <1>1, Zenon
<1>3. [u \in Topics |-> InFlight(u)][t] = InFlight(t)
  BY Zenon
<1>4. [u \in Topics |-> InFlight(u)]'[t] = InFlight(t)'
  BY Zenon
<1>5. Stream!Receive(t)
  BY <1>1, <1>2, <1>3, <1>4, Zenon DEF Stream!Receive, Stream!Keeps, Stream!StaysOpen
<1> QED BY <1>5, Zenon DEF StreamStep

InFlightLaw ==
    \A t \in Topics :
        /\ Gone => InFlight(t) = ArgsOf("event", t, evq)
        /\ ~ Gone => InFlight(t) = EventPath(t)
        /\ InFlight(t) \in Words

\* InFlightIsPath for all topics, ...
LEMMA InFlightObeys == TypeOK => InFlightLaw
BY InFlightIsPath, Zenon DEF InFlightLaw

\* ... in the next state, ...
LEMMA InFlightObeysNext == TypeOK' => InFlightLaw'
BY InFlightObeys, PTL

\* ... and for one topic.
LEMMA InFlightNext ==
    ASSUME TypeOK', NEW t \in Topics
    PROVE  /\ Gone' => InFlight(t)' = ArgsOf("event", t, evq')
           /\ ~ Gone' => InFlight(t)' = EventPath(t)'
           /\ InFlight(t)' \in Words
BY InFlightObeysNext, Zenon DEF InFlightLaw

\* A topic that a step of another part leaves alone.
LEMMA StreamStays ==
    ASSUME TypeOK, TypeOK', NEW t \in Topics, UNCHANGED <<sent, received, client, evq>>,
           t \in subbed' <=> t \in subbed, EventPath(t)' = EventPath(t)
    PROVE  StreamStep(t)
<1>1. Gone' <=> Gone
  BY DEF Gone
<1>2. InFlight(t)' = InFlight(t)
  <2>1. Gone' => InFlight(t)' = ArgsOf("event", t, evq')
    BY InFlightNext, Zenon
  <2>2. ~ Gone' => InFlight(t)' = EventPath(t)'
    BY InFlightNext, Zenon
  <2> QED BY <1>1, <2>1, <2>2, InFlightIsPath, Zenon
<1>3. t \in Subscribed' <=> t \in Subscribed
  BY <1>1 DEF Subscribed
<1> QED BY <1>2, <1>3, StreamIdles, Zenon

\* Each step of the reader is a step of every topic's stream.
LEMMA StreamReader ==
    ASSUME IInv, TypeOK', ReaderStep, NEW t \in Topics PROVE StreamStep(t)
<1> USE DEF IInv
<1>1. c2s \in Wire /\ s2c \in Wire /\ outbound \in Wire
  BY DEF TypeOK
<1>2. CASE ReaderGreets \/ ReaderHello
  <2>1. PICK f \in Frames :
           /\ Pick("event", t, f) = <<>>
           /\ s2c' = s2c \/ s2c' = App(s2c, f)
           /\ UNCHANGED <<outbound, hand, queue, subbed, sent, received, client, evq>>
    <3>1. Hello \in Frames /\ Pick("event", t, Hello) = <<>>
      BY FrameMembers, Unpicked, Zenon
    <3>2. Frame("response", 0) \in Frames /\ Pick("event", t, Frame("response", 0)) = <<>>
      BY FrameMembers, Unpicked
    <3> QED BY <1>2, <3>1, <3>2, Zenon DEF ReaderGreets, ReaderHello, App, peer
  <2>2. ArgsOf("event", t, s2c') = ArgsOf("event", t, s2c)
    BY <1>1, <2>1, NothingPicked, Zenon
  <2>3. EventPath(t)' = EventPath(t)
    BY <2>1, <2>2, Zenon DEF EventPath
  <2> QED BY <2>1, <2>3, StreamStays, Zenon
<1>3. CASE \/ ReaderEOF
           \/ \E f \in Range(c2s) : ReaderRequest(f) \/ ReaderBadFrame(f) \/ ReaderRaises(f)
  <2>1. UNCHANGED <<s2c, outbound, hand, queue, subbed, sent, received, client, evq>>
    BY <1>3, Zenon DEF ReaderEOF, ReaderRequest, ReaderBadFrame, ReaderRaises, peer
  <2>2. EventPath(t)' = EventPath(t)
    BY <2>1, Zenon DEF EventPath
  <2> QED BY <2>1, <2>2, StreamStays, Zenon
<1>4. ASSUME NEW f \in Range(c2s), ReaderSubscribe(f) PROVE StreamStep(t)
  <2>1. /\ UNCHANGED <<s2c, outbound, hand, sent, received, client, evq>>
        /\ \/ UNCHANGED <<subbed, queue>>
           \/ /\ f.topic \notin subbed /\ f.topic \in Topics
              /\ subbed' = subbed \cup {f.topic}
              /\ queue' = [queue EXCEPT ![f.topic] = <<>>]
    BY <1>4, Zenon DEF ReaderSubscribe, peer
  <2>2. queue'[t] = queue[t]
    BY <2>1 DEF TypeOK, Forwarders
  <2>3. EventPath(t)' = EventPath(t)
    BY <2>1, <2>2, Zenon DEF EventPath
  <2>4. CASE t \in subbed' <=> t \in subbed
    BY <2>1, <2>3, <2>4, StreamStays, Zenon
  <2>5. CASE ~ (t \in subbed' <=> t \in subbed)
    <3>1. t \in subbed' /\ t \notin subbed
      BY <2>1, <2>5
    <3>2. Gone' <=> Gone
      BY <2>1 DEF Gone
    <3>3. CASE Gone
      <4>1. InFlight(t)' = InFlight(t)
        BY <2>1, <3>2, <3>3, InFlightNext, InFlightIsPath, Zenon
      <4>2. t \in Subscribed' <=> t \in Subscribed
        BY <3>2, <3>3 DEF Subscribed
      <4> QED BY <2>1, <4>1, <4>2, StreamIdles, Zenon
    <3>4. CASE ~ Gone
      <4>1. InFlight(t)' = InFlight(t)
        BY <2>3, <3>2, <3>4, InFlightNext, InFlightIsPath, Zenon
      <4>2. t \in Subscribed' /\ t \notin Subscribed
        BY <3>1, <3>2, <3>4 DEF Subscribed
      <4> QED BY <2>1, <4>1, <4>2, StreamSubscribes, Zenon
    <3> QED BY <3>3, <3>4
  <2> QED BY <2>4, <2>5
<1>5. ASSUME NEW f \in Range(c2s), ReaderUnsubscribe(f) PROVE StreamStep(t)
  <2>1. /\ UNCHANGED <<s2c, outbound, sent, received, client, evq>>
        /\ subbed' = subbed \ {f.topic}
        /\ queue' = [queue EXCEPT ![f.topic] = <<>>]
        /\ hand' = [hand EXCEPT ![f.topic] = 0]
    BY <1>5, Zenon DEF ReaderUnsubscribe, peer
  <2>2. CASE Gone \/ t # f.topic \/ t \notin subbed
    <3>1. Gone' <=> Gone
      BY <2>1 DEF Gone
    <3>2. CASE Gone
      <4>1. InFlight(t)' = InFlight(t)
        BY <2>1, <3>1, <3>2, InFlightNext, InFlightIsPath, Zenon
      <4>2. t \in Subscribed' <=> t \in Subscribed
        BY <3>1, <3>2 DEF Subscribed
      <4> QED BY <2>1, <4>1, <4>2, StreamIdles, Zenon
    <3>3. CASE t # f.topic \/ t \notin subbed
      <4>1. queue'[t] = queue[t] /\ hand'[t] = hand[t] /\ (t \in subbed' <=> t \in subbed)
        BY <2>1, <3>3 DEF TypeOK, Forwarders
      <4>2. EventPath(t)' = EventPath(t)
        BY <2>1, <4>1, Zenon DEF EventPath
      <4> QED BY <2>1, <4>1, <4>2, StreamStays, Zenon
    <3> QED BY <2>2, <3>2, <3>3
  <2>3. CASE ~ Gone /\ t = f.topic
    <3> DEFINE a == ArgsOf("event", t, evq)
               b == ArgsOf("event", t, s2c)
               c == ArgsOf("event", t, outbound)
               p == Cat(a, Cat(b, c))
               x == Cat(Held(hand[t]), queue[t])
    <3>1. ~ Gone' /\ t \notin Subscribed'
      BY <2>1, <2>3 DEF Gone, Subscribed
    <3>2. queue'[t] = <<>> /\ hand'[t] = 0
      BY <2>1, <2>3 DEF TypeOK
    <3>3. a \in Words /\ b \in Words /\ c \in Words /\ Held(hand[t]) \in Words
          /\ queue[t] \in Words
      BY EventTypes, Zenon
    <3>4. x \in Words /\ p \in Words
      <4>1. Cat(b, c) \in Words
        BY <3>3, WordLaws, Zenon
      <4> QED BY <3>3, <4>1, WordLaws, Zenon
    <3>5. EventPath(t)' = p
      <4>1. EventPath(t)' = Cat(Cat(p, <<>>), <<>>)
        BY <2>1, <3>2, HeldLaws, Zenon DEF EventPath, Path
      <4>2. Cat(p, <<>>) = p
        BY <3>4, WordLaws, Zenon
      <4> QED BY <4>1, <4>2, Zenon
    <3>6. EventPath(t) = Cat(p, x)
      <4>1. EventPath(t) = Cat(Cat(p, Held(hand[t])), queue[t])
        BY Zenon DEF EventPath, Path
      <4> HIDE DEF p
      <4>2. Cat(Cat(p, Held(hand[t])), queue[t]) = Cat(p, Cat(Held(hand[t]), queue[t]))
        <5> DEFINE h == Held(hand[t])
                   q == queue[t]
        <5>1. h \in Words /\ q \in Words
          BY <3>3, Zenon
        <5> HIDE DEF h, q
        <5>2. Cat(Cat(p, h), q) = Cat(p, Cat(h, q))
          BY <3>4, <5>1, WordLaws
        <5> QED BY <5>2, Zenon DEF h, q
      <4> QED BY <4>1, <4>2, Zenon
    <3> HIDE DEF p, x
    <3>7. InFlight(t)' = p /\ InFlight(t) = Cat(p, x)
      BY <2>3, <3>1, <3>5, <3>6, InFlightNext, InFlightIsPath, Zenon
    <3>8. InFlight(t)' \in Words /\ InFlight(t) = Cat(InFlight(t)', x)
      BY <3>4, <3>7, Zenon
    <3> QED BY <2>1, <3>1, <3>4, <3>8, StreamShortens, Zenon
  <2> QED BY <2>2, <2>3
<1>6. CASE ReaderResponds
  <2>1. /\ outbound' = App(outbound, Frame("response", serving))
        /\ UNCHANGED <<s2c, hand, queue, subbed, sent, received, client, evq>>
    BY <1>6, Zenon DEF ReaderResponds, App, peer
  <2>2. Frame("response", serving) \in Frames
        /\ Pick("event", t, Frame("response", serving)) = <<>>
    BY FrameMembers, Unpicked DEF TypeOK
  <2>3. ArgsOf("event", t, outbound') = ArgsOf("event", t, outbound)
    BY <1>1, <2>1, <2>2, NothingPicked, Zenon
  <2>4. EventPath(t)' = EventPath(t)
    BY <2>1, <2>3, Zenon DEF EventPath
  <2> QED BY <2>1, <2>4, StreamStays, Zenon
<1> QED BY <1>2, <1>3, <1>4, <1>5, <1>6, Zenon DEF ReaderStep

\* A new event enters the path at its end; a full queue loses its head for it.
LEMMA StreamPublisher ==
    ASSUME IInv, TypeOK', NEW u \in Topics, Publish(u), NEW t \in Topics PROVE StreamStep(t)
<1> USE DEF IInv
<1> DEFINE a == ArgsOf("event", t, evq)
           b == ArgsOf("event", t, s2c)
           c == ArgsOf("event", t, outbound)
           h == Held(hand[t])
           q == queue[t]
           n == sent[t] + 1
           p == Cat(Cat(a, Cat(b, c)), h)
<1>1. /\ sent' = [sent EXCEPT ![u] = @ + 1]
      /\ queue' = IF u \in subbed THEN [queue EXCEPT ![u] = Offer(u, sent[u] + 1)] ELSE queue
      /\ UNCHANGED <<s2c, outbound, hand, subbed, received, client, evq>>
  BY Zenon DEF Publish, peer
<1>2. (Gone' <=> Gone) /\ (t \in Subscribed' <=> t \in Subscribed) /\ received'[t] = received[t]
  BY <1>1 DEF Gone, Subscribed
<1>3. EventPath(t) = Path(a, b, c, h, q) /\ EventPath(t)' = Path(a, b, c, h, queue'[t])
  BY <1>1, Zenon DEF EventPath
<1>4. CASE t # u
  <2>1. sent'[t] = sent[t] /\ queue'[t] = queue[t]
    BY <1>1, <1>4 DEF TypeOK
  <2>2. InFlight(t)' = InFlight(t)
    BY <1>1, <1>2, <1>3, <2>1, InFlightNext, InFlightIsPath, Zenon
  <2> QED BY <1>2, <2>1, <2>2, StreamIdles, Zenon
<1>5. CASE t = u
  <2>1. sent'[t] = n
    BY <1>1, <1>5 DEF TypeOK
  <2>2. /\ [v \in Topics |-> InFlight(v)][t] = InFlight(t)
        /\ [v \in Topics |-> InFlight(v)]'[t] = InFlight(t)'
    BY Zenon
  <2>3. CASE t \notin Subscribed
    <3>1. InFlight(t)' = InFlight(t)
      <4>1. CASE Gone
        BY <1>1, <1>2, <4>1, InFlightNext, InFlightIsPath, Zenon
      <4>2. CASE ~ Gone
        <5>1. queue' = queue
          BY <1>1, <1>5, <2>3, <4>2, Zenon DEF Subscribed
        <5>2. EventPath(t)' = EventPath(t)
          BY <1>3, <5>1, Zenon
        <5> QED BY <1>2, <4>2, <5>2, InFlightNext, InFlightIsPath, Zenon
      <4> QED BY <4>1, <4>2
    <3>2. Stream!Publish(t)
      BY <1>2, <2>1, <2>2, <2>3, <3>1, Zenon DEF Stream!Publish, Stream!Keeps, Stream!StaysOpen
    <3> QED BY <3>2, Zenon DEF StreamStep
  <2>4. CASE t \in Subscribed
    <3>1. ~ Gone /\ ~ Gone' /\ t \in subbed
      BY <1>2, <2>4 DEF Subscribed
    <3>2. queue'[t] = Offer(t, n)
      BY <1>1, <1>5, <3>1 DEF TypeOK
    <3>3. InFlight(t) = Path(a, b, c, h, q) /\ InFlight(t)' = Path(a, b, c, h, Offer(t, n))
      BY <1>3, <3>1, <3>2, InFlightNext, InFlightIsPath, Zenon
    <3>4. a \in Words /\ b \in Words /\ c \in Words /\ h \in Words /\ q \in Words /\ n \in Nat
          /\ InFlight(t) \in Words /\ q \in Seq(Nat)
      BY EventTypes, InFlightIsPath DEF Words
    <3>5. p \in Words /\ \A w : Path(a, b, c, h, w) = Cat(p, w)
      <4>1. Cat(b, c) \in Words
        BY <3>4, WordLaws, Zenon
      <4>2. Cat(a, Cat(b, c)) \in Words
        BY <3>4, <4>1, WordLaws, Zenon
      <4> QED BY <3>4, <4>2, WordLaws, Zenon DEF Path
    <3>n. <<n>> \in Words
      BY <3>4, WordLaws, Zenon
    <3>q. Queues(Nat)
      BY SequencesAreQueues, Zenon
    <3> HIDE DEF a, b, c, h, q, p, n
    <3>6. CASE Offer(t, n) = Append(q, n)
      <4>1. Append(q, n) = Cat(q, <<n>>)
        BY <3>4, <3>q, Zenon DEF Queues, App
      <4>2. InFlight(t)' = Cat(InFlight(t), <<n>>)
        <5>1. InFlight(t)' = Cat(p, Cat(q, <<n>>)) /\ InFlight(t) = Cat(p, q)
          BY <3>3, <3>5, <3>6, <4>1, Zenon
        <5>2. Cat(p, Cat(q, <<n>>)) = Cat(Cat(p, q), <<n>>)
          <6> DEFINE w == <<n>>
          <6> HIDE DEF w
          <6>1. w \in Words
            BY <3>n, Zenon DEF w
          <6>2. Cat(p, Cat(q, w)) = Cat(Cat(p, q), w)
            BY <3>4, <3>5, <6>1, WordLaws
          <6> QED BY <6>2, Zenon DEF w
        <5> QED BY <5>1, <5>2, Zenon
      <4>3. InFlight(t)' = Append(InFlight(t), n)
        BY <3>4, <3>q, <4>2, Zenon DEF Queues, App, Words
      <4>4. Stream!Publish(t)
        BY <1>2, <2>1, <2>2, <2>4, <4>3, Zenon
           DEF Stream!Publish, Stream!Keeps, Stream!StaysOpen, n
      <4> QED BY <4>4, Zenon DEF StreamStep
    <3>7. CASE /\ QueueCap[t] > 0 /\ Len(q) >= QueueCap[t]
               /\ Offer(t, n) = Append(Tail(q), n)
      <4> DEFINE x == Head(q)
                 r == Tail(q)
      <4>1. q # <<>>
        BY <3>4, <3>7, QueueCapAssumption DEF Topics
      <4>2. x \in Nat /\ r \in Words /\ q = Cat(<<x>>, r)
        BY <3>4, <3>q, <4>1, Zenon DEF Queues, Words
      <4> HIDE DEF x, r
      <4>3. InFlight(t) = Cat(p, Cat(<<x>>, r))
        BY <3>3, <3>5, <4>2, Zenon
      <4>4. /\ Len(p) + 1 \in DOMAIN InFlight(t)
            /\ RemoveAt(InFlight(t), Len(p) + 1) = Cat(p, r)
        BY <3>5, <4>2, <4>3, WithoutMiddle
      <4>5. Append(r, n) = Cat(r, <<n>>)
        BY <3>4, <3>q, <4>2, Zenon DEF Queues, App, Words
      <4>6. InFlight(t)' = Cat(p, Cat(r, <<n>>))
        BY <3>3, <3>5, <3>7, <4>5, Zenon DEF r
      <4>7. Cat(p, Cat(r, <<n>>)) = Cat(Cat(p, r), <<n>>) /\ Cat(p, r) \in Words
        <5> DEFINE w == <<n>>
        <5> HIDE DEF w
        <5>1. w \in Words
          BY <3>n, Zenon DEF w
        <5>2. Cat(p, Cat(r, w)) = Cat(Cat(p, r), w) /\ Cat(p, r) \in Words
          BY <3>5, <4>2, <5>1, WordLaws
        <5> QED BY <5>2, Zenon DEF w
      <4>8. Cat(Cat(p, r), <<n>>) = Append(Cat(p, r), n)
        BY <3>4, <3>q, <4>7, Zenon DEF Queues, App, Words
      <4>9. InFlight(t)' = Append(RemoveAt(InFlight(t), Len(p) + 1), n)
        BY <4>4, <4>6, <4>7, <4>8, Zenon
      <4>10. t \in {v \in Topics : QueueCap[v] > 0}
        BY <3>7
      <4>11. \E i \in DOMAIN InFlight(t) : InFlight(t)' = Append(RemoveAt(InFlight(t), i), n)
        BY <4>4, <4>9, Zenon
      <4>12. Stream!Publish(t)
        BY <1>2, <2>1, <2>2, <2>4, <4>10, <4>11, Zenon
           DEF Stream!Publish, Stream!Keeps, Stream!StaysOpen, Stream!RemoveAt, RemoveAt, n
      <4> QED BY <4>12, Zenon DEF StreamStep
    <3> QED BY <3>6, <3>7, Zenon DEF Offer, q
  <2> QED BY <2>3, <2>4
<1> QED BY <1>4, <1>5

\* Each step of a forwarder is a step of every topic's stream.
LEMMA StreamForwarder ==
    ASSUME IInv, TypeOK', NEW u \in Topics, ForwarderStep(u), NEW t \in Topics
    PROVE  StreamStep(t)
<1> USE DEF IInv
<1> DEFINE a == ArgsOf("event", t, evq)
           b == ArgsOf("event", t, s2c)
           c == ArgsOf("event", t, outbound)
           h == Held(hand[t])
           q == queue[t]
<1>1. UNCHANGED <<sent, received, client, evq, s2c, subbed>>
  BY Zenon DEF ForwarderStep, ForwarderGets, ForwarderPuts, ForwarderStops, peer
<1>t. a \in Words /\ b \in Words /\ c \in Words /\ h \in Words /\ q \in Words
  BY EventTypes, Zenon
<1>2. EventPath(t) = Path(a, b, c, h, q)
  BY Zenon DEF EventPath
<1>3. CASE ForwarderGets(u)
  <2>1. /\ queue[u] # <<>> /\ fw[u] = "get" /\ outbound' = outbound
        /\ hand' = [hand EXCEPT ![u] = Head(queue[u])]
        /\ queue' = [queue EXCEPT ![u] = Tail(@)]
    BY <1>3, Zenon DEF ForwarderGets
  <2>2. EventPath(t)' = Path(a, b, c, Held(hand'[t]), queue'[t])
    BY <1>1, <2>1, Zenon DEF EventPath
  <2>3. CASE t # u
    <3>1. hand'[t] = hand[t] /\ queue'[t] = queue[t]
      BY <2>1, <2>3 DEF TypeOK
    <3> QED BY <1>1, <1>2, <2>2, <3>1, StreamStays, Zenon
  <2>4. CASE t = u
    <3> DEFINE x == Head(q)
               r == Tail(q)
    <3>1. hand'[t] = x /\ queue'[t] = r /\ hand[t] = 0 /\ q # <<>> /\ q \in Numbers
      BY <2>1, <2>4 DEF TypeOK, Forwarders
    <3>2. x \in Nat \ {0}
      BY <3>1 DEF Numbers
    <3>3. q = Cat(<<x>>, r) /\ r \in Words
      <4>1. Queues(Nat) /\ q \in Seq(Nat)
        BY <1>t, SequencesAreQueues, Zenon DEF Words
      <4> QED BY <3>1, <4>1, Zenon DEF Queues, Words
    <3>4. Held(hand'[t]) = <<x>> /\ h = <<>> /\ <<x>> \in Words
      BY <3>1, <3>2, HeldLaws, WordLaws
    <3> HIDE DEF a, b, c, h, q, x, r
    <3>5. PathLaw(a, b, c, h, r, <<x>>)
      BY <1>t, <3>3, <3>4, PathObeys, Zenon
    <3>6. Path(a, b, c, <<>>, Cat(<<x>>, r)) = Path(a, b, c, <<x>>, r)
      BY <3>5, Zenon DEF PathLaw
    <3>7. EventPath(t)' = EventPath(t)
      BY <1>2, <2>2, <3>1, <3>3, <3>4, <3>6, Zenon
    <3> QED BY <1>1, <3>7, StreamStays, Zenon
  <2> QED BY <2>3, <2>4
<1>4. CASE ForwarderPuts(u)
  <2>1. /\ outbound' = App(outbound, Event(u, hand[u])) /\ fw[u] = "put" /\ queue' = queue
        /\ hand' = [hand EXCEPT ![u] = 0]
    BY <1>4, Zenon DEF ForwarderPuts, App
  <2>2. hand[u] \in Nat \ {0} /\ outbound \in Wire
    BY <2>1 DEF TypeOK, Forwarders
  <2>3. Event(u, hand[u]) \in Frames
    BY <2>2, FrameMembers
  <2>4. EventPath(t)' = Path(a, b, ArgsOf("event", t, outbound'), Held(hand'[t]), q)
    BY <1>1, <2>1, Zenon DEF EventPath
  <2>5. CASE t # u
    <3>1. hand'[t] = hand[t]
      BY <2>1, <2>5 DEF TypeOK
    <3>2. Pick("event", t, Event(u, hand[u])) = <<>>
      BY <2>5 DEF Pick, Picked, Event
    <3>3. ArgsOf("event", t, outbound') = c
      BY <2>1, <2>2, <2>3, <3>2, NothingPicked, Zenon
    <3>4. EventPath(t)' = EventPath(t)
      BY <1>2, <2>4, <3>1, <3>3, Zenon
    <3> QED BY <1>1, <3>4, StreamStays, Zenon
  <2>6. CASE t = u
    <3>1. Held(hand'[t]) = <<>>
      <4>1. hand'[t] = 0
        BY <2>1, <2>6 DEF TypeOK
      <4> QED BY <4>1, HeldLaws, Zenon
    <3>2. Pick("event", t, Event(u, hand[u])) = h
      <4>1. Pick("event", t, Event(u, hand[u])) = <<hand[t]>>
        BY <2>6 DEF Pick, Picked, Event
      <4> QED BY <2>2, <2>6, <4>1, HeldLaws
    <3>3. ArgsOf("event", t, outbound') = Cat(c, h)
      <4>1. Segments("event", t)
        BY SegmentsObey, Zenon
      <4>2. ArgsOf("event", t, App(outbound, Event(u, hand[u])))
              = Cat(c, Pick("event", t, Event(u, hand[u])))
        BY <2>2, <2>3, <4>1, Zenon DEF Segments
      <4> QED BY <2>1, <3>2, <4>2, Zenon
    <3> HIDE DEF a, b, c, h, q
    <3>4. PathLaw(a, b, c, h, q, h)
      BY <1>t, PathObeys, Zenon
    <3>5. EventPath(t)' = EventPath(t)
      BY <1>2, <2>4, <3>1, <3>3, <3>4, Zenon DEF PathLaw
    <3> QED BY <1>1, <3>5, StreamStays, Zenon
  <2> QED BY <2>5, <2>6
<1>5. CASE ForwarderStops(u)
  <2>1. EventPath(t)' = EventPath(t)
    BY <1>5, Zenon DEF ForwarderStops, EventPath, peer
  <2> QED BY <1>1, <2>1, StreamStays, Zenon
<1> QED BY <1>3, <1>4, <1>5, Zenon DEF ForwarderStep

\* Each step of the writer is a step of every topic's stream.
LEMMA StreamWriter ==
    ASSUME IInv, TypeOK', WriterStep \/ Dispatched \/ HandlerEnds \/ DaemonEnds,
           NEW t \in Topics
    PROVE  StreamStep(t)
<1> USE DEF IInv
<1> DEFINE a == ArgsOf("event", t, evq)
           b == ArgsOf("event", t, s2c)
           c == ArgsOf("event", t, outbound)
           h == Held(hand[t])
           q == queue[t]
<1>t. a \in Words /\ b \in Words /\ c \in Words /\ h \in Words /\ q \in Words
  BY EventTypes, Zenon
<1>1. CASE WriterTakes
  <2>1. UNCHANGED <<hand, queue, subbed, sent, received, client, evq>>
    BY <1>1, Zenon DEF WriterTakes, peer
  <2>2. Pick("event", t, Frame("ping", 0)) = <<>>
    BY Unpicked, Zenon
  <2>3. Path(a, ArgsOf("event", t, s2c'), ArgsOf("event", t, outbound'), h, q)
          = Path(a, b, c, h, q)
    BY <1>1, <1>t, <2>2, WriterMoves
  <2>4. EventPath(t)' = EventPath(t)
    BY <2>1, <2>3, Zenon DEF EventPath
  <2> QED BY <2>1, <2>4, StreamStays, Zenon
<1>2. CASE WriterDrained \/ WriterBroken \/ Dispatched
  <2>1. UNCHANGED <<s2c, outbound, hand, queue, subbed, sent, received, client, evq>>
    BY <1>2, Zenon DEF WriterDrained, WriterBroken, Dispatched, peer
  <2>2. EventPath(t)' = EventPath(t)
    BY <2>1, Zenon DEF EventPath
  <2> QED BY <2>1, <2>2, StreamStays, Zenon
<1>3. CASE Dropped
  <2>1. /\ UNCHANGED <<s2c, sent, received, client, evq>> /\ outbound' = <<>>
        /\ hand'[t] = 0 /\ queue'[t] = <<>> /\ subbed' = {}
    BY <1>3 DEF Dropped, peer
  <2>2. (Gone' <=> Gone) /\ t \notin Subscribed'
    BY <2>1 DEF Gone, Subscribed
  <2>3. CASE Gone
    <3>1. InFlight(t)' = InFlight(t)
      BY <2>1, <2>2, <2>3, InFlightNext, InFlightIsPath, Zenon
    <3>2. t \notin Subscribed
      BY <2>3 DEF Subscribed
    <3> QED BY <2>1, <2>2, <3>1, <3>2, StreamIdles, Zenon
  <2>4. CASE ~ Gone
    <3> DEFINE p == Cat(a, b)
               x == Path(<<>>, <<>>, c, h, q)
    <3>1. EventPath(t)' = Path(a, b, <<>>, <<>>, <<>>)
      BY <2>1, ArgsEmpty, HeldLaws, Zenon DEF EventPath
    <3>2. p \in Words /\ x \in Words /\ <<>> \in Words
      BY <1>t, WordLaws, PathType, Zenon
    <3>3. Path(a, b, <<>>, <<>>, <<>>) = p
      BY <1>t, <3>2, WordLaws, Zenon DEF Path
    <3>4. Path(a, b, c, h, q) = Cat(p, x)
      <4> HIDE DEF a, b, c, h, q
      <4>1. PathLaw(a, <<>>, c, h, q, b) /\ PathLaw(<<>>, <<>>, c, h, q, p)
        BY <1>t, <3>2, PathObeys, Zenon
      <4>2. Path(a, Cat(b, <<>>), c, h, q) = Path(Cat(a, b), <<>>, c, h, q)
        BY <4>1, Zenon DEF PathLaw
      <4>3. Path(Cat(p, <<>>), <<>>, c, h, q) = Cat(p, x)
        BY <4>1, Zenon DEF PathLaw
      <4>4. Cat(b, <<>>) = b /\ Cat(p, <<>>) = p
        BY <1>t, <3>2, WordLaws, Zenon
      <4> QED BY <4>2, <4>3, <4>4, Zenon
    <3>5. InFlight(t)' = p /\ InFlight(t) = Cat(p, x)
      BY <2>2, <2>4, <3>1, <3>3, <3>4, InFlightNext, InFlightIsPath, Zenon DEF EventPath
    <3> HIDE DEF p, x
    <3>6. InFlight(t)' \in Words /\ InFlight(t) = Cat(InFlight(t)', x)
      BY <3>2, <3>5, Zenon
    <3> QED BY <2>1, <2>2, <3>2, <3>6, StreamShortens, Zenon
  <2> QED BY <2>3, <2>4
<1> QED BY <1>1, <1>2, <1>3, Zenon DEF WriterStep, HandlerEnds, DaemonEnds

\* A connection whose client goes away loses everything that the client had not read.
LEMMA StreamGoes ==
    ASSUME TypeOK, TypeOK', NEW t \in Topics, UNCHANGED <<sent, received>>, ~ Gone, Gone',
           ArgsOf("event", t, evq') = ArgsOf("event", t, evq)
    PROVE  StreamStep(t)
<1> DEFINE a == ArgsOf("event", t, evq)
           b == ArgsOf("event", t, s2c)
           c == ArgsOf("event", t, outbound)
           h == Held(hand[t])
           q == queue[t]
           x == Path(<<>>, b, c, h, q)
<1>t. a \in Words /\ b \in Words /\ c \in Words /\ h \in Words /\ q \in Words
  BY EventTypes, Zenon
<1>1. x \in Words /\ <<>> \in Words
  BY <1>t, WordLaws, PathType, Zenon
<1>2. Path(a, b, c, h, q) = Cat(a, x)
  <2> HIDE DEF a, b, c, h, q
  <2>1. PathLaw(<<>>, b, c, h, q, a) /\ Cat(a, <<>>) = a
    BY <1>t, <1>1, WordLaws, PathObeys, Zenon
  <2> QED BY <2>1, Zenon DEF PathLaw
<1>3. InFlight(t)' = a /\ InFlight(t) = Path(a, b, c, h, q)
  BY InFlightNext, InFlightIsPath, Zenon DEF EventPath
<1> HIDE DEF a, x
<1>4. InFlight(t)' \in Words /\ InFlight(t) = Cat(InFlight(t)', x)
  BY <1>t, <1>2, <1>3, Zenon
<1>5. t \notin Subscribed'
  BY DEF Subscribed
<1> QED BY <1>1, <1>4, <1>5, StreamShortens, Zenon

\* An item of the client's queue that carries no event.
LEMMA SentinelUnseen ==
    ASSUME TypeOK, NEW t, evq' = Append(evq, Sentinel)
    PROVE  ArgsOf("event", t, evq') = ArgsOf("event", t, evq)
<1>1. evq' = App(evq, Sentinel) /\ evq \in Wire
  BY Zenon DEF App, TypeOK
<1>2. Sentinel \in Frames /\ Pick("event", t, Sentinel) = <<>>
  BY FrameMembers, Unpicked, Zenon
<1> QED BY <1>1, <1>2, NothingPicked, Zenon

\* Each step of the client is a step of every topic's stream.
LEMMA StreamClient ==
    ASSUME IInv, TypeOK', ClientStep, NEW t \in Topics PROVE StreamStep(t)
<1> USE DEF IInv
<1> DEFINE a == ArgsOf("event", t, evq)
           b == ArgsOf("event", t, s2c)
           c == ArgsOf("event", t, outbound)
           h == Held(hand[t])
           q == queue[t]
<1>t. a \in Words /\ b \in Words /\ c \in Words /\ h \in Words /\ q \in Words
  BY EventTypes, Zenon
<1>w. evq \in Wire /\ s2c \in Wire
  BY DEF TypeOK
<1>s. Segments("event", t)
  BY SegmentsObey, Zenon
<1>1. CASE ClientHello
  <2>1. /\ client = "connecting" /\ s2c # <<>> /\ s2c' = Tail(s2c)
        /\ \/ Head(s2c) = Hello /\ client' = "ready"
           \/ client' = "refused"
        /\ UNCHANGED <<outbound, hand, queue, subbed, sent, received, evq>>
    BY <1>1, Zenon DEF ClientHello, server
  <2>2. CASE client' = "refused"
    <3>1. ~ Gone /\ Gone'
      BY <2>1, <2>2 DEF Gone
    <3>2. evq' = evq
      BY <2>1, Zenon
    <3>3. ArgsOf("event", t, evq') = ArgsOf("event", t, evq)
      BY <3>2, Zenon
    <3> QED BY <2>1, <3>1, <3>3, StreamGoes, Zenon
  <2>3. CASE Head(s2c) = Hello /\ client' = "ready"
    <3>1. ~ Gone /\ ~ Gone' /\ (t \in Subscribed' <=> t \in Subscribed)
      BY <2>1, <2>3 DEF Gone, Subscribed
    <3>2. Pick("event", t, Head(s2c)) = <<>>
      BY <2>3, Unpicked, Zenon
    <3>3. ArgsOf("event", t, s2c') = b
      BY <1>w, <2>1, <3>2, NothingPicked, Zenon
    <3>4. EventPath(t)' = EventPath(t)
      BY <2>1, <3>3, Zenon DEF EventPath
    <3>5. InFlight(t)' = InFlight(t)
      BY <3>1, <3>4, InFlightNext, InFlightIsPath, Zenon
    <3> QED BY <2>1, <3>1, <3>5, StreamIdles, Zenon
  <2> QED BY <2>1, <2>2, <2>3
<1>2. CASE ClientRefused
  <2>1. UNCHANGED <<sent, received, evq>>
    BY <1>2, Zenon DEF ClientRefused
  <2>2. ~ Gone /\ Gone'
    BY <1>2 DEF ClientRefused, Gone
  <2>3. ArgsOf("event", t, evq') = a
    BY <2>1, Zenon
  <2> QED BY <2>1, <2>2, <2>3, StreamGoes, Zenon
<1>3. CASE Request \/ \E f \in Inputs : ClientSends(f)
  <2>1. UNCHANGED <<s2c, outbound, hand, queue, subbed, sent, received, client, evq>>
    BY <1>3, Zenon DEF Request, ClientSends, server
  <2>2. EventPath(t)' = EventPath(t)
    BY <2>1, Zenon DEF EventPath
  <2> QED BY <2>1, <2>2, StreamStays, Zenon
<1>4. CASE ClientReads
  <2> DEFINE f == Head(s2c)
             r == ArgsOf("event", t, Tail(s2c))
             k == Pick("event", t, f)
  <2>1. /\ s2c # <<>> /\ s2c' = Tail(s2c) /\ looping
        /\ evq' = IF f.kind = "event" THEN App(evq, f) ELSE evq
        /\ UNCHANGED <<outbound, hand, queue, subbed, sent, received, client>>
    BY <1>4, Zenon DEF ClientReads, App, server
  <2>2. f \in Frames /\ Tail(s2c) \in Wire /\ b = Cat(k, r)
    BY <1>w, <1>s, <2>1, Zenon DEF Segments
  <2>3. k \in Words /\ r \in Words
    BY <1>s, <2>2, Zenon DEF Segments
  <2>4. ArgsOf("event", t, evq') = Cat(a, k)
    <3>1. CASE f.kind = "event"
      <4>1. ArgsOf("event", t, App(evq, f)) = Cat(a, k)
        BY <1>w, <1>s, <2>2, Zenon DEF Segments
      <4> QED BY <2>1, <3>1, <4>1, Zenon
    <3>2. CASE f.kind # "event"
      <4>1. k = <<>>
        BY <3>2, Zenon DEF Pick, Picked
      <4>2. Cat(a, <<>>) = a
        BY <1>t, WordLaws, Zenon
      <4> QED BY <2>1, <3>2, <4>1, <4>2, Zenon
    <3> QED BY <3>1, <3>2
  <2>5. EventPath(t)' = Path(Cat(a, k), r, c, h, q)
    BY <2>1, <2>4, Zenon DEF EventPath
  <2>6. EventPath(t) = Path(a, Cat(k, r), c, h, q)
    BY <2>2, Zenon DEF EventPath
  <2> HIDE DEF f, r, k, a, b, c, h, q
  <2>7. PathLaw(a, r, c, h, q, k)
    BY <1>t, <2>3, PathObeys, Zenon
  <2>8. EventPath(t)' = EventPath(t)
    BY <2>5, <2>6, <2>7, Zenon DEF PathLaw
  <2>9. ~ Gone /\ ~ Gone' /\ (t \in Subscribed' <=> t \in Subscribed)
    BY <2>1 DEF Handshake, Gone, Subscribed
  <2>10. InFlight(t)' = InFlight(t)
    BY <2>8, <2>9, InFlightNext, InFlightIsPath, Zenon
  <2> QED BY <2>1, <2>9, <2>10, StreamIdles, Zenon
<1>5. CASE ClientLoopEnds
  <2>1. /\ looping /\ evq' = Append(evq, Sentinel)
        /\ UNCHANGED <<s2c, outbound, hand, queue, subbed, sent, received, client>>
    BY <1>5, Zenon DEF ClientLoopEnds, server
  <2>2. ArgsOf("event", t, evq') = a
    BY <2>1, SentinelUnseen, Zenon
  <2>3. EventPath(t)' = EventPath(t)
    BY <2>1, <2>2, Zenon DEF EventPath
  <2>4. ~ Gone /\ ~ Gone' /\ (t \in Subscribed' <=> t \in Subscribed)
    BY <2>1 DEF Handshake, Gone, Subscribed
  <2>5. InFlight(t)' = InFlight(t)
    BY <2>3, <2>4, InFlightNext, InFlightIsPath, Zenon
  <2> QED BY <2>1, <2>4, <2>5, StreamIdles, Zenon
<1>6. CASE ClientConsumes
  <2> DEFINE f == Head(evq)
             r == ArgsOf("event", t, Tail(evq))
             k == Pick("event", t, f)
  <2>1. /\ evq # <<>> /\ evq' = Tail(evq)
        /\ \/ f = Sentinel /\ received' = received
           \/ /\ f # Sentinel
              /\ received' = [received EXCEPT ![f.topic] = Append(@, f.arg)]
        /\ UNCHANGED <<s2c, outbound, hand, queue, subbed, sent, client>>
    BY <1>6, Zenon DEF ClientConsumes, server
  <2>2. f \in Frames /\ Tail(evq) \in Wire /\ a = Cat(k, r)
    BY <1>w, <1>s, <2>1, Zenon DEF Segments
  <2>3. k \in Words /\ r \in Words
    BY <1>s, <2>2, Zenon DEF Segments
  <2>4. (Gone' <=> Gone) /\ (t \in Subscribed' <=> t \in Subscribed) /\ sent'[t] = sent[t]
    BY <2>1 DEF Gone, Subscribed
  <2>5. f = Sentinel \/ f.kind = "event"
    <3> HIDE DEF Sentinel
    <3> QED BY <1>w, <2>1 DEF TypeOK, Wire
  <2>6. InFlight(t) = Cat(k, InFlight(t)')
    <3>1. ArgsOf("event", t, evq') = r
      BY <2>1, Zenon
    <3>2. CASE Gone
      BY <2>2, <2>4, <3>1, <3>2, InFlightNext, InFlightIsPath, Zenon
    <3>3. CASE ~ Gone
      <4>1. EventPath(t)' = Path(r, b, c, h, q)
        BY <2>1, <3>1, Zenon DEF EventPath
      <4>2. EventPath(t) = Path(Cat(k, r), b, c, h, q)
        BY <2>2, Zenon DEF EventPath
      <4> HIDE DEF f, r, k, a, b, c, h, q
      <4>3. PathLaw(r, b, c, h, q, k)
        BY <1>t, <2>3, PathObeys, Zenon
      <4>4. EventPath(t) = Cat(k, EventPath(t)')
        BY <4>1, <4>2, <4>3, Zenon DEF PathLaw
      <4> QED BY <2>4, <3>3, <4>4, InFlightNext, InFlightIsPath, Zenon
    <3> QED BY <3>2, <3>3
  <2>7. InFlight(t)' \in Words
    BY InFlightNext, Zenon
  <2>8. CASE f.kind = "event" /\ f.topic = t
    <3>1. f.arg \in Nat /\ f # Sentinel
      BY <2>2, <2>8, FrameFields DEF Sentinel, Frame
    <3>2. k = <<f.arg>>
      BY <2>8, Zenon DEF Pick, Picked
    <3>3. received'[t] = Append(received[t], f.arg)
      <4>1. received' = [received EXCEPT ![t] = Append(@, f.arg)] /\ received \in [Topics -> Words]
        BY <2>1, <2>8, <3>1, Zenon DEF TypeOK
      <4> QED BY <4>1, Zenon
    <3>4. InFlight(t) = Cat(<<f.arg>>, InFlight(t)')
      BY <2>6, <3>2, Zenon
    <3> HIDE DEF f
    <3> QED BY <2>4, <2>7, <3>1, <3>3, <3>4, StreamReceives, Zenon
  <2>9. CASE ~ (f.kind = "event" /\ f.topic = t)
    <3>1. k = <<>>
      BY <2>9, Zenon DEF Pick, Picked
    <3>2. InFlight(t)' = InFlight(t)
      <4>1. Cat(<<>>, InFlight(t)') = InFlight(t)'
        BY <2>7, WordLaws, Zenon
      <4> QED BY <2>6, <3>1, <4>1, Zenon
    <3>3. received'[t] = received[t]
      <4>1. CASE f = Sentinel
        BY <2>1, <4>1, Zenon
      <4>2. CASE f # Sentinel
        <5>1. f.topic # t
          BY <2>5, <2>9, <4>2
        <5>2. received' = [received EXCEPT ![f.topic] = Append(@, f.arg)]
              /\ received \in [Topics -> Words]
          BY <2>1, <4>2, Zenon DEF TypeOK
        <5> QED BY <5>1, <5>2, Zenon
      <4> QED BY <4>1, <4>2
    <3> QED BY <2>4, <3>2, <3>3, StreamIdles, Zenon
  <2> QED BY <2>8, <2>9
<1>7. CASE ClientCloses
  <2>1. /\ evq' = Append(evq, Sentinel) \/ evq' = evq
        /\ UNCHANGED <<sent, received>>
    BY <1>7, Zenon DEF ClientCloses
  <2>2. ~ Gone /\ Gone'
    BY <1>7 DEF ClientCloses, Gone
  <2>3. ArgsOf("event", t, evq') = ArgsOf("event", t, evq)
    BY <2>1, SentinelUnseen, Zenon
  <2> QED BY <2>1, <2>2, <2>3, StreamGoes, Zenon
<1> QED BY <1>1, <1>2, <1>3, <1>4, <1>5, <1>6, <1>7, Zenon DEF ClientStep

\* Every topic's part of a step of the connection is a step of its event stream.
LEMMA StreamSteps == IInv /\ TypeOK' /\ [Next]_vars => [Stream!Next]_Stream!vars
<1> SUFFICES ASSUME IInv, TypeOK', [Next]_vars PROVE [Stream!Next]_Stream!vars
  OBVIOUS
<1>1. ASSUME Next, NEW t \in Topics PROVE StreamStep(t)
  BY <1>1, StreamReader, StreamForwarder, StreamPublisher, StreamWriter, StreamClient,
     Zenon DEF Next
<1>2. CASE Next
  BY <1>1, <1>2, Zenon DEF StreamStep, Stream!Next
<1>3. CASE UNCHANGED vars
  <2>1. UNCHANGED <<sent, Subscribed, received>>
    BY <1>3, Zenon DEF vars, peer, server, Subscribed, Gone
  <2>2. \A t \in Topics : InFlight(t)' = InFlight(t)
    BY <1>3, Zenon DEF vars, peer, server, InFlight, Gone
  <2>3. [t \in Topics |-> InFlight(t)]' = [t \in Topics |-> InFlight(t)]
    BY <2>2, Zenon
  <2> QED BY <2>1, <2>3, Zenon DEF Stream!vars
<1> QED BY <1>2, <1>3

\* Initially every stream is closed and empty.
LEMMA StreamInit == Init => Stream!Init
<1> SUFFICES ASSUME Init PROVE Stream!Init
  OBVIOUS
<1>1. ASSUME NEW t \in Topics PROVE InFlight(t) = <<>>
  <2>1. ArgsOf("event", t, <<>>) = <<>> /\ Held(0) = <<>>
    BY ArgsEmpty, HeldLaws, Zenon
  <2>2. Path(<<>>, <<>>, <<>>, <<>>, <<>>) = <<>>
    BY DEF Path, Cat
  <2>3. evq = <<>> /\ s2c = <<>> /\ outbound = <<>> /\ hand[t] = 0 /\ queue[t] = <<>> /\ ~ Gone
    BY DEF Init, Gone
  <2>4. EventPath(t) = <<>>
    BY <2>1, <2>2, <2>3, Zenon DEF EventPath
  <2> QED BY <2>3, <2>4, TypeInit, InFlightIsPath, Zenon
<1>2. [t \in Topics |-> InFlight(t)] = [t \in Topics |-> <<>>]
  BY <1>1, Zenon
<1>3. Subscribed = {}
  BY DEF Init, Subscribed
<1> QED BY <1>2, <1>3, Zenon DEF Init, Stream!Init

\* The connection implements the event streams of its topics: for any topics, drop
\* policies, queue sizes and numbers of events, what a client takes is what was
\* published, in this order and at most once, and an event is only lost to a full
\* bounded queue or to the end of a subscription.
THEOREM EventsStream == Spec => EventsAreStreamed
<1>1. IInv => TypeOK
  BY DEF IInv
<1>2. IInv' => TypeOK'
  BY <1>1, PTL
<1>3. IInv /\ IInv' /\ [Next]_vars => [Stream!Next]_Stream!vars
  BY <1>2, StreamSteps
<1> QED BY <1>3, StreamInit, ConnectionInvariant, PTL
        DEF Spec, EventsAreStreamed, Stream!Spec

=============================================================================
