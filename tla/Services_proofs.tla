------------------------- MODULE Services_proofs -------------------------
(***************************************************************************)
(* Four components that each keep one promise whatever happens around them:   *)
(* the rate limiter, the process of an action, the transcript of a decision,    *)
(* and the registry of the integrations.                                        *)
(***************************************************************************)
EXTENDS RateLimiter, Commands, Brain, Integrations, FiniteSetTheorems, TLAPS

(***************************************************************************)
(* No window of the rate limiter lets more actions through than its limit.       *)
(***************************************************************************)

\* The log is in the order of time, what was evicted has expired, and the deque
\* never holds more than the limit.
RateInv ==
    /\ now \in Nat
    /\ grants \in [ActionKinds -> Seq(Nat)]
    /\ evicted \in [ActionKinds -> Nat]
    /\ \A k \in ActionKinds :
        /\ evicted[k] <= Len(grants[k])
        /\ \A i \in 1..Len(grants[k]) : grants[k][i] <= now
        /\ \A i \in 1..evicted[k] : grants[k][i] + Period <= now

\* The initial state has no grants.
LEMMA RateInit == rateInit => RateInv /\ GrantsAreSpaced
  BY RateAssumption DEF rateInit, RateInv, GrantsAreSpaced

\* A grant is appended when fewer than Limit are in the deque, so the one that is
\* Limit places before it has been evicted and is at least a Period old.
LEMMA CheckStep ==
  ASSUME RateInv, GrantsAreSpaced, NEW k \in ActionKinds, Check(k)
  PROVE  RateInv' /\ GrantsAreSpaced'
<1>1. PICK n \in evicted[k]..Len(grants[k]) :
        /\ Evicts(k, n)
        /\ evicted' = [evicted EXCEPT ![k] = n]
        /\ grants' = IF Len(grants[k]) - n >= Limit[k] THEN grants
                     ELSE [grants EXCEPT ![k] = Append(@, now)]
        /\ now' = now
  BY DEF Check
<1>2. n \in Nat /\ n <= Len(grants[k]) /\ Len(grants[k]) \in Nat
  BY <1>1 DEF RateInv
<1>3. \A i \in 1..n : grants[k][i] + Period <= now
  <2>1. \A i \in 1..evicted[k] : grants[k][i] + Period <= now
    BY DEF RateInv
  <2>2. \A i \in (evicted[k] + 1)..n : grants[k][i] + Period <= now
    BY <1>1 DEF Evicts
  <2>. QED BY <2>1, <2>2, <1>2 DEF RateInv
<1>4. CASE Len(grants[k]) - n >= Limit[k]
  <2>1. grants' = grants /\ now' = now /\ evicted' = [evicted EXCEPT ![k] = n]
    BY <1>1, <1>4
  <2>2. RateInv'
    BY <2>1, <1>2, <1>3 DEF RateInv
  <2>. QED BY <2>1, <2>2 DEF GrantsAreSpaced
<1>5. CASE ~(Len(grants[k]) - n >= Limit[k])
  <2>1. grants' = [grants EXCEPT ![k] = Append(@, now)]
    BY <1>1, <1>5
  <2>2. grants'[k] = Append(grants[k], now) /\ \A j \in ActionKinds \ {k} : grants'[j] = grants[j]
    BY <2>1 DEF RateInv
  <2>3. grants[k] \in Seq(Nat) /\ now \in Nat
    BY DEF RateInv
  <2>4. /\ Len(grants'[k]) = Len(grants[k]) + 1
        /\ \A i \in 1..Len(grants[k]) : grants'[k][i] = grants[k][i]
        /\ grants'[k][Len(grants[k]) + 1] = now
        /\ grants'[k] \in Seq(Nat)
    BY <2>2, <2>3
  <2>5. grants' \in [ActionKinds -> Seq(Nat)]
    BY <2>1, <2>2, <2>4 DEF RateInv
  <2>6. RateInv'
    BY <1>1, <1>2, <1>3, <2>2, <2>4, <2>5 DEF RateInv
  <2>7. ASSUME NEW j \in ActionKinds, NEW i \in DOMAIN grants'[j],
               i + Limit[j] \in DOMAIN grants'[j]
        PROVE  grants'[j][i] + Period <= grants'[j][i + Limit[j]]
    <3>1. CASE j # k
      BY <3>1, <2>2, <2>7 DEF GrantsAreSpaced
    <3>2. CASE j = k
      <4>1. Limit[k] \in Nat /\ Period \in Nat
        BY RateAssumption
      <4>2. DOMAIN grants'[k] = 1..(Len(grants[k]) + 1) /\ DOMAIN grants[k] = 1..Len(grants[k])
        BY <2>3, <2>4
      <4>3. i \in 1..(Len(grants[k]) + 1) /\ i + Limit[k] \in 1..(Len(grants[k]) + 1)
        BY <3>2, <2>7, <4>2
      <4>4. CASE i + Limit[k] = Len(grants[k]) + 1
        <5>1. i \in 1..n
          BY <4>4, <4>1, <4>3, <1>2, <1>5
        <5>2. i \in 1..Len(grants[k])
          BY <5>1, <1>2
        <5>. QED BY <5>1, <5>2, <4>4, <3>2, <1>3, <2>4
      <4>5. CASE i + Limit[k] # Len(grants[k]) + 1
        <5>1. i \in DOMAIN grants[k] /\ i + Limit[k] \in DOMAIN grants[k]
          BY <4>5, <4>1, <4>2, <4>3, <1>2
        <5>2. grants[k][i] + Period <= grants[k][i + Limit[k]]
          BY <5>1 DEF GrantsAreSpaced
        <5>. QED BY <5>1, <5>2, <4>2, <3>2, <2>4
      <4>. QED BY <4>4, <4>5
    <3>. QED BY <3>1, <3>2
  <2>. QED BY <2>6, <2>7 DEF GrantsAreSpaced
<1>. QED BY <1>4, <1>5

\* Whatever the limits, the period and the order of the checks are, the grants of
\* a kind are spaced: check() is a sliding window.
THEOREM SlidingWindow == rateSpec => []GrantsAreSpaced
<1>1. rateInit => RateInv /\ GrantsAreSpaced
  BY RateInit
<1>2. RateInv /\ GrantsAreSpaced /\ [rateNext]_rateVars => RateInv' /\ GrantsAreSpaced'
  <2>. SUFFICES ASSUME RateInv, GrantsAreSpaced, [rateNext]_rateVars
                PROVE  RateInv' /\ GrantsAreSpaced'
    OBVIOUS
  <2>1. CASE Tick
    BY <2>1, RateAssumption DEF Tick, RateInv, GrantsAreSpaced
  <2>2. CASE \E k \in ActionKinds : Check(k)
    BY <2>2, CheckStep
  <2>3. CASE UNCHANGED rateVars
    BY <2>3 DEF rateVars, RateInv, GrantsAreSpaced
  <2>. QED BY <2>1, <2>2, <2>3 DEF rateNext
<1>. QED BY <1>1, <1>2, PTL DEF rateSpec

(***************************************************************************)
(* However a command ends, and however often its task is cancelled, the        *)
(* process that it started has ended or has been sent a signal.                  *)
(***************************************************************************)

Causes == {"none", "ok", "failed", "timeout", "cancelled"}

\* What holds at each await of the coroutine: there is no process before spawn,
\* no signal before the wait ends; a handler that reaps has signalled a process
\* that runs, with the stronger signal if it is headless; and a handler that is
\* at work for a cancellation has seen one.
CommandInv ==
    /\ how \in {"visible", "capture", "tool"}
    /\ cpc \in {"open", "spawn", "wait", "reap", "close", "done"}
    /\ proc \in {"none", "running", "dead"}
    /\ signal \in {"none", "TERM", "KILL"}
    /\ why \in Causes /\ returned \in Causes
    /\ interrupts \in Nat
    /\ returned # "none" => cpc = "done"
    /\ cpc \in {"open", "spawn"} => proc = "none"
    /\ cpc \in {"open", "spawn", "wait"} => why = "none"
    /\ cpc = "wait" => proc # "none"
    /\ cpc = "reap" =>
        /\ why \in {"timeout", "cancelled"}
        /\ proc = "dead" \/ (proc = "running" /\ signal # "none")
        /\ why = "cancelled" => interrupts > 0
    /\ cpc = "close" => proc = "dead" /\ why # "none"

\* The coroutine starts without a process.
LEMMA CommandInit == cInit => CommandInv /\ NothingLeftRunning
  BY DEF cInit, CommandInv, Causes, NothingLeftRunning

\* The steps of the event loop: only Collect, Reaped, Close and a failed Spawn end
\* the command, and none of them with a process that runs.
LEMMA CommandStep ==
  ASSUME CommandInv, NothingLeftRunning, cStep
  PROVE  CommandInv' /\ NothingLeftRunning'
<1>1. CASE Open
  BY <1>1 DEF Open, CommandInv, Causes, NothingLeftRunning
<1>2. CASE Spawn
  BY <1>2 DEF Spawn, Finish, CommandInv, Causes, NothingLeftRunning
<1>3. CASE Collect
  BY <1>3 DEF Collect, ThenEmit, Finish, Terminal, CommandInv, Causes, NothingLeftRunning
<1>4. CASE TimesOut
  BY <1>4 DEF TimesOut, Stop, CommandInv, Causes, NothingLeftRunning
<1>5. CASE Escalate
  BY <1>5 DEF Escalate, CommandInv, Causes, NothingLeftRunning
<1>6. CASE Reaped
  BY <1>6 DEF Reaped, ThenEmit, Finish, Terminal, CommandInv, Causes, NothingLeftRunning
<1>7. CASE Close
  BY <1>7 DEF Close, Finish, CommandInv, Causes, NothingLeftRunning
<1>. QED BY <1>1, <1>2, <1>3, <1>4, <1>5, <1>6, <1>7 DEF cStep

\* A cancellation ends the command unless a terminal's wait handles it.  What it
\* cuts short decides what may still run: a tool's wait, or a reap, which has
\* sent its signal.
LEMMA CommandInterrupt ==
  ASSUME CommandInv, NothingLeftRunning, Interrupt
  PROVE  CommandInv' /\ NothingLeftRunning'
<1>1. CASE cpc = "wait" /\ Terminal
  BY <1>1 DEF Interrupt, Stop, Terminal, CommandInv, Causes, NothingLeftRunning
<1>2. CASE ~(cpc = "wait" /\ Terminal)
  <2>1. /\ cpc' = "done" /\ returned' = "cancelled" /\ interrupts' = interrupts + 1
        /\ UNCHANGED <<how, proc, signal, why>>
        /\ cpc # "done"
    BY <1>2 DEF Interrupt, Finish
  <2>2. CommandInv'
    BY <2>1 DEF CommandInv, Causes
  <2>3. ASSUME cpc \in {"open", "spawn", "close"} PROVE NothingLeftRunning'
    BY <2>1, <2>3 DEF CommandInv, NothingLeftRunning
  <2>4. ASSUME cpc = "wait" PROVE NothingLeftRunning'
    BY <2>1, <2>4, <1>2 DEF Terminal, CommandInv, NothingLeftRunning
  <2>5. ASSUME cpc = "reap" PROVE NothingLeftRunning'
    BY <2>1, <2>5 DEF CommandInv, NothingLeftRunning
  <2>. QED BY <2>1, <2>2, <2>3, <2>4, <2>5 DEF CommandInv
<1>. QED BY <1>1, <1>2

\* Whatever the command is and whenever it is cancelled, interrupted or timed
\* out: a process that goes on after its action has been sent a signal, except
\* that of a tool whose wait was cancelled.
THEOREM NothingLeftRunningCorrect == cSpec => []NothingLeftRunning
<1>1. cInit => CommandInv /\ NothingLeftRunning
  BY CommandInit
<1>2. CommandInv /\ NothingLeftRunning /\ [cNext]_cVars => CommandInv' /\ NothingLeftRunning'
  <2>. SUFFICES ASSUME CommandInv, NothingLeftRunning, [cNext]_cVars
                PROVE  CommandInv' /\ NothingLeftRunning'
    OBVIOUS
  <2>1. CASE cStep
    BY <2>1, CommandStep
  <2>2. CASE Exit
    BY <2>2 DEF Exit, CommandInv, Causes, NothingLeftRunning
  <2>3. CASE Interrupt
    BY <2>3, CommandInterrupt
  <2>4. CASE UNCHANGED cVars
    BY <2>4 DEF cVars, CommandInv, Causes, NothingLeftRunning
  <2>5. CASE Fork \/ HeirEnds
    BY <2>5 DEF Fork, HeirEnds, CommandInv, Causes, NothingLeftRunning
  <2>. QED BY <2>1, <2>2, <2>3, <2>4, <2>5 DEF cNext
<1>. QED BY <1>1, <1>2, PTL DEF cSpec

(***************************************************************************)
(* Every call in a transcript that is sent to Claude is answered, for any     *)
(* number of rounds and calls and any keep_rounds.                              *)
(***************************************************************************)

Messages == [role : {"user", "assistant"}, calls : SUBSET (Nat \X Nat)]

\* A transcript of Claude's: user and assistant take turns, the user first and
\* last, and the user answers the calls of the message before.
Turns(ms) ==
    /\ ms \in Seq(Messages) /\ ms # <<>>
    /\ ms[1].role = "user" /\ ms[Len(ms)].role = "user"
    /\ \A i \in 1 .. Len(ms) :
        /\ ms[i].role = "assistant" =>
              i < Len(ms) /\ ms[i + 1].role = "user" /\ ms[i + 1].calls = ms[i].calls
        /\ i > 1 /\ ms[i].role = "user" => ms[i - 1].role = "assistant"

\* What is true of a decision between the steps of decide().
DialogueInv ==
    /\ bpc \in {"start", "compact", "call", "handle", "done", "raised"}
    /\ round \in Nat
    /\ provider = Claude /\ bpc \in {"compact", "call", "handle"} => Turns(messages)
    /\ bpc = "handle" =>
        /\ todoCalls \in Seq(Nat \X Nat)
        /\ made \in SUBSET (Nat \X Nat)
        /\ answered \in SUBSET (Nat \X Nat)
        /\ provider = Claude => made = answered \cup {todoCalls[k] : k \in 1 .. Len(todoCalls)}

\* A transcript that starts later at a user message is one.
LEMMA SuffixTurns ==
    ASSUME NEW ms, Turns(ms), NEW i \in 1 .. Len(ms), ms[i].role = "user"
    PROVE  Turns(From(ms, i))
<1> DEFINE s == From(ms, i)
<1>1. ms \in Seq(Messages) /\ Len(ms) \in Nat
  BY DEF Turns
<1>2. /\ s \in Seq(Messages) /\ Len(s) = Len(ms) - i + 1
      /\ \A k \in 1 .. Len(s) : s[k] = ms[i + k - 1]
  BY <1>1 DEF From
<1> HIDE DEF s
<1>3. Len(s) \in Nat \ {0} /\ s # <<>>
  BY <1>1, <1>2
<1>4. s[1].role = "user" /\ s[Len(s)].role = "user"
  <2>1. i + 1 - 1 = i /\ i + Len(s) - 1 = Len(ms)
    BY <1>1, <1>2
  <2>2. s[1] = ms[i] /\ s[Len(s)] = ms[Len(ms)]
    BY <1>2, <1>3, <2>1
  <2> QED BY <2>2 DEF Turns
<1>5. ASSUME NEW k \in 1 .. Len(s)
      PROVE  /\ s[k].role = "assistant" =>
                   k < Len(s) /\ s[k + 1].role = "user" /\ s[k + 1].calls = s[k].calls
             /\ k > 1 /\ s[k].role = "user" => s[k - 1].role = "assistant"
  <2> DEFINE j == i + k - 1
  <2>0. Len(s) = Len(ms) - i + 1 /\ Len(ms) \in Nat
    BY <1>1, <1>2
  <2>a. j \in 1 .. Len(ms) /\ (k < Len(s) <=> j < Len(ms))
    BY <2>0
  <2>b. s[k] = ms[j]
    BY <1>2
  <2>1. j \in 1 .. Len(ms) /\ s[k] = ms[j] /\ (k < Len(s) <=> j < Len(ms))
    BY <2>a, <2>b
  <2>2. k < Len(s) => s[k + 1] = ms[j + 1]
    <3>1. k < Len(s) => k + 1 \in 1 .. Len(s) /\ i + (k + 1) - 1 = j + 1
      BY <2>0
    <3> QED BY <1>2, <3>1
  <2>3. k > 1 => s[k - 1] = ms[j - 1] /\ j > 1
    <3>1. k > 1 => k - 1 \in 1 .. Len(s) /\ i + (k - 1) - 1 = j - 1 /\ j > 1
      BY <2>0
    <3> QED BY <1>2, <3>1
  <2>4. /\ ms[j].role = "assistant" =>
              j < Len(ms) /\ ms[j + 1].role = "user" /\ ms[j + 1].calls = ms[j].calls
        /\ j > 1 /\ ms[j].role = "user" => ms[j - 1].role = "assistant"
    BY <2>1 DEF Turns
  <2> HIDE DEF j
  <2> QED BY <2>1, <2>2, <2>3, <2>4
<1> QED BY <1>2, <1>3, <1>4, <1>5 DEF Turns, s

\* A set of naturals that is not empty has a least element.
LEMMA LeastNatural ==
    ASSUME NEW T \in SUBSET Nat, T # {}
    PROVE  \E n \in T : \A m \in T : n <= m
<1> DEFINE R == OpToRel(<, Nat)
<1>1. IsWellFoundedOn(R, Nat)
  BY NatLessThanWellFounded, Zenon
<1>2. PICK n \in T : \A m \in T : <<m, n>> \notin R
  <2> HIDE DEF R
  <2> QED BY <1>1, WFMin, Zenon
<1>3. \A m \in T : ~ (m < n)
  BY <1>2 DEF OpToRel
<1> QED BY <1>3, SMT

\* A set of positions that is not empty has a last one.
LEMMA LastPosition ==
    ASSUME NEW L \in Nat, NEW S \in SUBSET (1 .. L), S # {}
    PROVE  \E i \in S : \A j \in S : j <= i
<1> DEFINE T == {n \in Nat : L - n \in S}
<1>1. T # {}
  <2>1. PICK i \in S : TRUE
    OBVIOUS
  <2>2. i \in 1 .. L
    BY <2>1
  <2>3. L - i \in Nat /\ L - (L - i) = i
    BY <2>2
  <2> QED BY <2>1, <2>3
<1>2. PICK n \in T : \A m \in T : n <= m
  <2> HIDE DEF T
  <2>1. T \in SUBSET Nat
    BY DEF T
  <2> QED BY <1>1, <2>1, LeastNatural
<1>3. L - n \in S /\ n \in Nat
  BY <1>2
<1>4. ASSUME NEW j \in S PROVE j <= L - n
  <2>1. j \in 1 .. L
    BY <1>4
  <2>2. L - j \in Nat /\ L - (L - j) = j
    BY <2>1
  <2>3. n <= L - j
    BY <1>2, <2>2
  <2> QED BY <1>3, <2>1, <2>3
<1> QED BY <1>3, <1>4

\* From some of the positions of a set on there are n of them.
LEMMA PositionFromTheEnd ==
    ASSUME NEW L \in Nat, NEW S \in SUBSET (1 .. L), NEW n \in 1 .. Cardinality(S)
    PROVE  \E i \in S : Cardinality({j \in S : j >= i}) = n
<1> DEFINE Since(i) == {j \in S : j >= i}
           Bad == {k \in 1 .. Cardinality(S) : ~ \E i \in S : Cardinality(Since(i)) = k}
<1>1. IsFiniteSet(S) /\ Cardinality(S) \in Nat
  <2>1. IsFiniteSet(1 .. L)
    BY FS_Interval
  <2>2. IsFiniteSet(S)
    BY <2>1, FS_Subset
  <2> QED BY <2>2, FS_CardinalityType
<1>2. \A i : IsFiniteSet(Since(i))
  BY <1>1, FS_Subset
<1> SUFFICES ASSUME Bad # {} PROVE FALSE
  OBVIOUS
<1>3. PICK k \in Bad : \A m \in Bad : k <= m
  <2>1. Bad \in SUBSET Nat
    BY <1>1
  <2> HIDE DEF Bad
  <2> QED BY <2>1, LeastNatural
<1>4. k \in 1 .. Cardinality(S) /\ k \in Nat /\ ~ \E i \in S : Cardinality(Since(i)) = k
  BY <1>1, <1>3
<1>5. S # {} /\ \A j \in S : j \in Nat
  BY <1>1, <1>4, FS_EmptySet
<1>6. CASE k = 1
  <2>1. PICK i \in S : \A j \in S : j <= i
    BY <1>5, LastPosition
  <2>2. Since(i) = {i}
    <3>1. \A j \in S : j >= i <=> j = i
      BY <1>5, <2>1
    <3> QED BY <2>1, <3>1, Zenon
  <2>3. Cardinality(Since(i)) = 1
    BY <2>2, FS_Singleton
  <2> QED BY <1>4, <1>6, <2>1, <2>3
<1>7. CASE k > 1
  <2>1. k - 1 \in 1 .. Cardinality(S) /\ k - 1 \notin Bad
    BY <1>1, <1>3, <1>4, <1>7
  <2>2. PICK i \in S : Cardinality(Since(i)) = k - 1
    BY <2>1
  <2> DEFINE Rest == {j \in S : j < i}
  <2>3. Rest # {}
    <3>1. CASE Rest = {}
      <4>1. Since(i) = S
        <5>1. \A j \in S : j >= i
          BY <1>5, <2>2, <3>1
        <5> QED BY <5>1, Zenon
      <4>2. Cardinality(S) = k - 1
        BY <2>2, <4>1
      <4> QED BY <1>1, <1>4, <4>2
    <3> QED BY <3>1
  <2>4. PICK m \in Rest : \A j \in Rest : j <= m
    <3>1. Rest \in SUBSET (1 .. L)
      OBVIOUS
    <3> HIDE DEF Rest
    <3> QED BY <2>3, <3>1, LastPosition
  <2>5. Since(m) = Since(i) \cup {m} /\ m \notin Since(i) /\ m \in S
    <3>1. m \in S /\ m < i /\ i \in 1 .. L /\ m \in 1 .. L
      BY <2>2, <2>4
    <3>2. \A j \in S : j >= m <=> j >= i \/ j = m
      BY <1>5, <2>4, <3>1
    <3>3. m \notin Since(i)
      BY <3>1
    <3> QED BY <3>1, <3>2, <3>3
  <2>6. Cardinality(Since(m)) = k
    <3> HIDE DEF Since
    <3>1. Cardinality(Since(i) \cup {m}) = Cardinality(Since(i)) + 1
      BY <1>2, <2>5, FS_AddElement
    <3> QED BY <1>4, <2>2, <2>5, <3>1
  <2> QED BY <1>4, <2>5, <2>6
<1> QED BY <1>4, <1>6, <1>7

\* What compact_messages keeps is a transcript of whole rounds.
LEMMA KeptTurns ==
    ASSUME NEW ms, Turns(ms)
    PROVE  Turns(Kept(ms))
<1> DEFINE S == RoundStarts(ms)
           all == Cardinality(S)
           n == IF KeepRounds \in 1 .. all THEN KeepRounds ELSE all
           i == KeepFrom(ms)
<1>1. ms \in Seq(Messages) /\ Len(ms) \in Nat \ {0} /\ ms[1].role = "user"
  BY DEF Turns
<1>2. S \in SUBSET (1 .. Len(ms)) /\ 1 \in S
  BY <1>1 DEF RoundStarts
<1>3. all \in Nat \ {0}
  <2>1. IsFiniteSet(1 .. Len(ms))
    BY <1>1, FS_Interval
  <2>2. IsFiniteSet(S)
    BY <1>2, <2>1, FS_Subset
  <2>3. all \in Nat /\ (all = 0 <=> S = {})
    BY <2>2, FS_CardinalityType, FS_EmptySet
  <2> QED BY <1>2, <2>3
<1>4. n \in 1 .. all
  BY <1>3, BrainAssumption
<1>5. \E k \in S : Cardinality({j \in S : j >= k}) = n
  <2> HIDE DEF S, n
  <2>1. n \in 1 .. Cardinality(S)
    BY <1>4
  <2> QED BY <1>1, <1>2, <2>1, PositionFromTheEnd
<1>6. i = CHOOSE k \in S : Cardinality({j \in S : j >= k}) = n
  BY DEF KeepFrom
<1>7. i \in S
  <2> HIDE DEF S, n, i
  <2> QED BY <1>5, <1>6
<1>8. i \in 1 .. Len(ms) /\ ms[i].role = "user"
  BY <1>2, <1>7 DEF RoundStarts
<1>9. Turns(From(ms, i))
  <2> HIDE DEF i
  <2> QED BY <1>8, SuffixTurns
<1>10. Kept(ms) = <<>> \o From(ms, i)
  BY <1>1, <1>2 DEF Kept
<1> HIDE DEF i
<1>11. From(ms, i) \in Seq(Messages)
  BY <1>9 DEF Turns
<1> QED BY <1>9, <1>10, <1>11
\* Nothing was sent before the provider was chosen.
LEMMA DialogueInit == bInit => DialogueInv
BY DEF bInit, DialogueInv, Claude

\* A round begins with the transcript so far, or with what is kept of it.
LEMMA DialogueCompact ==
    ASSUME DialogueInv, NEW over, Compact(over) PROVE DialogueInv'
<1>1. CASE provider = Claude /\ bpc' = "call"
  <2>1. Turns(messages)
    BY <1>1 DEF Compact, DialogueInv
  <2>2. messages' = IF over THEN Kept(messages) ELSE messages
    BY <1>1 DEF Compact
  <2>3. Turns(messages')
    BY <2>1, <2>2, KeptTurns
  <2> QED BY <1>1, <2>3 DEF Compact, DialogueInv
<1>2. CASE ~ (provider = Claude /\ bpc' = "call")
  BY <1>2 DEF Compact, DialogueInv
<1> QED BY <1>1, <1>2

\* The model's answer: its calls are the ones to be handled.
LEMMA DialogueRespond ==
    ASSUME DialogueInv, NEW n \in 0 .. MaxCalls, NEW e \in BOOLEAN, Respond(n, e)
    PROVE  DialogueInv'
<1>1. n \in Nat /\ round \in Nat
  BY BrainAssumption DEF DialogueInv
<1>2. todoCalls' \in Seq(Nat \X Nat) /\ Len(todoCalls') = n
  BY <1>1 DEF Respond
<1>3. made' = {todoCalls'[k] : k \in 1 .. Len(todoCalls')}
  BY <1>1, <1>2 DEF Respond
<1>4. made' \in SUBSET (Nat \X Nat)
  BY <1>1 DEF Respond
<1> QED BY <1>2, <1>3, <1>4 DEF Respond, DialogueInv

\* A call moves from those to be handled to those that are answered.
LEMMA DialogueHandle ==
    ASSUME DialogueInv, NEW acts, HandleCall(acts) PROVE DialogueInv'
<1> DEFINE s == todoCalls
<1>1. /\ s \in Seq(Nat \X Nat) /\ s # <<>> /\ made \in SUBSET (Nat \X Nat)
      /\ answered \in SUBSET (Nat \X Nat)
      /\ provider = Claude => made = answered \cup {s[k] : k \in 1 .. Len(s)}
  BY DEF HandleCall, DialogueInv
<1>2. /\ Tail(s) \in Seq(Nat \X Nat) /\ Len(Tail(s)) = Len(s) - 1 /\ Head(s) = s[1]
      /\ \A k \in 1 .. Len(Tail(s)) : Tail(s)[k] = s[k + 1]
      /\ Head(s) \in Nat \X Nat /\ Len(s) \in Nat \ {0}
  BY <1>1
<1>3. /\ todoCalls' = Tail(s) /\ answered' = answered \cup {Head(s)} /\ bpc = "handle"
      /\ UNCHANGED <<bpc, provider, messages, round, made>>
  BY DEF HandleCall, Handled
<1> DEFINE u == Tail(s)
<1>4. {s[k] : k \in 1 .. Len(s)} = {Head(s)} \cup {u[k] : k \in 1 .. Len(u)}
  <2> HIDE DEF s, u
  <2>1. ASSUME NEW k \in 1 .. Len(s) PROVE s[k] = Head(s) \/ \E j \in 1 .. Len(u) : s[k] = u[j]
    <3>1. CASE k = 1
      BY <1>2, <3>1
    <3>2. CASE k > 1
      <4>1. k - 1 \in 1 .. Len(u) /\ (k - 1) + 1 = k
        BY <1>2, <3>2 DEF u
      <4>2. s[k] = u[k - 1]
        BY <1>2, <4>1 DEF u
      <4> QED BY <4>1, <4>2
    <3> QED BY <1>2, <3>1, <3>2
  <2>2. ASSUME NEW j \in 1 .. Len(u) PROVE \E k \in 1 .. Len(s) : u[j] = s[k]
    <3>1. j + 1 \in 1 .. Len(s) /\ u[j] = s[j + 1]
      BY <1>2 DEF u
    <3> QED BY <3>1
  <2>3. 1 \in 1 .. Len(s) /\ Head(s) = s[1]
    BY <1>2
  <2> QED BY <2>1, <2>2, <2>3
<1>5. provider = Claude => made = answered' \cup {u[k] : k \in 1 .. Len(u)}
  <2> HIDE DEF s, u
  <2> QED BY <1>1, <1>3, <1>4
<1> QED BY <1>1, <1>2, <1>3, <1>5 DEF DialogueInv

\* A round ends when its calls are all answered.
LEMMA DialogueEndRound ==
    ASSUME DialogueInv, EndRound PROVE DialogueInv'
<1>1. CASE provider = Claude /\ bpc' = "compact"
  <2> DEFINE a == Msg("assistant", made)
             u == Msg("user", answered)
             ms == messages
             new == messages \o <<a, u>>
  <2>1. /\ Turns(ms) /\ made \in SUBSET (Nat \X Nat) /\ answered \in SUBSET (Nat \X Nat)
        /\ made = answered \cup {todoCalls[k] : k \in 1 .. Len(todoCalls)} /\ todoCalls = <<>>
        /\ messages' = new
    BY <1>1 DEF EndRound, DialogueInv
  <2>2. made = answered
    <3>1. \A k \in 1 .. Len(todoCalls) : FALSE
      BY <2>1
    <3> QED BY <2>1, <3>1, Zenon
  <2>3. /\ a \in Messages /\ u \in Messages /\ a.role = "assistant" /\ u.role = "user"
        /\ u.calls = a.calls
    BY <2>1, <2>2 DEF Msg, Messages
  <2>4. ms \in Seq(Messages) /\ Len(ms) \in Nat \ {0}
    BY <2>1 DEF Turns
  <2>5. /\ new \in Seq(Messages) /\ Len(new) = Len(ms) + 2
        /\ \A k \in 1 .. Len(ms) : new[k] = ms[k]
        /\ new[Len(ms) + 1] = a /\ new[Len(ms) + 2] = u
    <3> HIDE DEF a, u
    <3> QED BY <2>3, <2>4
  <2> HIDE DEF a, u, new, ms
  <2>6. ASSUME NEW i \in 1 .. Len(new)
        PROVE  /\ new[i].role = "assistant" =>
                     i < Len(new) /\ new[i + 1].role = "user" /\ new[i + 1].calls = new[i].calls
               /\ i > 1 /\ new[i].role = "user" => new[i - 1].role = "assistant"
    <3>1. CASE i = Len(ms) + 2
      BY <2>3, <2>4, <2>5, <3>1
    <3>2. CASE i = Len(ms) + 1
      BY <2>3, <2>4, <2>5, <3>2
    <3>3. CASE i = Len(ms)
      <4>1. new[i] = ms[i] /\ ms[i].role = "user" /\ (i > 1 => ms[i - 1].role = "assistant")
        BY <2>1, <2>4, <2>5, <3>3 DEF Turns
      <4>2. i > 1 => new[i - 1] = ms[i - 1]
        BY <2>4, <2>5, <3>3
      <4> QED BY <4>1, <4>2
    <3>4. CASE i < Len(ms)
      <4>1. i \in 1 .. Len(ms) /\ new[i] = ms[i] /\ new[i + 1] = ms[i + 1] /\ i < Len(new)
        BY <2>4, <2>5, <3>4
      <4>2. i > 1 => new[i - 1] = ms[i - 1]
        BY <2>4, <2>5, <3>4
      <4>3. /\ ms[i].role = "assistant" =>
                  ms[i + 1].role = "user" /\ ms[i + 1].calls = ms[i].calls
            /\ i > 1 /\ ms[i].role = "user" => ms[i - 1].role = "assistant"
        BY <2>1, <4>1 DEF Turns
      <4> QED BY <4>1, <4>2, <4>3
    <3> QED BY <2>4, <2>5, <3>1, <3>2, <3>3, <3>4
  <2>7. new[1].role = "user" /\ new[Len(new)].role = "user" /\ new # <<>>
    <3>1. new[1] = ms[1] /\ new[Len(new)] = u
      BY <2>4, <2>5
    <3>2. ms[1].role = "user"
      BY <2>1 DEF Turns
    <3>3. new # <<>>
      BY <2>4, <2>5
    <3> QED BY <2>3, <3>1, <3>2, <3>3
  <2>8. Turns(new)
    BY <2>5, <2>6, <2>7 DEF Turns
  <2> QED BY <1>1, <2>1, <2>8 DEF EndRound, DialogueInv
<1>2. CASE ~ (provider = Claude /\ bpc' = "compact")
  BY <1>2 DEF EndRound, DialogueInv
<1> QED BY <1>1, <1>2

\* Every step keeps the transcript in order.
LEMMA DialogueNext == DialogueInv /\ [bNext]_bVars => DialogueInv'
<1> SUFFICES ASSUME DialogueInv, [bNext]_bVars PROVE DialogueInv'
  OBVIOUS
<1>1. ASSUME NEW want, NEW order, NEW on, NEW keyed, Select(want, order, on, keyed)
      PROVE  DialogueInv'
  <2>1. CASE bpc' = "compact" /\ provider' = Claude
    <3>1. messages' = <<Msg("user", {})>>
      <4>1. messages' = Opening(provider')
        BY <1>1, <2>1 DEF Select
      <4> QED BY <2>1, <4>1 DEF Opening
    <3>2. Msg("user", {}) \in Messages /\ Msg("user", {}).role = "user"
      BY DEF Msg, Messages
    <3>3. Turns(messages')
      BY <3>1, <3>2 DEF Turns
    <3> QED BY <1>1, <2>1, <3>3 DEF Select, DialogueInv
  <2>2. CASE ~ (bpc' = "compact" /\ provider' = Claude)
    BY <1>1, <2>2 DEF Select, DialogueInv
  <2> QED BY <2>1, <2>2
<1>2. CASE bStep
  <2>1. CASE ApiFails \/ ToolRaises
    BY <2>1 DEF ApiFails, ToolRaises, DialogueInv
  <2>2. CASE Malformed
    <3>1. todoCalls' \in Seq(Nat \X Nat)
      BY <2>2 DEF Malformed, Handled, DialogueInv
    <3> QED BY <2>2, <3>1 DEF Malformed, DialogueInv
  <2> QED BY <1>2, <2>1, <2>2, DialogueCompact, DialogueRespond, DialogueHandle, DialogueEndRound
          DEF bStep
<1>3. CASE UNCHANGED bVars
  BY <1>3 DEF bVars, DialogueInv, Turns
<1> QED BY <1>1, <1>2, <1>3 DEF bNext

\* Claude never gets a transcript in which a call has no answer, however often the
\* transcript was compacted and whatever keep_rounds is.
THEOREM CallsAnsweredCorrect == bSpec => []CallsAreAnswered
<1>1. DialogueInv => CallsAreAnswered
  <2> SUFFICES ASSUME Turns(messages) PROVE CallsAreAnswered
    BY DEF DialogueInv, CallsAreAnswered
  <2>1. messages \in Seq(Messages)
    BY DEF Turns
  <2>2. ASSUME NEW i \in DOMAIN messages, messages[i].role = "assistant"
        PROVE  i < Len(messages) /\ messages[i + 1] = Msg("user", messages[i].calls)
    <3>1. /\ i < Len(messages) /\ messages[i + 1].role = "user"
          /\ messages[i + 1].calls = messages[i].calls
      BY <2>1, <2>2 DEF Turns
    <3>2. messages[i + 1] \in Messages
      BY <2>1, <3>1
    <3> QED BY <3>1, <3>2 DEF Messages, Msg
  <2>3. \A i \in DOMAIN messages :
            i > 1 /\ messages[i].role = "user" => messages[i - 1].role = "assistant"
    BY <2>1 DEF Turns
  <2> QED BY <2>2, <2>3 DEF CallsAreAnswered
<1>2. bSpec => bInit /\ [][bNext]_bVars
  BY DEF bSpec
<1> QED BY <1>1, <1>2, DialogueInit, DialogueNext, PTL

(***************************************************************************)
(* Every integration that was set up is torn down once when the daemon closes,  *)
(* and no other: for any list of distinct entry points, whatever fails.         *)
(***************************************************************************)

IntegrationTypes ==
    /\ iPhase \in {"loading", "serving", "closing", "closed"}
    /\ iNext \in Nat
    /\ iLoaded \in Seq(Names)
    /\ iStatus \in [Names -> {"none", "missing", "degraded", "ready"}]
    /\ tornDown \in [Names -> Nat]

\* _integrations lists the ready ones, each once.
LoadedAreReady ==
    iPhase # "closed" =>
        /\ \A j, k \in DOMAIN iLoaded : iLoaded[j] = iLoaded[k] => j = k
        /\ \A n \in Names : iStatus[n] = "ready" <=> \E k \in DOMAIN iLoaded : iLoaded[k] = n

\* The entry points that have not been looked at have no status yet.
RestIsUnknown ==
    iPhase = "loading" =>
        /\ iNext <= Len(EntryPoints)
        /\ \A i \in DOMAIN EntryPoints : i > iNext => iStatus[EntryPoints[i]] = "none"

NothingTornDown == iPhase \in {"loading", "serving"} => \A n \in Names : tornDown[n] = 0

\* The teardown goes through the list from its end.
TornDownFromTheEnd ==
    iPhase = "closing" =>
        /\ iNext <= Len(iLoaded)
        /\ \A k \in DOMAIN iLoaded : tornDown[iLoaded[k]] = IF k > iNext THEN 1 ELSE 0
        /\ \A n \in Names : iStatus[n] # "ready" => tornDown[n] = 0

IntegrationInv ==
    /\ IntegrationTypes
    /\ LoadedAreReady
    /\ RestIsUnknown
    /\ NothingTornDown
    /\ TornDownFromTheEnd
    /\ TeardownReachesAll

USE EntryPointsAssumption

\* Before the group is read, nothing is loaded.
LEMMA IntegrationInit == iInit => IntegrationInv
  BY DEF iInit, IntegrationInv, IntegrationTypes, LoadedAreReady, RestIsUnknown,
         NothingTornDown, TornDownFromTheEnd, TeardownReachesAll

\* A step of the loading loop gives the next entry point its status, and appends it
\* to the list if it is ready.
LEMMA LoadStep ==
  ASSUME IntegrationInv, LoadNext
  PROVE  IntegrationInv'
<1> DEFINE n == EntryPoints[iNext + 1]
<1>1. /\ iPhase = "loading" /\ iPhase' = "loading" /\ iNext' = iNext + 1
      /\ iNext < Len(EntryPoints) /\ tornDown' = tornDown
      /\ iNext \in Nat /\ iNext + 1 \in DOMAIN EntryPoints
  BY DEF LoadNext, IntegrationInv, IntegrationTypes
<1>2. n \in Names /\ iStatus[n] = "none"
  BY <1>1 DEF Names, IntegrationInv, RestIsUnknown
<1>3. \E s \in {"missing", "degraded", "ready"} :
        /\ iStatus' = [iStatus EXCEPT ![n] = s]
        /\ iLoaded' = IF s = "ready" THEN Append(iLoaded, n) ELSE iLoaded
  BY DEF LoadNext, Missing, Degraded, Ready
<1>4. \A k \in DOMAIN iLoaded : iLoaded[k] # n
  BY <1>1, <1>2 DEF IntegrationInv, LoadedAreReady
<1>5. IntegrationTypes'
  BY <1>1, <1>2, <1>3 DEF IntegrationInv, IntegrationTypes
<1>6. RestIsUnknown'
  <2>1. \A i \in DOMAIN EntryPoints : i > iNext + 1 => EntryPoints[i] # n
    BY <1>1
  <2>2. \A i \in DOMAIN EntryPoints : EntryPoints[i] \in Names
    BY DEF Names
  <2> HIDE DEF n
  <2> QED BY <1>1, <1>3, <2>1, <2>2 DEF IntegrationInv, IntegrationTypes, RestIsUnknown
<1>7. LoadedAreReady'
  <2> HIDE DEF n
  <2>1. CASE iLoaded' = iLoaded /\ \E s \in {"missing", "degraded"} :
                 iStatus' = [iStatus EXCEPT ![n] = s]
    BY <1>1, <1>2, <2>1 DEF IntegrationInv, IntegrationTypes, LoadedAreReady
  <2>2. CASE iLoaded' = Append(iLoaded, n) /\ iStatus' = [iStatus EXCEPT ![n] = "ready"]
    <3>1. /\ iLoaded \in Seq(Names) /\ Len(iLoaded) \in Nat
          /\ DOMAIN iLoaded' = 1 .. (Len(iLoaded) + 1)
          /\ DOMAIN iLoaded = 1 .. Len(iLoaded)
          /\ iLoaded'[Len(iLoaded) + 1] = n
          /\ \A k \in DOMAIN iLoaded : iLoaded'[k] = iLoaded[k]
      BY <1>2, <2>2 DEF IntegrationInv, IntegrationTypes
    <3>2. \A j, k \in DOMAIN iLoaded' : iLoaded'[j] = iLoaded'[k] => j = k
      BY <1>1, <1>4, <3>1 DEF IntegrationInv, LoadedAreReady
    <3>3. \A m \in Names : iStatus'[m] = "ready" <=> (m = n \/ iStatus[m] = "ready")
      BY <2>2, <1>2 DEF IntegrationInv, IntegrationTypes
    <3>4. \A m : (\E k \in DOMAIN iLoaded' : iLoaded'[k] = m)
                   <=> (m = n \/ \E k \in DOMAIN iLoaded : iLoaded[k] = m)
      BY <3>1
    <3>5. \A m \in Names : iStatus[m] = "ready" <=> \E k \in DOMAIN iLoaded : iLoaded[k] = m
      BY <1>1 DEF IntegrationInv, LoadedAreReady
    <3> QED BY <3>2, <3>3, <3>4, <3>5 DEF LoadedAreReady
  <2> QED BY <1>3, <2>1, <2>2
<1>8. NothingTornDown' /\ TornDownFromTheEnd' /\ TeardownReachesAll'
  BY <1>1 DEF IntegrationInv, NothingTornDown, TornDownFromTheEnd, TeardownReachesAll
<1> QED BY <1>5, <1>6, <1>7, <1>8 DEF IntegrationInv

\* The last integration that is left is torn down for the first time.
LEMMA TeardownStep ==
  ASSUME IntegrationInv, TeardownNext
  PROVE  IntegrationInv'
<1> DEFINE n == iLoaded[iNext]
<1>1. /\ iPhase = "closing" /\ iNext > 0 /\ iNext' = iNext - 1
      /\ tornDown' = [tornDown EXCEPT ![n] = @ + 1]
      /\ UNCHANGED <<iPhase, iLoaded, iStatus>>
  BY DEF TeardownNext
<1>2. iNext \in DOMAIN iLoaded /\ n \in Names /\ iStatus[n] = "ready" /\ tornDown[n] = 0
  <2>1. iNext \in DOMAIN iLoaded /\ n \in Names
    BY <1>1 DEF IntegrationInv, IntegrationTypes, TornDownFromTheEnd
  <2> QED BY <2>1, <1>1 DEF IntegrationInv, IntegrationTypes, LoadedAreReady, TornDownFromTheEnd
<1>3. \A k \in DOMAIN iLoaded : iLoaded[k] = n => k = iNext
  BY <1>1, <1>2 DEF IntegrationInv, LoadedAreReady
<1>4. \A k \in DOMAIN iLoaded : iLoaded[k] \in Names /\ k \in Nat
  BY DEF IntegrationInv, IntegrationTypes
<1> HIDE DEF n
<1>5. IntegrationTypes'
  BY <1>1, <1>2 DEF IntegrationInv, IntegrationTypes
<1>6. TornDownFromTheEnd'
  <2>1. ASSUME NEW k \in DOMAIN iLoaded
        PROVE  tornDown'[iLoaded[k]] = IF k > iNext - 1 THEN 1 ELSE 0
    <3>1. CASE k = iNext
      BY <1>1, <1>2, <1>4, <3>1 DEF n, IntegrationInv, IntegrationTypes
    <3>2. CASE k # iNext
      BY <1>1, <1>3, <1>4, <2>1, <3>2
         DEF IntegrationInv, IntegrationTypes, TornDownFromTheEnd
    <3> QED BY <3>1, <3>2
  <2>2. \A m \in Names : iStatus[m] # "ready" => tornDown'[m] = 0
    BY <1>1, <1>2 DEF IntegrationInv, IntegrationTypes, TornDownFromTheEnd
  <2> QED BY <1>1, <2>1, <2>2 DEF IntegrationInv, IntegrationTypes, TornDownFromTheEnd
<1> QED BY <1>1, <1>5, <1>6 DEF IntegrationInv, LoadedAreReady, RestIsUnknown,
                                NothingTornDown, TeardownReachesAll

\* The other steps change neither the list nor the counters.
LEMMA OtherStep ==
  ASSUME IntegrationInv, Serve \/ StartClose \/ Closed
  PROVE  IntegrationInv'
<1>1. CASE Serve
  BY <1>1 DEF Serve, IntegrationInv, IntegrationTypes, LoadedAreReady, RestIsUnknown,
              NothingTornDown, TornDownFromTheEnd, TeardownReachesAll
<1>2. CASE StartClose
  <2>1. /\ iLoaded \in Seq(Names) /\ iNext' = Len(iLoaded) /\ iPhase' = "closing"
        /\ iPhase = "serving" /\ UNCHANGED <<iLoaded, iStatus, tornDown>>
    BY <1>2 DEF StartClose, IntegrationInv, IntegrationTypes
  <2>2. \A k \in DOMAIN iLoaded : iLoaded[k] \in Names /\ ~(k > Len(iLoaded))
    BY <2>1
  <2> QED BY <2>1, <2>2 DEF IntegrationInv, IntegrationTypes, LoadedAreReady, RestIsUnknown,
              NothingTornDown, TornDownFromTheEnd, TeardownReachesAll
<1>3. CASE Closed
  <2>1. /\ iPhase = "closing" /\ iNext = 0 /\ iPhase' = "closed" /\ iLoaded' = <<>>
        /\ UNCHANGED <<iNext, iStatus, tornDown>>
    BY <1>3 DEF Closed
  <2>2. TeardownReachesAll'
    <3>1. \A k \in DOMAIN iLoaded : k > 0
      BY DEF IntegrationInv, IntegrationTypes
    <3> QED BY <2>1, <3>1 DEF IntegrationInv, LoadedAreReady, TornDownFromTheEnd,
                              TeardownReachesAll
  <2>3. IntegrationTypes'
    BY <2>1 DEF IntegrationInv, IntegrationTypes
  <2> QED BY <2>1, <2>2, <2>3 DEF IntegrationInv, LoadedAreReady, RestIsUnknown,
                                  NothingTornDown, TornDownFromTheEnd
<1> QED BY <1>1, <1>2, <1>3

\* When the daemon has closed, teardown has been called once for each integration
\* that was ready and for no other: IntegrationRegistry.teardown.
THEOREM TeardownCorrect == iSpec => []TeardownReachesAll
<1>1. ASSUME IntegrationInv, [iNextStep]_iVars PROVE IntegrationInv'
  <2>1. ASSUME UNCHANGED <<iPhase, iNext, iLoaded, iStatus, tornDown>> PROVE IntegrationInv'
    BY <1>1, <2>1 DEF IntegrationInv, IntegrationTypes, LoadedAreReady, RestIsUnknown,
                      NothingTornDown, TornDownFromTheEnd, TeardownReachesAll
  <2>2. CASE ScreenSaver \/ OnActiveChanged \/ ListenerStops \/ UNCHANGED iVars
    BY <2>1, <2>2 DEF ScreenSaver, OnActiveChanged, ListenerStops, iVars
  <2>3. ASSUME NEW j \in Jobs, SubmitJob(j) \/ JobStarted(j) \/ JobEnds(j) \/ JobStopped(j)
        PROVE  IntegrationInv'
    BY <2>1, <2>3 DEF SubmitJob, JobStarted, JobEnds, JobStopped, Job
  <2> QED BY <1>1, <2>2, <2>3, LoadStep, TeardownStep, OtherStep DEF iNextStep
<1>2. IntegrationInv => TeardownReachesAll
  BY DEF IntegrationInv
<1> QED BY IntegrationInit, <1>1, <1>2, PTL DEF iSpec

=============================================================================
